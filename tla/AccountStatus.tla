---------------------------- MODULE AccountStatus ----------------------------
(***************************************************************************)
(* The status of one account (internal/auth/types.go).  An account keeps   *)
(* its status twice: Status and CooldownUntil under its mutex, which the   *)
(* admin page, the persistence and the guards read, and the atomics        *)
(* atomicStatus and atomicCooldownMs, which the selectors read.  A setter  *)
(* updates the first under the mutex, unlocks, and then stores the second  *)
(* in separate steps; goroutines of requests, refreshes, quota probes,     *)
(* health checks and the administrator run setters on one account at once. *)
(*                                                                         *)
(* A cooldown is the time it has left, so time needs no bound.             *)
(***************************************************************************)
EXTENDS Naturals, FiniteSets

CONSTANTS
  Procs,       \* goroutines that work on the account
  Worlds,      \* the call sites at work; database rows or credential files
  MaxCool,     \* bound: ticks a cooldown lasts
  MaxRestarts  \* bound: restarts of the process

AllCallers == {"disable", "enable", "request", "lastResort", "probe",
               "policy", "refresh", "quota", "restore"}

ASSUME AccountAssumption ==
  /\ Worlds \subseteq [callers : SUBSET AllCallers, db : BOOLEAN]
  /\ MaxCool \in Nat \ {0}
  /\ MaxRestarts \in Nat

VARIABLES
  world,  \* fixed: what this behaviour is about
  acct,   \* the fields under Account.mu
  atom,   \* atomicStatus and atomicCooldownMs
  row,    \* what the credential file or the database row holds
  call,   \* per goroutine: its call
  asked,  \* the administrator's last instruction: open until acknowledged
  torn,        \* history: has a setter been entered while another was storing?
  undisturbed, \* history: did nothing overlap or override that instruction?
  restarts

past == << torn, undisturbed >>
vars == << world, acct, atom, row, call, asked, past, restarts >>

Statuses == {"active", "cooldown", "disabled"}
Setters  == {"SetCooldown", "SetQuotaCooldown", "ClearQuotaCooldown",
             "SetManualDisabled", "SetActive", "UpdateToken", "SetRefreshDisabled"}
Places   == {"idle", "check", "lock", "test", "status", "cool", "save", "write"}
Admins   == {"disable", "enable"}

\* The call sites that cool an account without a look at its status.
Blind == {"probe", "policy"}

\* What a call site may run.
SettersOf(c) ==
  CASE c = "disable" -> {"SetManualDisabled"}
    [] c = "enable"  -> {"SetActive"}
    [] c = "restore" -> {"SetActive"}
    [] c = "refresh" -> {"UpdateToken", "SetRefreshDisabled"}
    [] c = "quota"   -> {"SetQuotaCooldown", "ClearQuotaCooldown"}
    [] OTHER         -> {"SetCooldown", "SetQuotaCooldown"}

\* Does a call site look at the status before it runs its setter?
Checks(c) == c \in {"quota", "restore"}

\* Does it persist the account afterwards?  The recovery after a 401 saves what
\* it restored, the forced refresh only with a database.
MaySave(c) ==
  CASE c \in Admins \cup {"refresh"} -> {TRUE}
    [] c \in {"quota", "policy"}    -> {world.db}
    [] c = "restore"                -> {world.db, TRUE}
    [] OTHER                        -> {FALSE}

Fields  == [status : Statuses, manual : BOOLEAN, left : Nat, quota : BOOLEAN]
Stored  == [status : Statuses, manual : BOOLEAN, left : Nat]
Atomics == [status : Statuses, left : Nat]
Calls   == [at : Places, by : AllCallers, run : Setters, to : Statuses, left : Nat,
            row : Stored]

Blank == [status |-> "active", manual |-> FALSE, left |-> 0]

\* A goroutine between two calls.
Idle == [at |-> "idle", by |-> "request", run |-> "SetActive", to |-> "active", left |-> 0,
         row |-> Blank]

TypeOK ==
  /\ world \in Worlds
  /\ acct \in Fields
  /\ atom \in Atomics
  /\ row \in Stored
  /\ call \in [Procs -> Calls]
  /\ asked \in {"on", "off", "open"}
  /\ torn \in BOOLEAN /\ undisturbed \in BOOLEAN
  /\ restarts \in Nat

Fresh == [status |-> "active", manual |-> FALSE, left |-> 0, quota |-> FALSE]

Init ==
  /\ world \in Worlds
  /\ acct = Fresh
  /\ atom = [status |-> "active", left |-> 0]
  /\ row = Blank
  /\ call = [p \in Procs |-> Idle]
  /\ asked = "on"
  /\ torn = FALSE
  /\ undisturbed = TRUE
  /\ restarts = 0

\* The selectors' view (accountPickableAt).
Pickable == atom.status = "active" \/ (atom.status = "cooldown" /\ atom.left = 0)

IsManuallyDisabled == acct.status = "disabled" /\ acct.manual

\* A setter that has unlocked the mutex and not yet stored every atomic.
Storing(p) == call[p].at \in {"test", "status", "cool"}
Quiet      == \A p \in Procs : ~Storing(p)

AdminAtWork == \E p \in Procs : call[p].at # "idle" /\ call[p].by \in Admins

\* Does the instruction stay undisturbed when p starts a call of c?  One that is
\* given while nothing is under way does, until a call starts beside it, or a
\* call site that looks at nothing starts on the disabled account.
StaysUndisturbed(p, c) ==
  IF c \in Admins THEN \A q \in Procs \ {p} : call[q].at = "idle"
  ELSE undisturbed /\ ~AdminAtWork /\ ~(asked = "off" /\ c \in Blind)

-----------------------------------------------------------------------------
\* A goroutine enters the account: a request after it picked it (or, when every
\* account cools, PickIgnoringCooldown took it), a probe whatever its status.
\* There is one administrator.
Start(p, c) ==
  /\ call[p].at = "idle"
  /\ c = "request" => Pickable
  /\ c = "lastResort" => atom.status # "disabled"
  /\ c \in Admins => ~AdminAtWork
  /\ \E s \in SettersOf(c) :
       call' = [call EXCEPT ![p] = [Idle EXCEPT !.at = IF Checks(c) THEN "check" ELSE "lock",
                                                !.by = c, !.run = s]]
  /\ asked' = IF c \in Admins THEN "open" ELSE asked
  /\ undisturbed' = StaysUndisturbed(p, c)
  /\ UNCHANGED << world, acct, atom, row, torn, restarts >>

\* The guards of ApplyQuotaThreshold and of `if !IsManuallyDisabled() { SetActive() }`:
\* the mutex is released before the setter takes it again.
Check(p) ==
  /\ call[p].at = "check"
  /\ LET passes == IF call[p].by = "quota" THEN acct.status # "disabled"
                                           ELSE ~IsManuallyDisabled
     IN call' = [call EXCEPT ![p] = IF passes THEN [@ EXCEPT !.at = "lock"] ELSE Idle]
  /\ UNCHANGED << world, acct, atom, row, asked, past, restarts >>

-----------------------------------------------------------------------------
\* The section of setter s under the mutex leaves the fields as a; what the
\* goroutine stores into the atomics once it has unlocked is the status `to`
\* and, where the setter writes it, the deadline d.  Nothing keeps it out while
\* another goroutine is still storing.  One that finds nobody there stores what
\* it left in the fields, unless it is SetRefreshDisabled, which believes
\* atomicStatus.
Locked(p, s, a, next, to, d) ==
  /\ call[p].at = "lock"
  /\ call[p].run = s
  /\ acct' = a
  /\ call' = [call EXCEPT ![p] = [@ EXCEPT !.at = next, !.to = to, !.left = d]]
  /\ torn' = (~Quiet \/ (torn /\ s = "SetRefreshDisabled"))
  /\ UNCHANGED << world, atom, row, asked, undisturbed, restarts >>

SetCooldown(p) == \E d \in 1..MaxCool :
  Locked(p, "SetCooldown", [acct EXCEPT !.status = "cooldown", !.left = d],
         "status", "cooldown", d)

SetQuotaCooldown(p) == \E d \in 1..MaxCool :
  Locked(p, "SetQuotaCooldown",
         [acct EXCEPT !.status = "cooldown", !.left = d, !.quota = TRUE],
         "status", "cooldown", d)

CoolsForQuota == acct.status = "cooldown" /\ acct.quota

ClearQuotaCooldown(p) ==
  /\ CoolsForQuota
  /\ Locked(p, "ClearQuotaCooldown",
            [acct EXCEPT !.status = "active", !.manual = FALSE, !.quota = FALSE],
            "status", "active", 0)

ClearNothing(p) ==
  /\ call[p].at = "lock"
  /\ call[p].run = "ClearQuotaCooldown"
  /\ ~CoolsForQuota
  /\ call' = [call EXCEPT ![p] = Idle]
  /\ UNCHANGED << world, acct, atom, row, asked, past, restarts >>

SetManualDisabled(p) ==
  Locked(p, "SetManualDisabled",
         [status |-> "disabled", manual |-> TRUE, left |-> 0, quota |-> FALSE],
         "status", "disabled", 0)

\* (bug) SetActive forgets to store atomicStatus.
SetActiveHidden(p) ==
  Locked(p, "SetActive",
         [acct EXCEPT !.status = "active", !.manual = FALSE, !.quota = FALSE],
         "cool", "active", 0)

SetActive(p) ==
  Locked(p, "SetActive",
         [acct EXCEPT !.status = "active", !.manual = FALSE, !.quota = FALSE],
         "status", "active", 0)

\* (bug) UpdateToken stores an active status whatever it found.
UpdateTokenShowsActive(p) ==
  Locked(p, "UpdateToken",
         IF IsManuallyDisabled THEN acct ELSE [acct EXCEPT !.status = "active", !.manual = FALSE],
         "status", "active", 0)

\* A refreshed token makes the account active unless it was disabled by hand;
\* the cooldown's deadline and its quota flag stay.
UpdateToken(p) ==
  \/ /\ IsManuallyDisabled
     /\ Locked(p, "UpdateToken", acct, "status", "disabled", 0)
  \/ /\ ~IsManuallyDisabled
     /\ Locked(p, "UpdateToken", [acct EXCEPT !.status = "active", !.manual = FALSE],
               "status", "active", 0)

\* The refresh token is dead but the access token still works.
SetRefreshDisabled(p) ==
  Locked(p, "SetRefreshDisabled",
         IF acct.status = "disabled" THEN acct ELSE [acct EXCEPT !.status = "active", !.left = 0],
         "test", "active", 0)

\* A goroutine about to save the account.
Saving(p) == [Idle EXCEPT !.at = "save", !.by = call[p].by]

\* SetRefreshDisabled reads atomicStatus before it stores it.
TestStatus(p) ==
  /\ call[p].at = "test"
  /\ call' = [call EXCEPT ![p] = IF atom.status = "disabled" THEN Saving(p)
                                                            ELSE [@ EXCEPT !.at = "status"]]
  /\ UNCHANGED << world, acct, atom, row, asked, past, restarts >>

\* The setter has returned; the call site saves the account or ends.
Returned(p) ==
  \E saves \in MaySave(call[p].by) :
    call' = [call EXCEPT ![p] = IF saves THEN Saving(p) ELSE Idle]

\* UpdateToken leaves atomicCooldownMs alone.
StoreStatus(p) ==
  /\ call[p].at = "status"
  /\ atom' = [atom EXCEPT !.status = call[p].to]
  /\ IF call[p].run = "UpdateToken"
       THEN Returned(p)
       ELSE call' = [call EXCEPT ![p].at = "cool"]
  /\ UNCHANGED << world, acct, row, asked, past, restarts >>

StoreCooldown(p) ==
  /\ call[p].at = "cool"
  /\ atom' = [atom EXCEPT !.left = call[p].left]
  /\ Returned(p)
  /\ UNCHANGED << world, acct, row, asked, past, restarts >>

\* (bug) the credential file does not say that the account was disabled.
RowOfTokenOnly(a) ==
  [status |-> "active", manual |-> FALSE, left |-> IF world.db THEN a.left ELSE 0]

\* A credential file says only whether the account was disabled by hand; a
\* database row holds the status and the deadline.
RowOf(a) ==
  IF world.db THEN [status |-> a.status, manual |-> a.manual, left |-> a.left]
  ELSE LET off == a.status = "disabled" /\ a.manual
       IN [status |-> IF off THEN "disabled" ELSE "active", manual |-> off, left |-> 0]

\* saveTokenToFile reads the account under its mutex and writes what it read
\* after it has unlocked.
Save(p) ==
  /\ call[p].at = "save"
  /\ call' = [call EXCEPT ![p] = [@ EXCEPT !.at = "write", !.row = RowOf(acct)]]
  /\ UNCHANGED << world, acct, atom, row, asked, past, restarts >>

\* The file is renamed or the row written; SetAccountEnabled answers.
Write(p) ==
  /\ call[p].at = "write"
  /\ row' = call[p].row
  /\ call' = [call EXCEPT ![p] = Idle]
  /\ asked' = CASE call[p].by = "disable" -> "off"
                [] call[p].by = "enable"  -> "on"
                [] OTHER                  -> asked
  /\ UNCHANGED << world, acct, atom, past, restarts >>

\* The disk or the database fails: the administrator gets an error.
SaveFails(p) ==
  /\ call[p].at = "write"
  /\ call' = [call EXCEPT ![p] = Idle]
  /\ UNCHANGED << world, acct, atom, row, asked, past, restarts >>

-----------------------------------------------------------------------------
Less(n) == IF n > 0 THEN n - 1 ELSE 0

Tick ==
  /\ \/ acct.left > 0
     \/ atom.left > 0
     \/ row.left > 0
     \/ \E p \in Procs : call[p].left > 0 \/ call[p].row.left > 0
  /\ acct' = [acct EXCEPT !.left = Less(@)]
  /\ atom' = [atom EXCEPT !.left = Less(@)]
  /\ row' = [row EXCEPT !.left = Less(@)]
  /\ call' = [p \in Procs |-> [call[p] EXCEPT !.left = Less(@), !.row.left = Less(@)]]
  /\ UNCHANGED << world, asked, past, restarts >>

\* The process ends and loads the account again.
Restart ==
  /\ restarts < MaxRestarts
  /\ restarts' = restarts + 1
  /\ acct' = [status |-> row.status, manual |-> row.manual, left |-> row.left, quota |-> FALSE]
  /\ atom' = [status |-> row.status, left |-> row.left]
  /\ call' = [p \in Procs |-> Idle]
  /\ torn' = FALSE
  /\ UNCHANGED << world, row, asked, undisturbed >>

Setter(p) ==
  \/ SetCooldown(p)
  \/ SetQuotaCooldown(p)
  \/ ClearQuotaCooldown(p)
  \/ ClearNothing(p)
  \/ SetManualDisabled(p)
  \/ SetActive(p)
  \/ UpdateToken(p)
  \/ SetRefreshDisabled(p)

Proceed(p) ==
  \/ Check(p)
  \/ Setter(p)
  \/ TestStatus(p)
  \/ StoreStatus(p)
  \/ StoreCooldown(p)
  \/ Save(p)
  \/ Write(p)
  \/ SaveFails(p)

Next ==
  \/ \E p \in Procs, c \in world.callers : Start(p, c)
  \/ \E p \in Procs : Proceed(p)
  \/ Tick
  \/ Restart

Spec == Init /\ [][Next]_vars

-----------------------------------------------------------------------------
\* types.go:453, 525 "synchronise the atomic status": once every setter has
\* returned, the selectors see the status and the cooldown that the admin page
\* and the guards see, unless a setter was entered between the unlock of another
\* one and its last store; and what that tears lasts only until the next setter
\* but SetRefreshDisabled that meets nobody, or the next start.
Agreement ==
  Quiet /\ ~torn =>
    /\ atom.status = acct.status
    /\ acct.status = "cooldown" => atom.left = acct.left

\* manager.go:2710: an account the administrator disabled stays disabled, for
\* the guards, the selectors and the next start of the process, until he
\* enables it.
ManualDisableKept ==
  asked = "off" => IsManuallyDisabled /\ atom.status = "disabled" /\ row.status = "disabled"

\* A disable given while no other call was under way, acknowledged before one
\* started, is undone by no refresh, quota check, recovery, late save or restart
\* that comes later, however their steps interleave, until a health check or a
\* refresh policy cools the account without a look.  (A call that overlaps the
\* disable may undo it: manager.go:2857 and 3060 read IsManuallyDisabled, unlock,
\* and run SetActive.)
DisableHonoured == asked = "off" /\ undisturbed => ManualDisableKept

\* The same for an enable: nothing leaves the account disabled afterwards, for
\* the guards, the selectors or the next start.  (A refresh that read the
\* account as disabled before the enable stores that status after it.)
EnableHonoured ==
  asked = "on" /\ undisturbed =>
    acct.status # "disabled" /\ atom.status # "disabled" /\ row.status # "disabled"

=============================================================================
