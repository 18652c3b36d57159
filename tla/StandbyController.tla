-------------------------- MODULE StandbyController --------------------------
(***************************************************************************)
(* The coordinator of the primary and the standby account pool             *)
(* (internal/standby/controller.go).  Every proxy request and every admin  *)
(* call runs in its own goroutine and walks through one of the Pick        *)
(* variants or through SyncPrimaryAvailabilityForNewAPI.  The controller   *)
(* holds no lock over such a walk: `active` and `primaryDown` are atomics  *)
(* flipped by compare-and-swap, and activeMu protects activeCancel only.   *)
(* A walk is therefore cut at each of these accesses.                      *)
(*                                                                         *)
(* The pools appear through what a pick on them answers: each variant of   *)
(* Pick asks them a question of its own.  NewAPI is the external channel   *)
(* service that is told about the primary pool.                            *)
(***************************************************************************)
EXTENDS Naturals

CONSTANTS
  Procs,        \* request and admin goroutines
  Lives,        \* identities of the standby pool's activation contexts
  NoLife,       \* activeCancel == nil
  Worlds,       \* who calls, how the pools may be, and what else may happen
  LoopKinds     \* background goroutines of an activation

\* A pool whose accounts are all disabled or gone; which has some that cool
\* down, but none to pick; whose only accounts to pick have a cooldown that has
\* passed; which has active accounts.
PoolStates == {"none", "cooling", "passed", "up"}
\* The pools all of whose accounts a call has excluded already.
SpentSets == SUBSET {"primary", "standby"}
Moves == {"admin", "lost"}
Ops   == {"pick", "primaryOnly", "standbyOnly", "standbyRecent", "standbyCooling", "sync"}

\* A world: the goroutines and what they call, what the calls have excluded, how
\* the pools may be, NewAPIConfig.AutoSwitch at the start, and as bounds the
\* NewAPI requests in flight and the restarts of the process.
ASSUME StandbyAssumption ==
  /\ NoLife \notin Lives
  /\ Worlds \subseteq [procs : SUBSET Procs, ops : SUBSET Ops, spent : SUBSET SpentSets,
                       primary : SUBSET PoolStates, standby : SUBSET (PoolStates \cup {"empty"}),
                       auto : BOOLEAN, moves : SUBSET Moves, notes : Nat, restarts : Nat]
  /\ LoopKinds \subseteq {"refresh", "recheck"}

VARIABLES
  world,        \* fixed: what this behaviour is about
  primary,      \* the primary pool
  standby,      \* the standby pool, which may be empty
  auto,         \* NewAPIConfig.AutoSwitch
  active,       \* Controller.active
  primaryDown,  \* Controller.primaryDown
  activeCancel, \* Controller.activeCancel: the context it cancels
  ctx,          \* per activation: its context
  loop,         \* per activation: its two background goroutines
  call,         \* per goroutine: where it is, what it runs, what it excluded
  notes,        \* NewAPI requests in flight, counted per channel status
  channel,      \* status of the NewAPI channel
  restarts,
  signal        \* broken once a NewAPI request was lost, the administrator
                \* set the channel or the settings, or the process ended

vars == << world, primary, standby, auto, active, primaryDown, activeCancel, ctx,
           loop, call, notes, channel, restarts, signal >>

env      == << world, primary, standby >>
mode     == << active, activeCancel, ctx, loop >>
newapi   == << auto, notes, channel >>
faults   == << restarts, signal >>

\* Channel status codes of the NewAPI project (notify/newapi.go).
Enabled  == 1
Disabled == 2

PCs       == {"idle", "primary", "markUp", "markDown", "deactCAS", "deactLock",
              "standby", "actCAS", "actLock"}

AllGone == [l \in Lives |-> [k \in LoopKinds |-> "gone"]]
Idle == [at |-> "idle", op |-> "pick", spent |-> {}]

TypeOK ==
  /\ world \in Worlds
  /\ primary \in PoolStates
  /\ standby \in PoolStates \cup {"empty"}
  /\ auto \in BOOLEAN
  /\ active \in BOOLEAN
  /\ primaryDown \in BOOLEAN
  /\ activeCancel \in Lives \cup {NoLife}
  /\ ctx \in [Lives -> {"unused", "live", "cancelled"}]
  /\ loop \in [Lives -> [LoopKinds -> {"gone", "pass", "wait"}]]
  /\ call \in [Procs -> [at : PCs, op : Ops, spent : SpentSets]]
  /\ notes \in [{Enabled, Disabled} -> Nat]
  /\ channel \in {Enabled, Disabled}
  /\ restarts \in Nat
  /\ signal \in {"sound", "broken"}

Init ==
  /\ world \in Worlds
  /\ primary = "up"
  /\ standby = "up"
  /\ auto = world.auto
  /\ active = FALSE
  /\ primaryDown = FALSE
  /\ activeCancel = NoLife
  /\ ctx = [l \in Lives |-> "unused"]
  /\ loop = AllGone
  /\ call = [p \in Procs |-> Idle]
  /\ notes = [s \in {Enabled, Disabled} |-> 0]
  /\ channel = Enabled
  /\ restarts = 0
  /\ signal = "sound"

\* A step of a call; one that returns forgets its locals.
Goto(p, from, to) ==
  /\ call[p].at = from
  /\ call' = [call EXCEPT ![p] = IF to = "idle" THEN Idle ELSE [@ EXCEPT !.at = to]]

-----------------------------------------------------------------------------
(***************************************************************************)
(* A call: Pick, PickPrimaryOnly, PickStandbyOnly, and its variants        *)
(* PickStandbyRecentlySuccessful and PickStandbyIgnoringCooldown;          *)
(* SyncPrimaryAvailabilityForNewAPI.                                       *)
(***************************************************************************)

Call(p, o, s) ==
  /\ call[p] = Idle
  /\ o \in {"standbyOnly", "standbyRecent", "standbyCooling"} => standby # "empty"
  /\ o = "sync" => s = {}
  /\ call' = [call EXCEPT ![p] = [at |-> "primary", op |-> o, spent |-> s]]
  /\ UNCHANGED << env, mode, primaryDown, newapi, faults >>

\* Does a pool in state s have an account for the call c?  The pick of a recently
\* successful account overlooks those whose cooldown has passed, and takes an
\* excluded one if all are excluded; the pick that ignores cooldowns takes any
\* that is not disabled.
Answers(c, name, s) ==
  CASE c.op = "standbyRecent"  -> s = "up"
    [] c.op = "standbyCooling" -> s \notin {"none", "empty"} /\ name \notin c.spent
    [] OTHER                   -> s \in {"passed", "up"} /\ name \notin c.spent

\* The primary pool is asked first.
AskPrimary(p) ==
  /\ Goto(p, "primary", IF Answers(call[p], "primary", primary) THEN "markUp" ELSE "markDown")
  /\ UNCHANGED << env, mode, primaryDown, newapi, faults >>

\* (bug) A recovery that is noted but not sent.
FlipSilentUp(down) ==
  IF auto /\ primaryDown # down
    THEN /\ notes[Disabled] < world.notes
         /\ primaryDown' = down
         /\ notes' = IF down THEN [notes EXCEPT ![Disabled] = @ + 1] ELSE notes
    ELSE UNCHANGED << primaryDown, notes >>

\* A flip of primaryDown starts a goroutine that tells NewAPI.
Flip(down) ==
  IF auto /\ primaryDown # down
    THEN LET s == IF down THEN Disabled ELSE Enabled IN
         /\ notes[Enabled] + notes[Disabled] < world.notes
         /\ primaryDown' = down
         /\ notes' = [notes EXCEPT ![s] = @ + 1]
    ELSE UNCHANGED << primaryDown, notes >>

\* (bug) The pick paths that forget to leave the standby mode.
MarkPrimaryAvailableOnly(p) ==
  /\ Goto(p, "markUp", "idle")
  /\ Flip(FALSE)
  /\ UNCHANGED << env, mode, auto, channel, faults >>

MarkPrimaryAvailable(p) ==
  /\ Goto(p, "markUp", IF call[p].op = "sync" THEN "idle" ELSE "deactCAS")
  /\ Flip(FALSE)
  /\ UNCHANGED << env, mode, auto, channel, faults >>

MarkPrimaryUnavailable(p) ==
  /\ Goto(p, "markDown",
          IF \/ call[p].op \in {"sync", "primaryOnly"}
             \/ call[p].op = "pick" /\ standby = "empty"
            THEN "idle" ELSE "standby")
  /\ Flip(TRUE)
  /\ UNCHANGED << env, mode, auto, channel, faults >>

AskStandby(p) ==
  /\ Goto(p, "standby",
          IF Answers(call[p], "standby", standby) THEN "actCAS" ELSE "idle")
  /\ UNCHANGED << env, mode, primaryDown, newapi, faults >>

-----------------------------------------------------------------------------
(***************************************************************************)
(* activateIfNeeded and deactivateIfActive: first the CAS on active, later *)
(* the section under activeMu.                                             *)
(***************************************************************************)

ActivateCAS(p) ==
  /\ Goto(p, "actCAS", IF active THEN "idle" ELSE "actLock")
  /\ active' = TRUE
  /\ UNCHANGED << env, activeCancel, ctx, loop, primaryDown, newapi, faults >>

Reusable(l) == ctx[l] # "live" /\ \A k \in LoopKinds : loop[l][k] = "gone"

\* Both loops are started with the new context.  The refresh loop begins with
\* a pass over the pool, the recheck loop by waiting for its ticker.
StartLoops ==
  \E l \in Lives :
    /\ Reusable(l)
    /\ activeCancel' = l
    /\ ctx' = [ctx EXCEPT ![l] = "live"]
    /\ loop' = [loop EXCEPT ![l] = [k \in LoopKinds |->
                                      IF k = "refresh" THEN "pass" ELSE "wait"]]

ActivateLocked(p) ==
  /\ Goto(p, "actLock", "idle")
  /\ IF activeCancel = NoLife
       THEN StartLoops
       ELSE UNCHANGED << activeCancel, ctx, loop >>
  /\ UNCHANGED << env, active, primaryDown, newapi, faults >>

DeactivateCAS(p) ==
  /\ Goto(p, "deactCAS", IF active THEN "deactLock" ELSE "idle")
  /\ active' = FALSE
  /\ UNCHANGED << env, activeCancel, ctx, loop, primaryDown, newapi, faults >>

\* (bug) deactivateIfActive that resets activeCancel and does not call it.
DeactivateLockedNoCancel(p) ==
  /\ Goto(p, "deactLock", "idle")
  /\ activeCancel' = NoLife
  /\ UNCHANGED << env, active, ctx, loop, primaryDown, newapi, faults >>

\* (bug) deactivateIfActive that cancels but does not reset activeCancel.
DeactivateLockedNoReset(p) ==
  /\ Goto(p, "deactLock", "idle")
  /\ ctx' = [l \in Lives |-> IF l = activeCancel THEN "cancelled" ELSE ctx[l]]
  /\ UNCHANGED << env, active, activeCancel, loop, primaryDown, newapi, faults >>

DeactivateLocked(p) ==
  /\ Goto(p, "deactLock", "idle")
  /\ activeCancel' = NoLife
  /\ ctx' = [l \in Lives |-> IF l = activeCancel THEN "cancelled" ELSE ctx[l]]
  /\ UNCHANGED << env, active, loop, primaryDown, newapi, faults >>

Walk(p) ==
  \/ AskPrimary(p)
  \/ MarkPrimaryAvailable(p)
  \/ MarkPrimaryUnavailable(p)
  \/ AskStandby(p)
  \/ ActivateCAS(p)
  \/ ActivateLocked(p)
  \/ DeactivateCAS(p)
  \/ DeactivateLocked(p)

-----------------------------------------------------------------------------
(***************************************************************************)
(* The loops of an activation.  select chooses at random among the cases   *)
(* that are ready, so a loop whose context is cancelled may still serve a  *)
(* tick; a pass that runs is never interrupted.                            *)
(***************************************************************************)

LoopStep(l, k, from, to) ==
  /\ loop[l][k] = from
  /\ loop' = [loop EXCEPT ![l][k] = to]
  /\ UNCHANGED << env, active, activeCancel, ctx, primaryDown, newapi, call, faults >>

Tick(l, k)     == LoopStep(l, k, "wait", "pass")
PassDone(l, k) == LoopStep(l, k, "pass", "wait")
\* (bug) A loop that does not watch its context.
LoopExitDeaf(l, k) == ctx[l] = "unused" /\ LoopStep(l, k, "wait", "gone")

LoopExit(l, k) == ctx[l] = "cancelled" /\ LoopStep(l, k, "wait", "gone")

-----------------------------------------------------------------------------
(***************************************************************************)
(* NewAPI requests: unordered goroutines, each reading the settings again  *)
(* before it calls the service.                                            *)
(***************************************************************************)

Deliver(s) ==
  /\ notes[s] > 0
  /\ notes' = [notes EXCEPT ![s] = @ - 1]
  /\ channel' = IF auto THEN s ELSE channel
  /\ UNCHANGED << env, mode, primaryDown, auto, call, faults >>

Fail(s) ==
  /\ "lost" \in world.moves
  /\ notes[s] > 0
  /\ notes' = [notes EXCEPT ![s] = @ - 1]
  /\ UNCHANGED << env, mode, primaryDown, auto, channel, call, restarts >>
  /\ signal' = "broken"

\* Saving settings with AutoSwitch on is followed by a sync in the same handler.
SaveAuto(p, v) ==
  /\ "admin" \in world.moves
  /\ call[p] = Idle
  /\ auto' = v
  /\ call' = [call EXCEPT ![p] = IF v THEN [@ EXCEPT !.at = "primary", !.op = "sync"] ELSE @]
  /\ UNCHANGED << env, mode, primaryDown, notes, channel, restarts >>
  /\ signal' = "broken"

TestChannel(s) ==
  /\ "admin" \in world.moves
  /\ channel' = s
  /\ UNCHANGED << env, mode, primaryDown, auto, notes, call, restarts >>
  /\ signal' = "broken"

-----------------------------------------------------------------------------
(***************************************************************************)
(* The pools (their own modules say how) and the process.                  *)
(***************************************************************************)

PrimaryMove ==
  /\ primary' \in world.primary \ {primary}
  /\ UNCHANGED << world, standby, mode, primaryDown, newapi, call, faults >>

StandbyMove ==
  /\ standby' \in world.standby \ {standby}
  /\ UNCHANGED << world, primary, mode, primaryDown, newapi, call, faults >>

\* All atomics and goroutines die with the process; settings and channel stay.
Restart ==
  /\ restarts < world.restarts
  /\ restarts' = restarts + 1
  /\ signal' = "broken"
  /\ active' = FALSE
  /\ primaryDown' = FALSE
  /\ activeCancel' = NoLife
  /\ ctx' = [l \in Lives |-> "unused"]
  /\ loop' = AllGone
  /\ call' = [p \in Procs |-> Idle]
  /\ notes' = [s \in {Enabled, Disabled} |-> 0]
  /\ UNCHANGED << env, auto, channel >>

Next ==
  \/ \E p \in Procs : Walk(p)
  \/ \E p \in world.procs, o \in world.ops, s \in world.spent : Call(p, o, s)
  \/ \E l \in Lives, k \in LoopKinds :
       Tick(l, k) \/ PassDone(l, k) \/ LoopExit(l, k)
  \/ \E s \in {Enabled, Disabled} : Deliver(s) \/ Fail(s) \/ TestChannel(s)
  \/ \E p \in world.procs, v \in BOOLEAN : SaveAuto(p, v)
  \/ PrimaryMove
  \/ StandbyMove
  \/ Restart

Spec == Init /\ [][Next]_vars

(***************************************************************************)
(* A goroutine that is running is scheduled again; a pass over the pool    *)
(* ends because every upstream call has a timeout; Go's select picks a     *)
(* ready case at random, so the cancelled context is not overlooked for    *)
(* ever; a NewAPI request ends within its 15 seconds; requests keep        *)
(* coming, and begin with nothing excluded.  Nothing is assumed of the     *)
(* pools and of the administrator.                                         *)
(***************************************************************************)
Fairness ==
  /\ \A p \in Procs : WF_vars(Walk(p))
  /\ \A p \in Procs : SF_vars(p \in world.procs /\ "pick" \in world.ops /\ Call(p, "pick", {}))
  /\ \A l \in Lives, k \in LoopKinds :
       WF_vars(PassDone(l, k)) /\ SF_vars(LoopExit(l, k))
  /\ \A s \in {Enabled, Disabled} : WF_vars(Deliver(s) \/ Fail(s))

FairSpec == Spec /\ Fairness

-----------------------------------------------------------------------------
Quiet == \A p \in Procs : call[p].at \notin {"actLock", "deactLock"}

\* At most one activation context is live and activeCancel is the handle that
\* cancels it: no interleaving of activateIfNeeded and deactivateIfActive
\* starts a second pair of loops or loses the handle of a running one.
SingleLifetime ==
  \A l \in Lives : ctx[l] = "live" <=> activeCancel = l

OneCaller == \A p, q \in world.procs : p = q

\* Outside the windows between a CAS and its locked section, the standby
\* pool's loops are live exactly when the standby mode is on, if calls do not
\* overlap.
LoopsFollowMode ==
  OneCaller /\ Quiet => (active <=> activeCancel # NoLife)

\* controller.go:9: while the standby mode is off, no refresh or recheck loop
\* of the standby pool is live (one that was cancelled may still be ending).
InactiveStandbyIsLeftAlone == Quiet /\ ~active => activeCancel = NoLife

\* CONFIGURATION.md:24: the standby pool is put to use only if the primary pool
\* has no account to pick.
StandbyOnlyWhenNeeded == world.primary \subseteq {"up"} => ~active

\* A cancelled activation's goroutines end: deactivateIfActive does not leak
\* loops that go on refreshing the standby pool.
CancelledLoopsEnd ==
  \A l \in Lives, k \in LoopKinds :
    ctx[l] = "cancelled" ~> loop[l][k] = "gone"

\* controller.go:7: once the primary pool stays up, the standby mode ends for
\* good, unless calls go on excluding all of its accounts.
StandbyReleased ==
  world.spent = {{}} => ((<>[](primary = "up")) => (<>[]~active))

\* API-ADMIN.md:358: once the primary pool stays up (and AutoSwitch on), the
\* NewAPI channel ends up enabled, as long as no request was lost or overtaken
\* by another, no call excluded the whole pool, no settings were changed by hand
\* and the process did not restart.
ChannelReenabled ==
  world.spent = {{}} /\ world.notes <= 1 =>
    ((<>[](primary = "up" /\ auto) /\ [](signal = "sound")) => (<>[](channel = Enabled)))

=============================================================================
