------------------------------ MODULE AccountPool ------------------------------
(***************************************************************************)
(* One credential path of the account pool and its files                   *)
(* (internal/auth/manager.go, disabled_recovery.go, ingest.go).  The pool  *)
(* holds at most one account per path; the credential lies in the          *)
(* directory as `json`, as `tmp` while a save worker writes it, and under  *)
(* one of the Suffixes of ".disabled" after it was taken out of rotation.  *)
(* Goroutines remove, refresh, save, scan, recover and upload accounts;    *)
(* only the pool and its index are under Manager.mu, every system call is  *)
(* a step of its own.                                                      *)
(*                                                                         *)
(* An account is a pointer: one that was removed lives on in the           *)
(* goroutines that hold it.  A token is the number of its issue.           *)
(***************************************************************************)
EXTENDS Integers, Sequences, FiniteSets

CONSTANTS
  Procs,      \* goroutines
  Worlds,     \* what may happen, and the capacities
  Suffixes,   \* the names free for a disabled credential
  MaxAccts,   \* bound: accounts allocated for the path between two starts
  MaxToken,   \* bound: tokens issued
  MaxCrashes  \* bound: ends of the process

Ops   == {"remove", "disable", "refresh", "scan", "recover", "upload", "drop"}
Names == {"json", "tmp"} \cup Suffixes

ASSUME PoolAssumption ==
  /\ Worlds \subseteq [ops : SUBSET Ops, savers : Nat, queue : Nat, faults : BOOLEAN]
  /\ {"json", "tmp", "gone"} \cap Suffixes = {}
  /\ IsFiniteSet(Procs)
  /\ MaxAccts \in Nat \ {0}
  /\ MaxToken \in Nat
  /\ MaxCrashes \in Nat

VARIABLES
  world,   \* fixed: what this behaviour is about
  file,    \* per name: a token, Torn or Absent
  pool,    \* accountIndex at the path: an account or None
  acct,    \* the accounts allocated: their token and the `deleted` flag
  queue,   \* saveQueue
  proc,    \* per goroutine: where it is
  fd,      \* per goroutine: the name of the file its descriptor refers to
  issued,  \* the last token handed out
  crashes

vars == << world, file, fd, pool, acct, queue, proc, issued, crashes >>

Absent == -1   \* no file of that name
Torn   == 0    \* a file that was opened for writing and not yet written
None   == 0    \* no account
Accts  == 1..MaxAccts

Kinds  == Ops \cup {"save", "none"}
Places == {"idle", "unlist", "erase", "park", "ask", "update", "enqueue",
           "load", "add", "back", "restore", "open", "fill", "publish", "recheck"}

\* The goroutine's operation, its next step, the account it holds, a token it has
\* read or is to receive, and the name of the disabled file it restores.
Locals == [op : Kinds, at : Places, acct : Nat, tok : Int, name : Names]
Idle   == [op |-> "none", at |-> "idle", acct |-> None, tok |-> Torn, name |-> "json"]

Account == [token : Nat, deleted : BOOLEAN]
Unborn  == [token |-> 0, deleted |-> FALSE]

TypeOK ==
  /\ world \in Worlds
  /\ file \in [Names -> Int]
  /\ pool \in Accts \cup {None}
  /\ acct \in [Accts -> Account]
  /\ queue \in Seq(Accts)
  /\ proc \in [Procs -> Locals]
  /\ fd \in [Procs -> Names \cup {"gone"}]
  /\ issued \in Nat
  /\ crashes \in Nat

\* The accounts after a start that found token t in `json`.
Loaded(t) == [a \in Accts |-> IF a = 1 /\ t > Torn THEN [Unborn EXCEPT !.token = t] ELSE Unborn]
InPool(t) == IF t > Torn THEN 1 ELSE None

Init ==
  /\ world \in Worlds
  /\ file = [n \in Names |-> IF n = "json" THEN 1 ELSE Absent]
  /\ acct = Loaded(1)
  /\ pool = InPool(1)
  /\ queue = << >>
  /\ proc = [p \in Procs |-> Idle]
  /\ fd = [p \in Procs |-> "gone"]
  /\ issued = 1
  /\ crashes = 0

Running(op) == {p \in Procs : proc[p].op = op}
Quiet       == \A p \in Procs : proc[p] = Idle

\* acc.refreshing: the goroutine that refreshes or probes the account.
Refreshing(a) == \E p \in Procs : proc[p].op \in {"refresh", "recover"} /\ proc[p].acct = a

\* Goroutine p goes on at place s; p has finished.
Goto(p, s) == proc' = [proc EXCEPT ![p].at = s]
Done(p)    == proc' = [proc EXCEPT ![p] = Idle]
Begin(p, op, s, a, t) ==
  /\ op \in world.ops
  /\ proc[p] = Idle
  /\ proc' = [proc EXCEPT ![p] = [Idle EXCEPT !.op = op, !.at = s, !.acct = a, !.tok = t]]

\* os.Rename and os.Remove: a descriptor follows its file.
Rename(from, to) ==
  /\ file' = [file EXCEPT ![to] = file[from], ![from] = Absent]
  /\ fd' = [q \in Procs |-> CASE fd[q] = from -> to [] fd[q] = to -> "gone" [] OTHER -> fd[q]]
Remove(n) ==
  /\ file' = [file EXCEPT ![n] = Absent]
  /\ fd' = [q \in Procs |-> IF fd[q] = n THEN "gone" ELSE fd[q]]
KeepFiles == UNCHANGED << file, fd >>

\* A new account for token t enters the pool.
Free == {a \in Accts : acct[a].token = 0}
Add(t) ==
  /\ Free # {}
  /\ pool' = CHOOSE a \in Free : TRUE
  /\ acct' = [acct EXCEPT ![pool'] = [token |-> t, deleted |-> FALSE]]
\* The bounds leave room for what the running goroutines may still need.
MayAdd   == Cardinality(Free) > Cardinality(Running("scan") \cup Running("recover"))
MayIssue == issued + Cardinality(Running("recover")) < MaxToken

-----------------------------------------------------------------------------
\* A request, the health check or the administrator decides on the account it
\* holds; a refresh gets there too.
Decide(p, op) ==
  /\ op \in {"remove", "disable"}
  /\ pool # None
  /\ Begin(p, op, "unlist", pool, Torn)
  /\ UNCHANGED << world, file, fd, pool, acct, queue, issued, crashes >>

\* (bug) the account is marked, but stays in the index.
UnlistMarksOnly(p) ==
  /\ proc[p].at = "unlist"
  /\ acct' = [acct EXCEPT ![proc[p].acct].deleted = TRUE]
  /\ Done(p)
  /\ UNCHANGED << world, file, fd, pool, queue, issued, crashes >>

\* Under the lock: whatever account the index holds at the path goes, the one in
\* hand is marked.
Unlist(p) ==
  /\ proc[p].at = "unlist"
  /\ acct' = [acct EXCEPT ![proc[p].acct].deleted = TRUE]
  /\ pool' = None
  /\ IF pool = None THEN Done(p)
     ELSE Goto(p, IF proc[p].op = "disable" THEN "park" ELSE "erase")
  /\ UNCHANGED << world, file, fd, queue, issued, crashes >>

\* RemoveAccount, outside the lock.
Erase(p) ==
  /\ proc[p].at = "erase"
  /\ Remove("json") /\ Done(p)
  /\ UNCHANGED << world, pool, acct, queue, issued, crashes >>

\* DisableAccountByRenamingFile, outside the lock: the first free suffix, or
\* none is left or the rename fails and the file is removed.
Park(p) ==
  /\ proc[p].at = "park"
  /\ \/ \E n \in Suffixes :
          /\ file[n] = Absent /\ file["json"] # Absent
          /\ n = CHOOSE m \in Suffixes : file[m] = Absent
          /\ Rename("json", n) /\ Done(p)
     \/ /\ file["json"] = Absent \/ \A n \in Suffixes : file[n] # Absent
        /\ Remove("json") /\ Done(p)
  /\ UNCHANGED << world, pool, acct, queue, issued, crashes >>

-----------------------------------------------------------------------------
\* refreshAccount, forceRefreshAccount, EnsureTokenFresh.  The token is the one
\* the OAuth server issues if it grants the refresh.
Refresh(p) ==
  /\ pool # None /\ ~Refreshing(pool)
  /\ MayIssue
  /\ Begin(p, "refresh", "ask", pool, issued + 1)
  /\ issued' = issued + 1
  /\ UNCHANGED << world, file, fd, pool, acct, queue, crashes >>

\* The account goes, after a refused refresh or quota check.
Refused(p) ==
  \/ "remove" \in world.ops /\ Goto(p, "unlist")
  \/ /\ "disable" \in world.ops
     /\ proc[p].op = "refresh"
     /\ proc' = [proc EXCEPT ![p].op = "disable", ![p].at = "unlist"]

\* The OAuth server grants the refresh, or it fails: the account stays as it is,
\* or goes (handleRefreshHTTPError, ProbeRestoredAccount).
Answer(p) ==
  /\ proc[p].at = "ask"
  /\ \/ Goto(p, "update")
     \/ proc[p].op = "refresh" /\ world.faults /\ Done(p)
     \/ Refused(p)
  /\ UNCHANGED << world, file, fd, pool, acct, queue, issued, crashes >>

UpdateToken(p) ==
  /\ proc[p].at = "update"
  /\ acct' = [acct EXCEPT ![proc[p].acct].token = proc[p].tok]
  /\ Goto(p, "enqueue")
  /\ UNCHANGED << world, file, fd, pool, queue, issued, crashes >>

\* (bug) an account that is being saved is not queued again.
EnqueuedOnce(a) ==
  IF \/ acct[a].deleted \/ pool = None \/ Len(queue) >= world.queue
     \/ \E p \in Running("save") : proc[p].acct = a
  THEN queue ELSE Append(queue, a)

\* enqueueSave drops what it cannot take.
Enqueued(a) ==
  IF acct[a].deleted \/ pool = None \/ Len(queue) >= world.queue
  THEN queue ELSE Append(queue, a)

\* After a refresh the quota is checked.
EnqueueSave(p) ==
  /\ proc[p].at = "enqueue"
  /\ queue' = Enqueued(proc[p].acct)
  /\ Done(p) \/ (proc[p].op # "upload" /\ Refused(p))
  /\ UNCHANGED << world, file, fd, pool, acct, issued, crashes >>

-----------------------------------------------------------------------------
\* A save worker, or a goroutine that saves directly, takes a snapshot of an
\* account that is not deleted.
Dequeue(p) ==
  /\ queue # << >>
  /\ proc[p] = Idle
  /\ Cardinality(Running("save")) < world.savers
  /\ queue' = Tail(queue)
  /\ LET a == Head(queue)
     IN IF acct[a].deleted THEN UNCHANGED proc
        ELSE proc' = [proc EXCEPT ![p] = [Idle EXCEPT !.op = "save", !.at = "open",
                                                     !.acct = a, !.tok = acct[a].token]]
  /\ UNCHANGED << world, file, fd, pool, acct, issued, crashes >>

\* (bug) the credential is written in place.
OpenInPlace(p) ==
  /\ proc[p].at = "open"
  /\ file' = [file EXCEPT !["json"] = Torn]
  /\ fd' = [fd EXCEPT ![p] = "json"]
  /\ Goto(p, "fill")
  /\ UNCHANGED << world, pool, acct, queue, issued, crashes >>

\* os.WriteFile creates the temporary file, or truncates the one it finds ...
Open(p) ==
  /\ proc[p].at = "open"
  /\ file' = [file EXCEPT !["tmp"] = Torn]
  /\ fd' = [fd EXCEPT ![p] = "tmp"]
  /\ Goto(p, "fill")
  /\ UNCHANGED << world, pool, acct, queue, issued, crashes >>

\* ... and writes to its descriptor, or fails.
Fill(p) ==
  /\ proc[p].at = "fill"
  /\ \/ /\ file' = IF fd[p] = "gone" THEN file ELSE [file EXCEPT ![fd[p]] = proc[p].tok]
        /\ Goto(p, "publish")
     \/ /\ world.faults
        /\ Done(p)
        /\ UNCHANGED file
  /\ fd' = [fd EXCEPT ![p] = "gone"]
  /\ UNCHANGED << world, pool, acct, queue, issued, crashes >>

\* (bug) nobody looks at `deleted` once the file is in place.
PublishUnchecked(p) ==
  /\ proc[p].at = "publish"
  /\ IF file["tmp"] = Absent THEN Done(p) /\ KeepFiles ELSE Rename("tmp", "json") /\ Done(p)
  /\ UNCHANGED << world, pool, acct, queue, issued, crashes >>

\* os.Rename fails if another worker has renamed the temporary file already.
Publish(p) ==
  /\ proc[p].at = "publish"
  /\ IF file["tmp"] = Absent THEN Done(p) /\ KeepFiles
                             ELSE Rename("tmp", "json") /\ Goto(p, "recheck")
  /\ UNCHANGED << world, pool, acct, queue, issued, crashes >>

\* The account was deleted meanwhile: the file just written goes.
Recheck(p) ==
  /\ proc[p].at = "recheck"
  /\ IF acct[proc[p].acct].deleted THEN Remove("json") /\ Done(p) ELSE Done(p) /\ KeepFiles
  /\ UNCHANGED << world, pool, acct, queue, issued, crashes >>

-----------------------------------------------------------------------------
\* scanNewFiles lists the directory and keeps what the index does not hold.
Scan(p) ==
  /\ Running("scan") = {}
  /\ file["json"] # Absent
  /\ pool = None
  /\ MayAdd
  /\ Begin(p, "scan", "load", None, Torn)
  /\ UNCHANGED << world, file, fd, pool, acct, queue, issued, crashes >>

\* RunDisabledCredentialRecovery takes a disabled credential whose `json` is free.
Recover(p) ==
  /\ Running("recover") = {}
  /\ MayAdd /\ MayIssue
  /\ file["json"] = Absent
  /\ \E n \in Suffixes :
       /\ file[n] # Absent
       /\ "recover" \in world.ops
       /\ proc[p] = Idle
       /\ proc' = [proc EXCEPT ![p] = [Idle EXCEPT !.op = "recover", !.at = "restore", !.name = n]]
  /\ UNCHANGED << world, file, fd, pool, acct, queue, issued, crashes >>

Restore(p) ==
  /\ proc[p].at = "restore"
  /\ Rename(proc[p].name, "json") /\ Goto(p, "load")
  /\ UNCHANGED << world, pool, acct, queue, issued, crashes >>

\* loadAccountFromFile fails on a file that is gone or torn; the recovery then
\* removes it.
Load(p) ==
  /\ proc[p].at = "load"
  /\ \/ /\ file["json"] > Torn
        /\ proc' = [proc EXCEPT ![p].at = "add", ![p].tok = file["json"]]
        /\ KeepFiles
     \/ /\ file["json"] <= Torn
        /\ IF proc[p].op = "recover" THEN Remove("json") /\ Done(p) ELSE Done(p) /\ KeepFiles
  /\ UNCHANGED << world, pool, acct, queue, issued, crashes >>

\* Under the lock: the account enters the pool if the path is still free.  The
\* recovery goes on to refresh it; if the path is taken it puts the file back.
AddLoaded(p) ==
  /\ proc[p].at = "add"
  /\ \/ /\ pool = None
        /\ Add(proc[p].tok)
        /\ \/ proc[p].op = "scan" /\ Done(p) /\ UNCHANGED issued
           \/ /\ proc[p].op = "recover"
              /\ issued' = issued + 1
              /\ proc' = [proc EXCEPT ![p].at = "ask", ![p].acct = pool', ![p].tok = issued + 1]
     \/ /\ pool # None
        /\ IF proc[p].op = "recover" THEN Goto(p, "back") ELSE Done(p)
        /\ UNCHANGED << pool, acct, issued >>
  /\ UNCHANGED << world, file, fd, queue, crashes >>

PutBack(p) ==
  /\ proc[p].at = "back"
  /\ IF file["json"] = Absent THEN Done(p) /\ KeepFiles
                              ELSE Rename("json", proc[p].name) /\ Done(p)
  /\ UNCHANGED << world, pool, acct, queue, issued, crashes >>

\* IngestAccountsFromJSON under the lock, then enqueueSave.
Upload(p) ==
  /\ MayAdd /\ MayIssue
  /\ issued' = issued + 1
  /\ IF pool = None THEN Add(issued + 1)
     ELSE acct' = [acct EXCEPT ![pool].token = issued + 1] /\ UNCHANGED pool
  /\ Begin(p, "upload", "enqueue", pool', Torn)
  /\ UNCHANGED << world, file, fd, queue, crashes >>

\* The administrator moves a credential into the directory.
Drop ==
  /\ "drop" \in world.ops
  /\ file["json"] = Absent
  /\ MayIssue
  /\ issued' = issued + 1
  /\ file' = [file EXCEPT !["json"] = issued + 1]
  /\ UNCHANGED << world, fd, pool, acct, queue, proc, crashes >>

\* The process ends, without waiting for its goroutines, and loads what it finds.
Restart ==
  /\ world.faults
  /\ crashes < MaxCrashes
  /\ crashes' = crashes + 1
  /\ acct' = Loaded(file["json"])
  /\ pool' = InPool(file["json"])
  /\ queue' = << >>
  /\ proc' = [p \in Procs |-> Idle]
  /\ fd' = [p \in Procs |-> "gone"]
  /\ UNCHANGED << world, file, fd, issued >>

\* The refresh loop ticks: no file is new, no token is about to expire.
IdleTick ==
  /\ Quiet /\ queue = << >>
  /\ UNCHANGED vars

Proceed(p) ==
  \/ Unlist(p) \/ Erase(p) \/ Park(p)
  \/ Answer(p) \/ UpdateToken(p) \/ EnqueueSave(p)
  \/ Open(p) \/ Fill(p) \/ Publish(p) \/ Recheck(p)
  \/ Restore(p) \/ Load(p) \/ AddLoaded(p) \/ PutBack(p)

Next ==
  \/ \E p \in Procs, op \in Ops : Decide(p, op)
  \/ \E p \in Procs : Refresh(p)
  \/ \E p \in Procs : Scan(p)
  \/ \E p \in Procs : Recover(p)
  \/ \E p \in Procs : Upload(p)
  \/ \E p \in Procs : Dequeue(p)
  \/ \E p \in Procs : Proceed(p)
  \/ Drop
  \/ Restart
  \/ IdleTick

Spec == Init /\ [][Next]_vars

\* A goroutine that began an operation runs on, and the save workers run.
FairSpec ==
  /\ Spec
  /\ \A p \in Procs : WF_vars(Proceed(p))
  /\ SF_vars(\E p \in Procs : Dequeue(p))

-----------------------------------------------------------------------------
\* manager.go:1486-1492: an account of the pool is never marked deleted, so
\* that the workers save it, whatever stale pointer is removed meanwhile.
PooledIsLive == pool # None => ~acct[pool].deleted

\* manager.go:3184 "write a temporary file first, rename it on success, so that
\* a failed write does not damage the original": no crash and no failed write
\* ever leaves a half-written credential, in the directory or put aside.
CredentialWhole == \A n \in Names \ {"tmp"} : file[n] # Torn

\* It holds while one goroutine saves at a time.
SingleWriterWhole == world.savers <= 1 => CredentialWhole

\* manager.go:1476 "remove thoroughly": no save that was under way or queued
\* brings the file of a removed account back, and no removal takes that of an
\* account in the pool, as long as nothing adds accounts at the path.
Removers == {"remove", "disable", "refresh"}
RemovedForGood ==
  world.ops \subseteq Removers /\ (world.faults => world.savers <= 1) /\ Quiet =>
    (pool # None <=> file["json"] # Absent)

\* manager.go:2217, 2240: a refreshed or uploaded token that the queue took
\* reaches the file, unless the account goes; if no write fails, one goroutine
\* saves at a time and no removal races an upload.
OrderlySaves ==
  /\ ~world.faults /\ world.savers = 1 /\ world.queue >= MaxToken
  /\ world.ops \subseteq Removers \/ world.ops \subseteq {"refresh", "upload"}
TokenReachesFile ==
  OrderlySaves => <>[](pool # None => file["json"] = acct[pool].token)

\* manager.go:2249 "those that were removed are not loaded again (until the file
\* changes)".
RemovedStaysOut ==
  [][world.ops = {"remove", "scan"} /\ pool = None => pool' = None]_vars

=============================================================================
