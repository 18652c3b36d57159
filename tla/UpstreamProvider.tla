--------------------------- MODULE UpstreamProvider ---------------------------
(***************************************************************************)
(* The upstream provider (internal/upstream/provider.go and its handler):  *)
(* a second API that answers when the pool has failed a request.  Its      *)
(* settings live in memory and in a file, and administrators save them     *)
(* while requests use them.  A save writes a temporary file, removes the   *)
(* old one and renames; nothing keeps two saves apart.  A request is sent  *)
(* by a goroutine of its own, and whoever waits for it gives up when the   *)
(* headers take too long; `active' tells whether the provider is in use.   *)
(*                                                                         *)
(* A list of models is named after the target that gave it.  WriteFile is  *)
(* one step.  Which of the notices about `active' arrive is left out.      *)
(***************************************************************************)
EXTENDS Integers

CONSTANTS
  Admins,      \* goroutines that serve the administrator
  Requests,    \* requests that may be with the provider at the same time
  Worlds,      \* who takes part in a behaviour
  Urls, Keys,  \* base URLs and API keys
  Inputs,      \* what an administrator sends: settings, perhaps without a key
  Absent,      \* no file
  Torn,        \* what a write that failed leaves
  MaxSaves,    \* bound: calls of the administrators
  MaxCrashes   \* bound: crashes of the process

None == "none"
Target == [url : Urls \cup {None}, key : Keys \cup {None}]
\* `models`: the target that gave the list, nobody's before there is one.
Configs == [auto : BOOLEAN, target : Target, models : Target]
Nowhere == [url |-> None, key |-> None]
Default == [auto |-> FALSE, target |-> Nowhere, models |-> Nowhere]

ASSUME ProviderAssumption ==
  /\ Worlds \subseteq [admins : SUBSET Admins, requests : SUBSET Requests]
  /\ None \notin Urls \cup Keys
  /\ Absent \notin Configs /\ Torn \notin Configs /\ Torn # Absent
  /\ Inputs \subseteq [auto : BOOLEAN, target : Target]
  /\ MaxSaves \in Nat /\ MaxCrashes \in Nat

Files == Configs \cup {Absent, Torn}

VARIABLES
  world,      \* fixed: the administrators and requests of this behaviour
  file, tmp,  \* the settings on disk, and the temporary file
  cfg,        \* the settings in memory
  active,     \* whether the provider has taken over
  up,         \* whether a pick finds an account; the controller may answer with one of
              \* the standby pool
  call,       \* per administrator: the call
  req,        \* per request: who waits, the goroutine that sends, the body
  acked,      \* the settings of the last save that reported success, until
              \* another save removes the file or two saves overlap
  saves, crashes

vars == << world, file, tmp, cfg, active, up, call, req, acked, saves, crashes >>
diskVars == << file, tmp >>

NoCall == [at |-> "idle", kind |-> "put", new |-> Default, alone |-> TRUE]
NoReq  == [at |-> "idle", net |-> "none", body |-> "none", ctx |-> "none", closer |-> FALSE]

Saving == {"write", "remove", "rename", "store", "clear"}

TypeOK ==
  /\ world \in Worlds
  /\ file \in Files /\ tmp \in Files
  /\ cfg \in Configs /\ acked \in Configs \cup {Absent}
  /\ active \in BOOLEAN /\ up \in BOOLEAN
  /\ call \in [Admins -> [at : {"idle", "asking"} \cup Saving, kind : {"put", "fetch"},
                          new : Configs, alone : BOOLEAN]]
  /\ req \in [Requests -> [at : {"idle", "waiting", "accepted", "pumping", "done"},
                           net : {"none", "doing", "answered", "failed"},
                           body : {"none", "open", "closed"},
                           ctx : {"none", "live", "cancelled"}, closer : BOOLEAN]]
  /\ saves \in 0..MaxSaves /\ crashes \in 0..MaxCrashes

Init ==
  /\ world \in Worlds
  /\ file = Absent /\ tmp = Absent /\ cfg = Default /\ acked = Absent
  /\ active = FALSE
  /\ up \in BOOLEAN
  /\ call = [a \in Admins |-> NoCall]
  /\ req = [r \in Requests |-> NoReq]
  /\ saves = 0 /\ crashes = 0

-----------------------------------------------------------------------------
\* ValidateConfig.
Complete(t) == t.url # None /\ t.key # None
\* What Save accepts.
Acceptable(c) == c.auto => Complete(c.target)
\* The handlers put the saved key in the place of one that is not sent.
WithKey(t) == IF t.key = None THEN [t EXCEPT !.key = cfg.target.key] ELSE t

Others(a) == {b \in Admins \ {a} : call[b].at \in Saving}

\* Save begins: from here on it is not kept apart from another one.
BeginSave(a, kind, c) ==
  /\ call' = [b \in Admins |->
                IF b = a THEN [at |-> "write", kind |-> kind, new |-> c, alone |-> Others(a) = {}]
                ELSE [call[b] EXCEPT !.alone = FALSE]]
  /\ acked' = IF Others(a) = {} THEN acked ELSE Absent

\* PUT: settings from the administrator, with a list of his own.
Put(a) ==
  /\ call[a].at = "idle" /\ saves < MaxSaves
  /\ saves' = saves + 1
  /\ \E i \in Inputs :
       LET c == [auto |-> i.auto, target |-> WithKey(i.target), models |-> Nowhere]
       IN  Acceptable(c) /\ BeginSave(a, "put", c)
  /\ UNCHANGED << world, diskVars, cfg, active, up, req, crashes >>

\* FetchModels asks the saved target, or the one in the request, for its models.
Fetch(a) ==
  /\ call[a].at = "idle" /\ saves < MaxSaves
  /\ saves' = saves + 1
  /\ \E t \in {WithKey(i.target) : i \in Inputs} \cup {cfg.target} :
       /\ Complete(t)
       /\ call' = [call EXCEPT ![a].at = "asking", ![a].new = [cfg EXCEPT !.target = t]]
  /\ UNCHANGED << world, diskVars, cfg, active, up, req, acked, crashes >>

\* (bug) what is saved are the settings the call began with.
FetchedOld(a) ==
  /\ call[a].at = "asking"
  /\ \/ /\ cfg.target = call[a].new.target
        /\ BeginSave(a, "fetch", [call[a].new EXCEPT !.models = call[a].new.target])
     \/ call' = [call EXCEPT ![a].at = "idle"] /\ UNCHANGED acked
  /\ UNCHANGED << world, diskVars, cfg, active, up, req, saves, crashes >>

\* The answer is here, however late: the list is saved with the settings of now, if
\* they have the target that was asked.  Or there was no good answer.
Fetched(a) ==
  /\ call[a].at = "asking"
  /\ \/ /\ cfg.target = call[a].new.target
        /\ BeginSave(a, "fetch", [cfg EXCEPT !.models = cfg.target])
     \/ call' = [call EXCEPT ![a].at = "idle"] /\ UNCHANGED acked
  /\ UNCHANGED << world, diskVars, cfg, active, up, req, saves, crashes >>

\* Save: the temporary file.
Write(a) ==
  /\ call[a].at = "write"
  /\ \/ tmp' = call[a].new /\ call' = [call EXCEPT ![a].at = "remove"]
     \/ tmp' \in {tmp, Torn} /\ call' = [call EXCEPT ![a].at = "idle"]
  /\ UNCHANGED << world, file, cfg, active, up, req, acked, saves, crashes >>

\* Save: the old file is removed, or cannot be.
Remove(a) ==
  /\ call[a].at = "remove"
  /\ \/ /\ file' = Absent /\ acked' = Absent
        /\ call' = [call EXCEPT ![a].at = "rename"]
        /\ UNCHANGED tmp
     \/ /\ tmp' = Absent
        /\ call' = [call EXCEPT ![a].at = "idle"]
        /\ UNCHANGED << file, acked >>
  /\ UNCHANGED << world, cfg, active, up, req, saves, crashes >>

\* (bug) a rename that fails goes unnoticed.
RenameUnchecked(a) ==
  /\ call[a].at = "rename"
  /\ \/ /\ tmp # Absent
        /\ file' = tmp
     \/ UNCHANGED file
  /\ tmp' = Absent
  /\ call' = [call EXCEPT ![a].at = "store"]
  /\ UNCHANGED << world, cfg, active, up, req, acked, saves, crashes >>

\* Save: the new file takes its place.  A rename that fails leaves no file at all.
Rename(a) ==
  /\ call[a].at = "rename"
  /\ \/ /\ tmp # Absent
        /\ file' = tmp
        /\ call' = [call EXCEPT ![a].at = "store"]
     \/ /\ call' = [call EXCEPT ![a].at = "idle"]
        /\ UNCHANGED file
  /\ tmp' = Absent
  /\ UNCHANGED << world, cfg, active, up, req, acked, saves, crashes >>

\* Save: the settings in memory.
Store(a) ==
  /\ call[a].at = "store"
  /\ cfg' = call[a].new
  /\ call' = [call EXCEPT ![a].at = "clear"]
  /\ UNCHANGED << world, diskVars, active, up, req, acked, saves, crashes >>

\* Save: settings that switch the provider off end its use, and success is reported.
Clear(a) ==
  /\ call[a].at = "clear"
  /\ active' = (active /\ call[a].new.auto)
  /\ acked' = IF call[a].alone THEN call[a].new ELSE acked
  /\ call' = [call EXCEPT ![a] = NoCall]
  /\ UNCHANGED << world, diskVars, cfg, up, req, saves, crashes >>

-----------------------------------------------------------------------------
\* There is an account to pick, or none.
PoolChanges == up' = ~up /\ UNCHANGED << world, diskVars, cfg, active, call, req, acked, saves, crashes >>

\* (bug) the provider is told only as long as it is switched on.
PickSwitched ==
  /\ up
  /\ active' = (active /\ ~cfg.auto)
  /\ UNCHANGED << world, diskVars, cfg, up, call, req, acked, saves, crashes >>

\* A request picks an account, or the administrator has changed a pool that has one:
\* MarkPrimaryAvailable.
Pick ==
  /\ up
  /\ active' = FALSE
  /\ UNCHANGED << world, diskVars, cfg, up, call, req, acked, saves, crashes >>

\* A request that is over, its goroutine too.
Gone(r) == req[r].net = "none" /\ req[r].body # "open" /\ req[r].ctx # "live"

reqOnly == << world, diskVars, cfg, active, up, call, acked, saves, crashes >>

\* SendResponses: the pool has failed a request, with or without an account.
Send(r) ==
  /\ req[r].at \in {"idle", "done"} /\ Gone(r)
  /\ cfg.auto /\ Complete(cfg.target)
  /\ req' = [req EXCEPT ![r] = [NoReq EXCEPT !.at = "waiting", !.net = "doing", !.ctx = "live"]]
  /\ UNCHANGED reqOnly

\* The goroutine has an answer, or an error, for whoever takes it.
Do(r) ==
  /\ req[r].net = "doing"
  /\ \/ req' = [req EXCEPT ![r].net = "answered", ![r].body = "open"]
     \/ req' = [req EXCEPT ![r].net = "failed"]
  /\ UNCHANGED reqOnly

\* An answer or an error in time.  One that is refused is read and closed, and with
\* the body goes the context.
Take(r) ==
  /\ req[r].at = "waiting"
  /\ \/ req[r].net = "answered" /\ req' = [req EXCEPT ![r].at = "accepted", ![r].net = "none"]
     \/ /\ req[r].net = "answered"
        /\ req' = [req EXCEPT ![r].at = "done", ![r].net = "none", ![r].body = "closed", ![r].ctx = "cancelled"]
     \/ /\ req[r].net = "failed"
        /\ req' = [req EXCEPT ![r].at = "done", ![r].net = "none", ![r].ctx = "cancelled"]
  /\ UNCHANGED reqOnly

\* (bug) nobody waits for the answer of a request that was given up.
GiveUpAlone(r) ==
  /\ req[r].at = "waiting"
  /\ req' = [req EXCEPT ![r].at = "done", ![r].ctx = "cancelled"]
  /\ UNCHANGED reqOnly

\* The headers take too long, or the client is gone: the context is cancelled, and
\* closeProviderDoResult waits for the answer.
GiveUp(r) ==
  /\ req[r].at = "waiting"
  /\ req' = [req EXCEPT ![r].at = "done", ![r].ctx = "cancelled", ![r].closer = TRUE]
  /\ UNCHANGED reqOnly

\* closeProviderDoResult.
Drain(r) ==
  /\ req[r].closer /\ req[r].net \in {"answered", "failed"}
  /\ req' = [req EXCEPT ![r].closer = FALSE, ![r].net = "none",
                        ![r].body = IF @ = "open" THEN "closed" ELSE @]
  /\ UNCHANGED reqOnly

\* markProviderActive, whatever the settings are by now.
Mark(r) ==
  /\ req[r].at = "accepted"
  /\ active' = TRUE
  /\ req' = [req EXCEPT ![r].at = "pumping"]
  /\ UNCHANGED << world, diskVars, cfg, up, call, acked, saves, crashes >>

\* The stream is over: its reader closes it, and that cancels the context.
Close(r) ==
  /\ req[r].at = "pumping"
  /\ req' = [req EXCEPT ![r].at = "done", ![r].body = "closed", ![r].ctx = "cancelled"]
  /\ UNCHANGED reqOnly

-----------------------------------------------------------------------------
\* The process ends and starts again: NewService loads the file.  A file that is
\* not whole would keep it from starting.
Restart ==
  /\ crashes < MaxCrashes /\ crashes' = crashes + 1
  /\ file # Torn
  /\ cfg' = IF file = Absent THEN Default ELSE file
  /\ active' = FALSE
  /\ call' = [a \in Admins |-> NoCall]
  /\ req' = [r \in Requests |-> NoReq]
  /\ UNCHANGED << world, diskVars, up, acked, saves >>

Save(a) == Write(a) \/ Remove(a) \/ Rename(a) \/ Store(a) \/ Clear(a)

Next ==
  \/ \E a \in world.admins : Put(a) \/ Fetch(a) \/ Fetched(a) \/ Save(a)
  \/ \E r \in world.requests : Send(r) \/ Do(r) \/ Take(r) \/ GiveUp(r) \/ Drain(r) \/ Mark(r) \/ Close(r)
  \/ Pick \/ PoolChanges \/ Restart

Spec == Init /\ [][Next]_vars

\* Goroutines run.  The HTTP client returns once its context is cancelled; nothing
\* is assumed of when the provider answers or ends a stream.  Requests keep picking.
FairSpec ==
  /\ Spec
  /\ \A r \in Requests :
       /\ WF_vars(req[r].ctx = "cancelled" /\ Do(r))
       /\ WF_vars(Take(r)) /\ WF_vars(Drain(r)) /\ WF_vars(Mark(r))
  /\ WF_vars(Pick)

-----------------------------------------------------------------------------
\* A save that reported success lasts: its settings are in memory and in the file,
\* through a restart and through saves that fail before they touch the file, as long
\* as saves do not overlap and no other has removed the file.
AcknowledgedLasts == acked # Absent => cfg = acked /\ file = acked

\* A fetch may take long, and the settings may be saved meanwhile.  What it changes
\* in the end is the list of models and nothing else, and it is the list of the
\* target it is stored with, unless another save overlaps with its own.
FetchKeeps ==
  [][\A a \in Admins :
       (call[a].kind = "fetch" /\ call[a].alone /\ Store(a))
         => cfg' = [cfg EXCEPT !.models = cfg.target]]_vars

\* Whoever gives up on the provider leaves nothing behind: sooner or later the answer
\* has been closed, the goroutine is gone and the context is cancelled.
NothingLeft == \A r \in Requests : (req[r].at = "done") ~> Gone(r)

\* Once picks find an account for good, the provider is let go again and again, whoever
\* marks it late, and also when it has been switched off meanwhile.
SwitchedBack == <>[]up => []<>~active
=============================================================================
