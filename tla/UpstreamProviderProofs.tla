------------------------ MODULE UpstreamProviderProofs ------------------------
(***************************************************************************)
(* The settings of the upstream provider, proved: a save that reported     *)
(* success lasts, and a fetch of models changes nothing else.  Both lean   *)
(* on what a save that is alone may count on: nobody touches its files and *)
(* the settings in memory until it is done.                                *)
(***************************************************************************)
EXTENDS UpstreamProvider, TLAPS

\* The settings a fetch saves differ from those in memory in the models alone.
Relisted(c) == [c EXCEPT !.models = c.target]

\* A save that is alone is the only one.
Alone ==
  \A a, b \in Admins :
    a # b /\ call[a].at \in Saving /\ call[b].at \in Saving => ~call[a].alone

\* From the removal of the file on, no save counts as acknowledged.
Underway == \A a \in Admins : call[a].at \in {"rename", "store", "clear"} => acked = Absent

\* What a save that is alone has done so far is still there.
Whole ==
  \A a \in Admins : call[a].alone =>
    /\ call[a].at \in {"remove", "rename"} => tmp = call[a].new
    /\ call[a].at \in {"store", "clear"} => file = call[a].new
    /\ call[a].at = "clear" => cfg = call[a].new

\* A fetch that saves alone holds the settings of now.
Current ==
  \A a \in Admins :
    call[a].alone /\ call[a].kind = "fetch" /\ call[a].at \in Saving \ {"clear"}
      => call[a].new = Relisted(cfg)

\* The types of the settings and of the calls that change them.
Typed ==
  /\ world \in Worlds
  /\ file \in Files /\ tmp \in Files
  /\ cfg \in Configs /\ acked \in Configs \cup {Absent}
  /\ call \in [Admins -> [at : {"idle", "asking"} \cup Saving, kind : {"put", "fetch"},
                          new : Configs, alone : BOOLEAN]]

\* The types of the rest.
Requesting == [at : {"idle", "waiting", "accepted", "pumping", "done"},
               net : {"none", "doing", "answered", "failed"},
               body : {"none", "open", "closed"},
               ctx : {"none", "live", "cancelled"}, closer : BOOLEAN]
Rest ==
  /\ active \in BOOLEAN /\ up \in BOOLEAN
  /\ req \in [Requests -> Requesting]
  /\ saves \in 0..MaxSaves /\ crashes \in 0..MaxCrashes

Inv == Typed /\ Alone /\ Underway /\ Whole /\ Current /\ AcknowledgedLasts

settings == << world, file, tmp, cfg, call, acked >>

-----------------------------------------------------------------------------
LEMMA DefaultTyped == Default \in Configs
BY DEF Default, Configs, Target, Nowhere

LEMMA NoCallTyped ==
  NoCall \in [at : {"idle", "asking"} \cup Saving, kind : {"put", "fetch"}, new : Configs, alone : BOOLEAN]
BY DefaultTyped DEF NoCall

LEMMA AdminsOfWorld == Typed => world.admins \subseteq Admins
BY ProviderAssumption DEF Typed

LEMMA InitInv == Init => Inv
BY DefaultTyped, NoCallTyped, ProviderAssumption
   DEF Init, Inv, Typed, Alone, Underway, Whole, Current, AcknowledgedLasts, Files, NoCall, Saving

LEMMA SameInv == Inv /\ UNCHANGED settings => Inv'
BY DEF Inv, settings, Typed, Alone, Underway, Whole, Current, Relisted, AcknowledgedLasts

\* Only the place of a call changes, to one outside the save.
LEMMA LeaveInv ==
  ASSUME NEW a \in Admins, Inv, call' = [call EXCEPT ![a].at = "idle"],
         tmp' \in Files, tmp' = tmp \/ call[a].at \in Saving,
         UNCHANGED << world, file, cfg, acked >>
  PROVE  Inv'
<1>1. Typed'
  BY DEF Inv, Typed
<1>2. \A b \in Admins : b # a => call'[b] = call[b]
  BY DEF Inv, Typed
<1>3. call'[a].at = "idle" /\ "idle" \notin Saving
  BY DEF Inv, Typed, Saving
<1>4. Alone' /\ Underway'
  BY <1>2, <1>3 DEF Inv, Alone, Underway
<1>5. Whole'
  <2> SUFFICES ASSUME NEW b \in Admins, b # a, call[b].alone, call[b].at \in Saving
               PROVE  /\ tmp' = tmp
                      /\ call[b].at \in {"remove", "rename"} => tmp = call[b].new
                      /\ call[b].at \in {"store", "clear"} => file = call[b].new
                      /\ call[b].at = "clear" => cfg = call[b].new
    BY <1>2, <1>3 DEF Whole, Saving
  <2>1. call[a].at \notin Saving
    BY DEF Inv, Alone
  <2> QED
    BY <2>1 DEF Inv, Whole
<1>6. Current'
  BY <1>2, <1>3 DEF Inv, Current, Relisted
<1> QED
  BY <1>1, <1>4, <1>5, <1>6 DEF Inv, AcknowledgedLasts

-----------------------------------------------------------------------------
LEMMA BeginInv ==
  ASSUME NEW a \in Admins, NEW kind \in {"put", "fetch"}, NEW c \in Configs,
         Inv, BeginSave(a, kind, c), call[a].at \notin Saving,
         kind = "fetch" => c = Relisted(cfg),
         UNCHANGED << world, file, tmp, cfg >>
  PROVE  Inv'
<1>1. Typed'
  BY DEF Inv, Typed, BeginSave, Saving
<1>2. \A b \in Admins : b # a => call'[b].at = call[b].at /\ ~call'[b].alone
  BY DEF Inv, Typed, BeginSave
<1>3. /\ call'[a].at = "write" /\ call'[a].kind = kind /\ call'[a].new = c
      /\ call'[a].alone <=> Others(a) = {}
  BY DEF BeginSave
<1>4. Alone'
  BY <1>2, <1>3 DEF Alone, Others
<1>5. Underway' /\ AcknowledgedLasts'
  BY <1>2, <1>3 DEF Inv, Underway, AcknowledgedLasts, BeginSave
<1>6. Whole' /\ Current'
  BY <1>2, <1>3 DEF Whole, Current, Relisted
<1> QED
  BY <1>1, <1>4, <1>5, <1>6 DEF Inv

LEMMA PutInv == ASSUME NEW a \in Admins, Inv, Put(a) PROVE Inv'
<1>1. PICK i \in Inputs :
        BeginSave(a, "put", [auto |-> i.auto, target |-> WithKey(i.target), models |-> Nowhere])
  BY DEF Put
<1>2. WithKey(i.target) \in Target
  BY ProviderAssumption DEF Inv, Typed, WithKey, Target, Configs
<1>3. [auto |-> i.auto, target |-> WithKey(i.target), models |-> Nowhere] \in Configs
  BY <1>2, ProviderAssumption DEF Configs, Target, Nowhere
<1> QED
  BY <1>1, <1>3, BeginInv DEF Put, diskVars, Saving

LEMMA FetchInv == ASSUME NEW a \in Admins, Inv, Fetch(a) PROVE Inv'
<1>1. PICK t \in {WithKey(i.target) : i \in Inputs} \cup {cfg.target} :
        call' = [call EXCEPT ![a].at = "asking", ![a].new = [cfg EXCEPT !.target = t]]
  BY DEF Fetch
<1>2. t \in Target
  BY ProviderAssumption DEF Inv, Typed, WithKey, Target, Configs
<1>3. [cfg EXCEPT !.target = t] \in Configs
  BY <1>2 DEF Inv, Typed, Configs
<1>4. Typed'
  <2> DEFINE new == [cfg EXCEPT !.target = t]
  <2>1. new \in Configs
    BY <1>3
  <2>2. call' = [call EXCEPT ![a].at = "asking", ![a].new = new]
    BY <1>1
  <2> HIDE DEF new
  <2>3. call' \in [Admins -> [at : {"idle", "asking"} \cup Saving, kind : {"put", "fetch"},
                             new : Configs, alone : BOOLEAN]]
    BY <2>1, <2>2 DEF Inv, Typed
  <2> QED
    BY <2>3 DEF Inv, Typed, Fetch, diskVars
<1>5. /\ \A b \in Admins : b # a => call'[b] = call[b]
      /\ call'[a].at = "asking" /\ "asking" \notin Saving
  BY <1>1 DEF Inv, Typed, Saving
<1>6. UNCHANGED << file, tmp, cfg, acked >>
  BY DEF Fetch, diskVars
<1>7. Alone' /\ Underway' /\ AcknowledgedLasts'
  BY <1>5, <1>6 DEF Inv, Alone, Underway, AcknowledgedLasts
<1>8. Whole' /\ Current'
  BY <1>5, <1>6 DEF Inv, Whole, Current, Relisted, Saving
<1> QED
  BY <1>4, <1>7, <1>8 DEF Inv

LEMMA FetchedInv == ASSUME NEW a \in Admins, Inv, Fetched(a) PROVE Inv'
<1>1. CASE BeginSave(a, "fetch", [cfg EXCEPT !.models = cfg.target])
  <2>1. [cfg EXCEPT !.models = cfg.target] \in Configs
    BY DEF Inv, Typed, Configs
  <2> QED
    BY <1>1, <2>1, BeginInv DEF Fetched, diskVars, Saving, Relisted
<1>2. CASE call' = [call EXCEPT ![a].at = "idle"] /\ UNCHANGED acked
  BY <1>2, LeaveInv DEF Fetched, diskVars, Inv, Typed
<1> QED
  BY <1>1, <1>2 DEF Fetched

-----------------------------------------------------------------------------
\* A save goes on to its next step.
LEMMA GoesOn ==
  ASSUME NEW a \in Admins, NEW s \in Saving, Inv, call[a].at \in Saving,
         call' = [call EXCEPT ![a].at = s]
  PROVE  /\ call' \in [Admins -> [at : {"idle", "asking"} \cup Saving, kind : {"put", "fetch"},
                                  new : Configs, alone : BOOLEAN]]
         /\ call'[a].at = s /\ call'[a].kind = call[a].kind
         /\ call'[a].new = call[a].new /\ call'[a].alone = call[a].alone
         /\ \A b \in Admins : b # a => call'[b] = call[b] /\ (call[b].at \in Saving => ~call[b].alone)
         /\ \A b \in Admins : b # a /\ call'[b].alone => call'[b].at \notin {"remove", "rename", "store", "clear"}
         /\ Alone'
<1>1. /\ call' \in [Admins -> [at : {"idle", "asking"} \cup Saving, kind : {"put", "fetch"},
                               new : Configs, alone : BOOLEAN]]
      /\ call'[a].at = s /\ call'[a].kind = call[a].kind
      /\ call'[a].new = call[a].new /\ call'[a].alone = call[a].alone
      /\ \A b \in Admins : b # a => call'[b] = call[b]
  BY DEF Inv, Typed
<1>2. \A b \in Admins : b # a => (call[b].at \in Saving => ~call[b].alone)
  BY DEF Inv, Alone
<1>3. \A b \in Admins : b # a /\ call'[b].alone => call'[b].at \notin {"remove", "rename", "store", "clear"}
  BY <1>1, <1>2 DEF Saving
<1>4. Alone'
  BY <1>1 DEF Inv, Alone
<1> QED
  BY <1>1, <1>2, <1>3, <1>4

\* What is left of Whole when one save goes on.
LEMMA WholeOf ==
  ASSUME NEW a \in Admins,
         \A b \in Admins : b # a /\ call'[b].alone => call'[b].at \notin {"remove", "rename", "store", "clear"},
         call'[a].alone =>
           /\ call'[a].at \in {"remove", "rename"} => tmp' = call'[a].new
           /\ call'[a].at \in {"store", "clear"} => file' = call'[a].new
           /\ call'[a].at = "clear" => cfg' = call'[a].new
  PROVE  Whole'
BY DEF Whole

LEMMA WriteInv == ASSUME NEW a \in Admins, Inv, Write(a) PROVE Inv'
<1>1. call[a].at = "write" /\ call[a].at \in Saving /\ "remove" \in Saving
  BY DEF Write, Saving
<1>2. CASE tmp' = call[a].new /\ call' = [call EXCEPT ![a].at = "remove"]
  <2>1. Typed'
    BY <1>1, <1>2, GoesOn DEF Write, Inv, Typed, Files
  <2>2. Alone' /\ Underway' /\ AcknowledgedLasts'
    BY <1>1, <1>2, GoesOn DEF Write, Inv, Underway, AcknowledgedLasts
  <2>3. Whole'
    <3>1. call'[a].at = "remove" /\ tmp' = call'[a].new
      BY <1>1, <1>2, GoesOn
    <3>2. \A b \in Admins : b # a /\ call'[b].alone => call'[b].at \notin {"remove", "rename", "store", "clear"}
      BY <1>1, <1>2, GoesOn
    <3> QED
      BY <3>1, <3>2, WholeOf
  <2>4. Current'
    BY <1>1, <1>2, GoesOn DEF Write, Inv, Current, Relisted, Saving
  <2> QED
    BY <2>1, <2>2, <2>3, <2>4 DEF Inv
<1>3. CASE tmp' \in {tmp, Torn} /\ call' = [call EXCEPT ![a].at = "idle"]
  <2>1. tmp' \in Files
    BY <1>3 DEF Inv, Typed, Files
  <2> QED
    BY <1>1, <1>3, <2>1, LeaveInv DEF Write
<1> QED
  BY <1>2, <1>3 DEF Write

LEMMA RemoveInv == ASSUME NEW a \in Admins, Inv, Remove(a) PROVE Inv'
<1>1. call[a].at = "remove" /\ call[a].at \in Saving /\ "rename" \in Saving
  BY DEF Remove, Saving
<1>2. CASE /\ file' = Absent /\ acked' = Absent /\ UNCHANGED tmp
           /\ call' = [call EXCEPT ![a].at = "rename"]
  <2>1. Typed'
    BY <1>1, <1>2, GoesOn DEF Remove, Inv, Typed, Files
  <2>2. Alone' /\ Underway' /\ AcknowledgedLasts'
    BY <1>1, <1>2, GoesOn DEF Underway, AcknowledgedLasts
  <2>3. call[a].alone => tmp = call[a].new
    BY <1>1 DEF Inv, Whole
  <2>5. Whole'
    <3>1. call'[a].at = "rename" /\ (call'[a].alone => tmp' = call'[a].new)
      BY <1>1, <1>2, <2>3, GoesOn
    <3>2. \A b \in Admins : b # a /\ call'[b].alone => call'[b].at \notin {"remove", "rename", "store", "clear"}
      BY <1>1, <1>2, GoesOn
    <3> QED
      BY <3>1, <3>2, WholeOf
  <2>4. Current'
    BY <1>1, <1>2, GoesOn DEF Remove, Inv, Current, Relisted, Saving
  <2> QED
    BY <2>1, <2>2, <2>5, <2>4 DEF Inv
<1>3. CASE /\ tmp' = Absent /\ UNCHANGED << file, acked >>
           /\ call' = [call EXCEPT ![a].at = "idle"]
  <2>1. tmp' \in Files
    BY <1>3 DEF Files
  <2> QED
    BY <1>1, <1>3, <2>1, LeaveInv DEF Remove
<1> QED
  BY <1>2, <1>3 DEF Remove

LEMMA RenameInv == ASSUME NEW a \in Admins, Inv, Rename(a) PROVE Inv'
<1>1. call[a].at = "rename" /\ call[a].at \in Saving /\ "store" \in Saving
  BY DEF Rename, Saving
<1>2. CASE file' = tmp /\ call' = [call EXCEPT ![a].at = "store"]
  <2>1. Typed'
    BY <1>1, <1>2, GoesOn DEF Rename, Inv, Typed, Files
  <2>2. acked = Absent
    BY <1>1 DEF Inv, Underway
  <2>3. Alone' /\ Underway' /\ AcknowledgedLasts'
    BY <1>1, <1>2, <2>2, GoesOn DEF Rename, Underway, AcknowledgedLasts
  <2>4. call[a].alone => tmp = call[a].new
    BY <1>1 DEF Inv, Whole
  <2>6. Whole'
    <3>1. call'[a].at = "store" /\ (call'[a].alone => file' = call'[a].new)
      BY <1>1, <1>2, <2>4, GoesOn
    <3>2. \A b \in Admins : b # a /\ call'[b].alone => call'[b].at \notin {"remove", "rename", "store", "clear"}
      BY <1>1, <1>2, GoesOn
    <3> QED
      BY <3>1, <3>2, WholeOf
  <2>5. Current'
    BY <1>1, <1>2, GoesOn DEF Rename, Inv, Current, Relisted, Saving
  <2> QED
    BY <2>1, <2>3, <2>6, <2>5 DEF Inv
<1>3. CASE UNCHANGED file /\ call' = [call EXCEPT ![a].at = "idle"]
  <2>1. tmp' \in Files
    BY DEF Rename, Files
  <2> QED
    BY <1>1, <1>3, <2>1, LeaveInv DEF Rename
<1> QED
  BY <1>2, <1>3 DEF Rename

LEMMA StoreInv == ASSUME NEW a \in Admins, Inv, Store(a) PROVE Inv'
<1>1. call[a].at = "store" /\ call[a].at \in Saving /\ "clear" \in Saving
  BY DEF Store, Saving
<1>2. call' = [call EXCEPT ![a].at = "clear"] /\ cfg' = call[a].new /\ UNCHANGED << world, file, tmp, acked >>
  BY DEF Store, diskVars
<1>3. Typed'
  BY <1>1, <1>2, GoesOn DEF Inv, Typed
<1>4. acked = Absent
  BY <1>1 DEF Inv, Underway
<1>5. Alone' /\ Underway' /\ AcknowledgedLasts'
  BY <1>1, <1>2, <1>4, GoesOn DEF Underway, AcknowledgedLasts
<1>6. call[a].alone => file = call[a].new
  BY <1>1 DEF Inv, Whole
<1>8. Whole'
  <2>1. call'[a].at = "clear" /\ (call'[a].alone => file' = call'[a].new /\ cfg' = call'[a].new)
    BY <1>1, <1>2, <1>6, GoesOn
  <2>2. \A b \in Admins : b # a /\ call'[b].alone => call'[b].at \notin {"remove", "rename", "store", "clear"}
    BY <1>1, <1>2, GoesOn
  <2> QED
    BY <2>1, <2>2, WholeOf
<1>7. Current'
  BY <1>1, <1>2, GoesOn DEF Current, Relisted, Saving
<1> QED
  BY <1>3, <1>5, <1>8, <1>7 DEF Inv

LEMMA ClearInv == ASSUME NEW a \in Admins, Inv, Clear(a) PROVE Inv'
<1>1. call[a].at = "clear" /\ call[a].at \in Saving
  BY DEF Clear, Saving
<1>2. /\ call' = [call EXCEPT ![a] = NoCall]
      /\ acked' = IF call[a].alone THEN call[a].new ELSE acked
      /\ UNCHANGED << world, file, tmp, cfg >>
  BY DEF Clear, diskVars
<1>3. Typed'
  BY <1>2, NoCallTyped DEF Inv, Typed
<1>4. /\ \A b \in Admins : b # a => call'[b] = call[b]
      /\ call'[a].at = "idle" /\ "idle" \notin Saving
  BY <1>2 DEF Inv, Typed, NoCall, Saving
<1>5. Alone'
  BY <1>4 DEF Inv, Alone
<1>6. call[a].alone => cfg = call[a].new /\ file = call[a].new
  BY <1>1 DEF Inv, Whole
<1>7. AcknowledgedLasts'
  BY <1>2, <1>6 DEF Inv, AcknowledgedLasts
<1>8. Underway'
  <2> SUFFICES ASSUME NEW b \in Admins, b # a, call[b].at \in {"rename", "store", "clear"}
               PROVE  acked' = Absent
    BY <1>4 DEF Underway, Saving
  <2>1. ~call[a].alone
    BY <1>1 DEF Inv, Alone, Saving
  <2> QED
    BY <1>2, <2>1 DEF Inv, Underway
<1>9. Whole' /\ Current'
  BY <1>2, <1>4 DEF Inv, Whole, Current, Relisted, Saving
<1> QED
  BY <1>3, <1>5, <1>7, <1>8, <1>9 DEF Inv

LEMMA RestartInv == Inv /\ Restart => Inv'
<1> SUFFICES ASSUME Inv, Restart PROVE Inv'
  OBVIOUS
<1>1. Typed'
  BY NoCallTyped, DefaultTyped DEF Restart, Inv, Typed, Files, diskVars
<1>2. \A a \in Admins : call'[a].at = "idle"
  BY DEF Restart, NoCall
<1>3. Alone' /\ Underway' /\ Whole' /\ Current'
  BY <1>2 DEF Alone, Underway, Whole, Current, Saving
<1>4. AcknowledgedLasts'
  BY DEF Restart, Inv, AcknowledgedLasts, diskVars
<1> QED
  BY <1>1, <1>3, <1>4 DEF Inv

-----------------------------------------------------------------------------
LEMMA NextInv == Inv /\ [Next]_vars => Inv'
<1> SUFFICES ASSUME Inv, [Next]_vars PROVE Inv'
  OBVIOUS
<1> USE AdminsOfWorld DEF Inv
<1>1. ASSUME NEW a \in world.admins, Put(a) PROVE Inv'
  BY <1>1, PutInv
<1>2. ASSUME NEW a \in world.admins, Fetch(a) \/ Fetched(a) PROVE Inv'
  BY <1>2, FetchInv, FetchedInv
<1>3. ASSUME NEW a \in world.admins, Save(a) PROVE Inv'
  BY <1>3, WriteInv, RemoveInv, RenameInv, StoreInv, ClearInv DEF Save
<1>4. ASSUME NEW r \in world.requests,
             Send(r) \/ Do(r) \/ Take(r) \/ GiveUp(r) \/ Drain(r) \/ Mark(r) \/ Close(r)
      PROVE  Inv'
  <2>1. UNCHANGED settings
    BY <1>4 DEF Send, Do, Take, GiveUp, Drain, Mark, Close, reqOnly, diskVars, settings
  <2> QED
    BY <2>1, SameInv
<1>5. ASSUME Pick \/ PoolChanges \/ UNCHANGED vars PROVE Inv'
  <2>1. UNCHANGED settings
    BY <1>5 DEF Pick, PoolChanges, diskVars, vars, settings
  <2> QED
    BY <2>1, SameInv
<1> QED
  BY <1>1, <1>2, <1>3, <1>4, <1>5, RestartInv DEF Next

\* The invariant of the settings.
LEMMA Invariance == Spec => []Inv
BY InitInv, NextInv, PTL DEF Spec

\* A request takes a step of its own.
LEMMA RequestRest ==
  ASSUME NEW r \in Requests, Rest,
         Send(r) \/ Do(r) \/ Take(r) \/ GiveUp(r) \/ Drain(r) \/ Mark(r) \/ Close(r)
  PROVE  Rest'
<1>1. req[r] \in Requesting
  BY DEF Rest
<1>2. PICK q \in Requesting : req' = [req EXCEPT ![r] = q]
  <2>1. CASE Send(r)
    BY <2>1 DEF Send, NoReq, Requesting
  <2>2. CASE Do(r)
    <3>1. [req[r] EXCEPT !.net = "answered", !.body = "open"] \in Requesting
      BY <1>1 DEF Requesting
    <3>2. [req[r] EXCEPT !.net = "failed"] \in Requesting
      BY <1>1 DEF Requesting
    <3>3. \/ req' = [req EXCEPT ![r] = [req[r] EXCEPT !.net = "answered", !.body = "open"]]
          \/ req' = [req EXCEPT ![r] = [req[r] EXCEPT !.net = "failed"]]
      BY <2>2, Zenon DEF Do
    <3> QED
      BY <3>1, <3>2, <3>3, Zenon
  <2>3. CASE Take(r)
    BY <1>1, <2>3 DEF Take, Requesting
  <2>4. CASE GiveUp(r)
    BY <1>1, <2>4 DEF GiveUp, Requesting
  <2>5. CASE Drain(r)
    <3>1. [req[r] EXCEPT !.closer = FALSE, !.net = "none",
                         !.body = IF req[r].body = "open" THEN "closed" ELSE req[r].body] \in Requesting
      BY <1>1 DEF Requesting
    <3>2. req' = [req EXCEPT ![r] = [req[r] EXCEPT !.closer = FALSE, !.net = "none",
                         !.body = IF req[r].body = "open" THEN "closed" ELSE req[r].body]]
      BY <2>5, Zenon DEF Drain
    <3> QED
      BY <3>1, <3>2, Zenon
  <2>6. CASE Mark(r)
    BY <1>1, <2>6 DEF Mark, Requesting
  <2>7. CASE Close(r)
    BY <1>1, <2>7 DEF Close, Requesting
  <2> QED
    BY <2>1, <2>2, <2>3, <2>4, <2>5, <2>6, <2>7
<1>3. UNCHANGED << up, saves, crashes >> /\ active' \in BOOLEAN
  BY DEF Rest, Send, Do, Take, GiveUp, Drain, Mark, Close, reqOnly
<1> QED
  BY <1>2, <1>3 DEF Rest

LEMMA NextRest == Inv /\ Rest /\ [Next]_vars => Rest'
<1> SUFFICES ASSUME Inv, Rest, [Next]_vars PROVE Rest'
  OBVIOUS
<1>1. ASSUME NEW a \in world.admins, Put(a) \/ Fetch(a) PROVE Rest'
  BY <1>1, ProviderAssumption DEF Put, Fetch, Rest
<1>2. ASSUME NEW a \in world.admins, Fetched(a) PROVE Rest'
  BY <1>2 DEF Fetched, Rest
<1>3. ASSUME NEW a \in world.admins, Write(a) \/ Remove(a) \/ Rename(a) \/ Store(a) PROVE Rest'
  BY <1>3 DEF Write, Remove, Rename, Store, Rest
<1>4. ASSUME NEW a \in world.admins, Clear(a) PROVE Rest'
  BY <1>4 DEF Clear, Rest
<1>5. ASSUME NEW r \in world.requests,
             Send(r) \/ Do(r) \/ Take(r) \/ GiveUp(r) \/ Drain(r) \/ Mark(r) \/ Close(r)
      PROVE  Rest'
  <2>1. r \in Requests
    BY ProviderAssumption DEF Inv, Typed
  <2> QED
    BY <1>5, <2>1, RequestRest
<1>6. ASSUME Pick \/ PoolChanges \/ UNCHANGED vars PROVE Rest'
  BY <1>6 DEF Pick, PoolChanges, vars, Rest
<1>7. ASSUME Restart PROVE Rest'
  <2>1. NoReq \in Requesting
    BY DEF NoReq, Requesting
  <2>2. MaxCrashes \in Nat
    BY ProviderAssumption
  <2>3. crashes' \in 0..MaxCrashes
    BY <1>7, <2>2 DEF Restart, Rest
  <2>4. req' \in [Requests -> Requesting]
    BY <1>7, <2>1 DEF Restart
  <2> QED
    BY <1>7, <2>3, <2>4 DEF Restart, Rest
<1> QED
  BY <1>1, <1>2, <1>3, <1>4, <1>5, <1>6, <1>7 DEF Next, Save

\* The variables keep their types.
THEOREM TypeCorrect == Spec => []TypeOK
<1>1. Init => Rest
  <2>1. NoReq \in Requesting
    BY DEF NoReq, Requesting
  <2>2. MaxSaves \in Nat /\ MaxCrashes \in Nat
    BY ProviderAssumption
  <2>3. Init => saves \in 0..MaxSaves /\ crashes \in 0..MaxCrashes
    BY <2>2 DEF Init
  <2> QED
    BY <2>1, <2>3 DEF Init, Rest
<1>2. Spec => []Rest
  BY <1>1, NextRest, Invariance, PTL DEF Spec
<1>3. Inv /\ Rest => TypeOK
  BY DEF Inv, Typed, Rest, Requesting, TypeOK
<1> QED
  BY <1>2, <1>3, Invariance, PTL

\* A save that reported success lasts (provider.go:151).
THEOREM SavesLast == Spec => []AcknowledgedLasts
<1>1. Inv => AcknowledgedLasts
  BY DEF Inv
<1> QED
  BY <1>1, Invariance, PTL

\* A fetch changes the models alone, of the target they came from (upstream_provider.go:107).
THEOREM FetchesKeep == Spec => FetchKeeps
<1>1. Inv => \A a \in Admins :
                (call[a].kind = "fetch" /\ call[a].alone /\ Store(a))
                  => cfg' = [cfg EXCEPT !.models = cfg.target]
  BY DEF Inv, Current, Store, Relisted, Saving
<1> QED
  BY <1>1, Invariance, PTL DEF FetchKeeps
=============================================================================
