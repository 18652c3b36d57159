------------------------------ MODULE StreamRelay ------------------------------
(***************************************************************************)
(* Relaying the upstream's answer to the client                            *)
(* (internal/executor/stream.go and provider.go, internal/handler/         *)
(* fallback.go and claude.go).  A response that breaks off before the      *)
(* client has a byte of it is replaced by another one: inside a pump, by   *)
(* another round of the bridge around it, by the upstream provider, by the *)
(* standby pool.  The client may be told the answer by one response only.  *)
(*                                                                         *)
(* Opening a response stands for the whole of RequestRetry: it is answered,*)
(* refused, or fails.                                                      *)
(***************************************************************************)
EXTENDS Naturals

CONSTANTS
  Worlds,        \* the endpoint and what the deployment has
  MaxRetry,      \* max-retry
  EmptyRetryMax  \* empty-retry-max

\* The pumps: chat completions, /responses with and without the filter for partial
\* images, Claude messages; and the collections for clients that want no stream.
Modes == {"chat", "raw", "filtered", "claude", "collect", "claudeCollect"}

ASSUME RelayAssumption ==
  /\ Worlds \subseteq [mode : Modes, provider : BOOLEAN, standby : BOOLEAN, fan : BOOLEAN]
  /\ MaxRetry \in Nat
  /\ EmptyRetryMax \in Nat

VARIABLES
  world,   \* fixed: mode, is there a provider, a standby pool, a fan-out after 429?
  req,     \* where the request stands
  client,  \* is the client there?
  live,    \* response bodies that are open
  opens,   \* history: calls of sendWithRetry and SendResponses
  voice,   \* history: what the client's bytes come from, seen from the response at hand
  mixed,   \* history: does the client have bytes of two responses?
  outcome  \* of the request

vars == << world, req, client, live, opens, voice, mixed, outcome >>

\* codexStreamPumpRounds, CodexStreamOpenBridgeMax, readRounds.
PumpRounds == MaxRetry + 2
Bridges == MaxRetry + 2
ReadRounds == IF EmptyRetryMax = 0 THEN 2 ELSE EmptyRetryMax + 1
\* Each bridge of a pool pumps so many times, each time opening so often; the
\* provider is asked once.
Opens == 2 * Bridges * PumpRounds * ReadRounds + 1

Stages == {"primary", "provider", "standby"}
Places == {"open", "probe", "pump", "bridge", "stage", "done"}
\* A refusal (StatusError that no other account may answer better), a failure to
\* open that is worth a retry, one that is not, a cancelled context, a broken
\* stream, one without content.
Errors == {"none", "refused", "retry", "stop", "canceled", "read", "empty"}

Requests == [at : Places, stage : Stages, bridge : 0..Bridges, round : 0..PumpRounds,
             read : 0..ReadRounds, reopens : BOOLEAN, chunks : BOOLEAN, counted : BOOLEAN,
             err : Errors, pumped : BOOLEAN]
Begin == [at |-> "open", stage |-> "primary", bridge |-> 0, round |-> 0, read |-> 1,
          reopens |-> FALSE, chunks |-> FALSE, counted |-> FALSE, err |-> "none", pumped |-> FALSE]

TypeOK ==
  /\ world \in Worlds /\ req \in Requests /\ client \in BOOLEAN /\ live \in Nat
  /\ opens \in 0..Opens /\ voice \in {"none", "this", "other"} /\ mixed \in BOOLEAN
  /\ outcome \in {"open", "answered", "refused", "failed"}

Init ==
  /\ world \in Worlds
  /\ req = Begin
  /\ client = TRUE
  /\ live = 0
  /\ opens = 0
  /\ voice = "none"
  /\ mixed = FALSE
  /\ outcome = "open"

tellVars == << voice, mixed >>
outVars  == << opens, tellVars, outcome >>

Pool == req.stage # "provider"

-----------------------------------------------------------------------------
\* The stream could not be opened: the caller is the bridge, or a pump that wanted
\* another response.  That pump returns what it had, except the collector, which
\* returns the new failure.
OpenFails(e) ==
  req' = [req EXCEPT !.at = "bridge", !.pumped = req.reopens, !.reopens = FALSE,
                     !.err = IF ~req.reopens \/ world.mode \in {"collect", "claudeCollect"} THEN e ELSE req.err]

\* openResponsesBody: a request to the pool, or to the provider.
Open ==
  /\ req.at = "open"
  /\ opens' = opens + 1
  /\ \/ /\ req' = [req EXCEPT !.at = "probe"]
        /\ live' = live + 1
        /\ voice' = IF voice = "this" THEN "other" ELSE voice
     \/ \E e \in {"refused", "retry", "stop"} : OpenFails(e) /\ UNCHANGED << live, voice >>
  /\ UNCHANGED << world, client, mixed, outcome >>

\* (bug) the body of a response that is given up stays open.
ProbeKept ==
  /\ req.at = "probe"
  /\ \/ req' = [req EXCEPT !.at = "pump", !.reopens = FALSE, !.chunks = FALSE] /\ UNCHANGED live
     \/ /\ Pool /\ req.read < ReadRounds
        /\ req' = [req EXCEPT !.at = "open", !.read = @ + 1]
        /\ UNCHANGED live
     \/ \E e \in {"stop", "retry", "canceled"} :
          /\ e = "retry" => ~Pool \/ req.read = ReadRounds
          /\ e = "canceled" => Pool /\ world.fan
          /\ OpenFails(e)
          /\ live' = live - 1
  /\ UNCHANGED << world, client, outVars >>

\* probeResponsesBody: the first lines are read.  A used-up quota, an empty body or
\* a read error that is worth a retry open the next one, as often as allowed; in
\* the end a quota message goes to the client as it is.
Probe ==
  /\ req.at = "probe"
  /\ \/ req' = [req EXCEPT !.at = "pump", !.reopens = FALSE, !.chunks = FALSE] /\ UNCHANGED live
     \/ /\ Pool /\ req.read < ReadRounds
        /\ req' = [req EXCEPT !.at = "open", !.read = @ + 1]
        /\ live' = live - 1
     \/ \E e \in {"stop", "retry", "canceled"} :
          /\ e = "retry" => ~Pool \/ req.read = ReadRounds
          /\ e = "canceled" => Pool /\ world.fan
          /\ OpenFails(e)
          /\ live' = live - 1
  /\ UNCHANGED << world, client, outVars >>

-----------------------------------------------------------------------------
\* Bytes for the client.  A write to a client that is gone fails, or stays in a
\* buffer.
Tells(counted) ==
  /\ IF client
     THEN counted = TRUE /\ voice' = "this" /\ mixed' = (mixed \/ voice = "other")
     ELSE counted \in {req.counted, TRUE} /\ UNCHANGED tellVars

\* A pump gives its result to the bridge.
Returns(e) ==
  /\ live' = live - 1
  /\ outcome' = IF e = "none" THEN "answered" ELSE outcome
  /\ req' = [req EXCEPT !.at = IF e = "none" THEN "done" ELSE "bridge", !.err = e, !.pumped = TRUE]

\* The pump of the provider has one round.
CanReopen == Pool /\ req.round + 1 < PumpRounds

\* What a pump does that has told the client nothing: it replaces its response as
\* long as it may.
Replaces(e) ==
  IF CanReopen
  THEN /\ live' = live - 1
       /\ req' = [req EXCEPT !.at = "open", !.reopens = TRUE, !.round = @ + 1, !.read = 1, !.err = e]
       /\ UNCHANGED outcome
  ELSE Returns(e)

Collects == {"collect", "claudeCollect"}

\* A line, or a block, that the pump tells the client.  The pumps that translate
\* do not look at whether a write succeeds.
Line ==
  /\ req.at = "pump" /\ world.mode \notin Collects
  /\ \E counted \in BOOLEAN :
       /\ Tells(counted)
       /\ world.mode \in {"raw", "filtered"} => counted
       /\ req' = [req EXCEPT !.chunks = TRUE, !.counted = counted]
  /\ UNCHANGED << world, client, live, opens, outcome >>

\* A write of the /responses pumps fails.  The filtering one takes that for a
\* stream that broke off.
WriteFails ==
  /\ req.at = "pump" /\ ~client
  /\ \/ world.mode = "raw" /\ Returns("read")
     \/ /\ world.mode = "filtered"
        /\ IF req.chunks THEN Returns("read") ELSE Replaces("read")
  /\ UNCHANGED << world, client, opens, tellVars >>

\* (bug) a response that broke off is replaced whatever it has told.
EndUncounted(e) ==
  /\ req.at = "pump" /\ world.mode \in {"chat", "raw", "filtered"}
  /\ world.mode = "raw" => req.chunks
  /\ \/ e = "empty" /\ req.chunks /\ Returns("none")
     \/ (e = "read" \/ ~req.chunks) /\ Replaces(e)
  /\ UNCHANGED << world, client, opens, tellVars >>

\* PumpChatCompletion and PumpRawSSE: the response ends, or breaks off (e = "read").
\* If it has told nothing, another takes its place.  The raw pump tells at once
\* what the probe has read.
End(e) ==
  /\ req.at = "pump" /\ world.mode \in {"chat", "raw", "filtered"}
  /\ world.mode = "raw" => req.chunks
  /\ \/ /\ e = "empty" /\ req.chunks
        /\ IF world.mode = "chat" THEN \E counted \in BOOLEAN : Tells(counted) ELSE UNCHANGED tellVars
        /\ Returns("none")
     \/ e = "read" /\ req.chunks /\ Returns(e) /\ UNCHANGED tellVars
     \/ ~req.chunks /\ Replaces(e) /\ UNCHANGED tellVars
  /\ UNCHANGED << world, client, opens >>

\* pumpClaudeCodexSSE: it replaces nothing itself; it closes for the client what
\* ends without the last event.
EndClaude(e) ==
  /\ req.at = "pump" /\ world.mode = "claude"
  /\ \/ /\ e = "empty" /\ req.chunks
        /\ \E counted \in BOOLEAN : Tells(counted)
        /\ Returns("none")
     \/ (e = "read" \/ ~req.chunks) /\ Returns(e) /\ UNCHANGED tellVars
  /\ UNCHANGED << world, client, opens >>

\* CollectUntilCompleted: the response ends before its last event, or breaks off.
EndCollect(e) ==
  /\ req.at = "pump" /\ world.mode \in Collects
  /\ Replaces(e)
  /\ UNCHANGED << world, client, opens, tellVars >>

\* ExecuteNonStream: the collected response is turned into one answer.  One without
\* content is a failure of the stage.
Collected ==
  /\ req.at = "pump" /\ world.mode = "collect"
  /\ live' = live - 1
  /\ \/ /\ \E counted \in BOOLEAN : Tells(counted)
        /\ outcome' = "answered"
        /\ req' = [req EXCEPT !.at = "done", !.err = "none"]
     \/ /\ req' = [req EXCEPT !.at = "stage", !.err = "empty"]
        /\ UNCHANGED << outcome, tellVars >>
  /\ UNCHANGED << world, client, opens >>

\* executeClaudeNonStream looks at the content behind the stages: one without it is
\* a failure of the request.
CollectedClaude ==
  /\ req.at = "pump" /\ world.mode = "claudeCollect"
  /\ live' = live - 1
  /\ \/ /\ \E counted \in BOOLEAN : Tells(counted)
        /\ outcome' = "answered"
        /\ req' = [req EXCEPT !.at = "done", !.err = "none"]
     \/ /\ outcome' = "failed"
        /\ req' = [req EXCEPT !.at = "done", !.err = "empty"]
        /\ UNCHANGED tellVars
  /\ UNCHANGED << world, client, opens >>

\* (bug) a response whose context was cancelled counts as told.
CanceledSilent ==
  /\ req.at = "pump" /\ Pool /\ world.fan
  /\ world.mode = "raw" => req.chunks
  /\ Returns(IF world.mode \in {"chat", "raw", "filtered"} THEN "none" ELSE "canceled")
  /\ UNCHANGED << world, client, opens, tellVars >>

\* The context of the response was cancelled: the fan-out after a 429 has opened it.
\* What has been told is left as it is.
Canceled ==
  /\ req.at = "pump" /\ Pool /\ world.fan
  /\ world.mode = "raw" => req.chunks
  /\ Returns(IF req.chunks /\ world.mode \in {"chat", "raw", "filtered"} THEN "none" ELSE "canceled")
  /\ UNCHANGED << world, client, opens, tellVars >>

-----------------------------------------------------------------------------
\* IsRetryableOpenCodexError, and IsRetryableStreamPumpForBridge.
Bridgeable == IF req.pumped THEN req.err # "canceled" ELSE req.err = "retry"

\* The counts of a new response.
Anew(r) ==
  [r EXCEPT !.at = "open", !.round = 0, !.read = 1, !.chunks = FALSE, !.err = "none", !.pumped = FALSE]

\* (bug) one bridge too many.
BridgeMore ==
  /\ req.at = "bridge"
  /\ req' = IF Pool /\ ~req.counted /\ Bridgeable /\ req.bridge < Bridges
            THEN [Anew(req) EXCEPT !.bridge = @ + 1]
            ELSE [req EXCEPT !.at = "stage"]
  /\ UNCHANGED << world, client, live, outVars >>

\* RunCodexStreamWithOpenBridges, collectResponsesSSE: the whole is tried again
\* while the client has nothing.
Bridge ==
  /\ req.at = "bridge"
  /\ req' = IF Pool /\ ~req.counted /\ Bridgeable /\ req.bridge + 1 < Bridges
            THEN [Anew(req) EXCEPT !.bridge = @ + 1]
            ELSE [req EXCEPT !.at = "stage"]
  /\ UNCHANGED << world, client, live, outVars >>

Enter(stage) == req' = [Anew(req) EXCEPT !.stage = stage, !.bridge = 0, !.counted = FALSE] /\ UNCHANGED outcome

GivesUp ==
  /\ req' = [req EXCEPT !.at = "done"]
  /\ outcome' = IF req.err = "refused" THEN "refused" ELSE "failed"

\* runCodexStreamWithFallback and its like: after the primary pool, unless the
\* client has something or the request was refused, the provider, then the standby
\* pool.
Stage ==
  /\ req.at = "stage"
  /\ LET on == ~req.counted /\ (req.stage = "primary" => req.err # "refused")
     IN CASE on /\ req.stage = "primary" /\ world.provider -> Enter("provider")
          [] on /\ world.standby /\ (req.stage = "provider" \/ (req.stage = "primary" /\ ~world.provider))
             -> Enter("standby")
          [] OTHER -> GivesUp
  /\ UNCHANGED << world, client, live, opens, tellVars >>

\* The next request.
Again ==
  /\ req.at = "done"
  /\ req' = Begin /\ client' = TRUE /\ live' = 0
  /\ opens' = 0 /\ voice' = "none" /\ mixed' = FALSE /\ outcome' = "open"
  /\ UNCHANGED world

\* The client goes; nobody tells the request.
Leave ==
  /\ client /\ req.at # "done"
  /\ client' = FALSE
  /\ UNCHANGED << world, req, live, outVars >>

Next ==
  \/ Open \/ Probe \/ Line \/ WriteFails \/ Collected \/ CollectedClaude \/ Canceled
  \/ \E e \in {"empty", "read"} : End(e) \/ EndClaude(e) \/ EndCollect(e)
  \/ Bridge \/ Stage \/ Again \/ Leave

Spec == Init /\ [][Next]_vars

-----------------------------------------------------------------------------
\* stream.go:594, 887, fallback.go:99: whatever breaks off and is replaced, the
\* bytes that the client has of an answer come from one response.
OneVoice == ~mixed

\* stream.go:660: an answer is not silent: a request that counts as answered has
\* told a client that is still there something.
NothingSilent == req.at = "done" /\ outcome = "answered" /\ client => voice # "none"

\* Every body that was opened is closed: at most one is open, and none when the
\* request is done.
BodiesClosed == live = (IF req.at \in {"probe", "pump"} THEN 1 ELSE 0)

\* fallback.go:170: a request that the upstream refuses when the primary pool opens
\* it is over: no bridge, provider or standby pool is tried.
RefusedGoesNoFurther ==
  [][req.stage = "primary" /\ req.err = "refused" /\ ~req.pumped => req'.at # "open" \/ req.at = "done"]_vars

\* A request opens only so many responses, over all bridges and stages, and its
\* outcome is final.
Bound == INSTANCE AttemptBudget WITH Budget <- Opens, spent <- opens

WithinBudget == Bound!Spec

=============================================================================
