--------------------------- MODULE StreamRelayProofs ---------------------------
(***************************************************************************)
(* Proofs about StreamRelay, for any max-retry and empty-retry-max and any *)
(* deployment: the client hears one response, an answer was told, bodies   *)
(* are closed, a refusal ends the request, and the whole implements        *)
(* AttemptBudget.  The product bound is what is hard to see in the code:   *)
(* four nested loops, each with a counter of its own that others reset.    *)
(*                                                                         *)
(* And about what it passes on (EventStreams), for responses of any        *)
(* number of items of any length: the blocks of a Claude client are        *)
(* numbered, filled and stopped in pairs, a chat client's chunks and a     *)
(* Claude client's pieces add up to what the finished response says, and   *)
(* who collects gets each item once.  The sums are over sequences that     *)
(* grow: they are proved by induction on the length, from the well-founded *)
(* order of Nat and a set of lengths.                                      *)
(***************************************************************************)
EXTENDS StreamRelay, EventStreams, TLAPS, WellFoundedInduction

\* What a client that is there has heard.  Once it has bytes the request is counted
\* as told and on its way to its end; a pump knows whether it has told some.
Heard ==
  /\ ~mixed
  /\ client =>
       /\ voice # "other"
       /\ voice = "this" => req.at \in {"pump", "bridge", "stage", "done"}
       /\ voice = "this" /\ req.at # "done" => req.counted
       /\ req.at = "pump" => (voice = "this" <=> req.chunks)
       /\ req.at = "done" /\ outcome = "answered" => voice = "this"

\* Who collects tells nothing while it reads.
Quietly == world.mode \in Collects => ~req.chunks

\* A refusal at the opening is only ever on its way to the end.
Opening == req.at \in {"open", "probe", "pump"} => req.err # "refused" /\ ~req.pumped

Ended == outcome # "open" <=> req.at = "done"

\* The counters: the read of the response, the round of the pump, the bridge.
Counters ==
  /\ req.bridge < Bridges /\ req.round < PumpRounds /\ req.read \in 1..ReadRounds
  /\ req.stage = "provider" => req.bridge = 0 /\ req.round = 0 /\ req.read = 1

\* What the stages before this one may have opened, and all that this one may have.
Reads  == PumpRounds * ReadRounds
Before == IF req.stage = "primary" THEN 0
          ELSE IF req.stage = "provider" THEN Bridges * Reads ELSE Bridges * Reads + 1
Used   == req.bridge * Reads + req.round * ReadRounds + req.read

Counted ==
  /\ opens <= Before + Used
  /\ req.at = "open" => opens < Before + Used
  /\ req.at # "open" => opens > 0

Typed ==
  /\ world \in Worlds /\ req \in Requests /\ client \in BOOLEAN /\ live \in Nat
  /\ opens \in Nat /\ voice \in {"none", "this", "other"} /\ mixed \in BOOLEAN
  /\ outcome \in {"open", "answered", "refused", "failed"}

Inv ==
  /\ Typed /\ BodiesClosed /\ Heard /\ Quietly /\ Opening /\ Ended /\ Counters /\ Counted

LEMMA Limits == PumpRounds \in Nat \ {0} /\ Bridges \in Nat \ {0} /\ ReadRounds \in Nat \ {0}
BY RelayAssumption DEF PumpRounds, Bridges, ReadRounds

LEMMA BeginType == Begin \in Requests
BY Limits DEF Begin, Requests, Places, Stages, Errors

LEMMA BeginCounted ==
  ASSUME req = Begin, opens = 0
  PROVE  Counted
<1>1. Reads \in Nat
  BY Limits DEF Reads
<1>2. Before = 0 /\ Used = 1
  BY <1>1, Limits DEF Before, Used, Begin
<1> QED
  BY <1>2 DEF Counted, Begin

LEMMA InitInv == Init => Inv
<1> SUFFICES ASSUME Init PROVE Inv
  OBVIOUS
<1>1. /\ Typed /\ BodiesClosed /\ Heard /\ Ended
  BY BeginType, Limits DEF Init, Typed, BodiesClosed, Heard, Ended, Begin
<1>2. Quietly /\ Opening
  BY DEF Init, Quietly, Opening, Begin
<1>3. Counters
  BY Limits DEF Init, Counters, Begin
<1>4. Counted
  BY Limits, BeginCounted DEF Init
<1> QED
  BY <1>1, <1>2, <1>3, <1>4 DEF Inv


\* The counters stand, or begin anew.
Steady == /\ req'.stage = req.stage /\ req'.bridge = req.bridge /\ req'.round = req.round
          /\ req'.read = req.read /\ req'.counted = req.counted
Afresh == /\ req'.round = 0 /\ req'.read = 1 /\ req'.err = "none"
          /\ req'.chunks = FALSE /\ req'.pumped = FALSE /\ req'.at = "open"

-----------------------------------------------------------------------------
\* What the steps make of the record of the request, field by field.
LEMMA GotoSets ==
  ASSUME Typed, NEW s \in Places, req' = [req EXCEPT !.at = s]
  PROVE  /\ req' \in Requests /\ req'.at = s /\ Steady
         /\ req'.chunks = req.chunks /\ req'.err = req.err /\ req'.pumped = req.pumped
BY DEF Typed, Requests, Steady

LEMMA OpenFailsSets ==
  ASSUME Typed, NEW e \in Errors, OpenFails(e)
  PROVE  /\ req' \in Requests /\ req'.at = "bridge" /\ Steady
         /\ req'.chunks = req.chunks /\ req'.err \in {e, req.err} /\ req'.pumped = req.reopens
BY DEF Typed, Requests, Steady, OpenFails, Places

LEMMA PumpSets ==
  ASSUME Typed, req' = [req EXCEPT !.at = "pump", !.reopens = FALSE, !.chunks = FALSE]
  PROVE  /\ req' \in Requests /\ req'.at = "pump" /\ Steady
         /\ req'.chunks = FALSE /\ req'.err = req.err /\ req'.pumped = req.pumped
BY DEF Typed, Requests, Steady, Places

LEMMA ReadSets ==
  ASSUME Typed, req.read < ReadRounds, req' = [req EXCEPT !.at = "open", !.read = @ + 1]
  PROVE  /\ req' \in Requests /\ req'.at = "open" /\ req'.stage = req.stage
         /\ req'.bridge = req.bridge /\ req'.round = req.round /\ req'.counted = req.counted
         /\ req'.read = req.read + 1
         /\ req'.chunks = req.chunks /\ req'.err = req.err /\ req'.pumped = req.pumped
<1> DEFINE k == req.read + 1
<1>1. k \in 0..ReadRounds /\ req' = [req EXCEPT !.at = "open", !.read = k]
  BY Limits DEF Typed, Requests
<1> HIDE DEF k
<1>2. /\ req' \in Requests /\ req'.at = "open" /\ req'.stage = req.stage
      /\ req'.bridge = req.bridge /\ req'.round = req.round /\ req'.counted = req.counted
      /\ req'.read = k
      /\ req'.chunks = req.chunks /\ req'.err = req.err /\ req'.pumped = req.pumped
  BY <1>1 DEF Typed, Requests, Places
<1> QED
  BY <1>2 DEF k

LEMMA ReturnsSets ==
  ASSUME Typed, NEW e \in Errors, Returns(e)
  PROVE  /\ req' \in Requests /\ req'.at = (IF e = "none" THEN "done" ELSE "bridge") /\ Steady
         /\ req'.chunks = req.chunks /\ req'.err = e /\ req'.pumped = TRUE
BY DEF Typed, Requests, Steady, Returns, Places

LEMMA ReplacesSets ==
  ASSUME Typed, NEW e \in Errors, Replaces(e), ~Returns(e)
  PROVE  /\ Pool /\ req.round + 1 < PumpRounds
         /\ live' = live - 1 /\ outcome' = outcome
         /\ req' \in Requests /\ req'.at = "open" /\ req'.stage = req.stage
         /\ req'.bridge = req.bridge /\ req'.round = req.round + 1 /\ req'.read = 1
         /\ req'.counted = req.counted /\ req'.chunks = req.chunks /\ req'.err = e
         /\ req'.pumped = req.pumped
<1> DEFINE k == req.round + 1
           l == 1
<1>1. /\ Pool /\ k < PumpRounds
      /\ live' = live - 1 /\ outcome' = outcome
      /\ req' = [req EXCEPT !.at = "open", !.reopens = TRUE, !.round = k, !.read = l, !.err = e]
  BY DEF Replaces, CanReopen
<1>2. k \in 0..PumpRounds /\ l \in 0..ReadRounds
  BY <1>1, Limits DEF Typed, Requests
<1> HIDE DEF k, l
<1>3. /\ req' \in Requests /\ req'.at = "open" /\ req'.stage = req.stage
      /\ req'.bridge = req.bridge /\ req'.round = k /\ req'.read = l
      /\ req'.counted = req.counted /\ req'.chunks = req.chunks /\ req'.err = e
      /\ req'.pumped = req.pumped
  BY <1>1, <1>2 DEF Typed, Requests, Places
<1> QED
  BY <1>1, <1>3 DEF k, l

LEMMA LineSets ==
  ASSUME Typed, NEW c \in BOOLEAN, req' = [req EXCEPT !.chunks = TRUE, !.counted = c]
  PROVE  /\ req' \in Requests /\ req'.at = req.at /\ req'.stage = req.stage
         /\ req'.bridge = req.bridge /\ req'.round = req.round /\ req'.read = req.read
         /\ req'.counted = c /\ req'.chunks = TRUE /\ req'.err = req.err /\ req'.pumped = req.pumped
BY DEF Typed, Requests

LEMMA FailsSets ==
  ASSUME Typed, NEW s \in Places, NEW e \in Errors, req' = [req EXCEPT !.at = s, !.err = e]
  PROVE  /\ req' \in Requests /\ req'.at = s /\ Steady
         /\ req'.chunks = req.chunks /\ req'.err = e /\ req'.pumped = req.pumped
BY DEF Typed, Requests, Steady

LEMMA AnewSets ==
  ASSUME Typed
  PROVE  /\ Anew(req) \in Requests
         /\ \A b \in 0..Bridges :
              req' = [Anew(req) EXCEPT !.bridge = b] =>
                req' \in Requests /\ Afresh /\ req'.stage = req.stage /\ req'.bridge = b
                /\ req'.counted = req.counted
         /\ \A s \in Stages :
              req' = [Anew(req) EXCEPT !.stage = s, !.bridge = 0, !.counted = FALSE] =>
                req' \in Requests /\ Afresh /\ req'.stage = s /\ req'.bridge = 0 /\ req'.counted = FALSE
<1> DEFINE k == 0
           l == 1
<1>0. k \in 0..PumpRounds /\ k \in 0..Bridges /\ l \in 0..ReadRounds
  BY Limits
<1>1. Anew(req) \in Requests
  <2>1. Anew(req) = [req EXCEPT !.at = "open", !.round = k, !.read = l, !.chunks = FALSE,
                                !.err = "none", !.pumped = FALSE]
    BY DEF Anew
  <2> HIDE DEF k, l
  <2> QED
    BY <1>0, <2>1 DEF Typed, Requests, Places, Errors
<1>2. /\ Anew(req).at = "open" /\ Anew(req).round = 0 /\ Anew(req).read = 1 /\ Anew(req).err = "none"
      /\ Anew(req).chunks = FALSE /\ Anew(req).pumped = FALSE /\ Anew(req).stage = req.stage
      /\ Anew(req).counted = req.counted
  BY DEF Typed, Requests, Anew
<1> DEFINE r == Anew(req)
<1> HIDE DEF r
<1>3. /\ r \in Requests /\ r.at = "open" /\ r.round = 0 /\ r.read = 1 /\ r.err = "none"
      /\ r.chunks = FALSE /\ r.pumped = FALSE /\ r.stage = req.stage /\ r.counted = req.counted
  BY <1>1, <1>2 DEF r
<1>4. ASSUME NEW b \in 0..Bridges, req' = [r EXCEPT !.bridge = b]
      PROVE  req' \in Requests /\ Afresh /\ req'.stage = req.stage /\ req'.bridge = b
             /\ req'.counted = req.counted
  BY <1>3, <1>4, Limits DEF Requests, Afresh
<1>5. ASSUME NEW s \in Stages, req' = [r EXCEPT !.stage = s, !.bridge = 0, !.counted = FALSE]
      PROVE  req' \in Requests /\ Afresh /\ req'.stage = s /\ req'.bridge = 0 /\ req'.counted = FALSE
  <2>1. req' = [r EXCEPT !.stage = s, !.bridge = k, !.counted = FALSE]
    BY <1>5
  <2> HIDE DEF k
  <2>2. req' \in Requests /\ req'.stage = s /\ req'.bridge = k /\ req'.counted = FALSE /\ req'.at = r.at
        /\ req'.round = r.round /\ req'.read = r.read /\ req'.err = r.err
        /\ req'.chunks = r.chunks /\ req'.pumped = r.pumped
    BY <1>3, <1>0, <2>1 DEF Requests
  <2> QED
    BY <1>3, <2>2 DEF Afresh, k
<1> QED
  BY <1>1, <1>4, <1>5 DEF r


-----------------------------------------------------------------------------
\* The counters.
LEMMA Rooms ==
  /\ Reads \in Nat
  /\ \A n \in Nat : n < PumpRounds => n * ReadRounds + ReadRounds <= Reads
  /\ \A n \in Nat : n < Bridges => n * Reads + Reads <= Bridges * Reads
  /\ \A n \in Nat : n * ReadRounds \in Nat /\ n * Reads \in Nat
  /\ \A n \in Nat : (n + 1) * ReadRounds = n * ReadRounds + ReadRounds
  /\ \A n \in Nat : (n + 1) * Reads = n * Reads + Reads
  /\ Opens = Bridges * Reads + Bridges * Reads + 1
<1>1. \A a, b, c \in Nat : a <= b => a * c <= b * c
  OBVIOUS
<1>2. \A a, c \in Nat : a * c \in Nat /\ (a + 1) * c = a * c + c
  OBVIOUS
<1>3. Reads \in Nat
  BY <1>2, Limits DEF Reads
<1>4. \A n, m, c \in Nat : n < m => n * c + c <= m * c
  BY <1>1, <1>2
<1>5. Opens = Bridges * Reads + Bridges * Reads + 1
  BY Limits DEF Opens, Reads
<1> QED
  BY <1>2, <1>3, <1>4, <1>5, Limits DEF Reads

\* What is left to the stage at hand.
LEMMA Leaves ==
  ASSUME Inv
  PROVE  /\ req.bridge \in Nat /\ req.round \in Nat /\ req.read \in Nat
         /\ Before \in Nat /\ Used \in Nat
         /\ Used <= req.bridge * Reads + Reads
         /\ Used <= Bridges * Reads
         /\ req.stage = "provider" => Used = 1
         /\ Before + Used <= Opens
<1>1. /\ req.bridge \in Nat /\ req.round \in Nat /\ req.read \in Nat
      /\ req.bridge < Bridges /\ req.round < PumpRounds /\ req.read <= ReadRounds
      /\ req.stage = "provider" => req.bridge = 0 /\ req.round = 0 /\ req.read = 1
  BY Limits DEF Inv, Typed, Requests, Counters
<1>2. /\ req.round * ReadRounds + ReadRounds <= Reads /\ req.round * ReadRounds \in Nat
      /\ req.bridge * Reads + Reads <= Bridges * Reads /\ req.bridge * Reads \in Nat
      /\ Bridges * Reads \in Nat
  BY <1>1, Rooms, Limits
<1>3. /\ Before \in Nat /\ Used \in Nat /\ Used <= req.bridge * Reads + Reads
      /\ Before <= Bridges * Reads + 1
  BY <1>1, <1>2, Rooms, Limits DEF Before, Used
<1>4. req.stage = "provider" => Used = 1
  BY <1>1, Rooms, Limits DEF Used
<1> QED
  BY <1>1, <1>2, <1>3, <1>4, Rooms

LEMMA CountersStand ==
  ASSUME Inv, Steady,
         \/ opens' = opens /\ req.at # "open"
         \/ opens' = opens + 1 /\ req.at = "open",
         req'.at # "open"
  PROVE  Counters' /\ Counted'
<1>1. Before' = Before /\ Used' = Used /\ Counters'
  BY DEF Inv, Steady, Before, Used, Counters
<1>2. opens' <= Before + Used /\ opens' > 0 /\ opens \in Nat
  BY Leaves DEF Inv, Typed, Counted
<1> QED
  BY <1>1, <1>2 DEF Counted

\* A response that is opened uses up a read, a round, a bridge or a stage.
LEMMA CountersMove ==
  ASSUME Inv, req.at # "open", req'.at = "open", opens' = opens, req'.read \in 1..ReadRounds,
         \/ /\ req'.stage = req.stage /\ req.stage # "provider" /\ req'.bridge = req.bridge
            /\ req'.round = req.round /\ req'.read = req.read + 1
         \/ /\ req'.stage = req.stage /\ req.stage # "provider" /\ req'.bridge = req.bridge
            /\ req'.round = req.round + 1 /\ req'.round < PumpRounds /\ req'.read = 1
         \/ /\ req'.stage = req.stage /\ req.stage # "provider" /\ req'.bridge = req.bridge + 1
            /\ req'.bridge < Bridges /\ req'.round = 0 /\ req'.read = 1
         \/ /\ req.stage = "primary" /\ req'.stage \in {"provider", "standby"}
            /\ req'.bridge = 0 /\ req'.round = 0 /\ req'.read = 1
         \/ /\ req.stage = "provider" /\ req'.stage = "standby"
            /\ req'.bridge = 0 /\ req'.round = 0 /\ req'.read = 1
  PROVE  Counters' /\ Counted'
<1>1. Counters'
  BY Limits DEF Inv, Counters
<1>2. opens' \in Nat /\ opens' <= Before + Used
  BY DEF Inv, Typed, Counted
<1>3. /\ req.bridge \in Nat /\ req.round \in Nat /\ req.read \in Nat /\ req.read <= ReadRounds
      /\ Reads \in Nat /\ Bridges * Reads \in Nat
      /\ req.round * ReadRounds \in Nat /\ req.bridge * Reads \in Nat
  BY Leaves, Rooms, Limits DEF Inv, Counters
<1>0. Before \in Nat /\ Used \in Nat
  BY Leaves
<1>4. CASE /\ req'.stage = req.stage /\ req'.bridge = req.bridge
           /\ req'.round = req.round /\ req'.read = req.read + 1
  <2>1. Before' = Before /\ Used' = Used + 1
    BY <1>3, <1>4 DEF Before, Used
  <2> QED
    BY <1>0, <1>1, <1>2, <2>1 DEF Counted
<1>5. CASE /\ req'.stage = req.stage /\ req'.bridge = req.bridge
           /\ req'.round = req.round + 1 /\ req'.read = 1
  <2>1. req'.round * ReadRounds = req.round * ReadRounds + ReadRounds
    BY <1>3, <1>5, Rooms
  <2>2. Before' = Before /\ Used' >= Used + 1 /\ Used' \in Nat
    BY <1>3, <1>5, <2>1, Limits DEF Before, Used
  <2>3. \A b, u, v, o \in Nat : o <= b + u /\ v >= u + 1 => o < b + v /\ o <= b + v
    OBVIOUS
  <2>4. opens' < Before' + Used' /\ opens' <= Before' + Used'
    BY <1>0, <1>2, <2>2, <2>3
  <2> QED
    BY <1>1, <2>4 DEF Counted
<1>6. CASE /\ req'.stage = req.stage /\ req'.bridge = req.bridge + 1
           /\ req'.round = 0 /\ req'.read = 1
  <2>1. req'.bridge * Reads = req.bridge * Reads + Reads
    BY <1>3, <1>6, Rooms
  <2>2. req'.round * ReadRounds = 0
    BY <1>6, Limits
  <2>3. Before' = Before /\ Used' = req.bridge * Reads + Reads + 1
    BY <1>3, <1>6, <2>1, <2>2 DEF Before, Used
  <2>4. Used' >= Used + 1 /\ Used' \in Nat
    BY <1>0, <1>3, <2>3, Leaves
  <2> QED
    BY <1>0, <1>1, <1>2, <2>3, <2>4 DEF Counted
<1>7. CASE /\ req.stage \in {"primary", "provider"} /\ req'.stage \in {"provider", "standby"}
           /\ req'.stage # req.stage /\ req'.bridge = 0 /\ req'.round = 0 /\ req'.read = 1
  <2>1. Used' = 1
    BY <1>3, <1>7, Limits DEF Used
  <2>2. Before + Used <= Before'
    BY <1>3, <1>7, Leaves DEF Before
  <2>3. Before' \in Nat
    BY <1>3, <1>7 DEF Before
  <2>4. \A b, u, v, o \in Nat : o <= b + u /\ b + u <= v => o < v + 1 /\ o <= v + 1
    OBVIOUS
  <2>5. opens' < Before' + Used' /\ opens' <= Before' + Used'
    BY <1>0, <1>2, <2>1, <2>2, <2>3, <2>4
  <2> QED
    BY <1>1, <2>5 DEF Counted
<1> QED
  BY <1>4, <1>5, <1>6, <1>7

-----------------------------------------------------------------------------
\* The steps.
LEMMA OpenInv == Inv /\ Open => Inv'
<1> SUFFICES ASSUME Inv, Open PROVE Inv'
  OBVIOUS
<1>1. Typed /\ "open" \in Places /\ "probe" \in Places
  BY DEF Inv, Places
<1>2. CASE /\ req' = [req EXCEPT !.at = "probe"] /\ live' = live + 1
           /\ voice' = IF voice = "this" THEN "other" ELSE voice
  <2>1. /\ req' \in Requests /\ req'.at = "probe" /\ Steady
        /\ req'.chunks = req.chunks /\ req'.err = req.err /\ req'.pumped = req.pumped
    BY <1>1, <1>2, GotoSets
  <2>2. Typed' /\ BodiesClosed'
    BY <1>2, <2>1 DEF Inv, Open, Typed, BodiesClosed
  <2>3. Heard' /\ Quietly' /\ Opening' /\ Ended'
    BY <1>2, <2>1 DEF Inv, Open, Heard, Quietly, Opening, Ended, Typed, Steady
  <2>4. Counters' /\ Counted'
    BY <2>1, CountersStand DEF Open
  <2> QED
    BY <2>2, <2>3, <2>4 DEF Inv
<1>3. CASE \E e \in {"refused", "retry", "stop"} : OpenFails(e) /\ UNCHANGED << live, voice >>
  <2>1. PICK e \in {"refused", "retry", "stop"} : OpenFails(e) /\ UNCHANGED << live, voice >>
    BY <1>3
  <2>2. /\ req' \in Requests /\ req'.at = "bridge" /\ Steady
        /\ req'.chunks = req.chunks /\ req'.pumped = req.reopens
    BY <1>1, <2>1, OpenFailsSets DEF Errors
  <2>3. Typed' /\ BodiesClosed'
    BY <2>1, <2>2 DEF Inv, Open, Typed, BodiesClosed
  <2>4. Heard' /\ Quietly' /\ Opening' /\ Ended'
    BY <2>1, <2>2 DEF Inv, Open, Heard, Quietly, Opening, Ended, Typed, Steady
  <2>5. Counters' /\ Counted'
    BY <2>2, CountersStand DEF Open
  <2> QED
    BY <2>3, <2>4, <2>5 DEF Inv
<1> QED
  BY <1>2, <1>3 DEF Open

LEMMA ProbeInv == Inv /\ Probe => Inv'
<1> SUFFICES ASSUME Inv, Probe PROVE Inv'
  OBVIOUS
<1>1. Typed /\ req.at = "probe" /\ live = 1
  BY DEF Inv, Probe, BodiesClosed
<1>2. UNCHANGED << world, client, opens, voice, mixed, outcome >>
  BY DEF Probe, outVars, tellVars
<1>3. CASE req' = [req EXCEPT !.at = "pump", !.reopens = FALSE, !.chunks = FALSE] /\ UNCHANGED live
  <2>1. /\ req' \in Requests /\ req'.at = "pump" /\ Steady
        /\ req'.chunks = FALSE /\ req'.err = req.err /\ req'.pumped = req.pumped
    BY <1>1, <1>3, PumpSets
  <2>2. Typed' /\ BodiesClosed'
    BY <1>1, <1>2, <1>3, <2>1 DEF Typed, BodiesClosed
  <2>3. Heard' /\ Quietly' /\ Opening' /\ Ended'
    BY <1>1, <1>2, <2>1 DEF Inv, Heard, Quietly, Opening, Ended, Typed, Steady
  <2>4. Counters' /\ Counted'
    BY <1>1, <1>2, <2>1, CountersStand
  <2> QED
    BY <2>2, <2>3, <2>4 DEF Inv
<1>4. CASE /\ Pool /\ req.read < ReadRounds
           /\ req' = [req EXCEPT !.at = "open", !.read = @ + 1] /\ live' = live - 1
  <2>1. /\ req' \in Requests /\ req'.at = "open" /\ req'.stage = req.stage
        /\ req'.bridge = req.bridge /\ req'.round = req.round /\ req'.counted = req.counted
        /\ req'.read = req.read + 1
        /\ req'.chunks = req.chunks /\ req'.err = req.err /\ req'.pumped = req.pumped
    BY <1>1, <1>4, ReadSets
  <2>2. Typed' /\ BodiesClosed'
    BY <1>1, <1>2, <1>4, <2>1 DEF Typed, BodiesClosed
  <2>3. Heard' /\ Quietly' /\ Opening' /\ Ended'
    BY <1>1, <1>2, <2>1 DEF Inv, Heard, Quietly, Opening, Ended, Typed
  <2>4. req'.read \in 1..ReadRounds
    BY <1>4, <2>1, Limits DEF Inv, Counters
  <2>5. Counters' /\ Counted'
    BY <1>1, <1>2, <1>4, <2>1, <2>4, CountersMove DEF Pool
  <2> QED
    BY <2>2, <2>3, <2>5 DEF Inv
<1>5. CASE \E e \in {"stop", "retry", "canceled"} : OpenFails(e) /\ live' = live - 1
  <2>1. PICK e \in {"stop", "retry", "canceled"} : OpenFails(e) /\ live' = live - 1
    BY <1>5
  <2>2. /\ req' \in Requests /\ req'.at = "bridge" /\ Steady
        /\ req'.chunks = req.chunks /\ req'.pumped = req.reopens
    BY <1>1, <2>1, OpenFailsSets DEF Errors
  <2>3. Typed' /\ BodiesClosed'
    BY <1>1, <1>2, <2>1, <2>2 DEF Typed, BodiesClosed
  <2>4. Heard' /\ Quietly' /\ Opening' /\ Ended'
    BY <1>1, <1>2, <2>2 DEF Inv, Heard, Quietly, Opening, Ended, Typed, Steady
  <2>5. Counters' /\ Counted'
    BY <1>1, <1>2, <2>2, CountersStand
  <2> QED
    BY <2>3, <2>4, <2>5 DEF Inv
<1> QED
  BY <1>3, <1>4, <1>5 DEF Probe

\* A pump that returns to the bridge, or is done; a client that is there has heard
\* what it has told, and if it counts as answered it has told something.
LEMMA ReturnsInv ==
  ASSUME Inv, req.at = "pump", NEW e \in Errors, Returns(e),
         UNCHANGED << world, client, opens, mixed >>,
         voice' = voice \/ (e = "none" /\ voice' \in {"none", "this", "other"}),
         client /\ e = "none" => voice' = "this"
  PROVE  Inv'
<1>1. Typed /\ live = 1
  BY DEF Inv, BodiesClosed
<1>2. /\ req' \in Requests /\ req'.at = (IF e = "none" THEN "done" ELSE "bridge") /\ Steady
      /\ req'.chunks = req.chunks /\ req'.err = e /\ req'.pumped = TRUE
  BY <1>1, ReturnsSets
<1>3. live' = 0 /\ outcome' = IF e = "none" THEN "answered" ELSE outcome
  BY <1>1 DEF Returns
<1>4. Typed' /\ BodiesClosed'
  BY <1>1, <1>2, <1>3 DEF Typed, BodiesClosed
<1>5. Heard' /\ Quietly' /\ Opening' /\ Ended'
  BY <1>1, <1>2, <1>3 DEF Inv, Heard, Quietly, Opening, Ended, Typed, Steady
<1>6. Counters' /\ Counted'
  BY <1>2, CountersStand
<1> QED
  BY <1>4, <1>5, <1>6 DEF Inv

\* A pump that has told nothing replaces its response, or returns.
LEMMA ReplacesInv ==
  ASSUME Inv, req.at = "pump", ~req.chunks, NEW e \in {"empty", "read"}, Replaces(e),
         UNCHANGED << world, client, opens, voice, mixed >>
  PROVE  Inv'
<1>1. Typed /\ live = 1 /\ e \in Errors
  BY DEF Inv, BodiesClosed, Errors
<1>2. CASE Returns(e)
  BY <1>1, <1>2, ReturnsInv
<1>3. CASE ~Returns(e)
  <2>1. /\ Pool /\ req.round + 1 < PumpRounds
        /\ live' = live - 1 /\ outcome' = outcome
        /\ req' \in Requests /\ req'.at = "open" /\ req'.stage = req.stage
        /\ req'.bridge = req.bridge /\ req'.round = req.round + 1 /\ req'.read = 1
        /\ req'.counted = req.counted /\ req'.chunks = req.chunks /\ req'.err = e
        /\ req'.pumped = req.pumped
    BY <1>1, <1>3, ReplacesSets
  <2>2. Typed' /\ BodiesClosed'
    BY <1>1, <2>1 DEF Typed, BodiesClosed
  <2>3. Heard' /\ Quietly' /\ Opening' /\ Ended'
    BY <1>1, <2>1 DEF Inv, Heard, Quietly, Opening, Ended, Typed
  <2>4. req'.read \in 1..ReadRounds
    BY <2>1, Limits
  <2>5. Counters' /\ Counted'
    BY <2>1, <2>4, CountersMove DEF Pool
  <2> QED
    BY <2>2, <2>3, <2>5 DEF Inv
<1> QED
  BY <1>2, <1>3

LEMMA LineInv == Inv /\ Line => Inv'
<1> SUFFICES ASSUME Inv, Line PROVE Inv'
  OBVIOUS
<1>1. PICK counted \in BOOLEAN : Tells(counted) /\ req' = [req EXCEPT !.chunks = TRUE, !.counted = counted]
  BY DEF Line
<1>2. /\ req' \in Requests /\ req'.at = req.at /\ req'.stage = req.stage
      /\ req'.bridge = req.bridge /\ req'.round = req.round /\ req'.read = req.read
      /\ req'.counted = counted /\ req'.chunks = TRUE /\ req'.err = req.err /\ req'.pumped = req.pumped
  BY <1>1, LineSets DEF Inv
<1>3. /\ req.at = "pump" /\ world.mode \notin Collects
      /\ UNCHANGED << world, client, live, opens, outcome >>
  BY DEF Line
<1>4. Typed' /\ BodiesClosed'
  BY <1>1, <1>2, <1>3 DEF Inv, Typed, BodiesClosed, Tells, tellVars
<1>5. Heard' /\ Quietly' /\ Opening' /\ Ended'
  BY <1>1, <1>2, <1>3 DEF Inv, Heard, Quietly, Opening, Ended, Tells, tellVars
<1>6. Counters' /\ Counted'
  BY <1>2, <1>3 DEF Inv, Counters, Counted, Before, Used
<1> QED
  BY <1>4, <1>5, <1>6 DEF Inv

LEMMA WriteFailsInv == Inv /\ WriteFails => Inv'
<1> SUFFICES ASSUME Inv, WriteFails PROVE Inv'
  OBVIOUS
<1>1. req.at = "pump" /\ UNCHANGED << world, client, opens, voice, mixed >>
  BY DEF WriteFails, tellVars
<1>2. CASE Returns("read")
  BY <1>1, <1>2, ReturnsInv DEF Errors
<1>3. CASE ~req.chunks /\ Replaces("read")
  BY <1>1, <1>3, ReplacesInv
<1> QED
  BY <1>2, <1>3 DEF WriteFails

LEMMA EndInv == ASSUME NEW e \in {"empty", "read"} PROVE Inv /\ End(e) => Inv'
<1> SUFFICES ASSUME Inv, End(e) PROVE Inv'
  OBVIOUS
<1>1. req.at = "pump" /\ UNCHANGED << world, client, opens >>
  BY DEF End
<1>2. CASE /\ req.chunks /\ Returns("none")
           /\ (\E counted \in BOOLEAN : Tells(counted)) \/ UNCHANGED tellVars
  <2>1. client => voice = "this" /\ ~mixed
    BY <1>1, <1>2 DEF Inv, Heard
  <2>2. /\ voice' = voice \/ voice' \in {"none", "this", "other"}
        /\ mixed' = mixed /\ (client => voice' = "this")
    BY <1>2, <2>1 DEF Tells, tellVars, Inv, Typed
  <2> QED
    BY <1>1, <1>2, <2>2, ReturnsInv DEF Errors
<1>3. CASE e = "read" /\ Returns(e) /\ UNCHANGED tellVars
  BY <1>1, <1>3, ReturnsInv DEF Errors, tellVars
<1>4. CASE ~req.chunks /\ Replaces(e) /\ UNCHANGED tellVars
  BY <1>1, <1>4, ReplacesInv DEF tellVars
<1> QED
  BY <1>2, <1>3, <1>4 DEF End

LEMMA EndClaudeInv == ASSUME NEW e \in {"empty", "read"} PROVE Inv /\ EndClaude(e) => Inv'
<1> SUFFICES ASSUME Inv, EndClaude(e) PROVE Inv'
  OBVIOUS
<1>1. req.at = "pump" /\ UNCHANGED << world, client, opens >>
  BY DEF EndClaude
<1>2. CASE req.chunks /\ Returns("none") /\ \E counted \in BOOLEAN : Tells(counted)
  <2>1. client => voice = "this" /\ ~mixed
    BY <1>1, <1>2 DEF Inv, Heard
  <2>2. /\ voice' = voice \/ voice' \in {"none", "this", "other"}
        /\ mixed' = mixed /\ (client => voice' = "this")
    BY <1>2, <2>1 DEF Tells, tellVars, Inv, Typed
  <2> QED
    BY <1>1, <1>2, <2>2, ReturnsInv DEF Errors
<1>3. CASE Returns(e) /\ UNCHANGED tellVars
  BY <1>1, <1>3, ReturnsInv DEF Errors, tellVars
<1> QED
  BY <1>2, <1>3 DEF EndClaude

LEMMA EndCollectInv == ASSUME NEW e \in {"empty", "read"} PROVE Inv /\ EndCollect(e) => Inv'
BY ReplacesInv DEF EndCollect, Inv, Quietly, tellVars

LEMMA CanceledInv == Inv /\ Canceled => Inv'
<1> SUFFICES ASSUME Inv, Canceled PROVE Inv'
  OBVIOUS
<1>1. req.at = "pump" /\ UNCHANGED << world, client, opens, voice, mixed >>
  BY DEF Canceled, tellVars
<1>2. CASE req.chunks /\ Returns("none")
  <2>1. client => voice = "this"
    BY <1>1, <1>2 DEF Inv, Heard
  <2> QED
    BY <1>1, <1>2, <2>1, ReturnsInv DEF Errors
<1>3. CASE Returns("canceled")
  BY <1>1, <1>3, ReturnsInv DEF Errors
<1> QED
  BY <1>2, <1>3 DEF Canceled

\* A collected response is told as a whole, or has no content.
LEMMA CollectedInv == Inv /\ (Collected \/ CollectedClaude) => Inv'
<1> SUFFICES ASSUME Inv, Collected \/ CollectedClaude PROVE Inv'
  OBVIOUS
<1>1. /\ Typed /\ req.at = "pump" /\ live = 1 /\ live' = 0 /\ ~req.chunks
      /\ UNCHANGED << world, client, opens >>
  BY DEF Inv, BodiesClosed, Quietly, Collects, Collected, CollectedClaude
<1>2. PICK s \in {"stage", "done"}, e \in {"none", "empty"} :
        /\ req' = [req EXCEPT !.at = s, !.err = e]
        /\ \/ /\ s = "done" /\ outcome' = "answered"
              /\ \E counted \in BOOLEAN : Tells(counted)
           \/ /\ UNCHANGED tellVars
              /\ outcome' = IF s = "done" THEN "failed" ELSE outcome
  BY DEF Collected, CollectedClaude
<1>3. /\ req' \in Requests /\ req'.at = s /\ Steady
      /\ req'.chunks = req.chunks /\ req'.err = e /\ req'.pumped = req.pumped
  BY <1>1, <1>2, FailsSets DEF Places, Errors
<1>4. Typed' /\ BodiesClosed'
  BY <1>1, <1>2, <1>3 DEF Typed, BodiesClosed, Tells, tellVars
<1>5. Quietly' /\ Opening' /\ Ended'
  BY <1>1, <1>2, <1>3 DEF Inv, Quietly, Opening, Ended, Steady
<1>6. outcome = "open" /\ ~mixed /\ (client => voice = "none")
  BY <1>1 DEF Inv, Ended, Heard, Typed
<1>7. ~mixed' /\ (client => voice' \in {"none", "this"})
  <2>1. ASSUME NEW counted \in BOOLEAN, Tells(counted) PROVE ~mixed' /\ (client => voice' \in {"none", "this"})
    BY <1>6, <2>1 DEF Tells, tellVars
  <2>2. CASE UNCHANGED tellVars
    BY <1>6, <2>2 DEF tellVars
  <2> QED
    BY <1>2, <2>1, <2>2
<1>8. client => (voice' = "this" <=> s = "done" /\ outcome' = "answered")
  <2>1. CASE s = "done" /\ outcome' = "answered" /\ \E counted \in BOOLEAN : Tells(counted)
    BY <2>1 DEF Tells
  <2>2. CASE voice' = voice /\ outcome' # "answered"
    BY <1>6, <2>2
  <2> QED
    BY <1>2, <1>6, <2>1, <2>2 DEF tellVars
<1>9. Heard'
  BY <1>1, <1>2, <1>3, <1>7, <1>8 DEF Heard
<1>10. Counters' /\ Counted'
  BY <1>1, <1>2, <1>3, CountersStand
<1> QED
  BY <1>4, <1>5, <1>9, <1>10 DEF Inv

LEMMA BridgeInv == Inv /\ Bridge => Inv'
<1> SUFFICES ASSUME Inv, Bridge PROVE Inv'
  OBVIOUS
<1>1. /\ Typed /\ req.at = "bridge"
      /\ UNCHANGED << world, client, live, opens, voice, mixed, outcome >>
  BY DEF Inv, Bridge, outVars, tellVars
<1>2. CASE req' = [req EXCEPT !.at = "stage"]
  <2>1. /\ req' \in Requests /\ req'.at = "stage" /\ Steady
        /\ req'.chunks = req.chunks /\ req'.err = req.err /\ req'.pumped = req.pumped
    BY <1>1, <1>2, GotoSets DEF Places
  <2>2. Typed' /\ BodiesClosed'
    BY <1>1, <2>1 DEF Inv, Typed, BodiesClosed
  <2>3. Heard' /\ Quietly' /\ Opening' /\ Ended'
    BY <1>1, <2>1 DEF Inv, Heard, Quietly, Opening, Ended, Steady
  <2>4. Counters' /\ Counted'
    BY <1>1, <2>1, CountersStand
  <2> QED
    BY <2>2, <2>3, <2>4 DEF Inv
<1>3. CASE /\ Pool /\ ~req.counted /\ req.bridge + 1 < Bridges
           /\ req' = [Anew(req) EXCEPT !.bridge = @ + 1]
  <2> DEFINE b == req.bridge + 1
  <2>1. b \in 0..Bridges /\ req' = [Anew(req) EXCEPT !.bridge = b]
    BY <1>1, <1>3, Limits DEF Typed, Requests, Anew
  <2> HIDE DEF b
  <2>2. /\ req' \in Requests /\ Afresh /\ req'.stage = req.stage /\ req'.bridge = b
        /\ req'.counted = req.counted
    BY <1>1, <2>1, AnewSets
  <2>3. Typed' /\ BodiesClosed'
    BY <1>1, <2>2 DEF Inv, Typed, BodiesClosed, Afresh
  <2>4. Heard' /\ Quietly' /\ Opening' /\ Ended'
    BY <1>1, <1>3, <2>2 DEF Inv, Heard, Quietly, Opening, Ended, Afresh, Typed
  <2>5. req'.read \in 1..ReadRounds /\ req'.bridge = req.bridge + 1
    BY <2>2, Limits DEF Afresh, b
  <2>6. Counters' /\ Counted'
    BY <1>1, <1>3, <2>2, <2>5, CountersMove DEF Afresh, Pool
  <2> QED
    BY <2>3, <2>4, <2>6 DEF Inv
<1> QED
  BY <1>2, <1>3 DEF Bridge

LEMMA StageInv == Inv /\ Stage => Inv'
<1> SUFFICES ASSUME Inv, Stage PROVE Inv'
  OBVIOUS
<1>1. /\ Typed /\ req.at = "stage"
      /\ UNCHANGED << world, client, live, opens, voice, mixed >>
  BY DEF Inv, Stage, tellVars
<1>2. CASE GivesUp
  <2>1. /\ req' \in Requests /\ req'.at = "done" /\ Steady
        /\ req'.chunks = req.chunks /\ req'.err = req.err /\ req'.pumped = req.pumped
    BY <1>1, <1>2, GotoSets DEF Places, GivesUp
  <2>2. outcome' \in {"refused", "failed"}
    BY <1>2 DEF GivesUp
  <2>3. Typed' /\ BodiesClosed'
    BY <1>1, <2>1, <2>2 DEF Inv, Typed, BodiesClosed
  <2>4. Heard' /\ Quietly' /\ Opening' /\ Ended'
    BY <1>1, <2>1, <2>2 DEF Inv, Heard, Quietly, Opening, Ended, Steady
  <2>5. Counters' /\ Counted'
    BY <1>1, <2>1, CountersStand
  <2> QED
    BY <2>3, <2>4, <2>5 DEF Inv
<1>3. ASSUME NEW s \in {"provider", "standby"}, Enter(s), ~req.counted,
             \/ req.stage = "primary"
             \/ req.stage = "provider" /\ s = "standby"
      PROVE  Inv'
  <2>1. /\ req' \in Requests /\ Afresh /\ req'.stage = s /\ req'.bridge = 0 /\ req'.counted = FALSE
    BY <1>1, <1>3, AnewSets DEF Enter, Stages
  <2>2. outcome' = outcome
    BY <1>3 DEF Enter
  <2>3. Typed' /\ BodiesClosed'
    BY <1>1, <2>1, <2>2 DEF Inv, Typed, BodiesClosed, Afresh
  <2>4. Heard' /\ Quietly' /\ Opening' /\ Ended'
    BY <1>1, <1>3, <2>1, <2>2 DEF Inv, Heard, Quietly, Opening, Ended, Afresh, Typed
  <2>5. req'.read \in 1..ReadRounds
    BY <2>1, Limits DEF Afresh
  <2>6. Counters' /\ Counted'
    BY <1>1, <1>3, <2>1, <2>5, CountersMove DEF Afresh
  <2> QED
    BY <2>3, <2>4, <2>6 DEF Inv
<1> QED
  BY <1>2, <1>3 DEF Stage

LEMMA RestInv == Inv /\ (Again \/ Leave) => Inv'
<1> SUFFICES ASSUME Inv, Again \/ Leave PROVE Inv'
  OBVIOUS
<1>1. CASE Again
  <2>1. /\ Typed' /\ BodiesClosed' /\ Heard' /\ Ended'
    BY <1>1, BeginType, Limits DEF Again, Inv, Typed, BodiesClosed, Heard, Ended, Begin
  <2>2. Quietly' /\ Opening'
    BY <1>1 DEF Again, Quietly, Opening, Begin
  <2>3. Counters'
    BY <1>1, Limits DEF Again, Counters, Begin
  <2>4. Reads \in Nat /\ Before' = 0 /\ Used' = 0 * Reads + 0 * ReadRounds + 1
    BY <1>1, Rooms DEF Again, Before, Used, Begin
  <2>5. Used' = 1
    BY <2>4, Limits
  <2>6. Counted'
    BY <1>1, <2>4, <2>5 DEF Again, Counted, Begin
  <2> QED
    BY <2>1, <2>2, <2>3, <2>6 DEF Inv
<1>2. CASE Leave
  <2>1. client' = FALSE /\ UNCHANGED << world, req, live, opens, voice, mixed, outcome >>
    BY <1>2 DEF Leave, outVars, tellVars
  <2> QED
    BY <2>1 DEF Inv, Typed, BodiesClosed, Heard, Quietly, Opening, Ended, Counters, Counted, Before, Used
<1> QED
  BY <1>1, <1>2

LEMMA NextInv == Inv /\ [Next]_vars => Inv'
<1> SUFFICES ASSUME Inv, [Next]_vars PROVE Inv'
  OBVIOUS
<1>1. CASE UNCHANGED vars
  BY <1>1 DEF vars, Inv, Typed, BodiesClosed, Heard, Quietly, Opening, Ended, Counters, Counted, Before, Used
<1>2. CASE \E e \in {"empty", "read"} : End(e) \/ EndClaude(e) \/ EndCollect(e)
  BY <1>2, EndInv, EndClaudeInv, EndCollectInv
<1> QED
  BY <1>1, <1>2, OpenInv, ProbeInv, LineInv, WriteFailsInv, CanceledInv, CollectedInv, BridgeInv,
     StageInv, RestInv DEF Next

LEMMA Invariance == Spec => []Inv
BY InitInv, NextInv, PTL DEF Spec

-----------------------------------------------------------------------------
\* stream.go:594, 887, fallback.go:99: the bytes that the client has of an answer
\* come from one response, through every pump, bridge, provider and standby pool.
THEOREM OneVoiceHolds == Spec => []OneVoice
<1>1. Inv => OneVoice
  BY DEF Inv, Heard, OneVoice
<1> QED
  BY <1>1, Invariance, PTL

\* stream.go:660: a request that counts as answered has told the client something,
\* if the client is there.
THEOREM NothingSilentHolds == Spec => []NothingSilent
<1>1. Inv => NothingSilent
  BY DEF Inv, Heard, NothingSilent
<1> QED
  BY <1>1, Invariance, PTL

\* stream.go:294, 584: every body that is opened is closed on every way out, one at a time.
THEOREM BodiesAreClosed == Spec => []BodiesClosed
<1>1. Inv => BodiesClosed
  BY DEF Inv
<1> QED
  BY <1>1, Invariance, PTL

\* fallback.go:170: once the primary pool has been refused, nothing else is opened.
THEOREM RefusalEnds == Spec => RefusedGoesNoFurther
<1>1. ASSUME Inv, [Next]_vars, req.stage = "primary", req.err = "refused", ~req.pumped, req.at # "done"
      PROVE  req'.at # "open"
  <2>1. req.at \in {"bridge", "stage"}
    BY <1>1 DEF Inv, Typed, Requests, Places, Opening
  <2>2. CASE UNCHANGED req
    BY <2>1, <2>2
  <2>3. CASE Bridge
    <3>1. ~Bridgeable
      BY <1>1 DEF Bridgeable
    <3>2. req' = [req EXCEPT !.at = "stage"]
      BY <2>3, <3>1 DEF Bridge
    <3> QED
      BY <1>1, <3>2, GotoSets DEF Inv, Places
  <2>4. CASE Stage
    <3>1. GivesUp
      BY <1>1, <2>4 DEF Stage
    <3> QED
      BY <1>1, <3>1, GotoSets DEF Inv, Places, GivesUp
  <2> QED
    BY <1>1, <2>1, <2>2, <2>3, <2>4
    DEF Next, vars, Open, Probe, Line, WriteFails, Collected, CollectedClaude, Canceled, End,
        EndClaude, EndCollect, Again, Leave, outVars
<1>2. Inv /\ [Next]_vars =>
        [req.stage = "primary" /\ req.err = "refused" /\ ~req.pumped => req'.at # "open" \/ req.at = "done"]_vars
  BY <1>1
<1> QED
  BY <1>2, Invariance, PTL DEF Spec, RefusedGoesNoFurther

\* What every step other than an opening and the next request does to the outcome.
Settles ==
  /\ opens' = opens
  /\ outcome' = outcome \/ outcome' \in {"answered", "refused", "failed"}

LEMMA SettlesIn ==
  ASSUME Inv, Next
  PROVE  \/ Open \/ Again
         \/ Settles /\ req.at # "open" /\ (req.at = "done" => UNCHANGED outcome)
         \/ UNCHANGED << opens, outcome >>
<1>1. CASE Probe
  BY <1>1 DEF Probe, outVars
<1>2. CASE Line
  BY <1>2 DEF Line
<1>3. CASE WriteFails
  BY <1>3 DEF WriteFails, Settles, Returns, Replaces
<1>4. CASE Collected \/ CollectedClaude
  BY <1>4 DEF Collected, CollectedClaude, Settles
<1>5. CASE Canceled
  BY <1>5 DEF Canceled, Settles, Returns
<1>6. ASSUME NEW e \in {"empty", "read"}, End(e) \/ EndClaude(e) \/ EndCollect(e)
      PROVE  Settles /\ req.at = "pump"
  BY <1>6 DEF End, EndClaude, EndCollect, Settles, Returns, Replaces
<1>7. CASE Bridge
  BY <1>7 DEF Bridge, outVars
<1>8. CASE Stage
  <2>1. opens' = opens /\ req.at = "stage"
    BY <1>8 DEF Stage
  <2>2. UNCHANGED outcome \/ GivesUp
    BY <1>8, Zenon DEF Stage, Enter
  <2> QED
    BY <2>1, <2>2 DEF Settles, GivesUp
<1>9. CASE Leave
  BY <1>9 DEF Leave, outVars
<1> QED
  BY <1>1, <1>2, <1>3, <1>4, <1>5, <1>6, <1>7, <1>8, <1>9 DEF Next

\* A request opens a bounded number of responses over all its loops, and has one
\* final outcome: StreamRelay implements AttemptBudget.
THEOREM RelayWithinBudget == Spec => WithinBudget
<1>1. Init => Bound!Init
  BY DEF Init, Bound!Init
<1>2. ASSUME Inv, [Next]_vars
      PROVE  [Bound!Next]_Bound!vars
  <2>1. CASE UNCHANGED vars
    BY <2>1 DEF vars, Bound!vars
  <2>2. CASE Open
    <3>1. opens < Before + Used /\ opens \in Nat
      BY <1>2, <2>2 DEF Inv, Counted, Typed, Open
    <3>2. Opens \in Nat
      BY Rooms, Limits
    <3>3. opens < Opens
      BY <1>2, <3>1, <3>2, Leaves
    <3>4. outcome = "open" /\ outcome' = outcome /\ opens' = opens + 1
      BY <1>2, <2>2 DEF Inv, Ended, Open
    <3> QED
      BY <3>3, <3>4 DEF Bound!Next, Bound!Attempt
  <2>3. CASE Again
    BY <1>2, <2>3 DEF Inv, Ended, Again, Bound!Next, Bound!Again
  <2>4. CASE Settles /\ req.at # "open" /\ (req.at = "done" => UNCHANGED outcome)
    <3>1. CASE UNCHANGED outcome
      BY <2>4, <3>1 DEF Settles, Bound!vars
    <3>2. CASE ~ UNCHANGED outcome
      <4>1. outcome = "open" /\ opens > 0
        BY <1>2, <2>4, <3>2 DEF Inv, Ended, Counted
      <4>2. PICK o \in {"answered", "refused", "failed"} : outcome' = o
        BY <2>4, <3>2 DEF Settles
      <4>3. Bound!Conclude(o) /\ o \in Bound!Outcomes \ {"open"}
        BY <2>4, <4>1, <4>2 DEF Settles, Bound!Conclude, Bound!Outcomes
      <4> QED
        BY <4>3 DEF Bound!Next
    <3> QED
      BY <3>1, <3>2
  <2>5. CASE UNCHANGED << opens, outcome >>
    BY <2>5 DEF Bound!vars
  <2> QED
    BY <1>2, <2>1, <2>2, <2>3, <2>4, <2>5, SettlesIn
<1> QED
  BY <1>1, <1>2, Invariance, PTL DEF Spec, WithinBudget, Bound!Spec

-----------------------------------------------------------------------------
(***************************************************************************)
(* What the relay passes on: the translators of the events (EventStreams). *)
(* The two components share no variable.                                   *)
(***************************************************************************)
\* ClaudeStreamState, with the blocks that the client has.
BlockKinds == {"thought", "text", "call"}
Block == [kind : BlockKinds, n : Nat, open : BOOLEAN]
Claude == [index : Int, started : BOOLEAN, thinking : BOOLEAN, has : BOOLEAN, tool : BOOLEAN,
           begun : Nat, completed : BOOLEAN, blocks : Seq(Block), odd : BOOLEAN,
           stops : Nat, reason : {"none", "end_turn", "tool_use"}]

\* The kind of the block that is open: only the last one may be.
LastBlock(c) == c.blocks[Len(c.blocks)]
OpenKind(c) == IF c.blocks # << >> /\ LastBlock(c).open THEN LastBlock(c).kind ELSE "none"
HasCall(c) == \E k \in DOMAIN c.blocks : c.blocks[k].kind = "call"

\* The index is that of the last block, and nothing has gone wrong.
Numbered(c) ==
  /\ c \in Claude
  /\ ~c.odd
  /\ c.index = Len(c.blocks) - 1
  /\ \A k \in DOMAIN c.blocks : c.blocks[k].open => k = Len(c.blocks)

\* The flags know the block that is open, unless it is a call.
Flagged(c) ==
  /\ c.thinking <=> OpenKind(c) = "thought"
  /\ c.started <=> OpenKind(c) = "text"
  /\ c.tool <=> HasCall(c)

-----------------------------------------------------------------------------
LEMMA Blocks ==
  ASSUME NEW s \in Seq(Block)
  PROVE  /\ Len(s) \in Nat /\ DOMAIN s = 1..Len(s)
         /\ \A k \in DOMAIN s : s[k] \in Block
         /\ s # << >> <=> Len(s) > 0
  OBVIOUS

\* What is known of the blocks depends on nothing else.
LEMMA SameBlocks ==
  ASSUME NEW c, Numbered(c), NEW d \in Claude, d.odd = c.odd, d.index = c.index, d.blocks = c.blocks
  PROVE  Numbered(d) /\ OpenKind(d) = OpenKind(c) /\ (HasCall(d) <=> HasCall(c))
  BY DEF Numbered, OpenKind, LastBlock, HasCall

LEMMA KindOfOpen ==
  ASSUME NEW c, Numbered(c)
  PROVE  OpenKind(c) \in {"none", "thought", "text", "call"}
<1>1. c.blocks \in Seq(Block)
  BY DEF Numbered, Claude
<1>2. ASSUME c.blocks # << >> PROVE LastBlock(c).kind \in BlockKinds
  <2>1. LastBlock(c) \in Block
    BY <1>1, <1>2, Blocks DEF LastBlock
  <2>. QED
    BY <2>1 DEF Block
<1>. QED
  BY <1>2 DEF OpenKind, BlockKinds

\* The last block of a message in which one is open.
LEMMA OpenIsLast ==
  ASSUME NEW c, Numbered(c), OpenKind(c) # "none"
  PROVE  /\ Here(c) = Len(c.blocks) /\ Here(c) \in DOMAIN c.blocks /\ c.blocks[Here(c)].open
         /\ c.blocks[Here(c)].kind = OpenKind(c)
<1>1. c.blocks \in Seq(Block) /\ c.index = Len(c.blocks) - 1
  BY DEF Numbered, Claude
<1>2. c.blocks # << >> /\ LastBlock(c).open /\ LastBlock(c).kind = OpenKind(c)
  BY DEF OpenKind
<1>3. Len(c.blocks) \in DOMAIN c.blocks /\ Here(c) = Len(c.blocks)
  BY <1>1, <1>2, Blocks DEF Here
<1>. QED
  BY <1>2, <1>3 DEF LastBlock

\* The last block is replaced by one of the same kind.
LEMMA Replaced ==
  ASSUME NEW c, Numbered(c), OpenKind(c) # "none", NEW b \in Block, b.kind = OpenKind(c),
         NEW d, d = [c EXCEPT !.blocks = [c.blocks EXCEPT ![Here(c)] = b]]
  PROVE  /\ Numbered(d) /\ (HasCall(d) <=> HasCall(c))
         /\ OpenKind(d) = IF b.open THEN OpenKind(c) ELSE "none"
<1>. DEFINE n == Len(c.blocks)
            s == [c.blocks EXCEPT ![n] = b]
<1>1. /\ c \in Claude /\ c.blocks \in Seq(Block) /\ n \in Nat /\ n > 0 /\ DOMAIN c.blocks = 1..n
      /\ Here(c) = n /\ c.blocks[n].kind = b.kind /\ ~c.odd /\ c.index = n - 1
  BY OpenIsLast, Blocks DEF Numbered, Claude
<1>2. s \in Seq(Block) /\ Len(s) = n /\ DOMAIN s = 1..n /\ s[n] = b
      /\ \A k \in 1..n : k # n => s[k] = c.blocks[k]
  <2>1. DOMAIN s = 1..n /\ s[n] = b /\ \A k \in 1..n : k # n => s[k] = c.blocks[k]
    BY <1>1
  <2>2. \A k \in 1..n : s[k] \in Block
    BY <1>1, <2>1, Blocks
  <2>. QED
    BY <1>1, <2>1, <2>2
<1>. HIDE DEF s
<1>3. d \in Claude /\ d.blocks = s /\ ~d.odd /\ d.index = n - 1
  BY <1>1, <1>2 DEF Claude, s
<1>4. \A k \in 1..n : s[k].kind = c.blocks[k].kind
  BY <1>1, <1>2
<1>5. HasCall(d) <=> HasCall(c)
  BY <1>1, <1>2, <1>3, <1>4 DEF HasCall
<1>6. s # << >>
  BY <1>1, <1>2
<1>7. OpenKind(d) = IF b.open THEN OpenKind(c) ELSE "none"
  BY <1>2, <1>3, <1>6 DEF OpenKind, LastBlock
<1>8. Numbered(d)
  BY <1>1, <1>2, <1>3 DEF Numbered
<1>. QED
  BY <1>5, <1>7, <1>8

LEMMA Stopped ==
  ASSUME NEW c, Numbered(c), OpenKind(c) # "none"
  PROVE  /\ Numbered(StopBlock(c)) /\ OpenKind(StopBlock(c)) = "none"
         /\ HasCall(StopBlock(c)) <=> HasCall(c)
         /\ StopBlock(c) = [c EXCEPT !.blocks = StopBlock(c).blocks]
<1>. DEFINE b == [c.blocks[Here(c)] EXCEPT !.open = FALSE]
<1>1. /\ c \in Claude /\ c.blocks \in Seq(Block) /\ Here(c) \in DOMAIN c.blocks /\ c.blocks[Here(c)].open
      /\ c.blocks[Here(c)].kind = OpenKind(c) /\ Here(c) = c.index + 1
  BY OpenIsLast DEF Numbered, Claude, Here
<1>2. c.blocks[Here(c)] \in Block
  BY <1>1, Blocks
<1>3. b \in Block /\ ~b.open /\ b.kind = OpenKind(c)
  BY <1>1, <1>2 DEF Block
<1>4. StopBlock(c) = [c EXCEPT !.blocks = [c.blocks EXCEPT ![Here(c)] = b]]
  BY <1>1 DEF StopBlock
<1>5. StopBlock(c) = [c EXCEPT !.blocks = StopBlock(c).blocks]
  BY <1>1, <1>4 DEF Claude
<1>. HIDE DEF b
<1>. QED
  BY <1>3, <1>4, <1>5, Replaced

LEMMA FilledBlock ==
  ASSUME NEW c, Numbered(c), NEW kind \in BlockKinds, OpenKind(c) = kind
  PROVE  /\ Numbered(FillBlock(c, kind)) /\ OpenKind(FillBlock(c, kind)) = kind
         /\ HasCall(FillBlock(c, kind)) <=> HasCall(c)
         /\ FillBlock(c, kind) = [c EXCEPT !.blocks = FillBlock(c, kind).blocks]
<1>. DEFINE b == [c.blocks[Here(c)] EXCEPT !.n = @ + 1]
<1>1. kind # "none"
  BY DEF BlockKinds
<1>2. /\ c \in Claude /\ c.blocks \in Seq(Block) /\ Here(c) \in DOMAIN c.blocks /\ c.blocks[Here(c)].open
      /\ c.blocks[Here(c)].kind = OpenKind(c) /\ Here(c) = c.index + 1
  BY <1>1, OpenIsLast DEF Numbered, Claude, Here
<1>3. c.blocks[Here(c)] \in Block
  BY <1>2, Blocks
<1>4. b \in Block /\ b.open /\ b.kind = OpenKind(c)
  BY <1>2, <1>3 DEF Block
<1>5. FillBlock(c, kind) = [c EXCEPT !.blocks = [c.blocks EXCEPT ![Here(c)] = b]]
  BY <1>2 DEF FillBlock
<1>6. FillBlock(c, kind) = [c EXCEPT !.blocks = FillBlock(c, kind).blocks]
  BY <1>2, <1>5 DEF Claude
<1>. HIDE DEF b
<1>. QED
  BY <1>1, <1>4, <1>5, <1>6, Replaced

LEMMA StartedBlock ==
  ASSUME NEW c, Numbered(c), OpenKind(c) = "none", NEW kind \in BlockKinds,
         NEW d, d = StartBlock(c, kind)
  PROVE  /\ Numbered(d) /\ OpenKind(d) = kind
         /\ HasCall(d) <=> HasCall(c) \/ kind = "call"
         /\ d = [c EXCEPT !.index = d.index, !.blocks = d.blocks]
<1>. DEFINE n == Len(c.blocks)
            b == [kind |-> kind, n |-> 0, open |-> TRUE]
            s == Append(c.blocks, b)
<1>1. /\ c \in Claude /\ c.blocks \in Seq(Block) /\ n \in Nat /\ DOMAIN c.blocks = 1..n
      /\ ~c.odd /\ c.index = n - 1
  BY Blocks DEF Numbered, Claude
<1>2. \A k \in 1..n : ~c.blocks[k].open
  <2>. SUFFICES ASSUME NEW k \in 1..n, c.blocks[k].open PROVE FALSE
    OBVIOUS
  <2>1. k = n /\ c.blocks # << >>
    BY <1>1 DEF Numbered
  <2>2. LastBlock(c).open /\ LastBlock(c).kind = "none"
    BY <2>1 DEF OpenKind, LastBlock
  <2>3. LastBlock(c) \in Block
    BY <1>1, <2>1, Blocks DEF LastBlock
  <2>. QED
    BY <2>2, <2>3 DEF Block, BlockKinds
<1>3. b \in Block
  BY DEF Block
<1>. HIDE DEF b
<1>4. /\ s \in Seq(Block) /\ Len(s) = n + 1 /\ DOMAIN s = 1..n + 1 /\ s[n + 1] = b
      /\ \A k \in 1..n : s[k] = c.blocks[k]
  BY <1>1, <1>3
<1>. HIDE DEF s
<1>5. /\ d = [c EXCEPT !.index = n, !.blocks = s]
      /\ d \in Claude /\ d.blocks = s /\ ~d.odd /\ d.index = n
  <2>1. (c.odd \/ Len(c.blocks) # c.index + 1 \/ \E k \in DOMAIN c.blocks : c.blocks[k].open) = FALSE
    BY <1>1, <1>2
  <2>2. c.index + 1 = n /\ c.odd = FALSE
    BY <1>1 DEF Claude
  <2>3. d = [c EXCEPT !.index = n, !.blocks = s, !.odd = FALSE]
    BY <2>1, <2>2, <1>1 DEF StartBlock, s, b
  <2>4. [c EXCEPT !.index = n, !.blocks = s] = [c EXCEPT !.index = n, !.blocks = s, !.odd = FALSE]
    BY <1>1, <2>2 DEF Claude
  <2>5. d \in Claude
    <3>1. c \in Claude /\ s \in Seq(Block) /\ n \in Int
      BY <1>1, <1>4
    <3>. HIDE DEF n
    <3>. QED
      BY <2>3, <3>1 DEF Claude
  <2>6. d.blocks = s /\ ~d.odd /\ d.index = n
    BY <1>1, <2>3 DEF Claude
  <2>. QED
    BY <2>3, <2>4, <2>5, <2>6
<1>6. b.open /\ b.kind = kind
  BY DEF b
<1>7. s # << >>
  BY <1>1, <1>4
<1>8. OpenKind(d) = kind
  BY <1>4, <1>5, <1>6, <1>7 DEF OpenKind, LastBlock
<1>9. HasCall(d) <=> HasCall(c) \/ kind = "call"
  <2>1. \A k \in DOMAIN s : k = n + 1 \/ k \in 1..n
    BY <1>1, <1>4
  <2>2. \A k \in 1..n : k \in DOMAIN s
    BY <1>1, <1>4
  <2>3. n + 1 \in DOMAIN s
    BY <1>1, <1>4
  <2>. QED
    BY <1>1, <1>4, <1>5, <1>6, <2>1, <2>2, <2>3 DEF HasCall
<1>10. Numbered(d)
  BY <1>1, <1>2, <1>4, <1>5 DEF Numbered
<1>11. d = [c EXCEPT !.index = d.index, !.blocks = d.blocks]
  BY <1>5
<1>. QED
  BY <1>8, <1>9, <1>10, <1>11

\* If no block is open as far as the last one tells, none is.
LEMMA NoneOpen ==
  ASSUME NEW c, Numbered(c), OpenKind(c) = "none"
  PROVE  \A k \in DOMAIN c.blocks : ~c.blocks[k].open
<1>. SUFFICES ASSUME NEW k \in DOMAIN c.blocks, c.blocks[k].open PROVE FALSE
  OBVIOUS
<1>1. c.blocks \in Seq(Block)
  BY DEF Numbered, Claude
<1>2. k = Len(c.blocks) /\ c.blocks # << >>
  BY <1>1, Blocks DEF Numbered
<1>3. LastBlock(c).open /\ LastBlock(c) \in Block
  BY <1>1, <1>2, Blocks DEF LastBlock
<1>. QED
  BY <1>2, <1>3 DEF OpenKind, Block, BlockKinds

-----------------------------------------------------------------------------
\* What an event may do to the message beside its blocks.
Alike(d, c) ==
  d.begun = c.begun /\ d.stops = c.stops /\ d.tool = c.tool /\ (HasCall(d) <=> HasCall(c))

LEMMA ThinkingStopped ==
  ASSUME NEW c, Numbered(c), Flagged(c), NEW d, d = StopThinking(c)
  PROVE  /\ Numbered(d) /\ Flagged(d) /\ Alike(d, c)
         /\ OpenKind(d) = IF OpenKind(c) = "thought" THEN "none" ELSE OpenKind(c)
<1>1. CASE ~c.thinking
  BY <1>1 DEF StopThinking, Flagged, Alike
<1>2. CASE c.thinking
  <2>. DEFINE s == StopBlock(c)
  <2>1. OpenKind(c) = "thought"
    BY <1>2 DEF Flagged
  <2>2. /\ Numbered(s) /\ OpenKind(s) = "none" /\ (HasCall(s) <=> HasCall(c))
        /\ s = [c EXCEPT !.blocks = s.blocks] /\ c \in Claude /\ s \in Claude
    BY <2>1, Stopped DEF Numbered
  <2>. HIDE DEF s
  <2>3. s.started = c.started /\ s.tool = c.tool /\ s.begun = c.begun /\ s.stops = c.stops
    BY <2>2 DEF Claude
  <2>4. d = [s EXCEPT !.thinking = FALSE]
    BY <1>2 DEF StopThinking, s
  <2>5. /\ d \in Claude /\ d.odd = s.odd /\ d.index = s.index /\ d.blocks = s.blocks /\ d.thinking = FALSE
        /\ d.started = s.started /\ d.tool = s.tool /\ d.begun = s.begun /\ d.stops = s.stops
    BY <2>2, <2>4 DEF Claude
  <2>6. Numbered(d) /\ OpenKind(d) = "none" /\ (HasCall(d) <=> HasCall(c))
    BY <2>2, <2>5, SameBlocks
  <2>. QED
    BY <2>1, <2>3, <2>5, <2>6 DEF Flagged, Alike
<1>. QED
  BY <1>1, <1>2

LEMMA TextStopped ==
  ASSUME NEW c, Numbered(c), Flagged(c), NEW d, d = StopText(c)
  PROVE  /\ Numbered(d) /\ Flagged(d) /\ Alike(d, c)
         /\ OpenKind(d) = IF OpenKind(c) = "text" THEN "none" ELSE OpenKind(c)
<1>1. CASE ~c.started
  BY <1>1 DEF StopText, Flagged, Alike
<1>2. CASE c.started
  <2>. DEFINE s == StopBlock(c)
  <2>1. OpenKind(c) = "text"
    BY <1>2 DEF Flagged
  <2>2. /\ Numbered(s) /\ OpenKind(s) = "none" /\ (HasCall(s) <=> HasCall(c))
        /\ s = [c EXCEPT !.blocks = s.blocks] /\ c \in Claude /\ s \in Claude
    BY <2>1, Stopped DEF Numbered
  <2>. HIDE DEF s
  <2>3. s.thinking = c.thinking /\ s.tool = c.tool /\ s.begun = c.begun /\ s.stops = c.stops
    BY <2>2 DEF Claude
  <2>4. d = [s EXCEPT !.started = FALSE]
    BY <1>2 DEF StopText, s
  <2>5. /\ d \in Claude /\ d.odd = s.odd /\ d.index = s.index /\ d.blocks = s.blocks /\ d.started = FALSE
        /\ d.thinking = s.thinking /\ d.tool = s.tool /\ d.begun = s.begun /\ d.stops = s.stops
    BY <2>2, <2>4 DEF Claude
  <2>6. Numbered(d) /\ OpenKind(d) = "none" /\ (HasCall(d) <=> HasCall(c))
    BY <2>2, <2>5, SameBlocks
  <2>. QED
    BY <2>1, <2>3, <2>5, <2>6 DEF Flagged, Alike
<1>. QED
  BY <1>1, <1>2

\* A block of text or of a thought is filled, and started if need be.
LEMMA Told ==
  ASSUME NEW c, Numbered(c), Flagged(c), NEW kind \in {"text", "thought"}, OpenKind(c) \in {"none", kind},
         NEW b,
         OpenKind(c) = kind => b = [c EXCEPT !.has = TRUE],
         OpenKind(c) = "none" =>
           b = IF kind = "text" THEN [StartBlock(c, kind) EXCEPT !.started = TRUE, !.has = TRUE]
               ELSE [StartBlock(c, kind) EXCEPT !.thinking = TRUE, !.has = TRUE],
         NEW d, d = FillBlock(b, kind)
  PROVE  Numbered(d) /\ Flagged(d) /\ Alike(d, c) /\ OpenKind(d) = kind
<1>1. Numbered(b) /\ Flagged(b) /\ Alike(b, c) /\ OpenKind(b) = kind
  <2>1. CASE OpenKind(c) = kind
    <3>1. c \in Claude
      BY DEF Numbered
    <3>2. /\ b \in Claude /\ b.odd = c.odd /\ b.index = c.index /\ b.blocks = c.blocks /\ b.started = c.started
          /\ b.thinking = c.thinking /\ b.tool = c.tool /\ b.begun = c.begun /\ b.stops = c.stops
      BY <2>1, <3>1 DEF Claude
    <3>3. Numbered(b) /\ OpenKind(b) = kind /\ (HasCall(b) <=> HasCall(c))
      BY <2>1, <3>2, SameBlocks
    <3>. QED
      BY <2>1, <3>2, <3>3 DEF Flagged, Alike
  <2>2. CASE OpenKind(c) = "none"
    <3>. DEFINE s == StartBlock(c, kind)
    <3>1. /\ Numbered(s) /\ OpenKind(s) = kind /\ (HasCall(s) <=> HasCall(c))
          /\ s = [c EXCEPT !.index = s.index, !.blocks = s.blocks] /\ c \in Claude /\ s \in Claude
      BY <2>2, StartedBlock DEF Numbered, BlockKinds
    <3>2. kind # "none" /\ b = IF kind = "text" THEN [s EXCEPT !.started = TRUE, !.has = TRUE]
                               ELSE [s EXCEPT !.thinking = TRUE, !.has = TRUE]
      BY <2>2
    <3>. HIDE DEF s
    <3>3. s.thinking = c.thinking /\ s.started = c.started /\ s.tool = c.tool /\ s.begun = c.begun
          /\ s.stops = c.stops
      BY <3>1 DEF Claude
    <3>4. /\ b \in Claude /\ b.odd = s.odd /\ b.index = s.index /\ b.blocks = s.blocks
          /\ b.tool = s.tool /\ b.begun = s.begun /\ b.stops = s.stops
          /\ (b.started <=> s.started \/ kind = "text") /\ (b.thinking <=> s.thinking \/ kind = "thought")
      <4>1. CASE kind = "text"
        <5>1. b = [s EXCEPT !.started = TRUE, !.has = TRUE] /\ s \in Claude
          BY <3>1, <3>2, <4>1
        <5>. QED
          BY <5>1, <4>1 DEF Claude
      <4>2. CASE kind = "thought"
        <5>1. b = [s EXCEPT !.thinking = TRUE, !.has = TRUE] /\ s \in Claude
          BY <3>1, <3>2, <4>2
        <5>. QED
          BY <5>1, <4>2 DEF Claude
      <4>. QED
        BY <4>1, <4>2
    <3>5. Numbered(b) /\ OpenKind(b) = kind /\ (HasCall(b) <=> HasCall(c))
      BY <3>1, <3>4, SameBlocks
    <3>. QED
      BY <2>2, <3>3, <3>4, <3>5 DEF Flagged, Alike
  <2>. QED
    BY <2>1, <2>2
<1>2. /\ Numbered(d) /\ OpenKind(d) = kind /\ (HasCall(d) <=> HasCall(b))
      /\ d = [b EXCEPT !.blocks = d.blocks] /\ b \in Claude
  <2>1. kind \in BlockKinds
    BY DEF BlockKinds
  <2>2. b \in Claude
    BY <1>1 DEF Numbered
  <2>. QED
    BY <1>1, <2>1, <2>2, FilledBlock, Zenon
<1>3. d.thinking = b.thinking /\ d.started = b.started /\ d.tool = b.tool /\ d.begun = b.begun /\ d.stops = b.stops
  BY <1>2 DEF Claude
<1>. QED
  BY <1>1, <1>2, <1>3 DEF Flagged, Alike

LEMMA ThoughtTold ==
  ASSUME NEW c, Numbered(c), Flagged(c), OpenKind(c) \in {"none", "thought"}, NEW d, d = ClaudeThought(c)
  PROVE  Numbered(d) /\ Flagged(d) /\ Alike(d, c) /\ OpenKind(d) = "thought"
<1>. DEFINE b == IF OpenKind(c) = "thought" THEN [c EXCEPT !.has = TRUE]
                 ELSE [StartBlock(c, "thought") EXCEPT !.thinking = TRUE, !.has = TRUE]
<1>1. d = FillBlock(b, "thought")
  BY DEF ClaudeThought, Flagged
<1>. HIDE DEF b
<1>2. /\ OpenKind(c) = "thought" => b = [c EXCEPT !.has = TRUE]
      /\ OpenKind(c) = "none" => b = [StartBlock(c, "thought") EXCEPT !.thinking = TRUE, !.has = TRUE]
  BY DEF b
<1>3. "thought" \in {"text", "thought"} /\ "thought" # "text"
  OBVIOUS
<1>. QED
  BY <1>1, <1>2, <1>3, Told

LEMMA TextTold ==
  ASSUME NEW c, Numbered(c), Flagged(c), OpenKind(c) # "call", NEW d, d = ClaudeText(c)
  PROVE  Numbered(d) /\ Flagged(d) /\ Alike(d, c) /\ OpenKind(d) = "text"
<1>. DEFINE e == StopThinking(c)
            b == IF OpenKind(e) = "text" THEN [e EXCEPT !.has = TRUE]
                 ELSE [StartBlock(e, "text") EXCEPT !.started = TRUE, !.has = TRUE]
<1>1. OpenKind(c) \in {"none", "thought", "text"}
  BY KindOfOpen
<1>2. Numbered(e) /\ Flagged(e) /\ Alike(e, c) /\ OpenKind(e) \in {"none", "text"}
  BY <1>1, ThinkingStopped
<1>3. d = FillBlock(b, "text")
  BY <1>2 DEF ClaudeText, Flagged
<1>. HIDE DEF b, e
<1>4. /\ OpenKind(e) = "text" => b = [e EXCEPT !.has = TRUE]
      /\ OpenKind(e) = "none" => b = [StartBlock(e, "text") EXCEPT !.started = TRUE, !.has = TRUE]
  BY DEF b
<1>5. "text" \in {"text", "thought"}
  OBVIOUS
<1>6. Numbered(d) /\ Flagged(d) /\ Alike(d, e) /\ OpenKind(d) = "text"
  BY <1>2, <1>3, <1>4, <1>5, Told
<1>. QED
  BY <1>2, <1>6 DEF Alike

\* The blocks of text and thoughts are stopped.
LEMMA BothStopped ==
  ASSUME NEW c, Numbered(c), Flagged(c), NEW d, d = StopText(StopThinking(c))
  PROVE  /\ Numbered(d) /\ Flagged(d) /\ Alike(d, c)
         /\ OpenKind(d) = IF OpenKind(c) = "call" THEN "call" ELSE "none"
<1>. DEFINE e == StopThinking(c)
<1>1. OpenKind(c) \in {"none", "thought", "text", "call"}
  BY KindOfOpen
<1>2. /\ Numbered(e) /\ Flagged(e) /\ Alike(e, c)
      /\ OpenKind(e) = IF OpenKind(c) = "thought" THEN "none" ELSE OpenKind(c)
  BY ThinkingStopped
<1>. HIDE DEF e
<1>3. d = StopText(e)
  BY DEF e
<1>4. /\ Numbered(d) /\ Flagged(d) /\ Alike(d, e)
      /\ OpenKind(d) = IF OpenKind(e) = "text" THEN "none" ELSE OpenKind(e)
  BY <1>2, <1>3, TextStopped
<1>. QED
  BY <1>1, <1>2, <1>4 DEF Alike

LEMMA CallTold ==
  ASSUME NEW c, Numbered(c), Flagged(c), OpenKind(c) # "call", NEW d, d = ClaudeCalled(c)
  PROVE  /\ Numbered(d) /\ Flagged(d) /\ OpenKind(d) = "call"
         /\ d.begun = c.begun /\ d.stops = c.stops
<1>. DEFINE e == StopText(StopThinking(c))
            s == StartBlock(e, "call")
<1>1. Numbered(e) /\ Flagged(e) /\ Alike(e, c) /\ OpenKind(e) = "none"
  BY BothStopped
<1>. HIDE DEF e
<1>2. /\ Numbered(s) /\ OpenKind(s) = "call" /\ HasCall(s)
      /\ s = [e EXCEPT !.index = s.index, !.blocks = s.blocks] /\ e \in Claude /\ s \in Claude
  BY <1>1, StartedBlock DEF Numbered, BlockKinds
<1>. HIDE DEF s
<1>3. /\ s.thinking = e.thinking /\ s.started = e.started /\ s.begun = e.begun /\ s.stops = e.stops
      /\ ~e.thinking /\ ~e.started
  BY <1>1, <1>2 DEF Claude, Flagged
<1>4. d = [s EXCEPT !.has = TRUE, !.tool = TRUE] /\ s \in Claude
  BY <1>2 DEF ClaudeCalled, s, e
<1>5. /\ d \in Claude /\ d.odd = s.odd /\ d.index = s.index /\ d.blocks = s.blocks /\ d.thinking = s.thinking
      /\ d.started = s.started /\ d.tool = TRUE /\ d.begun = s.begun /\ d.stops = s.stops
  BY <1>4 DEF Claude
<1>6. Numbered(d) /\ OpenKind(d) = "call" /\ HasCall(d)
  BY <1>2, <1>5, SameBlocks
<1>. QED
  BY <1>1, <1>3, <1>5, <1>6 DEF Flagged, Alike

LEMMA ArgsTold ==
  ASSUME NEW c, Numbered(c), Flagged(c), OpenKind(c) = "call", NEW d, d = ClaudeArgs(c)
  PROVE  Numbered(d) /\ Flagged(d) /\ Alike(d, c) /\ OpenKind(d) = "call"
<1>1. /\ Numbered(d) /\ OpenKind(d) = "call" /\ (HasCall(d) <=> HasCall(c))
      /\ d = [c EXCEPT !.blocks = d.blocks] /\ c \in Claude
  BY FilledBlock DEF ClaudeArgs, BlockKinds, Numbered
<1>2. d.thinking = c.thinking /\ d.started = c.started /\ d.tool = c.tool /\ d.begun = c.begun /\ d.stops = c.stops
  BY <1>1 DEF Claude
<1>. QED
  BY <1>1, <1>2 DEF Flagged, Alike

LEMMA ArgsStopped ==
  ASSUME NEW c, Numbered(c), Flagged(c), OpenKind(c) = "call", NEW d, d = ClaudeArgsDone(c)
  PROVE  Numbered(d) /\ Flagged(d) /\ Alike(d, c) /\ OpenKind(d) = "none"
<1>1. /\ Numbered(d) /\ OpenKind(d) = "none" /\ (HasCall(d) <=> HasCall(c))
      /\ d = [c EXCEPT !.blocks = d.blocks] /\ c \in Claude
  BY Stopped DEF ClaudeArgsDone, Numbered
<1>2. d.thinking = c.thinking /\ d.started = c.started /\ d.tool = c.tool /\ d.begun = c.begun /\ d.stops = c.stops
  BY <1>1 DEF Claude
<1>. QED
  BY <1>1, <1>2 DEF Flagged, Alike

-----------------------------------------------------------------------------
\* A message is over: told once, with the reason that fits.
MessageOver(d, c) ==
  /\ Numbered(d)
  /\ d.begun = c.begun /\ d.stops = c.stops + 1
  /\ d.reason = "tool_use" <=> HasCall(d)

LEMMA MessageStopped ==
  ASSUME NEW c, Numbered(c), c.tool <=> HasCall(c), NEW d, d = StopMessage(c)
  PROVE  MessageOver(d, c) /\ OpenKind(d) = OpenKind(c)
<1>1. c \in Claude /\ c.stops \in Nat /\ c.stops + 1 \in Nat
  BY DEF Numbered, Claude
<1>. DEFINE why == IF c.tool THEN "tool_use" ELSE "end_turn"
            more == c.stops + 1
<1>2. why \in {"none", "end_turn", "tool_use"} /\ (why = "tool_use" <=> c.tool)
  OBVIOUS
<1>3. d = [c EXCEPT !.stops = more, !.reason = why]
  BY DEF StopMessage
<1>4. more \in Nat
  BY <1>1
<1>. HIDE DEF why, more
<1>5. /\ d \in Claude /\ d.odd = c.odd /\ d.index = c.index /\ d.blocks = c.blocks /\ d.begun = c.begun
      /\ d.stops = more /\ d.reason = why
  BY <1>1, <1>2, <1>3, <1>4 DEF Claude
<1>6. Numbered(d) /\ OpenKind(d) = OpenKind(c) /\ (HasCall(d) <=> HasCall(c))
  BY <1>5, SameBlocks
<1>. QED
  BY <1>2, <1>5, <1>6 DEF MessageOver, more

LEMMA MessageClosed ==
  ASSUME NEW c, Numbered(c), Flagged(c), c.begun > 0, NEW d, d = ClaudeClosed(c)
  PROVE  /\ MessageOver(d, c)
         /\ OpenKind(d) = IF OpenKind(c) = "call" THEN "call" ELSE "none"
<1>. DEFINE e == StopText(StopThinking(c))
<1>1. /\ Numbered(e) /\ Flagged(e) /\ Alike(e, c)
      /\ OpenKind(e) = IF OpenKind(c) = "call" THEN "call" ELSE "none"
  BY BothStopped
<1>. HIDE DEF e
<1>2. d = StopMessage(e)
  BY DEF ClaudeClosed, e
<1>3. MessageOver(d, e) /\ OpenKind(d) = OpenKind(e)
  BY <1>1, <1>2, MessageStopped DEF Flagged
<1>. QED
  BY <1>1, <1>3 DEF MessageOver, Alike

LEMMA MessageCompleted ==
  ASSUME NEW c, Numbered(c), Flagged(c), OpenKind(c) # "call", NEW d, d = ClaudeCompleted(c)
  PROVE  MessageOver(d, c) /\ OpenKind(d) = "none"
<1>. DEFINE t == StopThinking(c)
            e == IF t.started THEN StopBlock(t) ELSE t
            f == [e EXCEPT !.completed = TRUE]
<1>1. OpenKind(c) \in {"none", "thought", "text"}
  BY KindOfOpen
<1>2. Numbered(t) /\ Flagged(t) /\ Alike(t, c) /\ OpenKind(t) \in {"none", "text"}
  BY <1>1, ThinkingStopped
<1>. HIDE DEF t
<1>3. Numbered(e) /\ Alike(e, t) /\ OpenKind(e) = "none"
  <2>1. CASE t.started
    <3>1. /\ Numbered(e) /\ OpenKind(e) = "none" /\ (HasCall(e) <=> HasCall(t))
          /\ e = [t EXCEPT !.blocks = e.blocks] /\ t \in Claude
      BY <1>2, <2>1, Stopped DEF Flagged, Numbered
    <3>. QED
      BY <3>1 DEF Claude, Alike
  <2>2. CASE ~t.started
    BY <1>2, <2>2 DEF Flagged, Alike
  <2>. QED
    BY <2>1, <2>2
<1>. HIDE DEF e
<1>4. e \in Claude
  BY <1>3 DEF Numbered
<1>5. /\ f \in Claude /\ f.odd = e.odd /\ f.index = e.index /\ f.blocks = e.blocks
      /\ f.tool = e.tool /\ f.begun = e.begun /\ f.stops = e.stops
  BY <1>4 DEF Claude
<1>6. d = StopMessage(f)
  BY DEF ClaudeCompleted, f, e, t
<1>. HIDE DEF f
<1>7. Numbered(f) /\ OpenKind(f) = "none" /\ (HasCall(f) <=> HasCall(e))
  BY <1>3, <1>5, SameBlocks
<1>8. f.tool <=> HasCall(f)
  BY <1>2, <1>3, <1>5, <1>7 DEF Flagged, Alike
<1>9. MessageOver(d, f) /\ OpenKind(d) = OpenKind(f)
  BY <1>6, <1>7, <1>8, MessageStopped
<1>. QED
  BY <1>2, <1>3, <1>5, <1>7, <1>9 DEF MessageOver, Alike

-----------------------------------------------------------------------------

-----------------------------------------------------------------------------
\* What no event but the last does to a message, in whatever order they come: it
\* begins or ends, or forgets whether it has a call.
Kept(d, c) ==
  /\ d \in Claude /\ d.begun = c.begun /\ d.stops = c.stops
  /\ (c.tool <=> HasCall(c)) => (d.tool <=> HasCall(d))

LEMMA KeptOn ==
  ASSUME NEW c, NEW d, NEW e, Kept(d, c), Kept(e, d)
  PROVE  Kept(e, c)
  BY DEF Kept

LEMMA FlagsKept ==
  ASSUME NEW c \in Claude, NEW v \in BOOLEAN
  PROVE  /\ Kept(c, c) /\ Kept([c EXCEPT !.odd = v], c) /\ Kept([c EXCEPT !.has = v], c)
         /\ Kept([c EXCEPT !.thinking = v], c) /\ Kept([c EXCEPT !.started = v], c)
         /\ Kept([c EXCEPT !.completed = v], c)
  BY DEF Kept, Claude, HasCall

LEMMA BlockKept ==
  ASSUME NEW c \in Claude, NEW i \in DOMAIN c.blocks, NEW b \in Block, b.kind = c.blocks[i].kind,
         NEW d, d = [c EXCEPT !.blocks = [c.blocks EXCEPT ![i] = b]]
  PROVE  Kept(d, c)
<1>. DEFINE s == [c.blocks EXCEPT ![i] = b]
<1>1. c.blocks \in Seq(Block) /\ DOMAIN c.blocks = 1..Len(c.blocks) /\ Len(c.blocks) \in Nat
  BY Blocks DEF Claude
<1>2. /\ DOMAIN s = 1..Len(c.blocks) /\ \A k \in DOMAIN s : s[k] \in Block /\ s[k].kind = c.blocks[k].kind
  BY <1>1, Blocks
<1>3. s \in Seq(Block)
  BY <1>1, <1>2
<1>. HIDE DEF s
<1>4. d = [c EXCEPT !.blocks = s]
  BY DEF s
<1>5. d \in Claude /\ d.blocks = s /\ d.begun = c.begun /\ d.stops = c.stops /\ d.tool = c.tool
  BY <1>3, <1>4 DEF Claude
<1>6. HasCall(d) <=> HasCall(c)
  BY <1>1, <1>2, <1>5 DEF HasCall
<1>. QED
  BY <1>5, <1>6 DEF Kept

LEMMA StopKept ==
  ASSUME NEW c \in Claude
  PROVE  Kept(StopBlock(c), c)
<1>1. CASE Here(c) \in DOMAIN c.blocks /\ c.blocks[Here(c)].open
  <2>. DEFINE b == [c.blocks[Here(c)] EXCEPT !.open = FALSE]
  <2>1. c.blocks[Here(c)] \in Block
    BY <1>1, Blocks DEF Claude
  <2>2. b \in Block /\ b.kind = c.blocks[Here(c)].kind
    BY <2>1 DEF Block
  <2>3. StopBlock(c) = [c EXCEPT !.blocks = [c.blocks EXCEPT ![Here(c)] = b]]
    BY <1>1 DEF StopBlock, Here
  <2>. HIDE DEF b
  <2>. QED
    BY <1>1, <2>2, <2>3, BlockKept
<1>2. CASE ~(Here(c) \in DOMAIN c.blocks /\ c.blocks[Here(c)].open)
  BY <1>2, FlagsKept DEF StopBlock
<1>. QED
  BY <1>1, <1>2

LEMMA FillKept ==
  ASSUME NEW c \in Claude, NEW kind
  PROVE  Kept(FillBlock(c, kind), c)
<1>1. CASE Here(c) \in DOMAIN c.blocks /\ c.blocks[Here(c)].open /\ c.blocks[Here(c)].kind = kind
  <2>. DEFINE b == [c.blocks[Here(c)] EXCEPT !.n = @ + 1]
  <2>1. c.blocks[Here(c)] \in Block
    BY <1>1, Blocks DEF Claude
  <2>2. b \in Block /\ b.kind = c.blocks[Here(c)].kind
    BY <2>1 DEF Block
  <2>3. FillBlock(c, kind) = [c EXCEPT !.blocks = [c.blocks EXCEPT ![Here(c)] = b]]
    BY <1>1 DEF FillBlock, Here
  <2>. HIDE DEF b
  <2>. QED
    BY <1>1, <2>2, <2>3, BlockKept
<1>2. CASE ~(Here(c) \in DOMAIN c.blocks /\ c.blocks[Here(c)].open /\ c.blocks[Here(c)].kind = kind)
  BY <1>2, FlagsKept DEF FillBlock
<1>. QED
  BY <1>1, <1>2

LEMMA StartKept ==
  ASSUME NEW c \in Claude, NEW kind \in BlockKinds, NEW d, d = StartBlock(c, kind)
  PROVE  /\ d \in Claude /\ d.begun = c.begun /\ d.stops = c.stops /\ d.tool = c.tool
         /\ HasCall(d) <=> HasCall(c) \/ kind = "call"
<1>. DEFINE b == [kind |-> kind, n |-> 0, open |-> TRUE]
            s == Append(c.blocks, b)
            i == c.index + 1
            o == c.odd \/ Len(c.blocks) # c.index + 1 \/ \E k \in DOMAIN c.blocks : c.blocks[k].open
<1>1. b \in Block /\ b.kind = kind
  BY DEF Block
<1>2. c.blocks \in Seq(Block) /\ DOMAIN c.blocks = 1..Len(c.blocks) /\ Len(c.blocks) \in Nat /\ i \in Int
  BY Blocks DEF Claude
<1>3. d = [c EXCEPT !.index = i, !.blocks = s, !.odd = o]
  BY DEF StartBlock
<1>4. o \in BOOLEAN
  BY DEF Claude
<1>. HIDE DEF b, i, o
<1>5. /\ s \in Seq(Block) /\ DOMAIN s = 1..Len(c.blocks) + 1 /\ s[Len(c.blocks) + 1] = b
      /\ \A k \in 1..Len(c.blocks) : s[k] = c.blocks[k]
  BY <1>1, <1>2
<1>. HIDE DEF s
<1>6. /\ d \in Claude /\ d.blocks = s /\ d.begun = c.begun /\ d.stops = c.stops /\ d.tool = c.tool
  BY <1>2, <1>3, <1>4, <1>5 DEF Claude
<1>7. ASSUME HasCall(d) PROVE HasCall(c) \/ kind = "call"
  <2>1. PICK k \in DOMAIN s : s[k].kind = "call"
    BY <1>6, <1>7 DEF HasCall
  <2>2. k = Len(c.blocks) + 1 \/ k \in 1..Len(c.blocks)
    BY <1>2, <1>5
  <2>. QED
    BY <1>1, <1>2, <1>5, <2>1, <2>2 DEF HasCall
<1>8. ASSUME kind = "call" PROVE HasCall(d)
  BY <1>1, <1>2, <1>5, <1>6, <1>8 DEF HasCall
<1>9. ASSUME HasCall(c) PROVE HasCall(d)
  <2>1. PICK k \in DOMAIN c.blocks : c.blocks[k].kind = "call"
    BY <1>9 DEF HasCall
  <2>2. k \in DOMAIN s /\ s[k] = c.blocks[k]
    BY <1>2, <1>5
  <2>. QED
    BY <1>6, <2>1, <2>2 DEF HasCall
<1>. QED
  BY <1>6, <1>7, <1>8, <1>9

LEMMA StopsKept ==
  ASSUME NEW c \in Claude
  PROVE  Kept(StopThinking(c), c) /\ Kept(StopText(c), c) /\ Kept(StopText(StopThinking(c)), c)
<1>1. ASSUME NEW d \in Claude PROVE Kept(StopThinking(d), d) /\ Kept(StopText(d), d)
  <2>. DEFINE s == StopBlock(d)
  <2>1. Kept(s, d) /\ s \in Claude
    BY StopKept DEF Kept
  <2>2. Kept([s EXCEPT !.thinking = FALSE], s) /\ Kept([s EXCEPT !.started = FALSE], s) /\ Kept(d, d)
    BY <2>1, FlagsKept
  <2>. QED
    BY <2>1, <2>2, KeptOn DEF StopThinking, StopText
<1>2. StopThinking(c) \in Claude
  BY <1>1 DEF Kept
<1>. QED
  BY <1>1, <1>2, KeptOn

LEMMA PieceKept ==
  ASSUME NEW c \in Claude, NEW kind \in {"thought", "text"}, NEW b,
         \/ b = [c EXCEPT !.has = TRUE]
         \/ b = [StartBlock(c, kind) EXCEPT !.thinking = TRUE, !.has = TRUE]
         \/ b = [StartBlock(c, kind) EXCEPT !.started = TRUE, !.has = TRUE]
  PROVE  Kept(FillBlock(b, kind), c)
<1>. DEFINE s == StartBlock(c, kind)
<1>1. Kept(s, c) /\ s \in Claude
  <2>1. kind \in BlockKinds /\ kind # "call"
    BY DEF BlockKinds
  <2>. QED
    BY <2>1, StartKept DEF Kept
<1>. HIDE DEF s
<1>2. Kept(b, c)
  <2>1. CASE b = [c EXCEPT !.has = TRUE]
    BY <2>1, FlagsKept
  <2>2. CASE b = [s EXCEPT !.thinking = TRUE, !.has = TRUE] \/ b = [s EXCEPT !.started = TRUE, !.has = TRUE]
    <3>1. /\ b \in Claude /\ b.begun = s.begun /\ b.stops = s.stops /\ b.tool = s.tool /\ b.blocks = s.blocks
      BY <1>1, <2>2 DEF Claude
    <3>2. Kept(b, s)
      BY <3>1 DEF Kept, HasCall
    <3>. QED
      BY <1>1, <3>2, KeptOn
  <2>. QED
    BY <2>1, <2>2 DEF s
<1>3. b \in Claude
  BY <1>2 DEF Kept
<1>. QED
  BY <1>2, <1>3, FillKept, KeptOn

LEMMA ThoughtKept == ASSUME NEW c \in Claude PROVE Kept(ClaudeThought(c), c)
<1>. DEFINE b == IF c.thinking THEN [c EXCEPT !.has = TRUE]
                 ELSE [StartBlock(c, "thought") EXCEPT !.thinking = TRUE, !.has = TRUE]
<1>1. ClaudeThought(c) = FillBlock(b, "thought")
  BY DEF ClaudeThought
<1>2. \/ b = [c EXCEPT !.has = TRUE]
      \/ b = [StartBlock(c, "thought") EXCEPT !.thinking = TRUE, !.has = TRUE]
  OBVIOUS
<1>. HIDE DEF b
<1>3. "thought" \in {"thought", "text"}
  OBVIOUS
<1>4. Kept(FillBlock(b, "thought"), c)
  BY <1>2, <1>3, PieceKept
<1>. QED
  BY <1>1, <1>4

LEMMA TextKept == ASSUME NEW c \in Claude PROVE Kept(ClaudeText(c), c)
<1>. DEFINE e == StopThinking(c)
            b == IF e.started THEN [e EXCEPT !.has = TRUE]
                 ELSE [StartBlock(e, "text") EXCEPT !.started = TRUE, !.has = TRUE]
<1>1. ClaudeText(c) = FillBlock(b, "text")
  BY DEF ClaudeText
<1>2. \/ b = [e EXCEPT !.has = TRUE]
      \/ b = [StartBlock(e, "text") EXCEPT !.started = TRUE, !.has = TRUE]
  OBVIOUS
<1>3. Kept(e, c) /\ e \in Claude
  BY StopsKept DEF Kept
<1>. HIDE DEF b, e
<1>4. Kept(FillBlock(b, "text"), e)
  BY <1>2, <1>3, PieceKept
<1>. QED
  BY <1>1, <1>3, <1>4, KeptOn

LEMMA CalledKept ==
  ASSUME NEW c \in Claude, NEW d, d = ClaudeCalled(c)
  PROVE  Kept(d, c)
<1>. DEFINE e == StopText(StopThinking(c))
            s == StartBlock(e, "call")
<1>1. Kept(e, c) /\ e \in Claude
  BY StopsKept DEF Kept
<1>. HIDE DEF e
<1>2. s \in Claude /\ s.begun = e.begun /\ s.stops = e.stops /\ HasCall(s)
  BY <1>1, StartKept DEF BlockKinds
<1>3. d = [s EXCEPT !.has = TRUE, !.tool = TRUE]
  BY DEF ClaudeCalled, s, e
<1>. HIDE DEF s
<1>4. d \in Claude /\ d.begun = s.begun /\ d.stops = s.stops /\ d.tool = TRUE /\ d.blocks = s.blocks
  BY <1>2, <1>3 DEF Claude
<1>. QED
  BY <1>1, <1>2, <1>4 DEF Kept, HasCall

\* A message is stopped, whatever its blocks are.
MessageEnds(d, c) ==
  /\ d \in Claude /\ d.begun = c.begun /\ d.stops = c.stops + 1
  /\ (c.tool <=> HasCall(c)) => (d.tool <=> HasCall(d))
  /\ d.reason = "tool_use" <=> d.tool

LEMMA MessageEnding ==
  ASSUME NEW c, NEW e, Kept(e, c), NEW d, d = StopMessage(e)
  PROVE  MessageEnds(d, c)
<1>. DEFINE why == IF e.tool THEN "tool_use" ELSE "end_turn"
            more == e.stops + 1
<1>1. e \in Claude /\ more \in Nat /\ why \in {"none", "end_turn", "tool_use"} /\ (why = "tool_use" <=> e.tool)
  BY DEF Kept, Claude
<1>2. d = [e EXCEPT !.stops = more, !.reason = why]
  BY DEF StopMessage
<1>. HIDE DEF why
<1>3. more = e.stops + 1
  OBVIOUS
<1>. HIDE DEF more
<1>4. /\ d \in Claude /\ d.begun = e.begun /\ d.stops = more /\ d.tool = e.tool /\ d.blocks = e.blocks
      /\ d.reason = why
  BY <1>1, <1>2 DEF Claude
<1>. QED
  BY <1>1, <1>3, <1>4 DEF Kept, MessageEnds, HasCall

LEMMA CompletedEnds ==
  ASSUME NEW c \in Claude
  PROVE  MessageEnds(ClaudeCompleted(c), c)
<1>. DEFINE t == StopThinking(c)
            e == IF t.started THEN StopBlock(t) ELSE t
            f == [e EXCEPT !.completed = TRUE]
<1>1. Kept(t, c) /\ t \in Claude
  BY StopsKept DEF Kept
<1>2. ClaudeCompleted(c) = StopMessage(f)
  BY DEF ClaudeCompleted
<1>. HIDE DEF t
<1>3. Kept(e, t) /\ e \in Claude
  BY <1>1, StopKept, FlagsKept DEF Kept
<1>. HIDE DEF e
<1>4. Kept(f, e)
  BY <1>3, FlagsKept
<1>. HIDE DEF f
<1>5. Kept(f, c)
  BY <1>1, <1>3, <1>4, KeptOn
<1>. QED
  BY <1>2, <1>5, MessageEnding

LEMMA ClosedEnds ==
  ASSUME NEW c \in Claude, c.begun > 0
  PROVE  MessageEnds(ClaudeClosed(c), c)
<1>1. ClaudeClosed(c) = StopMessage(StopText(StopThinking(c)))
  BY DEF ClaudeClosed
<1>. QED
  BY <1>1, StopsKept, MessageEnding

-----------------------------------------------------------------------------
Upstream ==
  [at : {"before", "on", "over", "failed"}, item : Items, sent : Int, done : BOOLEAN, part : Int,
   summary : BOOLEAN, texted : BOOLEAN, quirks : SUBSET Quirks]

\* What holds of a stream in whatever order the upstream tells its items: the message
\* begins with it and is stopped with it, and knows of its calls.
Standing ==
  /\ up \in Upstream /\ claude \in Claude
  /\ claude.tool <=> HasCall(claude)
  /\ up.at = "before" => up = BeginUp /\ claude = BeginClaude
  /\ up.at = "on" => claude.begun > 0
  /\ claude.stops = IF up.at = "over" /\ claude.begun > 0 THEN 1 ELSE 0
  /\ claude.stops = 1 => (claude.reason = "tool_use" <=> claude.tool)

\* While the stream is on, the open block is that of the item at hand, or of a thought
\* or a text whose end nobody was told of.
Follows ==
  /\ Flagged(claude)
  /\ OpenKind(claude) = "thought" => up.item \in {"none", "thought"}
  /\ OpenKind(claude) = "text" => up.texted
  /\ OpenKind(claude) = "call" <=> up.item = "call" /\ ~up.done
  /\ up.done => up.item = "call"

Orderly ==
  /\ Numbered(claude)
  /\ up.at = "on" => Follows
  /\ up.at = "over" /\ (up.item = "call" => up.done) => OpenKind(claude) = "none"

Paired == Standing /\ ("astray" \notin up.quirks => Orderly)

LEMMA BeginsPaired ==
  /\ BeginClaude \in Claude /\ Numbered(BeginClaude) /\ Flagged(BeginClaude)
  /\ OpenKind(BeginClaude) = "none" /\ BeginUp \in Upstream
<1>. DEFINE c == BeginClaude
<1>1. << >> \in Seq(Block) /\ Len(<< >>) = 0 /\ DOMAIN << >> = {}
  OBVIOUS
<1>2. c \in Claude /\ c.blocks = << >> /\ c.index = -1 /\ ~c.odd /\ ~c.thinking /\ ~c.started /\ ~c.tool
  BY <1>1 DEF BeginClaude, Claude
<1>. HIDE DEF c
<1>3. Numbered(c) /\ ~HasCall(c) /\ OpenKind(c) = "none"
  BY <1>1, <1>2 DEF Numbered, HasCall, OpenKind
<1>4. Flagged(c)
  BY <1>2, <1>3 DEF Flagged
<1>5. BeginUp \in Upstream
  BY DEF BeginUp, Upstream, Items
<1>. QED
  BY <1>2, <1>3, <1>4, <1>5 DEF c

\* A step of an item while the stream is on.
Goes(item, done, texted) ==
  /\ up' \in Upstream /\ up.at = "on" /\ up'.at = "on" /\ up'.item = item /\ up'.done = done
  /\ up'.texted = texted /\ up.quirks \subseteq up'.quirks

\* What the last event of an item leaves behind.
LEMMA FinishedType ==
  ASSUME up \in Upstream, up.at = "on", NEW kind, NEW n, NEW q \in SUBSET Quirks, Finished(kind, n, q)
  PROVE  Goes("none", FALSE, up.texted)
<1>1. up' = [up EXCEPT !.item = "none", !.sent = 0, !.done = FALSE, !.part = 0, !.quirks = @ \cup q]
  BY DEF Finished
<1>2. "none" \in Items /\ 0 \in Int /\ up.quirks \cup q \in SUBSET Quirks
  BY DEF Items, Upstream
<1>3. up' \in Upstream
  BY <1>1, <1>2 DEF Upstream
<1>. QED
  BY <1>1, <1>3 DEF Goes, Upstream

LEMMA Noted == \A quirk \in Quirks, holds \in BOOLEAN : If(quirk, holds) \in SUBSET Quirks
  BY DEF If

\* A step after which the message goes on.
LEMMA StandingOn ==
  ASSUME Standing, NEW item, NEW done, NEW texted, Goes(item, done, texted), Kept(claude', claude)
  PROVE  Standing'
<1>1. up.at = "on" /\ up'.at = "on" /\ claude.begun > 0 /\ claude.stops = 0
  BY DEF Goes, Standing
<1>2. claude' \in Claude /\ claude'.begun > 0 /\ claude'.stops = 0 /\ (claude'.tool <=> HasCall(claude'))
  BY <1>1 DEF Kept, Standing
<1>. QED
  BY <1>1, <1>2 DEF Standing, Goes

LEMMA PairedOn ==
  ASSUME Paired, NEW item, NEW done, NEW texted, Goes(item, done, texted), Kept(claude', claude),
         ASSUME Orderly, Follows, "astray" \notin up'.quirks PROVE Numbered(claude') /\ Follows'
  PROVE  Paired'
<1>1. Standing'
  BY StandingOn DEF Paired
<1>2. ASSUME "astray" \notin up'.quirks PROVE Orderly'
  <2>1. Orderly /\ Follows
    BY <1>2 DEF Paired, Orderly, Goes
  <2>. QED
    BY <1>2, <2>1 DEF Orderly, Goes
<1>. QED
  BY <1>1, <1>2 DEF Paired

LEMMA CreatedPaired == ASSUME Paired, Created PROVE Paired'
<1>1. /\ up = BeginUp /\ claude = BeginClaude /\ up' = [up EXCEPT !.at = "on"]
      /\ claude' = [claude EXCEPT !.begun = @ + 1]
  BY DEF Paired, Standing, Created, ClaudeCreated
<1>2. up' \in Upstream /\ up'.at = "on" /\ up'.item = "none" /\ ~up'.done
  <2>1. up \in Upstream /\ up.item = "none" /\ ~up.done
    BY <1>1, BeginsPaired DEF BeginUp
  <2>. QED
    BY <1>1, <2>1 DEF Upstream
<1>3. claude.begun = 0 /\ claude.stops = 0 /\ claude \in Claude
  BY <1>1, BeginsPaired DEF BeginClaude
<1>4. /\ claude' \in Claude /\ claude'.odd = claude.odd /\ claude'.index = claude.index
      /\ claude'.blocks = claude.blocks /\ claude'.thinking = claude.thinking
      /\ claude'.started = claude.started /\ claude'.tool = claude.tool /\ claude'.begun = 1
      /\ claude'.stops = 0
  BY <1>1, <1>3 DEF Claude
<1>5. Numbered(claude') /\ OpenKind(claude') = "none" /\ (HasCall(claude') <=> HasCall(claude))
  BY <1>1, <1>4, BeginsPaired, SameBlocks
<1>6. Flagged(claude')
  BY <1>1, <1>4, <1>5, BeginsPaired DEF Flagged
<1>. QED
  BY <1>2, <1>4, <1>5, <1>6 DEF Paired, Standing, Orderly, Follows, Flagged

LEMMA ThoughtPaired == ASSUME Paired, Thought PROVE Paired'
<1>1. /\ up.at = "on" /\ up.item \in {"none", "thought"} /\ claude' = ClaudeThought(claude)
      /\ up \in Upstream /\ claude \in Claude
  BY DEF Thought, Between, At, Paired, Standing
<1>2. PICK s \in BOOLEAN :
        up' = [up EXCEPT !.item = "thought", !.sent = @ + 1, !.summary = s,
                 !.quirks = @ \cup If("summed", s) \cup If("astray", up.texted) \cup If("beside", up.part > 0)]
  BY <1>1 DEF Thought, Upstream
<1>. DEFINE q == up.quirks \cup If("summed", s) \cup If("astray", up.texted) \cup If("beside", up.part > 0)
<1>3. q \in SUBSET Quirks /\ up.quirks \subseteq q /\ (up.texted => "astray" \in q)
  BY <1>1 DEF If, Quirks, Upstream
<1>4. up' = [up EXCEPT !.item = "thought", !.sent = @ + 1, !.summary = s, !.quirks = q]
  BY <1>2
<1>. HIDE DEF q
<1>5. up' \in Upstream
  <2>1. "thought" \in Items /\ up.sent + 1 \in Int
    BY <1>1 DEF Items, Upstream
  <2>. QED
    BY <1>1, <1>3, <1>4, <2>1 DEF Upstream
<1>6. Goes("thought", up.done, up.texted) /\ (up.texted => "astray" \in up'.quirks)
  BY <1>1, <1>3, <1>4, <1>5 DEF Goes, Upstream
<1>7. Kept(claude', claude)
  BY <1>1, ThoughtKept
<1>8. ASSUME Orderly, Follows, "astray" \notin up'.quirks PROVE Numbered(claude') /\ Follows'
  <2>1. OpenKind(claude) \in {"none", "thought"} /\ Numbered(claude) /\ ~up.done
    BY <1>1, <1>6, <1>8, KindOfOpen DEF Follows, Orderly
  <2>2. /\ Numbered(claude') /\ Flagged(claude') /\ OpenKind(claude') = "thought"
    BY <1>1, <1>8, <2>1, ThoughtTold DEF Follows
  <2>. QED
    BY <1>6, <2>1, <2>2 DEF Follows, Goes
<1>. QED
  BY <1>6, <1>7, <1>8, PairedOn

LEMMA PartAddedPaired == ASSUME Paired, PartAdded PROVE Paired'
<1>1. /\ up.at = "on" /\ up.item \in {"none", "thought"} /\ claude' = claude
      /\ up \in Upstream /\ claude \in Claude
  BY DEF PartAdded, Between, At, Paired, Standing
<1>2. PICK n \in 1..MaxPieces :
        up' = [up EXCEPT !.item = "thought", !.part = n, !.summary = FALSE,
                         !.quirks = @ \cup If("beside", up.sent > 0)]
  BY DEF PartAdded
<1>. DEFINE q == up.quirks \cup If("beside", up.sent > 0)
<1>3. q \in SUBSET Quirks /\ up.quirks \subseteq q
  BY <1>1 DEF If, Quirks, Upstream
<1>4. up' = [up EXCEPT !.item = "thought", !.part = n, !.summary = FALSE, !.quirks = q]
  BY <1>2
<1>. HIDE DEF q
<1>5. Goes("thought", up.done, up.texted)
  <2>1. "thought" \in Items /\ n \in Int
    BY DEF Items
  <2>2. up' \in Upstream
    BY <1>1, <1>3, <1>4, <2>1 DEF Upstream
  <2>. QED
    BY <1>1, <1>3, <1>4, <2>2 DEF Goes, Upstream
<1>6. Kept(claude', claude)
  BY <1>1, FlagsKept
<1>7. ASSUME Orderly, Follows PROVE Numbered(claude') /\ Follows'
  BY <1>1, <1>5, <1>7 DEF Follows, Goes, Orderly
<1>. QED
  BY <1>5, <1>6, <1>7, PairedOn

\* A thought ends, or a text, an image, or a call that has been told.
LEMMA EndPaired ==
  ASSUME Paired, up.at = "on", up.item = "call" => up.done, NEW kind, NEW n, NEW q \in SUBSET Quirks,
         Finished(kind, n, q), claude' \in {claude, StopThinking(claude)}
  PROVE  Paired'
<1>1. up \in Upstream /\ claude \in Claude
  BY DEF Paired, Standing
<1>2. Goes("none", FALSE, up.texted)
  BY <1>1, FinishedType
<1>3. Kept(claude', claude)
  BY <1>1, FlagsKept, StopsKept
<1>4. ASSUME Orderly, Follows PROVE Numbered(claude') /\ Follows'
  <2>1. CASE claude' = claude
    BY <1>2, <1>4, <2>1 DEF Follows, Goes, Orderly
  <2>2. CASE claude' = StopThinking(claude)
    <3>1. /\ Numbered(claude') /\ Flagged(claude')
          /\ OpenKind(claude') = IF OpenKind(claude) = "thought" THEN "none" ELSE OpenKind(claude)
      BY <1>4, <2>2, ThinkingStopped DEF Follows, Orderly
    <3>. QED
      BY <1>2, <1>4, <3>1 DEF Follows, Goes
  <2>. QED
    BY <2>1, <2>2
<1>. QED
  BY <1>2, <1>3, <1>4, PairedOn

LEMMA ThoughtDonePaired == ASSUME Paired, ThoughtDone \/ ThoughtEnds PROVE Paired'
<1>1. /\ up.at = "on" /\ (up.item = "call" => up.done) /\ claude' \in {claude, StopThinking(claude)}
      /\ \E n : \E q \in SUBSET Quirks : Finished("thought", n, q)
  <2>1. CASE ThoughtEnds
    <3>. DEFINE full == IF up.part > 0 THEN up.part ELSE up.sent
    <3>1. Finished("thought", full, If("unpieced", up.sent < full)) /\ At("thought") /\ claude' = claude
      BY <2>1 DEF ThoughtEnds
    <3>2. If("unpieced", up.sent < full) \in SUBSET Quirks
      BY DEF If, Quirks
    <3>. QED
      BY <3>1, <3>2 DEF At
  <2>2. CASE ThoughtDone
    <3>1. PICK s, full :
            Finished("thought", full, If("beside", up.part > 0) \cup If("unpieced", up.sent < full)
                                      \cup If("muted", s /\ up.sent = 0 /\ "summed" \in up.quirks))
      BY <2>2 DEF ThoughtDone
    <3>2. If("beside", up.part > 0) \cup If("unpieced", up.sent < full)
            \cup If("muted", s /\ up.sent = 0 /\ "summed" \in up.quirks) \in SUBSET Quirks
      BY DEF If, Quirks
    <3>3. up.at = "on" /\ up.item # "call" /\ claude' = StopThinking(claude)
      BY <2>2 DEF ThoughtDone, Between, At
    <3>. QED
      BY <3>1, <3>2, <3>3
  <2>. QED
    BY <2>1, <2>2
<1>. QED
  BY <1>1, EndPaired

LEMMA TextPaired == ASSUME Paired, Text PROVE Paired'
<1>1. /\ up.at = "on" /\ up.item \in {"none", "text"} /\ claude' = ClaudeText(claude)
      /\ up' = [up EXCEPT !.item = "text", !.sent = @ + 1, !.texted = TRUE]
      /\ up \in Upstream /\ claude \in Claude
  BY DEF Text, Between, At, Paired, Standing
<1>2. Goes("text", up.done, TRUE)
  <2>1. "text" \in Items /\ up.sent + 1 \in Int
    BY <1>1 DEF Items, Upstream
  <2>2. up' \in Upstream
    BY <1>1, <2>1 DEF Upstream
  <2>. QED
    BY <1>1, <2>2 DEF Goes, Upstream
<1>3. Kept(claude', claude)
  BY <1>1, TextKept
<1>4. ASSUME Orderly, Follows PROVE Numbered(claude') /\ Follows'
  <2>1. OpenKind(claude) # "call" /\ ~up.done /\ Numbered(claude) /\ Flagged(claude)
    BY <1>1, <1>4 DEF Follows, Orderly
  <2>2. Numbered(claude') /\ Flagged(claude') /\ OpenKind(claude') = "text"
    BY <1>1, <2>1, TextTold
  <2>. QED
    BY <1>2, <2>1, <2>2 DEF Follows, Goes
<1>. QED
  BY <1>2, <1>3, <1>4, PairedOn

LEMMA QuietPaired == ASSUME Paired, TextDone \/ Image PROVE Paired'
<1>1. /\ up.at = "on" /\ up.item # "call" /\ claude' = claude
      /\ \E kind, n : Finished(kind, n, {})
  BY DEF TextDone, Image, Between, At
<1>2. {} \in SUBSET Quirks
  OBVIOUS
<1>. QED
  BY <1>1, <1>2, EndPaired

LEMMA CalledPaired == ASSUME Paired, Called PROVE Paired'
<1>1. /\ up.at = "on" /\ up.item = "none" /\ claude' = ClaudeCalled(claude)
      /\ up' = [up EXCEPT !.item = "call", !.texted = FALSE]
      /\ up \in Upstream /\ claude \in Claude
  BY DEF Called, Between, At, Paired, Standing
<1>2. Goes("call", up.done, FALSE)
  BY <1>1 DEF Goes, Upstream, Items
<1>3. Kept(claude', claude)
  BY <1>1, CalledKept
<1>4. ASSUME Orderly, Follows PROVE Numbered(claude') /\ Follows'
  <2>1. OpenKind(claude) # "call" /\ ~up.done /\ Numbered(claude) /\ Flagged(claude)
    BY <1>1, <1>4 DEF Follows, Orderly
  <2>2. Numbered(claude') /\ Flagged(claude') /\ OpenKind(claude') = "call"
    BY <1>1, <2>1, CallTold
  <2>. QED
    BY <1>2, <2>1, <2>2 DEF Follows, Goes
<1>. QED
  BY <1>2, <1>3, <1>4, PairedOn

LEMMA ArgsPaired == ASSUME Paired, Args PROVE Paired'
<1>1. /\ up.at = "on" /\ up.item = "call" /\ ~up.done /\ claude' = ClaudeArgs(claude)
      /\ up' = [up EXCEPT !.sent = @ + 1] /\ up \in Upstream /\ claude \in Claude
  BY DEF Args, At, Paired, Standing
<1>2. Goes("call", up.done, up.texted)
  BY <1>1 DEF Goes, Upstream
<1>3. Kept(claude', claude)
  BY <1>1, FillKept DEF ClaudeArgs
<1>4. ASSUME Orderly, Follows PROVE Numbered(claude') /\ Follows'
  <2>1. OpenKind(claude) = "call" /\ Numbered(claude) /\ Flagged(claude)
    BY <1>1, <1>4 DEF Follows, Orderly
  <2>2. Numbered(claude') /\ Flagged(claude') /\ OpenKind(claude') = "call"
    BY <1>1, <2>1, ArgsTold
  <2>. QED
    BY <1>1, <1>2, <2>2 DEF Follows, Goes
<1>. QED
  BY <1>2, <1>3, <1>4, PairedOn

LEMMA ArgsDonePaired == ASSUME Paired, ArgsDone PROVE Paired'
<1>1. /\ up.at = "on" /\ up.item = "call" /\ ~up.done /\ claude' = ClaudeArgsDone(claude)
      /\ up \in Upstream /\ claude \in Claude
  BY DEF ArgsDone, At, Paired, Standing
<1>2. PICK all \in Int :
        up' = [up EXCEPT !.sent = all, !.done = TRUE, !.quirks = @ \cup If("unpieced", up.sent < all)]
  <2>1. \A all \in (IF up.sent > 0 THEN {up.sent} ELSE 1..MaxPieces) : all \in Int
    BY <1>1 DEF Upstream
  <2>. QED
    BY <2>1 DEF ArgsDone
<1>. DEFINE q == up.quirks \cup If("unpieced", up.sent < all)
<1>3. q \in SUBSET Quirks /\ up.quirks \subseteq q
  BY <1>1 DEF If, Quirks, Upstream
<1>4. up' = [up EXCEPT !.sent = all, !.done = TRUE, !.quirks = q]
  BY <1>2
<1>. HIDE DEF q
<1>5. Goes("call", TRUE, up.texted)
  BY <1>1, <1>3, <1>4 DEF Goes, Upstream
<1>6. Kept(claude', claude)
  BY <1>1, StopKept DEF ClaudeArgsDone
<1>7. ASSUME Orderly, Follows PROVE Numbered(claude') /\ Follows'
  <2>1. OpenKind(claude) = "call" /\ Numbered(claude) /\ Flagged(claude)
    BY <1>1, <1>7 DEF Follows, Orderly
  <2>2. Numbered(claude') /\ Flagged(claude') /\ OpenKind(claude') = "none"
    BY <1>1, <2>1, ArgsStopped
  <2>. QED
    BY <1>5, <2>2 DEF Follows, Goes
<1>. QED
  BY <1>5, <1>6, <1>7, PairedOn

LEMMA CallDonePaired == ASSUME Paired, CallDone PROVE Paired'
<1>1. /\ up.at = "on" /\ claude' = claude /\ (up.item = "call" => up.done)
      /\ \E n : Finished("call", n, If("unpieced", up.item # "call"))
  BY DEF CallDone, Between, At
<1>2. If("unpieced", up.item # "call") \in SUBSET Quirks
  BY DEF If, Quirks
<1>. QED
  BY <1>1, <1>2, EndPaired

\* The message is over.
LEMMA PairedOver ==
  ASSUME Paired, up.at = "on", up' = [up EXCEPT !.at = "over"], MessageEnds(claude', claude),
         ASSUME Orderly, Follows
         PROVE  /\ Numbered(claude')
                /\ (up.item = "call" => up.done) => OpenKind(claude') = "none"
  PROVE  Paired'
<1>1. up \in Upstream /\ claude.begun > 0 /\ claude.stops = 0
  BY DEF Paired, Standing
<1>2. up' \in Upstream /\ up'.at = "over" /\ up'.item = up.item /\ up'.done = up.done /\ up'.quirks = up.quirks
  BY <1>1 DEF Upstream
<1>3. Standing'
  BY <1>1, <1>2 DEF Paired, Standing, MessageEnds
<1>4. ASSUME "astray" \notin up'.quirks PROVE Orderly'
  <2>1. Orderly /\ Follows
    BY <1>2, <1>4 DEF Paired, Orderly
  <2>. QED
    BY <1>2, <2>1 DEF Orderly
<1>. QED
  BY <1>3, <1>4 DEF Paired

LEMMA CompletedPaired == ASSUME Paired, Completed PROVE Paired'
<1>1. /\ up.at = "on" /\ up.item = "none" /\ up' = [up EXCEPT !.at = "over"]
      /\ claude' = ClaudeCompleted(claude) /\ claude \in Claude
  BY DEF Completed, Between, At, Paired, Standing
<1>2. MessageEnds(claude', claude)
  BY <1>1, CompletedEnds
<1>3. ASSUME Orderly, Follows PROVE Numbered(claude') /\ OpenKind(claude') = "none"
  <2>1. Numbered(claude) /\ Flagged(claude) /\ OpenKind(claude) # "call"
    BY <1>1, <1>3 DEF Orderly, Follows
  <2>. QED
    BY <1>1, <2>1, MessageCompleted DEF MessageOver
<1>. QED
  BY <1>1, <1>2, <1>3, PairedOver

LEMMA BrokenOffPaired == ASSUME Paired, BrokenOff PROVE Paired'
<1>1. /\ up.at \in {"before", "on"} /\ up' = [up EXCEPT !.at = "over"] /\ claude' = ClaudeClosed(claude)
      /\ up \in Upstream /\ claude \in Claude
  BY DEF BrokenOff, Paired, Standing
<1>2. CASE up.at = "before"
  <2>1. claude = BeginClaude
    BY <1>2 DEF Paired, Standing
  <2>2. claude.begun = 0 /\ claude.has = FALSE /\ claude.stops = 0
    BY <2>1 DEF BeginClaude
  <2>3. claude' = claude
    BY <1>1, <2>2 DEF ClaudeClosed
  <2>4. up' \in Upstream /\ up'.at = "over"
    BY <1>1 DEF Upstream
  <2>. QED
    BY <2>1, <2>2, <2>3, <2>4, BeginsPaired DEF Paired, Standing, Orderly
<1>3. CASE up.at = "on"
  <2>1. MessageEnds(claude', claude)
    BY <1>1, <1>3, ClosedEnds DEF Paired, Standing
  <2>2. ASSUME Orderly, Follows
        PROVE  Numbered(claude') /\ ((up.item = "call" => up.done) => OpenKind(claude') = "none")
    <3>1. /\ MessageOver(claude', claude)
          /\ OpenKind(claude') = IF OpenKind(claude) = "call" THEN "call" ELSE "none"
      BY <1>1, <1>3, <2>2, MessageClosed DEF Paired, Standing, Orderly, Follows
    <3>. QED
      BY <2>2, <3>1 DEF Follows, MessageOver
  <2>. QED
    BY <1>1, <1>3, <2>1, <2>2, PairedOver
<1>. QED
  BY <1>1, <1>2, <1>3

LEMMA ReadFailsPaired == ASSUME Paired, ReadFails PROVE Paired'
<1>1. /\ up.at \in {"before", "on"} /\ up' = [up EXCEPT !.at = "failed"] /\ claude' = claude /\ up \in Upstream
  BY DEF ReadFails, Paired, Standing
<1>2. up' \in Upstream /\ up'.at = "failed" /\ up'.quirks = up.quirks
  BY <1>1 DEF Upstream
<1>. QED
  BY <1>1, <1>2 DEF Paired, Standing, Orderly

LEMMA BeginPaired == ASSUME up = BeginUp, claude = BeginClaude PROVE Paired
  BY BeginsPaired DEF Paired, Standing, Orderly, BeginUp, BeginClaude, Flagged

LEMMA NextResponsePaired == ASSUME NextResponse PROVE Paired'
  BY BeginsPaired DEF NextResponse, Paired, Standing, Orderly, BeginUp, BeginClaude, Flagged

\* The Claude translator and its client agree on when the message begins and ends, and
\* on whether it has a call; and on the blocks, until an upstream tells a thought after a
\* text.
THEOREM StreamHolds == EventsSpec => []Paired
<1>1. EventsInit => Paired
  BY BeginPaired DEF EventsInit
<1>2. Paired /\ [EventsNext]_eventVars => Paired'
  <2>. SUFFICES ASSUME Paired, [EventsNext]_eventVars PROVE Paired'
    OBVIOUS
  <2>1. CASE UNCHANGED eventVars
    BY <2>1 DEF eventVars, Paired, Standing, Orderly, Follows
  <2>2. CASE EventsNext
    BY <2>2, CreatedPaired, ThoughtPaired, PartAddedPaired, ThoughtDonePaired, TextPaired, QuietPaired,
       CalledPaired, ArgsPaired, ArgsDonePaired, CallDonePaired, CompletedPaired, BrokenOffPaired,
       ReadFailsPaired, NextResponsePaired DEF EventsNext
  <2>. QED
    BY <2>1, <2>2
<1>. QED
  BY <1>1, <1>2, PTL DEF EventsSpec

\* claude.go:10, handler/claude.go:57: however the upstream tells its items, and wherever
\* the stream ends, breaks off or cannot be read, the message is stopped once if it was
\* read to its end and not at all otherwise; and its blocks pair up, until a thought
\* follows a text with no call announced between.
THEOREM BlocksArePaired == EventsSpec => []BlocksPaired
<1>1. Paired => BlocksPaired
  <2>. SUFFICES ASSUME Paired PROVE BlocksPaired
    OBVIOUS
  <2>1. claude.stops = (IF up.at = "over" /\ claude.begun > 0 THEN 1 ELSE 0)
    BY DEF Paired, Standing
  <2>2. claude.stops = 1 => (claude.reason = "tool_use" <=> HasCall(claude))
    BY DEF Paired, Standing
  <2>3. ASSUME "astray" \notin up.quirks
        PROVE  /\ ~claude.odd
               /\ up.at = "over" /\ (up.item = "call" => up.done) =>
                    \A k \in DOMAIN claude.blocks : ~claude.blocks[k].open
    BY <2>3, NoneOpen DEF Paired, Orderly, Numbered
  <2>. QED
    BY <2>1, <2>2, <2>3 DEF BlocksPaired, HasCall
<1>. QED
  BY <1>1, StreamHolds, PTL

-----------------------------------------------------------------------------
\* Induction over the naturals: a set that has 0, and with a number the next one, has all.
LEMMA Induction ==
  ASSUME NEW S, 0 \in S, \A n \in Nat : n \in S => n + 1 \in S
  PROVE  Nat \subseteq S
<1>. DEFINE T == {n \in Nat : n \notin S}
            R == OpToRel(<, Nat)
<1>1. SUFFICES ASSUME T # {} PROVE FALSE
  OBVIOUS
<1>2. IsWellFoundedOn(R, Nat)
  BY NatLessThanWellFounded
<1>3. \A m, n \in Nat : m < n => << m, n >> \in R
  BY DEF OpToRel
<1>. HIDE DEF R
<1>4. PICK x \in T : \A y \in T : << y, x >> \notin R
  BY <1>1, <1>2, WFMin
<1>5. x \in Nat \ {0} /\ x - 1 \in Nat /\ x - 1 < x
  OBVIOUS
<1>6. x - 1 \in S
  BY <1>3, <1>4, <1>5
<1>. QED
  BY <1>4, <1>5, <1>6

\* Induction over sequences, built up at their ends.
LEMMA Appending ==
  ASSUME NEW X, NEW S, << >> \in S,
         \A s \in Seq(X), x \in X : s \in S => Append(s, x) \in S
  PROVE  Seq(X) \subseteq S
<1>. DEFINE L == {n \in Nat : \A s \in Seq(X) : Len(s) = n => s \in S}
<1>1. 0 \in L
  <2>1. \A s \in Seq(X) : Len(s) = 0 => s = << >>
    OBVIOUS
  <2>. QED
    BY <2>1
<1>2. \A n \in Nat : n \in L => n + 1 \in L
  <2>. SUFFICES ASSUME NEW n \in Nat, n \in L, NEW s \in Seq(X), Len(s) = n + 1 PROVE s \in S
    OBVIOUS
  <2>. DEFINE t == SubSeq(s, 1, n)
              x == s[n + 1]
  <2>1. t \in Seq(X) /\ Len(t) = n /\ x \in X
    OBVIOUS
  <2>2. s = Append(t, x)
    OBVIOUS
  <2>3. t \in S
    BY <2>1
  <2>. HIDE DEF t, x
  <2>. QED
    BY <2>1, <2>2, <2>3
<1>3. Nat \subseteq L
  <2>. HIDE DEF L
  <2>. QED
    BY <1>1, <1>2, Induction
<1>. QED
  BY <1>3

-----------------------------------------------------------------------------
\* A function that is built up from its value at 0 by a step for each place.
Built(S, a, n, step, f) ==
  f \in [0..n -> S] /\ f[0] = a /\ \A i \in 1..n : f[i] = step[i][f[i - 1]]

LEMMA BuiltUp ==
  ASSUME NEW S, NEW a, a \in S, NEW n, n \in Nat, NEW step, step \in [1..n -> [S -> S]]
  PROVE  \E f : Built(S, a, n, step, f)
<1>. DEFINE Good(m, f) == f[0] = a /\ \A i \in 1..m : f[i] = step[i][f[i - 1]]
            T == {m \in Nat : m <= n => \E f \in [0..m -> S] : Good(m, f)}
<1>1. 0 \in T
  <2>. DEFINE f == [i \in 0..0 |-> a]
  <2>1. f \in [0..0 -> S] /\ Good(0, f)
    OBVIOUS
  <2>. QED
    BY <2>1
<1>2. \A m \in Nat : m \in T => m + 1 \in T
  <2>. SUFFICES ASSUME NEW m \in Nat, m \in T, m + 1 <= n PROVE \E f \in [0..m + 1 -> S] : Good(m + 1, f)
    OBVIOUS
  <2>1. PICK f \in [0..m -> S] : Good(m, f)
    OBVIOUS
  <2>. DEFINE v == step[m + 1][f[m]]
              g == [i \in 0..m + 1 |-> IF i = m + 1 THEN v ELSE f[i]]
  <2>2. v \in S
    OBVIOUS
  <2>. HIDE DEF v
  <2>3. g \in [0..m + 1 -> S] /\ g[m + 1] = v /\ \A i \in 0..m : g[i] = f[i]
    BY <2>2
  <2>. HIDE DEF g
  <2>4. \A i \in 1..m + 1 : g[i] = step[i][g[i - 1]]
    <3>1. \A i \in 1..m : g[i] = step[i][g[i - 1]]
      BY <2>1, <2>3
    <3>2. g[m + 1] = step[m + 1][g[(m + 1) - 1]]
      <4>1. g[m] = f[m] /\ (m + 1) - 1 = m
        BY <2>3
      <4>. QED
        BY <2>3, <4>1 DEF v
    <3>3. \A i \in 1..m + 1 : i \in 1..m \/ i = m + 1
      OBVIOUS
    <3>. QED
      BY <3>1, <3>2, <3>3
  <2>. QED
    BY <2>1, <2>3, <2>4
<1>3. n \in T
  <2>. HIDE DEF T
  <2>. QED
    BY <1>1, <1>2, Induction
<1>. QED
  BY <1>3 DEF Built

\* Two such functions agree as far as both are built up alike.
LEMMA BuiltAlike ==
  ASSUME NEW n \in Nat, NEW f, NEW g, f[0] = g[0],
         \A i \in 1..n : f[i - 1] = g[i - 1] => f[i] = g[i]
  PROVE  f[n] = g[n]
<1>. DEFINE T == {i \in Nat : i <= n => f[i] = g[i]}
<1>1. 0 \in T
  OBVIOUS
<1>2. \A i \in Nat : i \in T => i + 1 \in T
  <2>. SUFFICES ASSUME NEW i \in Nat, i \in T, i + 1 <= n PROVE f[i + 1] = g[i + 1]
    OBVIOUS
  <2>1. i + 1 \in 1..n /\ (i + 1) - 1 = i /\ f[i] = g[i]
    OBVIOUS
  <2>. QED
    BY <2>1
<1>3. n \in T
  <2>. HIDE DEF T
  <2>. QED
    BY <1>1, <1>2, Induction
<1>. QED
  BY <1>3

-----------------------------------------------------------------------------
\* Count and Pick, as functions of how far they have come.
SumTo(items, f) ==
  f = [i \in 0..Len(items) |-> IF i = 0 THEN 0 ELSE f[i - 1] + items[i].n]
SomeTo(items, places, f) ==
  f = [i \in 0..Len(items) |->
        IF i = 0 THEN << >>
        ELSE IF i \in places THEN Append(f[i - 1], items[i]) ELSE f[i - 1]]

\* They end with the count and the items that were asked for.
Sums(s, n, f) ==
  /\ f \in [0..n -> Nat] /\ Count(s) = f[n]
  /\ f[0] = 0 /\ \A i \in 1..n : f[i] = f[i - 1] + s[i].n

Taken(p, x, v) == IF p THEN Append(v, x) ELSE v
Parts(X, s, P, n, f) ==
  /\ f \in [0..n -> Seq(X)] /\ Pick(s, P) = f[n]
  /\ f[0] = << >> /\ \A i \in 1..n : f[i] = Taken(i \in P, s[i], f[i - 1])

LEMMA CountIs ==
  ASSUME NEW X, \A x \in X : x.n \in Nat, NEW s \in Seq(X), NEW n \in Nat, n = Len(s)
  PROVE  \E f : Sums(s, n, f)
<1>. DEFINE step == [i \in 1..n |-> [v \in Nat |-> v + s[i].n]]
            sum == CHOOSE f : SumTo(s, f)
<1>1. n \in Nat /\ \A i \in 1..n : s[i].n \in Nat
  OBVIOUS
<1>2. step \in [1..n -> [Nat -> Nat]] /\ \A v \in Nat, i \in 1..n : step[i][v] = v + s[i].n
  BY <1>1
<1>. HIDE DEF step, sum
<1>3. PICK f : Built(Nat, 0, n, step, f)
  <2>1. 0 \in Nat /\ step \in [1..n -> [Nat -> Nat]]
    BY <1>2
  <2>. QED
    BY <2>1, BuiltUp, Zenon
<1>4. f \in [0..n -> Nat] /\ \A i \in 0..n : f[i] = IF i = 0 THEN 0 ELSE f[i - 1] + s[i].n
  <2>. SUFFICES ASSUME NEW i \in 0..n, i # 0 PROVE f[i] = f[i - 1] + s[i].n
    BY <1>3 DEF Built
  <2>1. i \in 1..n /\ i - 1 \in 0..n
    OBVIOUS
  <2>2. f[i - 1] \in Nat /\ f[i] = step[i][f[i - 1]]
    BY <1>3, <2>1 DEF Built
  <2>. QED
    BY <1>2, <2>1, <2>2
<1>5. SumTo(s, f)
  BY <1>4 DEF SumTo
<1>6. SumTo(s, sum)
  BY <1>5 DEF sum
<1>7. Count(s) = sum[n] /\ \A i \in 0..n : sum[i] = IF i = 0 THEN 0 ELSE sum[i - 1] + s[i].n
  <2>1. Count(s) = sum[n]
    BY DEF Count, SumTo, sum
  <2>. QED
    BY <1>6, <2>1 DEF SumTo
<1>8. sum[n] = f[n]
  <2>1. sum[0] = f[0] /\ \A i \in 1..n : sum[i - 1] = f[i - 1] => sum[i] = f[i]
    BY <1>4, <1>7
  <2>. QED
    BY <2>1, BuiltAlike
<1>9. f[0] = 0 /\ \A i \in 1..n : f[i] = f[i - 1] + s[i].n
  BY <1>4
<1>. QED
  BY <1>4, <1>7, <1>8, <1>9 DEF Sums

LEMMA PickIs ==
  ASSUME NEW X, NEW P, NEW s \in Seq(X), NEW n \in Nat, n = Len(s)
  PROVE  \E f : Parts(X, s, P, n, f)
<1>. DEFINE next(i, v) == Taken(i \in P, s[i], v)
            step == [i \in 1..n |-> [v \in Seq(X) |-> next(i, v)]]
            some == CHOOSE f : SomeTo(s, P, f)
<1>1. /\ step \in [1..n -> [Seq(X) -> Seq(X)]]
      /\ \A v \in Seq(X), i \in 1..n : step[i][v] = next(i, v)
  <2>1. \A i \in 1..n : s[i] \in X
    OBVIOUS
  <2>. QED
    BY <2>1 DEF Taken
<1>2. /\ 0 \in 0..n
      /\ \A i \in 0..n : i # 0 => i \in 1..n
      /\ \A i \in 1..n : i \in 0..n /\ i # 0 /\ i - 1 \in 0..n
  OBVIOUS
<1>. HIDE DEF step, some
<1>3. PICK f : Built(Seq(X), << >>, n, step, f)
  <2>1. << >> \in Seq(X) /\ step \in [1..n -> [Seq(X) -> Seq(X)]]
    BY <1>1
  <2>. QED
    BY <2>1, BuiltUp, Zenon
<1>4. f \in [0..n -> Seq(X)] /\ f[0] = << >> /\ \A i \in 1..n : f[i] = next(i, f[i - 1])
  <2>. HIDE DEF next
  <2>. QED
    BY <1>1, <1>2, <1>3 DEF Built
<1>5. SomeTo(s, P, f)
  <2>1. \A i \in 0..n : f[i] = IF i = 0 THEN << >> ELSE next(i, f[i - 1])
    <3>. HIDE DEF next
    <3>. QED
      BY <1>2, <1>4
  <2>. QED
    BY <1>4, <2>1 DEF SomeTo, Taken
<1>6. SomeTo(s, P, some)
  BY <1>5 DEF some
<1>7. Pick(s, P) = some[n] /\ some[0] = << >> /\ \A i \in 1..n : some[i] = next(i, some[i - 1])
  <2>1. Pick(s, P) = some[n]
    BY DEF Pick, SomeTo, some
  <2>2. \A i \in 0..n : some[i] = IF i = 0 THEN << >> ELSE next(i, some[i - 1])
    BY <1>6 DEF SomeTo, Taken
  <2>. HIDE DEF next
  <2>. QED
    BY <1>2, <2>1, <2>2
<1>8. some[n] = f[n]
  <2>1. some[0] = f[0] /\ \A i \in 1..n : some[i - 1] = f[i - 1] => some[i] = f[i]
    <3>. HIDE DEF next
    <3>. QED
      BY <1>4, <1>7
  <2>. QED
    BY <2>1, BuiltAlike
<1>. QED
  BY <1>4, <1>7, <1>8 DEF Parts

-----------------------------------------------------------------------------
LEMMA CountEmpty == Count(<< >>) = 0
<1>1. << >> \in Seq({}) /\ 0 = Len(<< >>) /\ 0 \in Nat /\ \A x \in {} : x.n \in Nat
  OBVIOUS
<1>2. PICK f : Sums(<< >>, 0, f)
  BY <1>1, CountIs, Zenon
<1>. QED
  BY <1>2 DEF Sums

LEMMA CountAppend ==
  ASSUME NEW X, \A x \in X : x.n \in Nat, NEW s \in Seq(X), NEW x \in X
  PROVE  Count(s) \in Nat /\ Count(Append(s, x)) = Count(s) + x.n
<1>. DEFINE t == Append(s, x)
<1>1. PICK n \in Nat : n = Len(s)
  OBVIOUS
<1>2. /\ t \in Seq(X) /\ n + 1 \in Nat /\ Len(t) = n + 1 /\ t[n + 1] = x /\ n + 1 \in 1..n + 1
      /\ \A i \in 1..n : t[i] = s[i] /\ i \in 1..n + 1
  BY <1>1
<1>. HIDE DEF t
<1>3. PICK f : Sums(s, n, f)
  BY <1>1, CountIs, Zenon
<1>4. PICK g : Sums(t, n + 1, g)
  <2>1. t \in Seq(X) /\ n + 1 \in Nat /\ n + 1 = Len(t)
    BY <1>2
  <2>. QED
    BY <2>1, CountIs, Zenon
<1>5. f[n] = g[n]
  <2>1. f[0] = g[0] /\ \A i \in 1..n : f[i - 1] = g[i - 1] => f[i] = g[i]
    BY <1>2, <1>3, <1>4 DEF Sums
  <2>. QED
    BY <2>1, BuiltAlike
<1>6. g[n + 1] = g[n] + x.n
  <2>1. (n + 1) - 1 = n
    OBVIOUS
  <2>. QED
    BY <1>2, <1>4, <2>1 DEF Sums
<1>. QED
  BY <1>2, <1>3, <1>4, <1>5, <1>6 DEF Sums, t

LEMMA PickEmpty == ASSUME NEW P PROVE Pick(<< >>, P) = << >>
<1>1. << >> \in Seq({}) /\ 0 = Len(<< >>) /\ 0 \in Nat
  OBVIOUS
<1>2. PICK f : Parts({}, << >>, P, 0, f)
  BY <1>1, PickIs, Zenon
<1>. QED
  BY <1>2 DEF Parts

\* Two sets of places are the same as far as the first so many.
SameTo(n, P, Q) == \A i \in 1..n : i \in P <=> i \in Q

\* One more item is one more of those that are picked, if its place is one of theirs.
LEMMA PickAppend ==
  ASSUME NEW X, NEW P, NEW Q, NEW s \in Seq(X), NEW x \in X, SameTo(Len(s), P, Q)
  PROVE  /\ Pick(s, P) \in Seq(X)
         /\ Len(s) + 1 \in Q => Pick(Append(s, x), Q) = Append(Pick(s, P), x)
         /\ Len(s) + 1 \notin Q => Pick(Append(s, x), Q) = Pick(s, P)
<1>. DEFINE t == Append(s, x)
<1>1. PICK n \in Nat : n = Len(s)
  OBVIOUS
<1>2. /\ t \in Seq(X) /\ n + 1 \in Nat /\ Len(t) = n + 1 /\ t[n + 1] = x /\ n + 1 \in 1..n + 1
      /\ \A i \in 1..n : t[i] = s[i] /\ i \in 1..n + 1 /\ (i \in P <=> i \in Q)
  BY <1>1 DEF SameTo
<1>. HIDE DEF t
<1>3. PICK f : Parts(X, s, P, n, f)
  BY <1>1, PickIs, Zenon
<1>4. PICK g : Parts(X, t, Q, n + 1, g)
  <2>1. t \in Seq(X) /\ n + 1 \in Nat /\ n + 1 = Len(t)
    BY <1>2
  <2>. QED
    BY <2>1, PickIs, Zenon
<1>5. f[n] = g[n]
  <2>1. f[0] = g[0]
    BY <1>3, <1>4 DEF Parts
  <2>2. ASSUME NEW i \in 1..n, f[i - 1] = g[i - 1] PROVE f[i] = g[i]
    <3>1. f[i] = Taken(i \in P, s[i], f[i - 1])
      BY <1>3 DEF Parts
    <3>2. g[i] = Taken(i \in Q, t[i], g[i - 1])
      BY <1>2, <1>4 DEF Parts
    <3>. QED
      BY <1>2, <2>2, <3>1, <3>2 DEF Taken
  <2>. QED
    BY <2>1, <2>2, BuiltAlike
<1>6. g[n + 1] = Taken(n + 1 \in Q, x, g[n])
  <2>1. (n + 1) - 1 = n
    OBVIOUS
  <2>. QED
    BY <1>2, <1>4, <2>1 DEF Parts
<1>7. Pick(s, P) \in Seq(X)
  BY <1>1, <1>3 DEF Parts
<1>8. Pick(t, Q) = Taken(n + 1 \in Q, x, Pick(s, P))
  BY <1>3, <1>4, <1>5, <1>6 DEF Parts
<1>. QED
  BY <1>1, <1>7, <1>8 DEF t, Taken

LEMMA KindEmpty == ASSUME NEW K PROVE Kind(<< >>, K) = << >>
  BY PickEmpty DEF Kind

LEMMA KindAppend ==
  ASSUME NEW X, NEW K, NEW s \in Seq(X), NEW x \in X
  PROVE  /\ Kind(s, K) \in Seq(X)
         /\ x.kind \in K => Kind(Append(s, x), K) = Append(Kind(s, K), x)
         /\ x.kind \notin K => Kind(Append(s, x), K) = Kind(s, K)
<1>. DEFINE t == Append(s, x)
            P == Of(s, K)
            Q == Of(t, K)
<1>1. /\ DOMAIN s = 1..Len(s) /\ DOMAIN t = 1..Len(s) + 1 /\ t[Len(s) + 1] = x /\ Len(s) \in Nat
      /\ \A i \in 1..Len(s) : t[i] = s[i] /\ i \in DOMAIN t
  OBVIOUS
<1>2. SameTo(Len(s), P, Q) /\ (Len(s) + 1 \in Q <=> x.kind \in K)
  <2>. HIDE DEF t
  <2>. QED
    BY <1>1 DEF Of, SameTo
<1>. HIDE DEF P, Q
<1>3. /\ Pick(s, P) \in Seq(X)
      /\ Len(s) + 1 \in Q => Pick(t, Q) = Append(Pick(s, P), x)
      /\ Len(s) + 1 \notin Q => Pick(t, Q) = Pick(s, P)
  BY <1>2, PickAppend
<1>. QED
  BY <1>2, <1>3 DEF Kind, P, Q

-----------------------------------------------------------------------------
Pieces(kinds) == Count(Kind(out, kinds))

Item == [kind : {"thought", "text", "call", "image"}, n : Nat, id : Nat]
Call == [index : Int, id : Nat, n : Nat]
ChatState == [index : Int, text : BOOLEAN, tool : BOOLEAN, thought : BOOLEAN, summary : BOOLEAN,
              told : Nat, args : BOOLEAN, announced : BOOLEAN, completed : BOOLEAN]
ToldState == [text : Nat, thought : Nat, calls : Seq(Call), finish : {"none", "stop", "tool_calls"}]

\* A finished item is one more of its kind.
LEMMA Grown ==
  ASSUME NEW s \in Seq(Item), NEW x \in Item, NEW K
  PROVE  /\ Append(s, x) \in Seq(Item)
         /\ Kind(s, K) \in Seq(Item)
         /\ Kind(Append(s, x), K) = IF x.kind \in K THEN Append(Kind(s, K), x) ELSE Kind(s, K)
         /\ Count(Kind(s, K)) \in Nat
         /\ Count(Kind(Append(s, x), K)) = Count(Kind(s, K)) + (IF x.kind \in K THEN x.n ELSE 0)
<1>1. Append(s, x) \in Seq(Item) /\ \A y \in Item : y.n \in Nat
  BY DEF Item
<1>2. /\ Kind(s, K) \in Seq(Item)
      /\ Kind(Append(s, x), K) = IF x.kind \in K THEN Append(Kind(s, K), x) ELSE Kind(s, K)
  BY KindAppend
<1>3. Count(Kind(s, K)) \in Nat /\ Count(Append(Kind(s, K), x)) = Count(Kind(s, K)) + x.n
  BY <1>1, <1>2, CountAppend
<1>. QED
  BY <1>1, <1>2, <1>3

LEMMA KindSeq ==
  ASSUME NEW s \in Seq(Item), NEW K
  PROVE  Kind(s, K) \in Seq(Item)
<1>1. PICK x : x = [kind |-> "text", n |-> 0, id |-> 0]
  OBVIOUS
<1>2. x \in Item
  BY <1>1 DEF Item
<1>. QED
  BY <1>2, Grown

-----------------------------------------------------------------------------
\* The calls that the chat client has: those of the response, and one at hand of which
\* so much has been sent.
CallsAre(calls, whole, more, id, sent) ==
  /\ Len(calls) = Len(whole) + (IF more THEN 1 ELSE 0)
  /\ \A k \in DOMAIN calls :
       /\ calls[k].index = k - 1 /\ calls[k].id = IF k \in DOMAIN whole THEN whole[k].id ELSE id
       /\ calls[k].n = IF k \in DOMAIN whole THEN whole[k].n ELSE sent

LEMMA CallBegins ==
  ASSUME NEW calls \in Seq(Call), NEW whole \in Seq(Item), NEW id \in Nat \ {0}, NEW n \in Nat,
         CallsAre(calls, whole, FALSE, 0, 0)
  PROVE  /\ Merged(calls, Len(calls), id, n) \in Seq(Call)
         /\ Len(Merged(calls, Len(calls), id, n)) = Len(calls) + 1
         /\ CallsAre(Merged(calls, Len(calls), id, n), whole, TRUE, id, n)
<1>. DEFINE l == Len(calls)
            c == [index |-> l, id |-> id, n |-> n]
            s == Append(calls, c)
<1>1. l \in Nat /\ Len(whole) = l /\ DOMAIN whole = 1..l /\ DOMAIN calls = 1..l
  BY DEF CallsAre
<1>2. ~Known(calls, l)
  BY <1>1 DEF Known, CallsAre
<1>3. Merged(calls, l, id, n) = s
  BY <1>1, <1>2 DEF Merged
<1>4. c \in Call
  BY <1>1 DEF Call
<1>. HIDE DEF c
<1>5. s \in Seq(Call) /\ Len(s) = l + 1 /\ DOMAIN s = 1..l + 1 /\ s[l + 1] = c
      /\ \A k \in 1..l : s[k] = calls[k]
  BY <1>1, <1>4
<1>. HIDE DEF s
<1>6. \A k \in DOMAIN s : /\ s[k].index = k - 1 /\ s[k].id = (IF k \in DOMAIN whole THEN whole[k].id ELSE id)
                           /\ s[k].n = IF k \in DOMAIN whole THEN whole[k].n ELSE n
  <2>. SUFFICES ASSUME NEW k \in 1..l + 1
                PROVE  /\ s[k].index = k - 1 /\ s[k].id = (IF k \in DOMAIN whole THEN whole[k].id ELSE id)
                       /\ s[k].n = IF k \in DOMAIN whole THEN whole[k].n ELSE n
    BY <1>5
  <2>1. CASE k \in 1..l
    BY <1>1, <1>5, <2>1 DEF CallsAre
  <2>2. CASE k = l + 1
    <3>1. k \notin DOMAIN whole /\ k - 1 = l
      BY <1>1, <2>2
    <3>. QED
      BY <1>5, <2>2, <3>1 DEF c
  <2>. QED
    BY <2>1, <2>2
<1>7. Len(s) = Len(whole) + 1
  BY <1>1, <1>5
<1>. QED
  BY <1>3, <1>5, <1>6, <1>7 DEF CallsAre

LEMMA CallGoesOn ==
  ASSUME NEW calls \in Seq(Call), NEW whole \in Seq(Item), NEW id \in Nat \ {0}, NEW sent \in Nat, NEW n \in Nat,
         CallsAre(calls, whole, TRUE, id, sent)
  PROVE  /\ Merged(calls, Len(calls) - 1, 0, n) \in Seq(Call)
         /\ Len(Merged(calls, Len(calls) - 1, 0, n)) = Len(calls)
         /\ CallsAre(Merged(calls, Len(calls) - 1, 0, n), whole, TRUE, id, sent + n)
<1>. DEFINE l == Len(calls)
            s == Merged(calls, l - 1, 0, n)
<1>1. l \in Nat /\ l = Len(whole) + 1 /\ DOMAIN whole = 1..(l - 1) /\ DOMAIN calls = 1..l /\ l \in 1..l
  BY DEF CallsAre
<1>2. \A k \in 1..l : calls[k] \in Call /\ calls[k].index = k - 1
  <2>1. \A k \in 1..l : calls[k] \in Call
    BY <1>1
  <2>2. \A k \in 1..l : calls[k].index = k - 1
    BY <1>1 DEF CallsAre
  <2>. QED
    BY <2>1, <2>2
<1>3. Known(calls, l - 1)
  BY <1>1, <1>2 DEF Known
<1>4. s = [k \in 1..l |-> IF calls[k].index = l - 1 THEN [calls[k] EXCEPT !.n = @ + n, !.id = calls[k].id]
                          ELSE calls[k]]
  BY <1>1, <1>3 DEF Merged
<1>. HIDE DEF s
<1>5. \A k \in 1..l : /\ s[k] \in Call /\ s[k].index = k - 1 /\ s[k].id = (IF k \in DOMAIN whole THEN whole[k].id ELSE id)
                      /\ s[k].n = IF k \in DOMAIN whole THEN whole[k].n ELSE sent + n
  <2>. SUFFICES ASSUME NEW k \in 1..l
                PROVE  /\ s[k] \in Call /\ s[k].index = k - 1 /\ s[k].id = (IF k \in DOMAIN whole THEN whole[k].id ELSE id)
                       /\ s[k].n = IF k \in DOMAIN whole THEN whole[k].n ELSE sent + n
    OBVIOUS
  <2>1. CASE k = l
    <3>1. k \notin DOMAIN whole /\ calls[k].n = sent /\ calls[k].id = id
      BY <1>1, <2>1 DEF CallsAre
    <3>2. s[k] = [calls[k] EXCEPT !.n = @ + n, !.id = calls[k].id] /\ calls[k] \in Call
      BY <1>2, <1>4, <2>1
    <3>3. s[k] \in Call /\ s[k].index = calls[k].index /\ s[k].id = calls[k].id /\ s[k].n = calls[k].n + n
      <4>1. PICK c \in Call : c = calls[k]
        BY <3>2
      <4>2. PICK m \in Nat, d \in Nat : m = c.n + n /\ d = c.id
        BY DEF Call
      <4>3. s[k] = [c EXCEPT !.n = m, !.id = d]
        BY <3>2, <4>1, <4>2
      <4>4. s[k] \in Call /\ s[k].index = c.index /\ s[k].id = d /\ s[k].n = m
        BY <4>3 DEF Call
      <4>. QED
        BY <4>1, <4>2, <4>4
    <3>. QED
      BY <1>2, <3>1, <3>3
  <2>2. CASE k # l
    <3>1. k \in DOMAIN whole /\ k - 1 # l - 1
      BY <1>1, <2>2
    <3>2. s[k] = calls[k]
      BY <1>2, <1>4, <3>1
    <3>. QED
      BY <1>1, <1>2, <3>1, <3>2 DEF CallsAre
  <2>. QED
    BY <2>1, <2>2
<1>6. s \in [1..l -> Call]
  BY <1>4, <1>5
<1>7. s \in Seq(Call) /\ Len(s) = l /\ DOMAIN s = 1..l
  BY <1>1, <1>6
<1>. QED
  BY <1>1, <1>5, <1>7 DEF CallsAre, s

LEMMA CallEnds ==
  ASSUME NEW calls \in Seq(Call), NEW whole \in Seq(Item), NEW id, NEW sent, NEW x \in Item, x.n = sent, x.id = id,
         CallsAre(calls, whole, TRUE, id, sent)
  PROVE  CallsAre(calls, Append(whole, x), FALSE, 0, 0)
<1>. DEFINE l == Len(whole)
            t == Append(whole, x)
<1>1. /\ l \in Nat /\ DOMAIN whole = 1..l /\ Len(calls) = l + 1 /\ DOMAIN calls = 1..l + 1
      /\ Len(t) = l + 1 /\ DOMAIN t = 1..l + 1 /\ t[l + 1] = x /\ \A k \in 1..l : t[k] = whole[k]
  BY DEF CallsAre
<1>. HIDE DEF t
<1>2. \A k \in 1..l + 1 : calls[k].index = k - 1 /\ calls[k].id = t[k].id /\ calls[k].n = t[k].n
  <2>. SUFFICES ASSUME NEW k \in 1..l + 1
                PROVE  calls[k].index = k - 1 /\ calls[k].id = t[k].id /\ calls[k].n = t[k].n
    OBVIOUS
  <2>1. CASE k = l + 1
    BY <1>1, <2>1 DEF CallsAre
  <2>2. CASE k \in 1..l
    BY <1>1, <2>2 DEF CallsAre
  <2>. QED
    BY <2>1, <2>2
<1>. QED
  BY <1>1, <1>2 DEF CallsAre, t

-----------------------------------------------------------------------------


-----------------------------------------------------------------------------
ChatTyped ==
  /\ up \in Upstream /\ up.sent \in Nat /\ up.part \in Nat /\ (up.item = "none" => up.sent = 0)
  /\ up.at = "before" => up = BeginUp
  /\ out \in Seq(Item) /\ chat \in ChatState /\ told \in ToldState

\* What has been told beside the finished items is what is known of the one at hand.
SentOf(kind) == IF up.item = kind THEN up.sent ELSE 0
Hand == IF up.item # "thought" THEN 0 ELSE IF up.part > 0 THEN up.part ELSE up.sent
Spoken ==
  /\ told.text = Pieces({"text", "image"}) + SentOf("text")
  /\ "beside" \in up.quirks \/ told.thought <= Pieces({"thought"}) + Hand
  /\ "muted" \in up.quirks \/ told.thought >= Pieces({"thought"}) + Hand

\* What the translator counts of a thought, and whether it has seen a summary.
Thinking ==
  /\ chat.told = IF up.item = "thought" /\ ~up.summary THEN up.sent ELSE 0
  /\ chat.summary <=> "summed" \in up.quirks
  /\ up.item = "thought" /\ up.summary => up.part = 0 /\ up.sent > 0 /\ chat.summary
  /\ up.part > 0 => up.item = "thought" /\ up.sent <= up.part

\* The number of the last call, and whether it was announced and has arguments.
Calling ==
  /\ up.item = "call" => CallsAre(told.calls, Calls, TRUE, Ids, up.sent)
  /\ up.item # "call" => CallsAre(told.calls, Calls, FALSE, 0, 0)
  /\ chat.index = Len(told.calls) - 1
  /\ chat.announced <=> up.item = "call"
  /\ up.item = "call" /\ chat.args => up.sent > 0
  /\ up.item = "call" /\ ~chat.args /\ ~up.done => up.sent = 0

Finishing == told.finish = IF up.at = "over" /\ ~ContentEmpty THEN FinishReason ELSE "none"

ChatInv == ChatTyped /\ Spoken /\ Thinking /\ Calling /\ Finishing

-----------------------------------------------------------------------------
LEMMA IdsType == ASSUME out \in Seq(Item) PROVE Ids \in Nat \ {0}
<1>1. Len(out) \in Nat
  OBVIOUS
<1>. QED
  BY <1>1 DEF Ids

LEMMA ItemFinished ==
  ASSUME ChatTyped, NEW kind \in {"thought", "text", "call", "image"}, NEW n \in Nat, NEW quirks \in SUBSET Quirks,
         Finished(kind, n, quirks)
  PROVE  /\ up' \in Upstream /\ up'.at = up.at /\ up'.item = "none" /\ up'.sent = 0 /\ up'.part = 0
         /\ up'.quirks = up.quirks \cup quirks
         /\ out' \in Seq(Item) /\ Calls \in Seq(Item)
         /\ \A K : /\ Pieces(K) \in Nat
                   /\ Pieces(K)' = Pieces(K) + (IF kind \in K THEN n ELSE 0)
         /\ Calls' = IF kind = "call" THEN Append(Calls, [kind |-> kind, n |-> n, id |-> Ids]) ELSE Calls
<1>. DEFINE x == [kind |-> kind, n |-> n, id |-> Ids]
<1>1. up' \in Upstream /\ up'.at = up.at /\ up'.item = "none" /\ up'.sent = 0 /\ up'.part = 0
      /\ up'.quirks = up.quirks \cup quirks
  <2>. DEFINE q == up.quirks \cup quirks
  <2>1. up \in Upstream
    BY DEF ChatTyped
  <2>2. "none" \in Items /\ 0 \in Int /\ q \in SUBSET Quirks
    BY <2>1 DEF Upstream, Items
  <2>3. up' = [up EXCEPT !.item = "none", !.sent = 0, !.done = FALSE, !.part = 0, !.quirks = q]
    BY DEF Finished
  <2>. HIDE DEF q
  <2>4. /\ up' \in Upstream /\ up'.at = up.at /\ up'.item = "none" /\ up'.sent = 0 /\ up'.part = 0
        /\ up'.quirks = q
    BY <2>1, <2>2, <2>3 DEF Upstream
  <2>. QED
    BY <2>4 DEF q
<1>2. x \in Item /\ x.kind = kind /\ x.n = n /\ out \in Seq(Item)
  BY IdsType DEF Item, ChatTyped
<1>3. out' = Append(out, x)
  BY DEF Finished
<1>. HIDE DEF x
<1>4. out' \in Seq(Item)
  BY <1>2, <1>3, Grown
<1>5. ASSUME NEW K
      PROVE  /\ Pieces(K) \in Nat
             /\ Pieces(K)' = Pieces(K) + (IF kind \in K THEN n ELSE 0)
  BY <1>2, <1>3, Grown DEF Pieces
<1>6. Calls \in Seq(Item) /\ Calls' = IF kind = "call" THEN Append(Calls, x) ELSE Calls
  BY <1>2, <1>3, Grown DEF Calls
<1>. QED
  BY <1>1, <1>4, <1>5, <1>6 DEF x

LEMMA Some == \E x : x \in Item
<1>1. [kind |-> "text", n |-> 0, id |-> 0] \in Item
  BY DEF Item
<1>. QED
  BY <1>1

\* Nothing is finished.
LEMMA SameItems ==
  ASSUME out \in Seq(Item), out' = out
  PROVE  /\ Calls \in Seq(Item) /\ Calls' = Calls /\ Ids' = Ids
         /\ \A K : Pieces(K) \in Nat /\ Pieces(K)' = Pieces(K)
<1>1. PICK x : x \in Item
  BY Some
<1>. QED
  BY <1>1, Grown DEF Pieces, Calls, Ids

LEMMA PiecesType ==
  ASSUME out \in Seq(Item), NEW K
  PROVE  Pieces(K) \in Nat
<1>1. PICK x : x \in Item
  BY Some
<1>. QED
  BY <1>1, Grown DEF Pieces

LEMMA TextAdded ==
  ASSUME told \in ToldState, NEW n \in Nat, TellText(n)
  PROVE  /\ told' \in ToldState /\ told'.text = told.text + n /\ told'.thought = told.thought
         /\ told'.calls = told.calls /\ told'.finish = told.finish
<1>1. told.text + n \in Nat /\ told' = [told EXCEPT !.text = told.text + n]
  BY DEF ToldState, TellText
<1>. QED
  BY <1>1 DEF ToldState

LEMMA ThoughtAdded ==
  ASSUME told \in ToldState, NEW n, told.thought + n \in Nat, TellThought(n)
  PROVE  /\ told' \in ToldState /\ told'.thought = told.thought + n /\ told'.text = told.text
         /\ told'.calls = told.calls /\ told'.finish = told.finish
<1>1. told' = [told EXCEPT !.thought = told.thought + n]
  BY DEF TellThought
<1>. QED
  BY <1>1 DEF ToldState

LEMMA CallAdded ==
  ASSUME told \in ToldState, NEW i \in Nat, NEW id, NEW n, Merged(told.calls, i, id, n) \in Seq(Call),
         TellCall(i, id, n)
  PROVE  /\ told' \in ToldState /\ told'.calls = Merged(told.calls, i, id, n)
         /\ told'.text = told.text /\ told'.thought = told.thought /\ told'.finish = told.finish
<1>. DEFINE c == Merged(told.calls, i, id, n)
<1>1. told' = [told EXCEPT !.calls = c]
  BY DEF TellCall
<1>. HIDE DEF c
<1>2. c \in Seq(Call)
  BY DEF c
<1>3. /\ told' \in ToldState /\ told'.calls = c
      /\ told'.text = told.text /\ told'.thought = told.thought /\ told'.finish = told.finish
  BY <1>1, <1>2 DEF ToldState
<1>. QED
  BY <1>3 DEF c

LEMMA CreatedChat == ASSUME ChatInv, Created PROVE ChatInv'
<1>1. /\ up = BeginUp /\ up \in Upstream /\ out \in Seq(Item) /\ chat \in ChatState /\ told \in ToldState
  BY DEF ChatInv, ChatTyped, Created
<1>2. /\ up' = [up EXCEPT !.at = "on"] /\ out' = out /\ told' = told
      /\ chat' = [chat EXCEPT !.thought = FALSE, !.summary = FALSE, !.told = 0]
  BY DEF Created
<1>3. up.item = "none" /\ up.sent = 0 /\ up.part = 0 /\ up.quirks = {} /\ up.at = "before"
  BY <1>1 DEF BeginUp
<1>4. /\ up' \in Upstream /\ up'.at = "on" /\ up'.item = "none" /\ up'.sent = 0 /\ up'.part = 0
      /\ up'.quirks = {}
  BY <1>1, <1>2, <1>3 DEF Upstream
<1>5. /\ chat' \in ChatState /\ chat'.told = 0 /\ ~chat'.summary /\ chat'.index = chat.index
      /\ chat'.announced = chat.announced
  BY <1>1, <1>2 DEF ChatState
<1>6. Calls' = Calls /\ Pieces({"text", "image"})' = Pieces({"text", "image"})
      /\ Pieces({"thought"})' = Pieces({"thought"})
  BY <1>1, <1>2, SameItems
<1>7. ChatTyped'
  BY <1>1, <1>2, <1>4, <1>5 DEF ChatTyped
<1>8. Spoken'
  BY <1>1, <1>2, <1>3, <1>4, <1>6 DEF ChatInv, Spoken, SentOf, Hand
<1>9. Thinking'
  BY <1>4, <1>5 DEF Thinking
<1>10. Calling'
  BY <1>1, <1>2, <1>3, <1>4, <1>5, <1>6 DEF ChatInv, Calling
<1>11. Finishing'
  BY <1>1, <1>2, <1>3, <1>4 DEF ChatInv, Finishing
<1>. QED
  BY <1>7, <1>8, <1>9, <1>10, <1>11 DEF ChatInv

LEMMA ThoughtChat == ASSUME ChatInv, Thought PROVE ChatInv'
<1>1. /\ up.at = "on" /\ up.item \in {"none", "thought"} /\ up.sent \in Nat /\ up.part \in Nat /\ up \in Upstream
      /\ out \in Seq(Item) /\ chat \in ChatState /\ told \in ToldState
      /\ up.item = "none" => up.sent = 0
      /\ up.part > 0 => up.sent < up.part
      /\ out' = out /\ TellThought(1)
  BY DEF ChatInv, ChatTyped, Thought, Between, At
<1>2. PICK summary \in BOOLEAN :
        /\ up.item = "thought" => summary = up.summary
        /\ up' = [up EXCEPT !.item = "thought", !.sent = @ + 1, !.summary = summary,
                  !.quirks = @ \cup If("summed", summary) \cup If("astray", up.texted)
                               \cup If("beside", up.part > 0)]
        /\ chat' = [chat EXCEPT !.thought = TRUE, !.summary = @ \/ summary,
                                !.told = IF summary THEN @ ELSE @ + 1]
  <2>1. PICK summary \in (IF up.item = "thought" THEN {up.summary} ELSE BOOLEAN) :
        /\ up' = [up EXCEPT !.item = "thought", !.sent = @ + 1, !.summary = summary,
                  !.quirks = @ \cup If("summed", summary) \cup If("astray", up.texted)
                               \cup If("beside", up.part > 0)]
        /\ chat' = [chat EXCEPT !.thought = TRUE, !.summary = @ \/ summary,
                                !.told = IF summary THEN @ ELSE @ + 1]
    BY DEF Thought
  <2>2. up.summary \in BOOLEAN
    BY <1>1 DEF Upstream
  <2>3. summary \in BOOLEAN /\ (up.item = "thought" => summary = up.summary)
    BY <2>1, <2>2
  <2>. QED
    BY <2>1, <2>3
<1>. DEFINE q == up.quirks \cup If("summed", summary) \cup If("astray", up.texted) \cup If("beside", up.part > 0)
<1>3. /\ q \in SUBSET Quirks /\ ("summed" \in q <=> "summed" \in up.quirks \/ summary)
      /\ (up.part > 0 => "beside" \in q) /\ ("beside" \in up.quirks => "beside" \in q)
      /\ ("muted" \in up.quirks => "muted" \in q)
  BY <1>1 DEF If, Quirks, Upstream
<1>4. up' = [up EXCEPT !.item = "thought", !.sent = up.sent + 1, !.summary = summary, !.quirks = q]
  BY <1>2
<1>. HIDE DEF q
<1>5. /\ up' \in Upstream /\ up'.at = "on" /\ up'.item = "thought" /\ up'.sent = up.sent + 1
      /\ up'.part = up.part /\ up'.summary = summary /\ up'.quirks = q
  <2>1. "thought" \in Items /\ up.sent + 1 \in Int
    BY <1>1 DEF Items
  <2>. QED
    BY <1>1, <1>3, <1>4, <2>1 DEF Upstream
<1>6. /\ chat' \in ChatState /\ chat'.told = (IF summary THEN chat.told ELSE chat.told + 1)
      /\ (chat'.summary <=> chat.summary \/ summary)
      /\ chat'.index = chat.index /\ chat'.announced = chat.announced
  <2>. DEFINE s == chat.summary \/ summary
              n == IF summary THEN chat.told ELSE chat.told + 1
  <2>1. s \in BOOLEAN /\ n \in Nat /\ chat' = [chat EXCEPT !.thought = TRUE, !.summary = s, !.told = n]
    BY <1>1, <1>2 DEF ChatState
  <2>. HIDE DEF s, n
  <2>2. /\ chat' \in ChatState /\ chat'.told = n /\ chat'.summary = s
        /\ chat'.index = chat.index /\ chat'.announced = chat.announced
    BY <1>1, <2>1 DEF ChatState
  <2>. QED
    BY <2>2 DEF s, n
<1>7. Calls' = Calls /\ Pieces({"text", "image"})' = Pieces({"text", "image"})
      /\ Pieces({"thought"})' = Pieces({"thought"}) /\ Pieces({"thought"}) \in Nat
  BY <1>1, SameItems
<1>8. /\ told' \in ToldState /\ told'.thought = told.thought + 1 /\ told'.text = told.text
      /\ told'.calls = told.calls /\ told'.finish = told.finish /\ told.thought \in Nat
  <2>1. told.thought + 1 \in Nat /\ told.thought \in Nat
    BY <1>1 DEF ToldState
  <2>. QED
    BY <1>1, <2>1, ThoughtAdded
<1>9. ChatTyped'
  BY <1>1, <1>5, <1>6, <1>8 DEF ChatTyped
<1>10. up.part = 0 \/ up.item = "thought"
  BY <1>1 DEF ChatInv, Thinking
<1>11. Spoken'
  <2>1. told'.text = Pieces({"text", "image"})' + SentOf("text")'
    BY <1>1, <1>5, <1>7, <1>8 DEF ChatInv, Spoken, SentOf
  <2>2. Hand' = IF up.part > 0 THEN Hand ELSE Hand + 1
    BY <1>1, <1>5, <1>10 DEF Hand
  <2>3. Hand \in Nat
    BY <1>1 DEF Hand
  <2>4. "beside" \in q \/ told.thought + 1 <= Pieces({"thought"}) + Hand'
    BY <1>1, <1>3, <1>7, <1>8, <2>2, <2>3 DEF ChatInv, Spoken
  <2>5. "muted" \in q \/ told.thought + 1 >= Pieces({"thought"}) + Hand'
    BY <1>3, <1>7, <1>8, <2>2, <2>3 DEF ChatInv, Spoken
  <2>. QED
    BY <1>5, <1>7, <1>8, <2>1, <2>4, <2>5 DEF Spoken
<1>12. Thinking'
  <2>1. summary => up.part = 0
    BY <1>1, <1>2, <1>10 DEF ChatInv, Thinking
  <2>2. chat'.told = IF ~up'.summary THEN up'.sent ELSE 0
    BY <1>1, <1>2, <1>5, <1>6 DEF ChatInv, Thinking
  <2>3. chat'.summary <=> "summed" \in up'.quirks
    BY <1>3, <1>5, <1>6 DEF ChatInv, Thinking
  <2>. QED
    BY <1>1, <1>2, <1>5, <1>6, <2>1, <2>2, <2>3 DEF Thinking
<1>13. Calling'
  BY <1>1, <1>5, <1>6, <1>7, <1>8 DEF ChatInv, Calling
<1>14. Finishing'
  BY <1>1, <1>5, <1>8 DEF ChatInv, Finishing
<1>. QED
  BY <1>9, <1>11, <1>12, <1>13, <1>14 DEF ChatInv

\* All of a thought is told by its content part, whatever was told of it before.
LEMMA PartAddedChat == ASSUME ChatInv, PartAdded PROVE ChatInv'
<1>1. /\ up.at = "on" /\ up.item \in {"none", "thought"} /\ up.sent \in Nat /\ up.part \in Nat /\ up \in Upstream
      /\ out \in Seq(Item) /\ chat \in ChatState /\ told \in ToldState
      /\ up.item = "none" => up.sent = 0
      /\ up.item = "thought" => ~up.summary /\ up.part = 0
      /\ out' = out /\ chat' = [chat EXCEPT !.thought = TRUE]
  BY DEF ChatInv, ChatTyped, PartAdded, Between, At
<1>2. PICK n \in 1..MaxPieces :
        /\ up.sent <= n
        /\ up' = [up EXCEPT !.item = "thought", !.part = n, !.summary = FALSE,
                            !.quirks = @ \cup If("beside", up.sent > 0)]
        /\ TellThought(n)
  BY DEF PartAdded
<1>. DEFINE q == up.quirks \cup If("beside", up.sent > 0)
<1>3. n \in Nat /\ n > 0
  BY <1>2
<1>4. /\ q \in SUBSET Quirks /\ ("summed" \in q <=> "summed" \in up.quirks)
      /\ (up.sent > 0 => "beside" \in q) /\ ("beside" \in up.quirks => "beside" \in q)
      /\ ("muted" \in up.quirks => "muted" \in q)
  BY <1>1 DEF If, Quirks, Upstream
<1>5. up' = [up EXCEPT !.item = "thought", !.part = n, !.summary = FALSE, !.quirks = q]
  BY <1>2
<1>. HIDE DEF q
<1>6. /\ up' \in Upstream /\ up'.at = "on" /\ up'.item = "thought" /\ up'.sent = up.sent
      /\ up'.part = n /\ up'.summary = FALSE /\ up'.quirks = q
  <2>1. "thought" \in Items /\ n \in Int
    BY <1>3 DEF Items
  <2>. QED
    BY <1>1, <1>4, <1>5, <2>1 DEF Upstream
<1>7. /\ chat' \in ChatState /\ chat'.told = chat.told /\ chat'.summary = chat.summary
      /\ chat'.index = chat.index /\ chat'.announced = chat.announced
  BY <1>1 DEF ChatState
<1>8. Calls' = Calls /\ Pieces({"text", "image"})' = Pieces({"text", "image"})
      /\ Pieces({"thought"})' = Pieces({"thought"}) /\ Pieces({"thought"}) \in Nat
  BY <1>1, SameItems
<1>9. /\ told' \in ToldState /\ told'.thought = told.thought + n /\ told'.text = told.text
      /\ told'.calls = told.calls /\ told'.finish = told.finish /\ told.thought \in Nat
  <2>1. told.thought + n \in Nat /\ told.thought \in Nat
    BY <1>1, <1>3 DEF ToldState
  <2>. QED
    BY <1>1, <1>2, <2>1, ThoughtAdded
<1>10. ChatTyped'
  BY <1>1, <1>3, <1>6, <1>7, <1>9 DEF ChatTyped
<1>11. Spoken'
  <2>1. told'.text = Pieces({"text", "image"})' + SentOf("text")'
    BY <1>1, <1>6, <1>8, <1>9 DEF ChatInv, Spoken, SentOf
  <2>2. Hand' = n /\ Hand = up.sent
    BY <1>1, <1>3, <1>6 DEF Hand
  <2>3. "beside" \in q \/ told.thought + n <= Pieces({"thought"}) + n
    BY <1>1, <1>3, <1>4, <1>8, <1>9, <2>2 DEF ChatInv, Spoken
  <2>4. "muted" \in q \/ told.thought + n >= Pieces({"thought"}) + n
    BY <1>1, <1>3, <1>4, <1>8, <1>9, <2>2 DEF ChatInv, Spoken
  <2>. QED
    BY <1>6, <1>8, <1>9, <2>1, <2>2, <2>3, <2>4 DEF Spoken
<1>12. Thinking'
  <2>1. chat.told = up.sent
    BY <1>1 DEF ChatInv, Thinking
  <2>. QED
    BY <1>1, <1>2, <1>4, <1>6, <1>7, <2>1 DEF ChatInv, Thinking
<1>13. Calling'
  BY <1>1, <1>6, <1>7, <1>8, <1>9 DEF ChatInv, Calling
<1>14. Finishing'
  BY <1>1, <1>6, <1>9 DEF ChatInv, Finishing
<1>. QED
  BY <1>10, <1>11, <1>12, <1>13, <1>14 DEF ChatInv

LEMMA ThoughtDoneChat == ASSUME ChatInv, ThoughtDone PROVE ChatInv'
<1>1. /\ up.at = "on" /\ up.item \in {"none", "thought"} /\ up.sent \in Nat /\ up.part \in Nat
      /\ up.item = "none" => up.sent = 0
      /\ chat \in ChatState /\ told \in ToldState /\ up.summary \in BOOLEAN
  BY DEF ChatInv, ChatTyped, ThoughtDone, Between, At, Upstream
<1>2. PICK summary \in (IF up.item = "thought" THEN {up.summary} ELSE BOOLEAN), full \in 1..MaxPieces :
        LET rest == IF ~summary THEN full - chat.told ELSE IF chat.summary THEN 0 ELSE full
        IN /\ ThoughtIs(summary, full)
           /\ chat' = [chat EXCEPT !.thought = @ \/ rest > 0, !.told = 0]
           /\ TellThought(rest)
           /\ Finished("thought", full,
                If("beside", up.part > 0) \cup If("unpieced", up.sent < full)
                \cup If("muted", summary /\ up.sent = 0 /\ "summed" \in up.quirks))
  BY DEF ThoughtDone
<1>. DEFINE rest == IF ~summary THEN full - chat.told ELSE IF chat.summary THEN 0 ELSE full
            more == If("beside", up.part > 0) \cup If("unpieced", up.sent < full)
                    \cup If("muted", summary /\ up.sent = 0 /\ "summed" \in up.quirks)
<1>3. /\ summary \in BOOLEAN /\ (up.item = "thought" => summary = up.summary) /\ full \in Nat /\ full > 0
      /\ full >= up.sent /\ (summary /\ up.sent > 0 => full = up.sent) /\ (up.part > 0 => full = up.part)
  BY <1>1, <1>2 DEF ThoughtIs
<1>4. chat' = [chat EXCEPT !.thought = @ \/ rest > 0, !.told = 0] /\ TellThought(rest)
      /\ Finished("thought", full, more)
  BY <1>2
<1>5. /\ more \in SUBSET Quirks /\ (up.part > 0 => "beside" \in more) /\ "summed" \notin more
      /\ (summary /\ up.sent = 0 /\ "summed" \in up.quirks => "muted" \in more)
  BY DEF If, Quirks
<1>. HIDE DEF more
<1>6. /\ rest \in Nat
      /\ up.part = 0 => rest <= full - Hand
      /\ "muted" \in more \/ rest >= full - Hand
  <2>1. /\ chat.told = IF up.item = "thought" /\ ~up.summary THEN up.sent ELSE 0
        /\ chat.summary <=> "summed" \in up.quirks
        /\ up.item = "thought" /\ up.summary => up.part = 0 /\ up.sent > 0 /\ chat.summary
        /\ up.part > 0 => up.item = "thought" /\ up.sent <= up.part
    BY DEF ChatInv, Thinking
  <2>2. CASE up.item = "none"
    <3>1. Hand = 0 /\ chat.told = 0 /\ up.sent = 0 /\ up.part = 0
      BY <1>1, <2>1, <2>2 DEF Hand
    <3>2. CASE summary /\ chat.summary
      <4>1. "muted" \in more /\ rest = 0
        BY <1>5, <2>1, <3>1, <3>2
      <4>. QED
        BY <1>3, <3>1, <4>1
    <3>3. CASE ~summary \/ ~chat.summary
      <4>1. rest = full
        BY <1>3, <3>1, <3>3
      <4>. QED
        BY <1>3, <3>1, <4>1
    <3>. QED
      BY <3>2, <3>3
  <2>3. CASE up.item = "thought" /\ summary
    <3>1. up.part = 0 /\ full = up.sent /\ rest = 0
      BY <1>3, <2>1, <2>3
    <3>2. Hand = up.sent
      BY <2>3, <3>1 DEF Hand
    <3>. QED
      BY <1>3, <3>1, <3>2
  <2>4. CASE up.item = "thought" /\ ~summary
    BY <1>1, <1>3, <2>1, <2>4 DEF Hand
  <2>. QED
    BY <1>1, <1>3, <2>2, <2>3, <2>4
<1>. HIDE DEF rest
<1>7. /\ up' \in Upstream /\ up'.at = "on" /\ up'.item = "none" /\ up'.sent = 0 /\ up'.part = 0
      /\ up'.quirks = up.quirks \cup more /\ out' \in Seq(Item)
      /\ Pieces({"text", "image"})' = Pieces({"text", "image"}) + 0 /\ Calls' = Calls
      /\ Pieces({"thought"})' = Pieces({"thought"}) + full
      /\ Pieces({"text", "image"}) \in Nat /\ Pieces({"thought"}) \in Nat
  <2>1. ChatTyped /\ full \in Nat
    BY <1>3 DEF ChatInv
  <2>. QED
    BY <1>1, <1>4, <1>5, <2>1, ItemFinished
<1>8. /\ chat' \in ChatState /\ chat'.told = 0 /\ chat'.summary = chat.summary
      /\ chat'.index = chat.index /\ chat'.announced = chat.announced
  <2>. DEFINE b == chat.thought \/ rest > 0
  <2>1. b \in BOOLEAN /\ chat' = [chat EXCEPT !.thought = b, !.told = 0]
    BY <1>4
  <2>. HIDE DEF b
  <2>. QED
    BY <1>1, <2>1 DEF ChatState
<1>9. /\ told' \in ToldState /\ told'.thought = told.thought + rest /\ told'.text = told.text
      /\ told'.calls = told.calls /\ told'.finish = told.finish /\ told.thought \in Nat
  <2>1. told.thought + rest \in Nat /\ told.thought \in Nat
    BY <1>1, <1>6 DEF ToldState
  <2>. QED
    BY <1>1, <1>4, <2>1, ThoughtAdded
<1>10. ChatTyped'
  BY <1>7, <1>8, <1>9 DEF ChatTyped
<1>11. Spoken'
  <2>1. told'.text = Pieces({"text", "image"})' + SentOf("text")'
    BY <1>1, <1>7, <1>9 DEF ChatInv, Spoken, SentOf
  <2>2. Hand' = 0 /\ Hand \in Nat
    BY <1>1, <1>7 DEF Hand
  <2>3. "beside" \in up'.quirks \/ told'.thought <= Pieces({"thought"})'
    BY <1>1, <1>3, <1>5, <1>6, <1>7, <1>9, <2>2 DEF ChatInv, Spoken
  <2>4. "muted" \in up'.quirks \/ told'.thought >= Pieces({"thought"})'
    BY <1>3, <1>5, <1>6, <1>7, <1>9, <2>2 DEF ChatInv, Spoken
  <2>5. Pieces({"thought"})' \in Nat
    BY <1>3, <1>7
  <2>. QED
    BY <2>1, <2>2, <2>3, <2>4, <2>5 DEF Spoken
<1>12. Thinking'
  BY <1>1, <1>5, <1>7, <1>8 DEF ChatInv, Thinking
<1>13. Calling'
  BY <1>1, <1>7, <1>8, <1>9 DEF ChatInv, Calling
<1>14. Finishing'
  BY <1>1, <1>7, <1>9 DEF ChatInv, Finishing
<1>. QED
  BY <1>10, <1>11, <1>12, <1>13, <1>14 DEF ChatInv

LEMMA ThoughtEndsChat == ASSUME ChatInv, ThoughtEnds PROVE ChatInv'
<1>1. /\ up.at = "on" /\ up.item = "thought" /\ up.sent \in Nat /\ up.part \in Nat /\ told' = told
      /\ chat' = [chat EXCEPT !.told = 0] /\ chat \in ChatState /\ told \in ToldState
      /\ Finished("thought", Hand, If("unpieced", up.sent < Hand))
  BY DEF ChatInv, ChatTyped, ThoughtEnds, At, Hand
<1>2. Hand \in Nat /\ If("unpieced", up.sent < Hand) \in SUBSET Quirks /\ "summed" \notin If("unpieced", up.sent < Hand)
  BY <1>1 DEF Hand, If, Quirks
<1>3. PICK more \in SUBSET Quirks : Finished("thought", Hand, more) /\ "summed" \notin more
  BY <1>1, <1>2
<1>4. /\ up' \in Upstream /\ up'.at = "on" /\ up'.item = "none" /\ up'.sent = 0 /\ up'.part = 0
      /\ up'.quirks = up.quirks \cup more /\ out' \in Seq(Item)
      /\ Pieces({"text", "image"})' = Pieces({"text", "image"}) + 0 /\ Calls' = Calls
      /\ Pieces({"thought"})' = Pieces({"thought"}) + Hand
      /\ Pieces({"text", "image"}) \in Nat /\ Pieces({"thought"}) \in Nat
  <2>1. ChatTyped /\ Hand \in Nat
    BY <1>2 DEF ChatInv
  <2>. QED
    BY <1>1, <1>3, <2>1, ItemFinished
<1>5. /\ chat' \in ChatState /\ chat'.told = 0 /\ chat'.summary = chat.summary
      /\ chat'.index = chat.index /\ chat'.announced = chat.announced
  BY <1>1 DEF ChatState
<1>6. ChatTyped'
  BY <1>1, <1>4, <1>5 DEF ChatTyped
<1>7. Spoken'
  <2>1. told'.text = Pieces({"text", "image"})' + SentOf("text")'
    BY <1>1, <1>4 DEF ChatInv, Spoken, SentOf
  <2>2. Hand' = 0
    BY <1>4 DEF Hand
  <2>3. Pieces({"thought"})' \in Nat /\ Pieces({"thought"})' + 0 = Pieces({"thought"})'
    BY <1>2, <1>4
  <2>. QED
    BY <1>1, <1>2, <1>4, <2>1, <2>2, <2>3 DEF ChatInv, Spoken
<1>8. Thinking'
  BY <1>3, <1>4, <1>5 DEF ChatInv, Thinking
<1>9. Calling'
  BY <1>1, <1>4, <1>5 DEF ChatInv, Calling
<1>10. Finishing'
  BY <1>1, <1>4 DEF ChatInv, Finishing
<1>. QED
  BY <1>6, <1>7, <1>8, <1>9, <1>10 DEF ChatInv

LEMMA TextChat == ASSUME ChatInv, Text PROVE ChatInv'
<1>1. /\ up.at = "on" /\ up.item \in {"none", "text"} /\ up.sent \in Nat /\ up.part \in Nat /\ up \in Upstream
      /\ out \in Seq(Item) /\ chat \in ChatState /\ told \in ToldState
      /\ up.item = "none" => up.sent = 0
  BY DEF ChatInv, ChatTyped, Text, Between, At
<1>2. /\ up' = [up EXCEPT !.item = "text", !.sent = @ + 1, !.texted = TRUE] /\ out' = out
      /\ chat' = [chat EXCEPT !.text = TRUE] /\ TellText(1)
  BY DEF Text
<1>3. /\ up' \in Upstream /\ up'.at = "on" /\ up'.item = "text" /\ up'.sent = up.sent + 1
      /\ up'.part = up.part /\ up'.quirks = up.quirks
  <2>1. "text" \in Items /\ up.sent + 1 \in Int
    BY <1>1 DEF Items
  <2>. QED
    BY <1>1, <1>2, <2>1 DEF Upstream
<1>4. /\ chat' \in ChatState /\ chat'.told = chat.told /\ chat'.summary = chat.summary
      /\ chat'.index = chat.index /\ chat'.announced = chat.announced
  BY <1>1, <1>2 DEF ChatState
<1>5. Calls' = Calls /\ Pieces({"text", "image"})' = Pieces({"text", "image"})
      /\ Pieces({"thought"})' = Pieces({"thought"}) /\ Pieces({"text", "image"}) \in Nat
  BY <1>1, <1>2, SameItems
<1>6. /\ told' \in ToldState /\ told'.text = told.text + 1 /\ told'.thought = told.thought
      /\ told'.calls = told.calls /\ told'.finish = told.finish
  <2>1. 1 \in Nat
    OBVIOUS
  <2>. QED
    BY <1>1, <1>2, <2>1, TextAdded
<1>7. ChatTyped'
  BY <1>1, <1>2, <1>3, <1>4, <1>6 DEF ChatTyped
<1>8. Spoken'
  BY <1>1, <1>3, <1>5, <1>6 DEF ChatInv, Spoken, SentOf, Hand
<1>9. Thinking'
  BY <1>1, <1>3, <1>4 DEF ChatInv, Thinking
<1>10. Calling'
  BY <1>1, <1>3, <1>4, <1>5, <1>6 DEF ChatInv, Calling
<1>11. Finishing'
  BY <1>1, <1>3, <1>6 DEF ChatInv, Finishing
<1>. QED
  BY <1>7, <1>8, <1>9, <1>10, <1>11 DEF ChatInv

LEMMA TextDoneChat == ASSUME ChatInv, TextDone PROVE ChatInv'
<1>1. /\ up.at = "on" /\ up.item = "text" /\ up.sent \in Nat /\ up.part \in Nat /\ Finished("text", up.sent, {})
      /\ {} \in SUBSET Quirks /\ up.quirks \cup {} = up.quirks /\ chat' = chat /\ told' = told /\ chat \in ChatState /\ told \in ToldState
  BY DEF ChatInv, ChatTyped, TextDone, At
<1>2. /\ up' \in Upstream /\ up'.at = "on" /\ up'.item = "none" /\ up'.sent = 0 /\ up'.part = 0
      /\ up'.quirks = up.quirks /\ out' \in Seq(Item)
      /\ Pieces({"text", "image"})' = Pieces({"text", "image"}) + up.sent /\ Calls' = Calls
      /\ Pieces({"thought"})' = Pieces({"thought"}) + 0
      /\ Pieces({"text", "image"}) \in Nat /\ Pieces({"thought"}) \in Nat
  <2>1. ChatTyped /\ "text" \in {"thought", "text", "call", "image"}
    BY DEF ChatInv
  <2>2. /\ up' \in Upstream /\ up'.at = up.at /\ up'.item = "none" /\ up'.sent = 0 /\ up'.part = 0
        /\ up'.quirks = up.quirks \cup {} /\ out' \in Seq(Item)
        /\ \A K : /\ Pieces(K) \in Nat
                  /\ Pieces(K)' = Pieces(K) + (IF "text" \in K THEN up.sent ELSE 0)
        /\ Calls' = Calls
    BY <1>1, <2>1, ItemFinished
  <2>. QED
    BY <1>1, <2>2
<1>3. ChatTyped'
  BY <1>1, <1>2 DEF ChatTyped
<1>4. Spoken'
  BY <1>1, <1>2 DEF ChatInv, Spoken, SentOf, Hand
<1>5. Thinking'
  BY <1>1, <1>2 DEF ChatInv, Thinking
<1>6. Calling'
  BY <1>1, <1>2 DEF ChatInv, Calling
<1>7. Finishing'
  BY <1>1, <1>2 DEF ChatInv, Finishing
<1>. QED
  BY <1>3, <1>4, <1>5, <1>6, <1>7 DEF ChatInv

LEMMA ImageChat == ASSUME ChatInv, Image PROVE ChatInv'
<1>1. /\ up.at = "on" /\ up.item = "none" /\ up.sent = 0 /\ up.part \in Nat /\ Finished("image", 1, {})
      /\ {} \in SUBSET Quirks /\ up.quirks \cup {} = up.quirks /\ chat' = [chat EXCEPT !.text = TRUE] /\ TellText(1)
      /\ chat \in ChatState /\ told \in ToldState /\ 1 \in Nat
  BY DEF ChatInv, ChatTyped, Image, Between, At
<1>2. /\ up' \in Upstream /\ up'.at = "on" /\ up'.item = "none" /\ up'.sent = 0 /\ up'.part = 0
      /\ up'.quirks = up.quirks /\ out' \in Seq(Item)
      /\ Pieces({"text", "image"})' = Pieces({"text", "image"}) + 1 /\ Calls' = Calls
      /\ Pieces({"thought"})' = Pieces({"thought"}) + 0
      /\ Pieces({"text", "image"}) \in Nat /\ Pieces({"thought"}) \in Nat
  <2>1. ChatTyped /\ "image" \in {"thought", "text", "call", "image"}
    BY DEF ChatInv
  <2>2. /\ up' \in Upstream /\ up'.at = up.at /\ up'.item = "none" /\ up'.sent = 0 /\ up'.part = 0
        /\ up'.quirks = up.quirks \cup {} /\ out' \in Seq(Item)
        /\ \A K : /\ Pieces(K) \in Nat
                  /\ Pieces(K)' = Pieces(K) + (IF "image" \in K THEN 1 ELSE 0)
        /\ Calls' = Calls
    BY <1>1, <2>1, ItemFinished
  <2>. QED
    BY <1>1, <2>2
<1>3. /\ chat' \in ChatState /\ chat'.told = chat.told /\ chat'.summary = chat.summary
      /\ chat'.index = chat.index /\ chat'.announced = chat.announced
  BY <1>1 DEF ChatState
<1>4. /\ told' \in ToldState /\ told'.text = told.text + 1 /\ told'.thought = told.thought
      /\ told'.calls = told.calls /\ told'.finish = told.finish
  BY <1>1, TextAdded
<1>5. ChatTyped'
  BY <1>2, <1>3, <1>4 DEF ChatTyped
<1>6. Spoken'
  BY <1>1, <1>2, <1>4 DEF ChatInv, Spoken, SentOf, Hand
<1>7. Thinking'
  BY <1>1, <1>2, <1>3 DEF ChatInv, Thinking
<1>8. Calling'
  BY <1>1, <1>2, <1>3, <1>4 DEF ChatInv, Calling
<1>9. Finishing'
  BY <1>1, <1>2, <1>4 DEF ChatInv, Finishing
<1>. QED
  BY <1>5, <1>6, <1>7, <1>8, <1>9 DEF ChatInv

\* The number of a call that begins is the next one.
LEMMA NextCall ==
  ASSUME ChatInv, up.item = "none"
  PROVE  /\ CallsAre(told.calls, Calls, FALSE, 0, 0) /\ told.calls \in Seq(Call) /\ Calls \in Seq(Item)
         /\ chat.index + 1 = Len(told.calls) /\ Len(told.calls) \in Nat /\ Ids \in Nat \ {0}
<1>1. out \in Seq(Item) /\ told.calls \in Seq(Call)
  BY DEF ChatInv, ChatTyped, ToldState
<1>2. Calls \in Seq(Item)
  BY <1>1, KindSeq DEF Calls
<1>3. CallsAre(told.calls, Calls, FALSE, 0, 0) /\ chat.index = Len(told.calls) - 1
  BY DEF ChatInv, Calling
<1>4. Len(told.calls) \in Nat /\ (Len(told.calls) - 1) + 1 = Len(told.calls)
  BY <1>1
<1>. QED
  BY <1>1, <1>2, <1>3, <1>4, IdsType

LEMMA CalledChat == ASSUME ChatInv, Called PROVE ChatInv'
<1>1. /\ up.at = "on" /\ up.item = "none" /\ up.sent = 0 /\ up.part \in Nat /\ up \in Upstream
      /\ out \in Seq(Item) /\ chat \in ChatState /\ told \in ToldState
  BY DEF ChatInv, ChatTyped, Called, Between, At
<1>2. /\ up' = [up EXCEPT !.item = "call", !.texted = FALSE] /\ out' = out
      /\ chat' = [chat EXCEPT !.tool = TRUE, !.index = @ + 1, !.args = FALSE, !.announced = TRUE]
      /\ TellCall(chat.index + 1, Ids, 0)
  BY DEF Called
<1>3. /\ up' \in Upstream /\ up'.at = "on" /\ up'.item = "call" /\ up'.sent = 0
      /\ up'.part = up.part /\ up'.quirks = up.quirks
  BY <1>1, <1>2 DEF Upstream, Items
<1>4. /\ chat' \in ChatState /\ chat'.told = chat.told /\ chat'.summary = chat.summary
      /\ chat'.index = chat.index + 1 /\ chat'.announced /\ ~chat'.args
  <2>1. chat.index + 1 \in Int
    BY <1>1 DEF ChatState
  <2>. QED
    BY <1>1, <1>2, <2>1 DEF ChatState
<1>5. Calls' = Calls /\ Ids' = Ids /\ Pieces({"text", "image"})' = Pieces({"text", "image"})
      /\ Pieces({"thought"})' = Pieces({"thought"})
  BY <1>1, <1>2, SameItems
<1>. DEFINE l == Len(told.calls)
            c == Merged(told.calls, l, Ids, 0)
<1>6. chat.index + 1 = l /\ l \in Nat /\ c \in Seq(Call) /\ Len(c) = l + 1 /\ CallsAre(c, Calls, TRUE, Ids, 0)
      /\ TellCall(l, Ids, 0)
  <2>1. /\ told.calls \in Seq(Call) /\ Calls \in Seq(Item) /\ Ids \in Nat \ {0} /\ 0 \in Nat
        /\ CallsAre(told.calls, Calls, FALSE, 0, 0) /\ chat.index + 1 = l /\ l \in Nat
    BY <1>1, NextCall
  <2>2. c \in Seq(Call) /\ Len(c) = l + 1 /\ CallsAre(c, Calls, TRUE, Ids, 0)
    BY <2>1, CallBegins
  <2>. QED
    BY <1>2, <2>1, <2>2
<1>7. /\ told' \in ToldState /\ told'.calls = c /\ told'.text = told.text
      /\ told'.thought = told.thought /\ told'.finish = told.finish
  BY <1>1, <1>6, CallAdded
<1>. HIDE DEF l, c
<1>8. ChatTyped'
  BY <1>1, <1>2, <1>3, <1>4, <1>7 DEF ChatTyped
<1>9. Spoken'
  BY <1>1, <1>3, <1>5, <1>7 DEF ChatInv, Spoken, SentOf, Hand
<1>10. Thinking'
  BY <1>1, <1>3, <1>4 DEF ChatInv, Thinking
<1>11. Calling'
  <2>1. CallsAre(told'.calls, Calls', TRUE, Ids', up'.sent)
    BY <1>3, <1>5, <1>6, <1>7
  <2>2. chat'.index = Len(told'.calls) - 1
    BY <1>4, <1>6, <1>7
  <2>. QED
    BY <1>3, <1>4, <2>1, <2>2 DEF Calling
<1>12. Finishing'
  BY <1>1, <1>3, <1>7 DEF ChatInv, Finishing
<1>. QED
  BY <1>8, <1>9, <1>10, <1>11, <1>12 DEF ChatInv

\* Arguments go to the last call.
LEMMA LastCall ==
  ASSUME ChatInv, up.item = "call", NEW n \in Nat, TellCall(chat.index, 0, n)
  PROVE  /\ told' \in ToldState /\ told'.text = told.text /\ told'.thought = told.thought
         /\ told'.finish = told.finish /\ Len(told'.calls) = Len(told.calls)
         /\ CallsAre(told'.calls, Calls, TRUE, Ids, up.sent + n)
<1>1. /\ out \in Seq(Item) /\ told \in ToldState /\ told.calls \in Seq(Call) /\ up.sent \in Nat
      /\ CallsAre(told.calls, Calls, TRUE, Ids, up.sent) /\ chat.index = Len(told.calls) - 1
  BY DEF ChatInv, ChatTyped, ToldState, Calling
<1>2. Calls \in Seq(Item)
  BY <1>1, KindSeq DEF Calls
<1>3. Len(told.calls) - 1 \in Nat
  BY <1>1, <1>2 DEF CallsAre
<1>. DEFINE c == Merged(told.calls, Len(told.calls) - 1, 0, n)
<1>4. c \in Seq(Call) /\ Len(c) = Len(told.calls) /\ CallsAre(c, Calls, TRUE, Ids, up.sent + n)
  <2>1. /\ told.calls \in Seq(Call) /\ Calls \in Seq(Item) /\ Ids \in Nat \ {0} /\ up.sent \in Nat
        /\ CallsAre(told.calls, Calls, TRUE, Ids, up.sent)
    BY <1>1, <1>2, IdsType
  <2>2. PICK id \in Nat \ {0}, sent \in Nat, calls \in Seq(Call), whole \in Seq(Item) :
          id = Ids /\ sent = up.sent /\ calls = told.calls /\ whole = Calls
    BY <2>1
  <2>3. CallsAre(calls, whole, TRUE, id, sent)
    BY <2>1, <2>2
  <2>4. /\ Merged(calls, Len(calls) - 1, 0, n) \in Seq(Call)
        /\ Len(Merged(calls, Len(calls) - 1, 0, n)) = Len(calls)
        /\ CallsAre(Merged(calls, Len(calls) - 1, 0, n), whole, TRUE, id, sent + n)
    BY <2>3, CallGoesOn
  <2>. QED
    BY <2>2, <2>4
<1>5. /\ told' \in ToldState /\ told'.calls = c /\ told'.text = told.text
      /\ told'.thought = told.thought /\ told'.finish = told.finish
  BY <1>1, <1>3, <1>4, CallAdded
<1>. QED
  BY <1>4, <1>5

LEMMA ArgsChat == ASSUME ChatInv, Args PROVE ChatInv'
<1>1. /\ up.at = "on" /\ up.item = "call" /\ up.sent \in Nat /\ up.part \in Nat /\ up \in Upstream
      /\ out \in Seq(Item) /\ chat \in ChatState /\ told \in ToldState
  BY DEF ChatInv, ChatTyped, Args, At
<1>2. /\ up' = [up EXCEPT !.sent = @ + 1] /\ out' = out
      /\ chat' = [chat EXCEPT !.tool = TRUE, !.args = TRUE]
      /\ TellCall(chat.index, 0, 1)
  BY DEF Args
<1>3. /\ up' \in Upstream /\ up'.at = "on" /\ up'.item = "call" /\ up'.sent = up.sent + 1
      /\ up'.part = up.part /\ up'.quirks = up.quirks
  <2>1. up.sent + 1 \in Int
    BY <1>1
  <2>. QED
    BY <1>1, <1>2, <2>1 DEF Upstream
<1>4. /\ chat' \in ChatState /\ chat'.told = chat.told /\ chat'.summary = chat.summary
      /\ chat'.index = chat.index /\ chat'.announced = chat.announced /\ chat'.args
  BY <1>1, <1>2 DEF ChatState
<1>5. Calls' = Calls /\ Ids' = Ids /\ Pieces({"text", "image"})' = Pieces({"text", "image"})
      /\ Pieces({"thought"})' = Pieces({"thought"})
  BY <1>1, <1>2, SameItems
<1>6. /\ told' \in ToldState /\ told'.text = told.text /\ told'.thought = told.thought
      /\ told'.finish = told.finish /\ Len(told'.calls) = Len(told.calls)
      /\ CallsAre(told'.calls, Calls, TRUE, Ids, up.sent + 1)
  <2>1. 1 \in Nat
    OBVIOUS
  <2>. QED
    BY <1>1, <1>2, <2>1, LastCall
<1>7. ChatTyped'
  BY <1>1, <1>2, <1>3, <1>4, <1>6 DEF ChatTyped
<1>8. Spoken'
  BY <1>1, <1>3, <1>5, <1>6 DEF ChatInv, Spoken, SentOf, Hand
<1>9. Thinking'
  BY <1>1, <1>3, <1>4 DEF ChatInv, Thinking
<1>10. Calling'
  <2>1. CallsAre(told'.calls, Calls', TRUE, Ids', up'.sent)
    BY <1>3, <1>5, <1>6
  <2>2. chat'.index = Len(told'.calls) - 1 /\ chat'.announced
    BY <1>1, <1>4, <1>6 DEF ChatInv, Calling
  <2>3. up'.sent > 0
    BY <1>1, <1>3
  <2>. QED
    BY <1>3, <1>4, <2>1, <2>2, <2>3 DEF Calling
<1>11. Finishing'
  BY <1>1, <1>3, <1>6 DEF ChatInv, Finishing
<1>. QED
  BY <1>7, <1>8, <1>9, <1>10, <1>11 DEF ChatInv

LEMMA ArgsDoneChat == ASSUME ChatInv, ArgsDone PROVE ChatInv'
<1>1. /\ up.at = "on" /\ up.item = "call" /\ ~up.done /\ up.sent \in Nat /\ up.part \in Nat /\ up \in Upstream
      /\ out \in Seq(Item) /\ out' = out /\ chat \in ChatState /\ told \in ToldState
      /\ chat' = [chat EXCEPT !.tool = TRUE]
  BY DEF ChatInv, ChatTyped, ArgsDone, At
<1>2. PICK all \in Nat :
        /\ up.sent > 0 => all = up.sent
        /\ all > 0
        /\ up' = [up EXCEPT !.sent = all, !.done = TRUE, !.quirks = @ \cup If("unpieced", up.sent < all)]
        /\ IF chat.args THEN UNCHANGED told ELSE TellCall(chat.index, 0, all)
  <2>1. PICK all \in (IF up.sent > 0 THEN {up.sent} ELSE 1..MaxPieces) :
        /\ up' = [up EXCEPT !.sent = all, !.done = TRUE, !.quirks = @ \cup If("unpieced", up.sent < all)]
        /\ IF chat.args THEN UNCHANGED told ELSE TellCall(chat.index, 0, all)
    BY DEF ArgsDone
  <2>2. all \in Nat /\ (up.sent > 0 => all = up.sent) /\ all > 0
    BY <1>1, <2>1
  <2>. QED
    BY <2>1, <2>2
<1>. DEFINE q == up.quirks \cup If("unpieced", up.sent < all)
<1>3. /\ q \in SUBSET Quirks /\ ("summed" \in q <=> "summed" \in up.quirks)
      /\ ("beside" \in up.quirks => "beside" \in q) /\ ("muted" \in up.quirks => "muted" \in q)
  BY <1>1 DEF If, Quirks, Upstream
<1>4. up' = [up EXCEPT !.sent = all, !.done = TRUE, !.quirks = q]
  BY <1>2
<1>. HIDE DEF q
<1>5. /\ up' \in Upstream /\ up'.at = "on" /\ up'.item = "call" /\ up'.sent = all /\ up'.done
      /\ up'.part = up.part /\ up'.quirks = q
  <2>1. all \in Int
    OBVIOUS
  <2>. QED
    BY <1>1, <1>3, <1>4, <2>1 DEF Upstream
<1>6. /\ chat' \in ChatState /\ chat'.told = chat.told /\ chat'.summary = chat.summary
      /\ chat'.index = chat.index /\ chat'.announced = chat.announced /\ chat'.args = chat.args
  BY <1>1 DEF ChatState
<1>7. Calls' = Calls /\ Ids' = Ids /\ Pieces({"text", "image"})' = Pieces({"text", "image"})
      /\ Pieces({"thought"})' = Pieces({"thought"})
  BY <1>1, SameItems
<1>8. /\ told' \in ToldState /\ told'.text = told.text /\ told'.thought = told.thought
      /\ told'.finish = told.finish /\ Len(told'.calls) = Len(told.calls)
      /\ CallsAre(told'.calls, Calls, TRUE, Ids, all)
  <2>1. CASE chat.args
    <3>1. told' = told /\ up.sent > 0 /\ CallsAre(told.calls, Calls, TRUE, Ids, up.sent)
      BY <1>1, <1>2, <2>1 DEF ChatInv, Calling
    <3>. QED
      BY <1>1, <1>2, <3>1
  <2>2. CASE ~chat.args
    <3>1. TellCall(chat.index, 0, all) /\ up.sent = 0
      BY <1>1, <1>2, <2>2 DEF ChatInv, Calling
    <3>2. up.sent + all = all
      BY <3>1
    <3>3. /\ told' \in ToldState /\ told'.text = told.text /\ told'.thought = told.thought
          /\ told'.finish = told.finish /\ Len(told'.calls) = Len(told.calls)
          /\ CallsAre(told'.calls, Calls, TRUE, Ids, up.sent + all)
      BY <1>1, <3>1, LastCall
    <3>. QED
      BY <3>2, <3>3
  <2>. QED
    BY <2>1, <2>2
<1>9. ChatTyped'
  BY <1>1, <1>5, <1>6, <1>8 DEF ChatTyped
<1>10. Spoken'
  BY <1>1, <1>3, <1>5, <1>7, <1>8 DEF ChatInv, Spoken, SentOf, Hand
<1>11. Thinking'
  BY <1>1, <1>3, <1>5, <1>6 DEF ChatInv, Thinking
<1>12. Calling'
  BY <1>1, <1>2, <1>5, <1>6, <1>7, <1>8 DEF ChatInv, Calling
<1>13. Finishing'
  BY <1>1, <1>5, <1>8 DEF ChatInv, Finishing
<1>. QED
  BY <1>9, <1>10, <1>11, <1>12, <1>13 DEF ChatInv

\* A call is told with its last event, unless it was announced.
LEMMA CallDoneChat == ASSUME ChatInv, CallDone PROVE ChatInv'
<1>1. /\ up.at = "on" /\ up.item \in {"none", "call"} /\ up.sent \in Nat /\ up.part \in Nat
      /\ up.item = "none" => up.sent = 0
      /\ out \in Seq(Item) /\ chat \in ChatState /\ told \in ToldState
  BY DEF ChatInv, ChatTyped, CallDone, Between, At
<1>2. PICK n \in Nat, more \in SUBSET Quirks :
        /\ up.item = "call" => n = up.sent
        /\ "summed" \notin more
        /\ Finished("call", n, more)
        /\ \/ /\ chat.announced
              /\ chat' = [chat EXCEPT !.tool = TRUE, !.announced = FALSE]
              /\ told' = told
           \/ /\ ~chat.announced
              /\ chat' = [chat EXCEPT !.tool = TRUE, !.index = @ + 1]
              /\ TellCall(chat.index + 1, Ids, n)
  <2>1. PICK n \in (IF up.item = "call" THEN {up.sent} ELSE 1..MaxPieces) :
          /\ Finished("call", n, If("unpieced", up.item # "call"))
          /\ \/ /\ chat.announced
                /\ chat' = [chat EXCEPT !.tool = TRUE, !.announced = FALSE]
                /\ UNCHANGED told
             \/ /\ ~chat.announced
                /\ chat' = [chat EXCEPT !.tool = TRUE, !.index = @ + 1]
                /\ TellCall(chat.index + 1, Ids, n)
    BY DEF CallDone
  <2>2. n \in Nat /\ (up.item = "call" => n = up.sent)
    BY <1>1, <2>1
  <2>3. If("unpieced", up.item # "call") \in SUBSET Quirks /\ "summed" \notin If("unpieced", up.item # "call")
    BY DEF If, Quirks
  <2>. QED
    BY <2>1, <2>2, <2>3
<1>. DEFINE x == [kind |-> "call", n |-> n, id |-> Ids]
<1>3. /\ up' \in Upstream /\ up'.at = "on" /\ up'.item = "none" /\ up'.sent = 0 /\ up'.part = 0
      /\ up'.quirks = up.quirks \cup more /\ out' \in Seq(Item)
      /\ Pieces({"text", "image"})' = Pieces({"text", "image"}) + 0 /\ Calls' = Append(Calls, x)
      /\ Pieces({"thought"})' = Pieces({"thought"}) + 0 /\ Calls \in Seq(Item)
      /\ Pieces({"text", "image"}) \in Nat /\ Pieces({"thought"}) \in Nat
  <2>1. ChatTyped
    BY DEF ChatInv
  <2>. QED
    BY <1>1, <1>2, <2>1, ItemFinished
<1>4. x \in Item /\ x.n = n /\ x.id = Ids
  BY <1>1, IdsType DEF Item
<1>. HIDE DEF x
<1>5. /\ chat' \in ChatState /\ chat'.told = chat.told /\ chat'.summary = chat.summary /\ ~chat'.announced
      /\ chat'.index = Len(told'.calls) - 1 /\ CallsAre(told'.calls, Calls', FALSE, 0, 0)
      /\ told' \in ToldState /\ told'.text = told.text
      /\ told'.thought = told.thought /\ told'.finish = told.finish
  <2>1. CASE up.item = "call"
    <3>1. chat.announced /\ CallsAre(told.calls, Calls, TRUE, Ids, n) /\ chat.index = Len(told.calls) - 1
      BY <1>2, <2>1 DEF ChatInv, Calling
    <3>2. told' = told /\ chat' = [chat EXCEPT !.tool = TRUE, !.announced = FALSE]
      BY <1>2, <3>1
    <3>3. /\ chat' \in ChatState /\ chat'.told = chat.told /\ chat'.summary = chat.summary
          /\ ~chat'.announced /\ chat'.index = chat.index
      BY <1>1, <3>2 DEF ChatState
    <3>4. told.calls \in Seq(Call)
      BY <1>1 DEF ToldState
    <3>5. CallsAre(told.calls, Append(Calls, x), FALSE, 0, 0)
      BY <1>3, <1>4, <3>1, <3>4, CallEnds
    <3>. QED
      BY <1>1, <1>3, <3>1, <3>2, <3>3, <3>5
  <2>2. CASE up.item = "none"
    <3>1. ~chat.announced
      BY <2>2 DEF ChatInv, Calling
    <3>. DEFINE l == Len(told.calls)
                c == Merged(told.calls, l, Ids, n)
    <3>2. chat' = [chat EXCEPT !.tool = TRUE, !.index = l] /\ TellCall(l, Ids, n)
          /\ l \in Nat
      BY <1>2, <2>2, <3>1, NextCall
    <3>3. c \in Seq(Call) /\ Len(c) = l + 1 /\ CallsAre(c, Calls, TRUE, Ids, n)
      <4>1. /\ told.calls \in Seq(Call) /\ Calls \in Seq(Item) /\ Ids \in Nat \ {0} /\ n \in Nat
            /\ CallsAre(told.calls, Calls, FALSE, 0, 0)
        BY <1>2, <2>2, NextCall
      <4>. QED
        BY <4>1, CallBegins
    <3>4. /\ told' \in ToldState /\ told'.calls = c /\ told'.text = told.text
          /\ told'.thought = told.thought /\ told'.finish = told.finish
      BY <1>1, <3>2, <3>3, CallAdded
    <3>. HIDE DEF c, l
    <3>5. /\ chat' \in ChatState /\ chat'.told = chat.told /\ chat'.summary = chat.summary
          /\ chat'.announced = chat.announced /\ chat'.index = l
      <4>1. l \in Int /\ chat' = [chat EXCEPT !.tool = TRUE, !.index = l]
        BY <3>2
      <4>. QED
        BY <1>1, <4>1 DEF ChatState
    <3>6. CallsAre(c, Append(Calls, x), FALSE, 0, 0)
      BY <1>3, <1>4, <3>3, CallEnds
    <3>7. (l + 1) - 1 = l
      BY <3>2
    <3>. QED
      BY <1>3, <3>1, <3>3, <3>4, <3>5, <3>6, <3>7
  <2>. QED
    BY <1>1, <2>1, <2>2
<1>6. ChatTyped'
  BY <1>3, <1>5 DEF ChatTyped
<1>7. Spoken'
  BY <1>1, <1>3, <1>5 DEF ChatInv, Spoken, SentOf, Hand
<1>8. Thinking'
  BY <1>1, <1>2, <1>3, <1>5 DEF ChatInv, Thinking
<1>9. Calling'
  BY <1>3, <1>5 DEF Calling
<1>10. Finishing'
  BY <1>1, <1>3, <1>5 DEF ChatInv, Finishing
<1>. QED
  BY <1>6, <1>7, <1>8, <1>9, <1>10 DEF ChatInv

\* The stream ends, with a reason if anything was told.
LEMMA OverChat == ASSUME ChatInv, Completed \/ BrokenOff PROVE ChatInv'
<1>1. /\ up.at \in {"before", "on"} /\ up.sent \in Nat /\ up.part \in Nat /\ up \in Upstream
      /\ out \in Seq(Item) /\ out' = out /\ chat \in ChatState /\ told \in ToldState
      /\ up' = [up EXCEPT !.at = "over"]
      /\ told' = IF ContentEmpty THEN told ELSE [told EXCEPT !.finish = FinishReason]
      /\ chat' = chat \/ chat' = [chat EXCEPT !.completed = TRUE]
  BY DEF ChatInv, ChatTyped, Completed, BrokenOff, Between, At
<1>2. /\ up' \in Upstream /\ up'.at = "over" /\ up'.item = up.item /\ up'.sent = up.sent /\ up'.done = up.done
      /\ up'.part = up.part /\ up'.summary = up.summary /\ up'.quirks = up.quirks
  BY <1>1 DEF Upstream
<1>3. /\ chat' \in ChatState /\ chat'.told = chat.told /\ chat'.summary = chat.summary
      /\ chat'.index = chat.index /\ chat'.announced = chat.announced /\ chat'.args = chat.args
      /\ chat'.text = chat.text /\ chat'.tool = chat.tool /\ chat'.thought = chat.thought
  BY <1>1 DEF ChatState
<1>4. ContentEmpty' = ContentEmpty /\ FinishReason' = FinishReason
      /\ FinishReason \in {"stop", "tool_calls"} /\ ContentEmpty \in BOOLEAN
  BY <1>3 DEF ContentEmpty, FinishReason
<1>5. /\ told' \in ToldState /\ told'.text = told.text /\ told'.thought = told.thought
      /\ told'.calls = told.calls
      /\ told'.finish = IF ContentEmpty THEN "none" ELSE FinishReason
  <2>1. told.finish = "none"
    BY <1>1 DEF ChatInv, Finishing
  <2>. DEFINE r == FinishReason
  <2>2. r \in {"none", "stop", "tool_calls"}
    BY <1>4
  <2>3. told' = IF ContentEmpty THEN told ELSE [told EXCEPT !.finish = r]
    BY <1>1
  <2>. HIDE DEF r
  <2>4. CASE ContentEmpty
    BY <1>1, <2>1, <2>3, <2>4
  <2>5. CASE ~ContentEmpty
    <3>1. told' = [told EXCEPT !.finish = r]
      BY <2>3, <2>5
    <3>2. /\ told' \in ToldState /\ told'.text = told.text /\ told'.thought = told.thought
          /\ told'.calls = told.calls /\ told'.finish = r
      BY <1>1, <2>2, <3>1 DEF ToldState
    <3>. QED
      BY <2>5, <3>2 DEF r
  <2>. QED
    BY <2>4, <2>5
<1>6. Calls' = Calls /\ Ids' = Ids /\ Pieces({"text", "image"})' = Pieces({"text", "image"})
      /\ Pieces({"thought"})' = Pieces({"thought"})
  BY <1>1, SameItems
<1>7. ChatTyped'
  BY <1>1, <1>2, <1>3, <1>5 DEF ChatInv, ChatTyped
<1>8. Spoken'
  BY <1>1, <1>2, <1>5, <1>6 DEF ChatInv, Spoken, SentOf, Hand
<1>9. Thinking'
  BY <1>1, <1>2, <1>3 DEF ChatInv, Thinking
<1>10. Calling'
  BY <1>1, <1>2, <1>3, <1>5, <1>6 DEF ChatInv, Calling
<1>11. Finishing'
  BY <1>2, <1>4, <1>5 DEF Finishing
<1>. QED
  BY <1>7, <1>8, <1>9, <1>10, <1>11 DEF ChatInv

\* Reading fails, and nothing more is told.
LEMMA FailsChat == ASSUME ChatInv, ReadFails PROVE ChatInv'
<1>1. /\ up.at \in {"before", "on"} /\ up \in Upstream /\ out' = out /\ chat' = chat /\ told' = told
      /\ out \in Seq(Item) /\ up' = [up EXCEPT !.at = "failed"]
  BY DEF ChatInv, ChatTyped, ReadFails
<1>2. /\ up' \in Upstream /\ up'.at = "failed" /\ up'.item = up.item /\ up'.sent = up.sent /\ up'.done = up.done
      /\ up'.part = up.part /\ up'.summary = up.summary /\ up'.quirks = up.quirks
  BY <1>1 DEF Upstream
<1>3. Calls' = Calls /\ Ids' = Ids /\ Pieces({"text", "image"})' = Pieces({"text", "image"})
      /\ Pieces({"thought"})' = Pieces({"thought"})
  BY <1>1, SameItems
<1>4. ChatTyped'
  BY <1>1, <1>2 DEF ChatInv, ChatTyped
<1>5. Spoken'
  BY <1>1, <1>2, <1>3 DEF ChatInv, Spoken, SentOf, Hand
<1>6. Thinking'
  BY <1>1, <1>2 DEF ChatInv, Thinking
<1>7. Calling'
  BY <1>1, <1>2, <1>3 DEF ChatInv, Calling
<1>8. Finishing'
  BY <1>1, <1>2 DEF ChatInv, Finishing
<1>. QED
  BY <1>4, <1>5, <1>6, <1>7, <1>8 DEF ChatInv

LEMMA NothingTold ==
  /\ BeginUp \in Upstream /\ BeginChat \in ChatState /\ BeginTold \in ToldState /\ << >> \in Seq(Item)
  /\ \A K : Kind(<< >>, K) = << >>
  /\ Count(<< >>) = 0 /\ CallsAre(<< >>, << >>, FALSE, 0, 0)
  /\ BeginTold.calls = << >> /\ Len(<< >>) = 0 /\ BeginChat.index = 0 - 1
<1>1. << >> \in Seq(Item) /\ << >> \in Seq(Call) /\ DOMAIN << >> = {} /\ Len(<< >>) = 0
  OBVIOUS
<1>2. BeginUp \in Upstream /\ BeginChat \in ChatState /\ BeginTold \in ToldState
  BY <1>1 DEF BeginUp, BeginChat, BeginTold, Upstream, Items, ChatState, ToldState
<1>3. CallsAre(<< >>, << >>, FALSE, 0, 0)
  BY <1>1 DEF CallsAre
<1>4. BeginTold.calls = << >> /\ BeginChat.index = 0 - 1
  BY DEF BeginTold, BeginChat
<1>. QED
  BY <1>1, <1>2, <1>3, <1>4, KindEmpty, CountEmpty

LEMMA InitChat == ASSUME EventsInit PROVE ChatInv
<1>1. up = BeginUp /\ out = << >> /\ chat = BeginChat /\ told = BeginTold
  BY DEF EventsInit
<1>2. Calls = << >> /\ Pieces({"text", "image"}) = 0 /\ Pieces({"thought"}) = 0
  BY <1>1, NothingTold DEF Calls, Pieces
<1>3. ChatTyped
  BY <1>1, NothingTold DEF ChatTyped, BeginUp
<1>4. Spoken /\ Thinking
  BY <1>1, <1>2 DEF Spoken, Thinking, SentOf, Hand, BeginUp, BeginChat, BeginTold
<1>5. Calling
  <2>1. up.item = "none" /\ ~chat.announced
    BY <1>1 DEF BeginUp, BeginChat
  <2>. QED
    BY <1>1, <1>2, <2>1, NothingTold DEF Calling
<1>6. Finishing
  BY <1>1 DEF Finishing, BeginUp, BeginTold
<1>. QED
  BY <1>3, <1>4, <1>5, <1>6 DEF ChatInv

LEMMA NextResponseChat == ASSUME NextResponse PROVE ChatInv'
<1>1. up' = BeginUp /\ out' = << >> /\ chat' = BeginChat /\ told' = BeginTold
  BY DEF NextResponse
<1>2. Calls' = << >> /\ Pieces({"text", "image"})' = 0 /\ Pieces({"thought"})' = 0
  BY <1>1, NothingTold DEF Calls, Pieces
<1>3. ChatTyped'
  BY <1>1, NothingTold DEF ChatTyped, BeginUp
<1>4. Spoken' /\ Thinking'
  BY <1>1, <1>2 DEF Spoken, Thinking, SentOf, Hand, BeginUp, BeginChat, BeginTold
<1>5. Calling'
  <2>1. up'.item = "none" /\ ~chat'.announced
    BY <1>1 DEF BeginUp, BeginChat
  <2>. QED
    BY <1>1, <1>2, <2>1, NothingTold DEF Calling
<1>6. Finishing'
  BY <1>1 DEF Finishing, BeginUp, BeginTold
<1>. QED
  BY <1>3, <1>4, <1>5, <1>6 DEF ChatInv

LEMMA ChatHolds == EventsSpec => []ChatInv
<1>1. EventsInit => ChatInv
  BY InitChat
<1>2. ChatInv /\ [EventsNext]_eventVars => ChatInv'
  <2>. SUFFICES ASSUME ChatInv, [EventsNext]_eventVars PROVE ChatInv'
    OBVIOUS
  <2>1. CASE UNCHANGED eventVars
    BY <2>1 DEF eventVars, ChatInv, ChatTyped, Spoken, SentOf, Hand, Pieces, Thinking, Calling, Calls, Finishing,
                ContentEmpty, FinishReason, Ids
  <2>2. CASE EventsNext
    BY <2>2, CreatedChat, ThoughtChat, PartAddedChat, ThoughtDoneChat, ThoughtEndsChat, TextChat, TextDoneChat,
       ImageChat, CalledChat, ArgsChat, ArgsDoneChat, CallDoneChat, OverChat, FailsChat, NextResponseChat
       DEF EventsNext
  <2>. QED
    BY <2>1, <2>2
<1>. QED
  BY <1>1, <1>2, PTL DEF EventsSpec

\* Between two items, the text and the calls that were told are what a client without a
\* stream gets.
LEMMA ToldIsWhole ==
  ASSUME ChatInv, up.item = "none"
  PROVE  /\ told.text = NonStreamOf(out).text /\ told.calls = NonStreamOf(out).calls
         /\ told.finish = IF up.at = "over" /\ ~ContentEmpty THEN NonStreamOf(out).finish ELSE "none"
         /\ NonStreamOf(out).thought = Pieces({"thought"}) /\ told \in ToldState
<1>. DEFINE c == [k \in DOMAIN Calls |-> [index |-> k - 1, id |-> Calls[k].id, n |-> Calls[k].n]]
            f == IF Calls = << >> THEN "stop" ELSE "tool_calls"
<1>1. /\ told \in ToldState /\ told.calls \in Seq(Call) /\ Calls \in Seq(Item) /\ out \in Seq(Item)
      /\ Pieces({"text", "image"}) \in Nat /\ Pieces({"thought"}) \in Nat
  <2>1. told \in ToldState /\ out \in Seq(Item)
    BY DEF ChatInv, ChatTyped
  <2>. QED
    BY <2>1, NextCall, PiecesType DEF ToldState
<1>2. told.text = Pieces({"text", "image"})
  BY <1>1 DEF ChatInv, Spoken, SentOf
<1>3. told.calls = c
  <2>1. CallsAre(told.calls, Calls, FALSE, 0, 0)
    BY NextCall
  <2>2. /\ DOMAIN told.calls = DOMAIN Calls
        /\ \A k \in DOMAIN Calls : /\ told.calls[k] \in Call /\ told.calls[k].index = k - 1
                                   /\ told.calls[k].id = Calls[k].id /\ told.calls[k].n = Calls[k].n
    BY <1>1, <2>1 DEF CallsAre
  <2>3. \A r \in Call : r = [index |-> r.index, id |-> r.id, n |-> r.n]
    BY DEF Call
  <2>4. \A k \in DOMAIN Calls : told.calls[k] = c[k]
    BY <2>2, <2>3
  <2>. HIDE DEF c
  <2>5. DOMAIN c = DOMAIN Calls /\ c = [k \in DOMAIN c |-> c[k]]
    BY DEF c
  <2>6. told.calls = [k \in DOMAIN told.calls |-> told.calls[k]]
    BY <1>1
  <2>. QED
    BY <2>2, <2>4, <2>5, <2>6
<1>4. told.finish = IF up.at = "over" /\ ~ContentEmpty THEN f ELSE "none"
  <2>1. chat.index = -1 <=> Calls = << >>
    <3>1. chat.index + 1 = Len(Calls) /\ Len(Calls) \in Nat /\ chat.index \in Int
      BY <1>1, NextCall DEF CallsAre, ChatInv, ChatTyped, ChatState
    <3>2. Calls = << >> <=> Len(Calls) = 0
      BY <1>1
    <3>. QED
      BY <3>1, <3>2
  <2>. QED
    BY <2>1 DEF ChatInv, Finishing, FinishReason
<1>5. NonStreamOf(out) = [text |-> Pieces({"text", "image"}), thought |-> Pieces({"thought"}),
                          calls |-> c, finish |-> f]
  BY DEF NonStreamOf, Pieces, Calls
<1>. HIDE DEF c, f
<1>. QED
  BY <1>1, <1>2, <1>3, <1>4, <1>5

\* response.go:441, 482, 505: however the upstream tells the items of a response and
\* however much of it, the chunks add up to what the finished response says, in each text,
\* in each call and its arguments, and in each thought but for two cases: one told in a
\* content part and in other events as well, and a summary after a summary in pieces.
THEOREM ChunksAddUp == EventsSpec => []ChatWhole
<1>1. ChatInv => ChatWhole
  <2>. SUFFICES ASSUME ChatInv, up.item = "none"
                PROVE  LET whole == NonStreamOf(out)
                       IN /\ told.text = whole.text /\ told.calls = whole.calls
                          /\ told.finish = (IF up.at = "over" /\ ~ContentEmpty THEN whole.finish ELSE "none")
                          /\ "beside" \in up.quirks \/ told.thought <= whole.thought
                          /\ "muted" \in up.quirks \/ told.thought >= whole.thought
    BY DEF ChatWhole
  <2>1. Pieces({"thought"}) \in Nat
    BY PiecesType DEF ChatInv, ChatTyped
  <2>2. /\ "beside" \in up.quirks \/ told.thought <= Pieces({"thought"})
        /\ "muted" \in up.quirks \/ told.thought >= Pieces({"thought"})
    BY <2>1 DEF ChatInv, Spoken, Hand
  <2>. QED
    BY <2>2, ToldIsWhole
<1>. QED
  BY <1>1, ChatHolds, PTL


-----------------------------------------------------------------------------
\* What the items of some kinds come to, one sequence after the other.
LEMMA Concatenated ==
  ASSUME NEW X, NEW s \in Seq(X)
  PROVE  /\ s \o << >> = s /\ << >> \o s = s
         /\ \A t \in Seq(X) : s \o t \in Seq(X)
         /\ \A t \in Seq(X), x \in X : s \o Append(t, x) = Append(s \o t, x)
<1>1. s \o << >> = s /\ << >> \o s = s
  OBVIOUS
<1>2. \A t \in Seq(X) : s \o t \in Seq(X)
  OBVIOUS
<1>3. ASSUME NEW t \in Seq(X), NEW x \in X PROVE s \o Append(t, x) = Append(s \o t, x)
  <2>. DEFINE u == s \o Append(t, x)
              v == Append(s \o t, x)
  <2>1. u \in Seq(X) /\ v \in Seq(X) /\ Len(u) = Len(s) + Len(t) + 1 /\ Len(v) = Len(u)
    OBVIOUS
  <2>2. \A i \in 1..Len(s) + Len(t) + 1 : u[i] = v[i]
    OBVIOUS
  <2>3. \A p \in Seq(X), q \in Seq(X) : Len(p) = Len(q) /\ (\A i \in 1..Len(p) : p[i] = q[i]) => p = q
    OBVIOUS
  <2>. HIDE DEF u, v
  <2>4. \A i \in 1..Len(u) : u[i] = v[i]
    BY <2>1, <2>2
  <2>5. u = v
    BY <2>1, <2>3, <2>4
  <2>. QED
    BY <2>5 DEF u, v
<1>. QED
  BY <1>1, <1>2, <1>3

Joins(s, t, K) == Kind(s \o t, K) = Kind(s, K) \o Kind(t, K)

LEMMA KindJoined ==
  ASSUME NEW s \in Seq(Item), NEW t \in Seq(Item), NEW K
  PROVE  Joins(s, t, K)
<1>. DEFINE S == {u \in Seq(Item) : Kind(s \o u, K) = Kind(s, K) \o Kind(u, K)}
<1>1. << >> \in S
  <2>1. Kind(<< >>, K) = << >> /\ s \o << >> = s /\ Kind(s, K) \o << >> = Kind(s, K) /\ << >> \in Seq(Item)
    BY KindEmpty, KindSeq, Concatenated
  <2>. QED
    BY <2>1
<1>2. \A u \in Seq(Item), x \in Item : u \in S => Append(u, x) \in S
  <2>. SUFFICES ASSUME NEW u \in Seq(Item), NEW x \in Item, Kind(s \o u, K) = Kind(s, K) \o Kind(u, K)
                PROVE  Append(u, x) \in Seq(Item)
                       /\ Kind(s \o Append(u, x), K) = Kind(s, K) \o Kind(Append(u, x), K)
    OBVIOUS
  <2>1. /\ Kind(s, K) \in Seq(Item) /\ Kind(u, K) \in Seq(Item) /\ s \o u \in Seq(Item)
        /\ s \o Append(u, x) = Append(s \o u, x)
        /\ Kind(s, K) \o Append(Kind(u, K), x) = Append(Kind(s, K) \o Kind(u, K), x)
    BY KindSeq, Concatenated
  <2>2. Append(u, x) \in Seq(Item)
    BY Grown
  <2>3. CASE x.kind \in K
    BY <2>1, <2>2, <2>3, Grown
  <2>4. CASE x.kind \notin K
    <3>1. Kind(Append(u, x), K) = Kind(u, K) /\ Kind(Append(s \o u, x), K) = Kind(s \o u, K)
      BY <2>1, <2>4, Grown
    <3>. QED
      BY <2>1, <2>2, <3>1
  <2>. QED
    BY <2>3, <2>4
<1>3. Seq(Item) \subseteq S
  <2>. HIDE DEF S
  <2>. QED
    BY <1>1, <1>2, Appending
<1>. QED
  BY <1>3 DEF Joins

LEMMA CountType ==
  ASSUME NEW s \in Seq(Item)
  PROVE  Count(s) \in Nat
<1>1. PICK x : x \in Item
  BY Some
<1>2. x \in Item /\ \A y \in Item : y.n \in Nat
  BY <1>1 DEF Item
<1>. QED
  BY <1>2, CountAppend

LEMMA CountJoined ==
  ASSUME NEW s \in Seq(Item), NEW t \in Seq(Item)
  PROVE  Count(s \o t) = Count(s) + Count(t)
<1>. DEFINE S == {u \in Seq(Item) : Count(s \o u) = Count(s) + Count(u)}
<1>1. \A x \in Item : x.n \in Nat
  BY DEF Item
<1>2. \A u \in Seq(Item) : Count(u) \in Nat
  BY CountType
<1>3. << >> \in S
  <2>1. Count(<< >>) = 0 /\ s \o << >> = s /\ << >> \in Seq(Item) /\ Count(s) \in Nat
    BY <1>2, CountEmpty, Concatenated
  <2>. QED
    BY <2>1
<1>4. \A u \in Seq(Item), x \in Item : u \in S => Append(u, x) \in S
  <2>. SUFFICES ASSUME NEW u \in Seq(Item), NEW x \in Item, Count(s \o u) = Count(s) + Count(u)
                PROVE  Append(u, x) \in Seq(Item) /\ Count(s \o Append(u, x)) = Count(s) + Count(Append(u, x))
    OBVIOUS
  <2>1. s \o u \in Seq(Item) /\ s \o Append(u, x) = Append(s \o u, x) /\ Append(u, x) \in Seq(Item)
    BY Concatenated, Grown
  <2>2. Count(Append(s \o u, x)) = Count(s \o u) + x.n /\ Count(Append(u, x)) = Count(u) + x.n
    BY <1>1, <2>1, CountAppend
  <2>3. Count(s) \in Nat /\ Count(u) \in Nat /\ x.n \in Nat
    BY <1>1, <1>2
  <2>. QED
    BY <2>1, <2>2, <2>3
<1>5. Seq(Item) \subseteq S
  <2>. HIDE DEF S
  <2>. QED
    BY <1>3, <1>4, Appending
<1>. QED
  BY <1>5

\* The same, of items.
LEMMA PickMore ==
  ASSUME NEW s \in Seq(Item), NEW x \in Item, NEW P, NEW Q, SameTo(Len(s), P, Q)
  PROVE  Pick(Append(s, x), Q) = IF Len(s) + 1 \in Q THEN Append(Pick(s, P), x) ELSE Pick(s, P)
<1>1. SameTo(Len(s), P, Q)
  OBVIOUS
<1>2. /\ Pick(s, P) \in Seq(Item)
      /\ Len(s) + 1 \in Q => Pick(Append(s, x), Q) = Append(Pick(s, P), x)
      /\ Len(s) + 1 \notin Q => Pick(Append(s, x), Q) = Pick(s, P)
  BY <1>1, PickAppend
<1>. QED
  BY <1>2

\* The same, of the same places.
LEMMA OneMore ==
  ASSUME NEW s \in Seq(Item), NEW x \in Item, NEW P
  PROVE  /\ Pick(s, P) \in Seq(Item)
         /\ Len(s) + 1 \in P => Pick(Append(s, x), P) = Append(Pick(s, P), x)
         /\ Len(s) + 1 \notin P => Pick(Append(s, x), P) = Pick(s, P)
<1>1. SameTo(Len(s), P, P)
  BY DEF SameTo
<1>. QED
  BY <1>1, PickAppend

\* What is picked depends on the places of the sequence only.
LEMMA PickAlike ==
  ASSUME NEW s \in Seq(Item), NEW P, NEW Q, \A i \in DOMAIN s : i \in P <=> i \in Q
  PROVE  Pick(s, P) = Pick(s, Q)
<1>. DEFINE Good(u) == \A A, B : (\A i \in 1..Len(u) : i \in A <=> i \in B) => Pick(u, A) = Pick(u, B)
            S == {u \in Seq(Item) : Good(u)}
<1>1. << >> \in S
  <2>1. Good(<< >>)
    BY PickEmpty
  <2>. HIDE DEF Good
  <2>. QED
    BY <2>1
<1>2. \A u \in Seq(Item), x \in Item : u \in S => Append(u, x) \in S
  <2>. SUFFICES ASSUME NEW u \in Seq(Item), NEW x \in Item, Good(u) PROVE Append(u, x) \in Seq(Item) /\ Good(Append(u, x))
    OBVIOUS
  <2>1. Append(u, x) \in Seq(Item)
    BY Grown
  <2>2. ASSUME NEW A, NEW B, \A i \in 1..Len(Append(u, x)) : i \in A <=> i \in B
        PROVE  Pick(Append(u, x), A) = Pick(Append(u, x), B)
    <3>1. Len(Append(u, x)) = Len(u) + 1 /\ Len(u) \in Nat
      OBVIOUS
    <3>2. (\A i \in 1..Len(u) : i \in A <=> i \in B) /\ (Len(u) + 1 \in A <=> Len(u) + 1 \in B)
      <4>1. Len(u) + 1 \in 1..Len(Append(u, x)) /\ \A i \in 1..Len(u) : i \in 1..Len(Append(u, x))
        BY <3>1
      <4>. QED
        BY <2>2, <4>1
    <3>3. Pick(u, A) = Pick(u, B)
      BY <3>2
    <3>4. /\ Len(u) + 1 \in A => Pick(Append(u, x), A) = Append(Pick(u, A), x)
          /\ Len(u) + 1 \notin A => Pick(Append(u, x), A) = Pick(u, A)
      BY OneMore
    <3>5. /\ Len(u) + 1 \in B => Pick(Append(u, x), B) = Append(Pick(u, B), x)
          /\ Len(u) + 1 \notin B => Pick(Append(u, x), B) = Pick(u, B)
      BY OneMore
    <3>. QED
      BY <3>2, <3>3, <3>4, <3>5
  <2>3. Good(Append(u, x))
    BY <2>2
  <2>. QED
    BY <2>1, <2>3
<1>3. Seq(Item) \subseteq S
  <2>. HIDE DEF S
  <2>. QED
    BY <1>1, <1>2, Appending
<1>4. Good(s)
  <2>. HIDE DEF Good
  <2>. QED
    BY <1>3
<1>5. DOMAIN s = 1..Len(s)
  OBVIOUS
<1>. QED
  BY <1>4, <1>5

LEMMA PickSeq ==
  ASSUME NEW s \in Seq(Item), NEW P
  PROVE  Pick(s, P) \in Seq(Item)
<1>1. PICK x : x \in Item
  BY Some
<1>. QED
  BY <1>1, OneMore

\* The places of a list that is one longer.
LEMMA LongerPlaces ==
  ASSUME NEW u \in Seq(Item), NEW x \in Item, NEW K
  PROVE  /\ Append(u, x) \in Seq(Item) /\ Len(u) \in Nat /\ DOMAIN u = 1..Len(u) /\ DOMAIN Append(u, x) = 1..Len(u) + 1
         /\ Append(u, x)[Len(u) + 1] = x /\ \A i \in 1..Len(u) : Append(u, x)[i] = u[i]
         /\ \A i \in 1..Len(u) : i \in Of(u, K) <=> i \in Of(Append(u, x), K)
         /\ Len(u) + 1 \in Of(Append(u, x), K) <=> x.kind \in K
<1>. DEFINE t == Append(u, x)
<1>1. /\ t \in Seq(Item) /\ Len(u) \in Nat /\ DOMAIN u = 1..Len(u) /\ DOMAIN t = 1..Len(u) + 1
      /\ t[Len(u) + 1] = x /\ \A i \in 1..Len(u) : t[i] = u[i] /\ i \in 1..Len(u) + 1
      /\ Len(u) + 1 \in 1..Len(u) + 1
  OBVIOUS
<1>. HIDE DEF t
<1>2. /\ \A i \in 1..Len(u) : i \in Of(u, K) <=> i \in Of(t, K)
      /\ Len(u) + 1 \in Of(t, K) <=> x.kind \in K
  BY <1>1 DEF Of
<1>. QED
  BY <1>1, <1>2 DEF t

\* The items of some kinds among those that are picked.
LEMMA KindPicked ==
  ASSUME NEW s \in Seq(Item), NEW P, NEW K
  PROVE  Kind(Pick(s, P), K) = Pick(s, P \cap Of(s, K))
<1>. DEFINE S == {u \in Seq(Item) : Kind(Pick(u, P), K) = Pick(u, P \cap Of(u, K))}
<1>1. << >> \in S
  BY KindEmpty, PickEmpty
<1>2. \A u \in Seq(Item), x \in Item : u \in S => Append(u, x) \in S
  <2>. SUFFICES ASSUME NEW u \in Seq(Item), NEW x \in Item, Kind(Pick(u, P), K) = Pick(u, P \cap Of(u, K))
                PROVE  Append(u, x) \in Seq(Item)
                       /\ Kind(Pick(Append(u, x), P), K) = Pick(Append(u, x), P \cap Of(Append(u, x), K))
    OBVIOUS
  <2>. DEFINE A == P \cap Of(u, K)
              B == P \cap Of(Append(u, x), K)
  <2>1. /\ Append(u, x) \in Seq(Item)
        /\ \A i \in 1..Len(u) : i \in A <=> i \in B
        /\ Len(u) + 1 \in B <=> Len(u) + 1 \in P /\ x.kind \in K
    BY LongerPlaces
  <2>2. Kind(Pick(u, P), K) = Pick(u, A)
    OBVIOUS
  <2>. HIDE DEF A, B
  <2>3. /\ Len(u) + 1 \in B => Pick(Append(u, x), B) = Append(Pick(u, A), x)
        /\ Len(u) + 1 \notin B => Pick(Append(u, x), B) = Pick(u, A)
    <3>1. SameTo(Len(u), A, B)
      BY <2>1 DEF SameTo
    <3>2. Pick(Append(u, x), B) = IF Len(u) + 1 \in B THEN Append(Pick(u, A), x) ELSE Pick(u, A)
      BY <3>1, PickMore
    <3>. QED
      BY <3>2
  <2>4. /\ Len(u) + 1 \in P => Pick(Append(u, x), P) = Append(Pick(u, P), x)
        /\ Len(u) + 1 \notin P => Pick(Append(u, x), P) = Pick(u, P)
    BY OneMore
  <2>5. Pick(u, P) \in Seq(Item)
    BY PickSeq
  <2>6. Kind(Append(Pick(u, P), x), K) = IF x.kind \in K THEN Append(Kind(Pick(u, P), K), x) ELSE Kind(Pick(u, P), K)
    BY <2>5, Grown
  <2>7. Kind(Pick(Append(u, x), P), K) = Pick(Append(u, x), B)
    BY <2>1, <2>2, <2>3, <2>4, <2>6
  <2>. QED
    BY <2>1, <2>7 DEF B
<1>3. Seq(Item) \subseteq S
  <2>. HIDE DEF S
  <2>. QED
    BY <1>1, <1>2, Appending
<1>. QED
  BY <1>3

\* What is picked at one set of places and at another comes to what is picked at both.
LEMMA PickOfBoth ==
  ASSUME NEW s \in Seq(Item), NEW P, NEW Q, P \cap Q = {}
  PROVE  Count(Pick(s, P \cup Q)) = Count(Pick(s, P)) + Count(Pick(s, Q))
<1>. DEFINE S == {u \in Seq(Item) : Count(Pick(u, P \cup Q)) = Count(Pick(u, P)) + Count(Pick(u, Q))}
<1>1. << >> \in S
  BY PickEmpty, CountEmpty
<1>2. \A u \in Seq(Item), x \in Item : u \in S => Append(u, x) \in S
  <2>. SUFFICES ASSUME NEW u \in Seq(Item), NEW x \in Item,
                       Count(Pick(u, P \cup Q)) = Count(Pick(u, P)) + Count(Pick(u, Q))
                PROVE  /\ Append(u, x) \in Seq(Item)
                       /\ Count(Pick(Append(u, x), P \cup Q))
                            = Count(Pick(Append(u, x), P)) + Count(Pick(Append(u, x), Q))
    OBVIOUS
  <2>. DEFINE a(A) == Count(Pick(u, A))
              b(A) == Count(Pick(Append(u, x), A))
  <2>1. Append(u, x) \in Seq(Item) /\ x.n \in Nat /\ \A y \in Item : y.n \in Nat
    BY Grown DEF Item
  <2>2. ASSUME NEW A PROVE a(A) \in Nat /\ b(A) = a(A) + (IF Len(u) + 1 \in A THEN x.n ELSE 0)
    <3>1. /\ Pick(u, A) \in Seq(Item)
          /\ Len(u) + 1 \in A => Pick(Append(u, x), A) = Append(Pick(u, A), x)
          /\ Len(u) + 1 \notin A => Pick(Append(u, x), A) = Pick(u, A)
      BY OneMore
    <3>2. Count(Pick(u, A)) \in Nat /\ Count(Append(Pick(u, A), x)) = Count(Pick(u, A)) + x.n
      BY <2>1, <3>1, CountAppend
    <3>3. CASE Len(u) + 1 \in A
      BY <3>1, <3>2, <3>3
    <3>4. CASE Len(u) + 1 \notin A
      <4>1. Pick(Append(u, x), A) = Pick(u, A)
        BY <3>1, <3>4
      <4>. QED
        BY <3>2, <3>4, <4>1
    <3>. QED
      BY <3>3, <3>4
  <2>3. a(P \cup Q) = a(P) + a(Q)
    OBVIOUS
  <2>. HIDE DEF a, b
  <2>4. b(P \cup Q) = b(P) + b(Q)
    <3>1. a(P) \in Nat /\ a(Q) \in Nat
      BY <2>2
    <3>2. CASE Len(u) + 1 \in P
      <4>1. Len(u) + 1 \notin Q /\ Len(u) + 1 \in P \cup Q
        BY <3>2
      <4>2. b(P \cup Q) = a(P \cup Q) + x.n /\ b(P) = a(P) + x.n /\ b(Q) = a(Q) + 0
        BY <2>2, <3>2, <4>1
      <4>. QED
        BY <2>1, <2>3, <3>1, <4>2
    <3>3. CASE Len(u) + 1 \notin P /\ Len(u) + 1 \in Q
      <4>1. b(P \cup Q) = a(P \cup Q) + x.n /\ b(P) = a(P) + 0 /\ b(Q) = a(Q) + x.n
        BY <2>2, <3>3
      <4>. QED
        BY <2>1, <2>3, <3>1, <4>1
    <3>4. CASE Len(u) + 1 \notin P /\ Len(u) + 1 \notin Q
      <4>1. b(P \cup Q) = a(P \cup Q) + 0 /\ b(P) = a(P) + 0 /\ b(Q) = a(Q) + 0
        BY <2>2, <3>4
      <4>. QED
        BY <2>1, <2>3, <3>1, <4>1
    <3>. QED
      BY <3>2, <3>3, <3>4
  <2>. QED
    BY <2>1, <2>4 DEF a, b
<1>3. Seq(Item) \subseteq S
  <2>. HIDE DEF S
  <2>. QED
    BY <1>1, <1>2, Appending
<1>. QED
  BY <1>3

\* Something is picked if a place is one of the sequence, and nothing if none is.
SomePicked(s, P) ==
  /\ (\A k \in DOMAIN s : k \notin P) => Pick(s, P) = << >>
  /\ \A k \in DOMAIN s : k \in P => Pick(s, P) # << >> /\ (s[k].n > 0 => Count(Pick(s, P)) > 0)

LEMMA PickSome ==
  ASSUME NEW s \in Seq(Item), NEW P
  PROVE  SomePicked(s, P)
<1>. DEFINE S == {u \in Seq(Item) : SomePicked(u, P)}
<1>1. << >> \in S
  BY PickEmpty DEF SomePicked
<1>2. \A u \in Seq(Item), x \in Item : u \in S => Append(u, x) \in S
  <2>. SUFFICES ASSUME NEW u \in Seq(Item), NEW x \in Item, SomePicked(u, P)
                PROVE  Append(u, x) \in Seq(Item) /\ SomePicked(Append(u, x), P)
    OBVIOUS
  <2>. DEFINE t == Append(u, x)
              n == Len(u) + 1
  <2>1. /\ t \in Seq(Item) /\ DOMAIN u = 1..Len(u) /\ DOMAIN t = 1..n /\ Len(u) \in Nat
        /\ t[n] = x /\ \A i \in 1..Len(u) : t[i] = u[i]
    BY LongerPlaces
  <2>2. /\ Pick(u, P) \in Seq(Item)
        /\ n \in P => Pick(t, P) = Append(Pick(u, P), x)
        /\ n \notin P => Pick(t, P) = Pick(u, P)
    BY OneMore
  <2>3. /\ \A y \in Item : y.n \in Nat
        /\ x.n \in Nat
    BY DEF Item
  <2>4. /\ Count(Pick(u, P)) \in Nat /\ Count(Append(Pick(u, P), x)) = Count(Pick(u, P)) + x.n
    BY <2>2, <2>3, CountAppend
  <2>5. Append(Pick(u, P), x) # << >>
    BY <2>2
  <2>. HIDE DEF t
  <2>6. (\A k \in DOMAIN t : k \notin P) => Pick(t, P) = << >>
    <3>1. n \in 1..n /\ \A i \in 1..Len(u) : i \in 1..n
      BY <2>1
    <3>. HIDE DEF n
    <3>. QED
      BY <2>1, <2>2, <3>1 DEF SomePicked
  <2>7. ASSUME NEW k \in DOMAIN t, k \in P PROVE Pick(t, P) # << >> /\ (t[k].n > 0 => Count(Pick(t, P)) > 0)
    <3>1. CASE k = n
      <4>1. Pick(t, P) = Append(Pick(u, P), x) /\ t[k] = x
        BY <2>1, <2>2, <2>7, <3>1
      <4>. HIDE DEF n
      <4>. QED
        BY <2>3, <2>4, <2>5, <4>1
    <3>2. CASE k \in 1..Len(u)
      <4>1. Pick(u, P) # << >> /\ (t[k].n > 0 => Count(Pick(u, P)) > 0)
        BY <2>1, <2>7, <3>2 DEF SomePicked
      <4>2. CASE n \in P
        <5>1. Pick(t, P) = Append(Pick(u, P), x)
          BY <2>2, <4>2
        <5>. HIDE DEF n
        <5>. QED
          BY <2>3, <2>4, <2>5, <4>1, <5>1
      <4>3. CASE n \notin P
        BY <2>2, <4>1, <4>3
      <4>. QED
        BY <4>2, <4>3
    <3>3. k = n \/ k \in 1..Len(u)
      BY <2>1, <2>7
    <3>. QED
      BY <3>1, <3>2, <3>3
  <2>8. SomePicked(t, P)
    BY <2>6, <2>7 DEF SomePicked
  <2>. QED
    BY <2>1, <2>8 DEF t
<1>3. Seq(Item) \subseteq S
  <2>. HIDE DEF S
  <2>. QED
    BY <1>1, <1>2, Appending
<1>. QED
  BY <1>3

LEMMA KindOfNone ==
  ASSUME NEW s \in Seq(Item), NEW K, \A k \in DOMAIN s : s[k].kind \notin K
  PROVE  Kind(s, K) = << >>
<1>. DEFINE S == {u \in Seq(Item) : (\A k \in DOMAIN u : u[k].kind \notin K) => Kind(u, K) = << >>}
<1>1. << >> \in S
  BY KindEmpty
<1>2. \A u \in Seq(Item), x \in Item : u \in S => Append(u, x) \in S
  <2>. SUFFICES ASSUME NEW u \in Seq(Item), NEW x \in Item, u \in S,
                       \A k \in DOMAIN Append(u, x) : Append(u, x)[k].kind \notin K
                PROVE  Kind(Append(u, x), K) = << >>
    BY Grown
  <2>1. x.kind \notin K /\ \A k \in DOMAIN u : u[k].kind \notin K
    <3>1. /\ Len(u) \in Nat /\ DOMAIN u = 1..Len(u) /\ DOMAIN Append(u, x) = 1..Len(u) + 1
          /\ Append(u, x)[Len(u) + 1] = x /\ \A k \in 1..Len(u) : Append(u, x)[k] = u[k]
      OBVIOUS
    <3>2. Len(u) + 1 \in 1..Len(u) + 1 /\ \A k \in 1..Len(u) : k \in 1..Len(u) + 1
      BY <3>1
    <3>. QED
      BY <3>1, <3>2
  <2>. QED
    BY <2>1, Grown
<1>3. Seq(Item) \subseteq S
  <2>. HIDE DEF S
  <2>. QED
    BY <1>1, <1>2, Appending
<1>. QED
  BY <1>3

\* Items that mean nothing come to nothing.
LEMMA NothingCounts ==
  ASSUME NEW s \in Seq(Item), ~Meaningful(s), NEW K
  PROVE  Count(Kind(s, K)) = 0 /\ Kind(s, {"call"}) = << >>
<1>1. \A k \in DOMAIN s : s[k].kind # "call" /\ s[k].n = 0
  <2>1. \A k \in DOMAIN s : s[k] \in Item
    OBVIOUS
  <2>. QED
    BY <2>1 DEF Meaningful, Item
<1>. DEFINE S == {u \in Seq(Item) : (\A k \in DOMAIN u : u[k].n = 0) => Count(Kind(u, K)) = 0}
<1>2. << >> \in S
  BY KindEmpty, CountEmpty
<1>3. \A u \in Seq(Item), x \in Item : u \in S => Append(u, x) \in S
  <2>. SUFFICES ASSUME NEW u \in Seq(Item), NEW x \in Item, u \in S,
                       \A k \in DOMAIN Append(u, x) : Append(u, x)[k].n = 0
                PROVE  Count(Kind(Append(u, x), K)) = 0
    BY Grown
  <2>1. x.n = 0 /\ \A k \in DOMAIN u : u[k].n = 0
    <3>1. /\ Len(u) \in Nat /\ DOMAIN u = 1..Len(u) /\ DOMAIN Append(u, x) = 1..Len(u) + 1
          /\ Append(u, x)[Len(u) + 1] = x /\ \A k \in 1..Len(u) : Append(u, x)[k] = u[k]
      OBVIOUS
    <3>2. Len(u) + 1 \in 1..Len(u) + 1 /\ \A k \in 1..Len(u) : k \in 1..Len(u) + 1
      BY <3>1
    <3>. QED
      BY <3>1, <3>2
  <2>2. Count(Kind(u, K)) = 0
    BY <2>1
  <2>. QED
    BY <2>1, <2>2, Grown
<1>4. Seq(Item) \subseteq S
  <2>. HIDE DEF S
  <2>. QED
    BY <1>2, <1>3, Appending
<1>5. Kind(s, {"call"}) = << >>
  BY <1>1, KindOfNone
<1>. QED
  BY <1>1, <1>4, <1>5

-----------------------------------------------------------------------------
\* Deltas are an item, or nothing: they are of no other kind, and are as many as they
\* were if no item of their kind had a last event.
LEMMA DeltasType ==
  ASSUME NEW items, NEW kind \in {"text", "thought"}, NEW n \in Nat
  PROVE  FromDeltas(items, kind, n) \in Seq(Item)
<1>. DEFINE x == [kind |-> kind, n |-> n, id |-> 0]
<1>1. x \in Item
  <2>1. kind \in {"thought", "text", "call", "image"}
    OBVIOUS
  <2>. QED
    BY <2>1 DEF Item
<1>2. FromDeltas(items, kind, n) = << x >> \/ FromDeltas(items, kind, n) = << >>
  BY DEF FromDeltas
<1>. HIDE DEF x
<1>3. << x >> \in Seq(Item) /\ << >> \in Seq(Item)
  BY <1>1
<1>. QED
  BY <1>2, <1>3

LEMMA OneItem ==
  ASSUME NEW x \in Item, NEW K
  PROVE  /\ x.kind \notin K => Kind(<< x >>, K) = << >>
         /\ x.kind \in K => Count(Kind(<< x >>, K)) = x.n
<1>1. << x >> = Append(<< >>, x) /\ << >> \in Seq(Item) /\ x.n \in Nat
  <2>1. x.n \in Nat
    BY DEF Item
  <2>. QED
    BY <2>1
<1>2. /\ Kind(Append(<< >>, x), K) = IF x.kind \in K THEN Append(Kind(<< >>, K), x) ELSE Kind(<< >>, K)
      /\ Count(Kind(Append(<< >>, x), K)) = Count(Kind(<< >>, K)) + (IF x.kind \in K THEN x.n ELSE 0)
  BY <1>1, Grown
<1>3. Kind(<< >>, K) = << >> /\ Count(<< >>) = 0
  BY KindEmpty, CountEmpty
<1>. QED
  BY <1>1, <1>2, <1>3

LEMMA OfNoOther ==
  ASSUME NEW items, NEW kind \in {"text", "thought"}, NEW n \in Nat, NEW K, kind \notin K
  PROVE  Kind(FromDeltas(items, kind, n), K) = << >>
<1>. DEFINE x == [kind |-> kind, n |-> n, id |-> 0]
<1>1. x \in Item /\ x.kind = kind /\ x.n = n
  BY DEF Item
<1>2. FromDeltas(items, kind, n) = << x >> \/ FromDeltas(items, kind, n) = << >>
  BY DEF FromDeltas
<1>. HIDE DEF x
<1>3. Kind(<< x >>, K) = << >> /\ Kind(<< >>, K) = << >>
  BY <1>1, OneItem, KindEmpty
<1>. QED
  BY <1>2, <1>3

LEMMA InTheirPlace ==
  ASSUME NEW items, NEW kind \in {"text", "thought"}, NEW n \in Nat, NEW K, kind \in K,
         Kind(items, {kind}) = << >>
  PROVE  Count(Kind(FromDeltas(items, kind, n), K)) = n
<1>. DEFINE x == [kind |-> kind, n |-> n, id |-> 0]
<1>1. x \in Item /\ x.kind = kind /\ x.n = n
  BY DEF Item
<1>2. FromDeltas(items, kind, n) = IF n > 0 THEN << x >> ELSE << >>
  BY DEF FromDeltas
<1>. HIDE DEF x
<1>3. Count(Kind(<< x >>, K)) = n
  BY <1>1, OneItem
<1>4. Kind(<< >>, K) = << >> /\ Count(<< >>) = 0
  BY KindEmpty, CountEmpty
<1>5. CASE n > 0
  BY <1>2, <1>3, <1>5
<1>6. CASE n = 0
  BY <1>2, <1>4, <1>6
<1>. QED
  BY <1>5, <1>6

\* Four lists, one after the other.
AllJoin(s1, s2, s3, s4, K) ==
  /\ Kind(s1 \o s2 \o s3 \o s4, K) = Kind(s1, K) \o Kind(s2, K) \o Kind(s3, K) \o Kind(s4, K)
  /\ Count(Kind(s1 \o s2 \o s3 \o s4, K))
       = Count(Kind(s1, K)) + Count(Kind(s2, K)) + Count(Kind(s3, K)) + Count(Kind(s4, K))

LEMMA FourJoined ==
  ASSUME NEW s1 \in Seq(Item), NEW s2 \in Seq(Item), NEW s3 \in Seq(Item), NEW s4 \in Seq(Item), NEW K
  PROVE  AllJoin(s1, s2, s3, s4, K)
<1>1. PICK u \in Seq(Item) : u = s1 \o s2
  BY Concatenated
<1>2. PICK v \in Seq(Item) : v = u \o s3
  BY Concatenated
<1>3. Joins(s1, s2, K) /\ Joins(u, s3, K) /\ Joins(v, s4, K)
  BY KindJoined
<1>4. Kind(u, K) = Kind(s1, K) \o Kind(s2, K)
  BY <1>1, <1>3 DEF Joins
<1>5. Kind(v, K) = Kind(u, K) \o Kind(s3, K)
  BY <1>2, <1>3 DEF Joins
<1>6. Kind(v \o s4, K) = Kind(v, K) \o Kind(s4, K)
  BY <1>3 DEF Joins
<1>7. /\ Kind(s1, K) \in Seq(Item) /\ Kind(s2, K) \in Seq(Item) /\ Kind(s3, K) \in Seq(Item)
      /\ Kind(s4, K) \in Seq(Item) /\ Kind(u, K) \in Seq(Item) /\ Kind(v, K) \in Seq(Item)
  BY KindSeq
<1>8. Count(Kind(u, K)) = Count(Kind(s1, K)) + Count(Kind(s2, K))
  BY <1>4, <1>7, CountJoined
<1>9. Count(Kind(v, K)) = Count(Kind(u, K)) + Count(Kind(s3, K))
  BY <1>5, <1>7, CountJoined
<1>10. Count(Kind(v \o s4, K)) = Count(Kind(v, K)) + Count(Kind(s4, K))
  BY <1>6, <1>7, CountJoined
<1>11. s1 \o s2 \o s3 \o s4 = v \o s4
  BY <1>1, <1>2
<1>. QED
  BY <1>4, <1>5, <1>6, <1>8, <1>9, <1>10, <1>11 DEF AllJoin

\* Items with a last event, and the deltas of what had none.
Gathered(full, done, a, b) == full \o done \o FromDeltas(done, "text", a) \o FromDeltas(done, "thought", b)

AddsUp(w, full, done, a, b) ==
  /\ \A K : Count(Kind(w, K)) = Count(Kind(full, K)) + Count(Kind(done, K))
              + Count(Kind(FromDeltas(done, "text", a), K))
              + Count(Kind(FromDeltas(done, "thought", b), K))
  /\ Kind(w, {"call"}) = Kind(full, {"call"}) \o Kind(done, {"call"})

LEMMA GatheredAddsUp ==
  ASSUME NEW full \in Seq(Item), NEW done \in Seq(Item), NEW a \in Nat, NEW b \in Nat, NEW w,
         w = Gathered(full, done, a, b)
  PROVE  AddsUp(w, full, done, a, b)
<1>1. PICK p \in Seq(Item) : p = FromDeltas(done, "text", a)
  BY DeltasType
<1>2. PICK q \in Seq(Item) : q = FromDeltas(done, "thought", b)
  BY DeltasType
<1>3. w = full \o done \o p \o q
  BY <1>1, <1>2 DEF Gathered
<1>4. Kind(p, {"call"}) = << >> /\ Kind(q, {"call"}) = << >>
  <2>1. "text" \notin {"call"} /\ "thought" \notin {"call"}
    OBVIOUS
  <2>. QED
    BY <1>1, <1>2, <2>1, OfNoOther
<1>5. ASSUME NEW K
      PROVE  /\ Kind(w, K) = Kind(full, K) \o Kind(done, K) \o Kind(p, K) \o Kind(q, K)
             /\ Count(Kind(w, K)) = Count(Kind(full, K)) + Count(Kind(done, K)) + Count(Kind(p, K)) + Count(Kind(q, K))
  <2>1. AllJoin(full, done, p, q, K)
    BY FourJoined
  <2>. QED
    BY <1>3, <2>1 DEF AllJoin
<1>6. Kind(w, {"call"}) = Kind(full, {"call"}) \o Kind(done, {"call"})
  <2>1. Kind(full, {"call"}) \in Seq(Item) /\ Kind(done, {"call"}) \in Seq(Item)
    BY KindSeq
  <2>2. Kind(full, {"call"}) \o Kind(done, {"call"}) \in Seq(Item)
    BY <2>1, Concatenated
  <2>3. Kind(full, {"call"}) \o Kind(done, {"call"}) \o << >> = Kind(full, {"call"}) \o Kind(done, {"call"})
    BY <2>2, Concatenated
  <2>. QED
    BY <1>4, <1>5, <2>3
<1>. QED
  BY <1>1, <1>2, <1>5, <1>6 DEF AddsUp


-----------------------------------------------------------------------------
\* Two lists of items that a client without a stream cannot tell apart.
AlikeItems(s, t) ==
  /\ Kind(s, {"call"}) = Kind(t, {"call"})
  /\ \A K \in {{"text"}, {"thought"}, {"text", "image"}} : Count(Kind(s, K)) = Count(Kind(t, K))

LEMMA SameAnswers ==
  ASSUME NEW s, NEW t, AlikeItems(s, t)
  PROVE  NonStreamOf(s) = NonStreamOf(t) /\ ClaudeNonStreamOf(s) = ClaudeNonStreamOf(t)
  BY DEF AlikeItems, NonStreamOf, ClaudeNonStreamOf

\* The items that were listed, and after them the images that were not, are those that
\* were listed and the images, if the places of calls are not those of images.
LEMMA ListedWithImages ==
  ASSUME out \in Seq(Item), NEW listed
  PROVE  WithImages(listed) \in Seq(Item) /\ AlikeItems(WithImages(listed), Pick(out, listed \cup Images))
<1>1. PICK a \in Seq(Item), b \in Seq(Item) : a = Pick(out, listed) /\ b = Pick(out, Images \ listed)
  BY PickSeq
<1>2. WithImages(listed) = a \o b /\ a \o b \in Seq(Item)
  BY <1>1, Concatenated DEF WithImages
<1>3. ASSUME NEW K
      PROVE  /\ Kind(a \o b, K) = Pick(out, listed \cap Of(out, K)) \o Pick(out, (Images \ listed) \cap Of(out, K))
             /\ Count(Kind(a \o b, K)) = Count(Kind(Pick(out, listed \cup Images), K))
  <2>. DEFINE P == listed \cap Of(out, K)
              Q == (Images \ listed) \cap Of(out, K)
  <2>1. Joins(a, b, K)
    BY KindJoined
  <2>2. Kind(a, K) = Pick(out, P) /\ Kind(b, K) = Pick(out, Q)
    BY <1>1, KindPicked
  <2>3. Kind(Pick(out, listed \cup Images), K) = Pick(out, (listed \cup Images) \cap Of(out, K))
    BY KindPicked
  <2>4. P \cap Q = {} /\ (listed \cup Images) \cap Of(out, K) = P \cup Q
    OBVIOUS
  <2>. HIDE DEF P, Q
  <2>5. Count(Pick(out, P \cup Q)) = Count(Pick(out, P)) + Count(Pick(out, Q))
    BY <2>4, PickOfBoth
  <2>6. Kind(a \o b, K) = Pick(out, P) \o Pick(out, Q)
    BY <2>1, <2>2 DEF Joins
  <2>7. Count(Kind(a \o b, K)) = Count(Pick(out, P)) + Count(Pick(out, Q))
    <3>1. Pick(out, P) \in Seq(Item) /\ Pick(out, Q) \in Seq(Item)
      BY PickSeq
    <3>. QED
      BY <2>6, <3>1, CountJoined
  <2>. QED
    BY <2>3, <2>4, <2>5, <2>6, <2>7 DEF P, Q
<1>4. Kind(a \o b, {"call"}) = Kind(Pick(out, listed \cup Images), {"call"})
  <2>. DEFINE C == Of(out, {"call"})
  <2>1. Images \cap C = {}
    BY DEF Images, Of
  <2>. HIDE DEF C
  <2>2. (Images \ listed) \cap C = {} /\ (listed \cup Images) \cap C = listed \cap C
    BY <2>1
  <2>3. Pick(out, {}) = << >>
    <3>1. SomePicked(out, {})
      BY PickSome
    <3>. QED
      BY <3>1 DEF SomePicked
  <2>4. Kind(a \o b, {"call"}) = Pick(out, listed \cap C) \o Pick(out, (Images \ listed) \cap C)
    BY <1>3 DEF C
  <2>5. Kind(Pick(out, listed \cup Images), {"call"}) = Pick(out, (listed \cup Images) \cap C)
    BY KindPicked DEF C
  <2>6. Pick(out, listed \cap C) \o << >> = Pick(out, listed \cap C)
    BY PickSeq, Concatenated
  <2>. QED
    BY <2>2, <2>3, <2>4, <2>5, <2>6
<1>. QED
  BY <1>2, <1>3, <1>4 DEF AlikeItems

\* An item with something in it is seen, if it is picked.
LEMMA Shown ==
  ASSUME out \in Seq(Item), NEW P, NEW k \in DOMAIN out, k \in P, out[k].kind = "call" \/ out[k].n > 0
  PROVE  HasOutput(NonStreamOf(Pick(out, P)))
<1>. DEFINE s == Pick(out, P)
            Q(K) == P \cap Of(out, K)
<1>1. \A K : Kind(s, K) = Pick(out, Q(K))
  BY KindPicked
<1>2. ASSUME NEW K, out[k].kind \in K
      PROVE  Kind(s, K) # << >> /\ (out[k].n > 0 => Count(Kind(s, K)) > 0)
  <2>. HIDE DEF s
  <2>1. k \in Q(K)
    BY <1>2 DEF Of
  <2>2. SomePicked(out, Q(K))
    BY PickSome
  <2>. QED
    BY <1>1, <2>1, <2>2 DEF SomePicked
<1>. HIDE DEF s
<1>3. out[k] \in Item
  OBVIOUS
<1>4. CASE out[k].kind = "call"
  <2>. DEFINE c == Kind(s, {"call"})
              d == [j \in DOMAIN c |-> [index |-> j - 1, id |-> c[j].id, n |-> c[j].n]]
  <2>1. c # << >> /\ c \in Seq(Item)
    <3>1. "call" \in {"call"} /\ s \in Seq(Item)
      BY PickSeq DEF s
    <3>. QED
      BY <1>2, <1>4, <3>1, KindSeq
  <2>2. NonStreamOf(s).calls = d
    BY DEF NonStreamOf
  <2>. HIDE DEF c
  <2>3. 1 \in DOMAIN c
    BY <2>1
  <2>4. d # << >>
    <3>1. DOMAIN d = DOMAIN c
      OBVIOUS
    <3>. HIDE DEF d
    <3>. QED
      BY <2>3, <3>1
  <2>. HIDE DEF d
  <2>. QED
    BY <2>2, <2>4 DEF HasOutput, s
<1>5. CASE out[k].kind = "thought" /\ out[k].n > 0
  <2>1. Count(Kind(s, {"thought"})) > 0
    BY <1>2, <1>5
  <2>. QED
    BY <2>1 DEF HasOutput, NonStreamOf, s
<1>6. CASE out[k].kind \in {"text", "image"} /\ out[k].n > 0
  <2>1. Count(Kind(s, {"text", "image"})) > 0
    BY <1>2, <1>6
  <2>. QED
    BY <2>1 DEF HasOutput, NonStreamOf, s
<1>. QED
  BY <1>3, <1>4, <1>5, <1>6 DEF Item

LEMMA Means ==
  ASSUME NEW s \in Seq(Item), HasOutput(NonStreamOf(s))
  PROVE  Meaningful(s)
<1>. SUFFICES ASSUME ~Meaningful(s) PROVE FALSE
  OBVIOUS
<1>1. (\A K : Count(Kind(s, K)) = 0) /\ Kind(s, {"call"}) = << >>
  BY NothingCounts
<1>2. NonStreamOf(s).text = 0 /\ NonStreamOf(s).thought = 0
  BY <1>1 DEF NonStreamOf
<1>3. NonStreamOf(s).calls = << >>
  <2>. DEFINE d == [j \in DOMAIN << >> |-> [index |-> j - 1, id |-> Kind(s, {"call"})[j].id, n |-> Kind(s, {"call"})[j].n]]
  <2>1. NonStreamOf(s).calls = d
    BY <1>1 DEF NonStreamOf
  <2>2. d = << >>
    OBVIOUS
  <2>. HIDE DEF d
  <2>. QED
    BY <2>1, <2>2
<1>. QED
  BY <1>2, <1>3 DEF HasOutput

\* The completed response lists nothing, and there is no image: it is given what had a
\* last event, and the deltas of what had none.
Given(w, done, b, bytext, bythought) ==
  /\ Kind(w, {"call"}) = Kind(done, {"call"})
  /\ Count(Kind(w, {"text"})) = IF bytext THEN Pieces({"text"}) ELSE Count(Kind(done, {"text"}))
  /\ Count(Kind(w, {"text", "image"})) = IF bytext THEN Pieces({"text"}) ELSE Count(Kind(done, {"text", "image"}))
  /\ Count(Kind(w, {"thought"})) = IF bythought THEN b ELSE Count(Kind(done, {"thought"}))

LEMMA OfNothing ==
  ASSUME out \in Seq(Item), Images = {}, NEW ended, NEW b \in Nat, NEW done, done = Pick(out, ended),
         NEW w, w = Gathered(<< >>, done, Pieces({"text"}), b)
  PROVE  Given(w, done, b, Of(out, {"text"}) \cap ended = {}, Of(out, {"thought"}) \cap ended = {})
<1>1. PICK a \in Nat : a = Pieces({"text"})
  BY PiecesType
<1>2. done \in Seq(Item) /\ << >> \in Seq(Item) /\ Count(<< >>) = 0 /\ \A K : Kind(<< >>, K) = << >>
  BY PickSeq, KindEmpty, CountEmpty
<1>3. PICK p \in Seq(Item), q \in Seq(Item) : p = FromDeltas(done, "text", a) /\ q = FromDeltas(done, "thought", b)
  <2>1. "text" \in {"text", "thought"} /\ "thought" \in {"text", "thought"}
    OBVIOUS
  <2>. QED
    BY <2>1, DeltasType
<1>4. /\ \A K : Count(Kind(w, K)) = Count(Kind(<< >>, K)) + Count(Kind(done, K)) + Count(Kind(p, K)) + Count(Kind(q, K))
      /\ Kind(w, {"call"}) = Kind(<< >>, {"call"}) \o Kind(done, {"call"})
  <2>1. w = Gathered(<< >>, done, a, b)
    BY <1>1
  <2>2. AddsUp(w, << >>, done, a, b)
    BY <1>2, <2>1, GatheredAddsUp
  <2>. QED
    BY <1>3, <2>2 DEF AddsUp
<1>5. \A K : Count(Kind(done, K)) \in Nat /\ Count(Kind(p, K)) \in Nat /\ Count(Kind(q, K)) \in Nat
  BY <1>2, <1>3, KindSeq, CountType
<1>6. ASSUME NEW K PROVE Count(Kind(w, K)) = Count(Kind(done, K)) + Count(Kind(p, K)) + Count(Kind(q, K))
  <2>1. Count(Kind(w, K)) = Count(Kind(<< >>, K)) + Count(Kind(done, K)) + Count(Kind(p, K)) + Count(Kind(q, K))
    BY <1>4
  <2>2. Count(Kind(<< >>, K)) = 0
    BY <1>2
  <2>. QED
    BY <1>5, <2>1, <2>2
<1>7. Count(Kind(p, {"thought"})) = 0 /\ Count(Kind(q, {"text"})) = 0 /\ Count(Kind(q, {"text", "image"})) = 0
  <2>1. "text" \notin {"thought"} /\ "thought" \notin {"text"} /\ "thought" \notin {"text", "image"}
    OBVIOUS
  <2>2. Kind(p, {"thought"}) = << >> /\ Kind(q, {"text"}) = << >> /\ Kind(q, {"text", "image"}) = << >>
    BY <1>3, <2>1, OfNoOther
  <2>. QED
    BY <1>2, <2>2
<1>8. ASSUME NEW K
      PROVE  /\ Of(out, K) \cap ended = {} => Kind(done, K) = << >>
             /\ Of(out, K) \cap ended # {} => Kind(done, K) # << >>
  <2>. DEFINE P == ended \cap Of(out, K)
  <2>1. Kind(done, K) = Pick(out, P)
    BY KindPicked
  <2>2. P \subseteq DOMAIN out /\ P = Of(out, K) \cap ended
    BY DEF Of
  <2>. HIDE DEF P
  <2>3. SomePicked(out, P)
    BY PickSome
  <2>4. (P = {} => Kind(done, K) = << >>) /\ (P # {} => Kind(done, K) # << >>)
    BY <2>1, <2>2, <2>3 DEF SomePicked
  <2>. QED
    BY <2>2, <2>4
<1>9. Of(out, {"text", "image"}) = Of(out, {"text"})
  BY DEF Images, Of
<1>10. Kind(w, {"call"}) = Kind(done, {"call"})
  <2>1. << >> \o Kind(done, {"call"}) = Kind(done, {"call"})
    BY <1>2, KindSeq, Concatenated
  <2>. QED
    BY <1>2, <1>4, <2>1
<1>11. /\ Of(out, {"text"}) \cap ended = {} => /\ Count(Kind(p, {"text"})) = a /\ Count(Kind(p, {"text", "image"})) = a
                                               /\ Kind(done, {"text"}) = << >> /\ Kind(done, {"text", "image"}) = << >>
       /\ Of(out, {"text"}) \cap ended # {} => Count(Kind(p, {"text"})) = 0 /\ Count(Kind(p, {"text", "image"})) = 0
  <2>1. CASE Of(out, {"text"}) \cap ended = {}
    <3>1. Kind(done, {"text"}) = << >> /\ Kind(done, {"text", "image"}) = << >>
      BY <1>8, <1>9, <2>1
    <3>2. "text" \in {"text"} /\ "text" \in {"text", "image"} /\ "text" \in {"text", "thought"}
      OBVIOUS
    <3>. QED
      BY <1>3, <2>1, <3>1, <3>2, InTheirPlace
  <2>2. CASE Of(out, {"text"}) \cap ended # {}
    <3>1. p = << >>
      <4>1. Kind(done, {"text"}) # << >>
        BY <1>8, <2>2
      <4>. QED
        BY <1>3, <4>1 DEF FromDeltas
    <3>. QED
      BY <1>2, <2>2, <3>1
  <2>. QED
    BY <2>1, <2>2
<1>12. /\ Of(out, {"thought"}) \cap ended = {} => Count(Kind(q, {"thought"})) = b /\ Kind(done, {"thought"}) = << >>
       /\ Of(out, {"thought"}) \cap ended # {} => Count(Kind(q, {"thought"})) = 0
  <2>1. CASE Of(out, {"thought"}) \cap ended = {}
    <3>1. Kind(done, {"thought"}) = << >>
      BY <1>8, <2>1
    <3>2. "thought" \in {"thought"} /\ "thought" \in {"text", "thought"}
      OBVIOUS
    <3>. QED
      BY <1>3, <2>1, <3>1, <3>2, InTheirPlace
  <2>2. CASE Of(out, {"thought"}) \cap ended # {}
    <3>1. q = << >>
      <4>1. Kind(done, {"thought"}) # << >>
        BY <1>8, <2>2
      <4>. QED
        BY <1>3, <4>1 DEF FromDeltas
    <3>. QED
      BY <1>2, <2>2, <3>1
  <2>. QED
    BY <2>1, <2>2
<1>13. ASSUME NEW K \in {{"text"}, {"text", "image"}}
       PROVE  Count(Kind(w, K)) = IF Of(out, {"text"}) \cap ended = {} THEN a ELSE Count(Kind(done, K))
  <2>1. PICK d \in Nat, e \in Nat, f \in Nat :
          d = Count(Kind(done, K)) /\ e = Count(Kind(p, K)) /\ f = Count(Kind(q, K))
    BY <1>5
  <2>2. Count(Kind(w, K)) = d + e + f /\ f = 0
    BY <1>6, <1>7, <2>1
  <2>3. CASE Of(out, {"text"}) \cap ended = {}
    <3>1. e = a /\ d = 0
      BY <1>2, <1>11, <2>1, <2>3
    <3>. QED
      BY <2>2, <2>3, <3>1
  <2>4. CASE Of(out, {"text"}) \cap ended # {}
    <3>1. e = 0
      BY <1>11, <2>1, <2>4
    <3>. QED
      BY <2>1, <2>2, <2>4, <3>1
  <2>. QED
    BY <2>3, <2>4
<1>14. {"text"} \in {{"text"}, {"text", "image"}} /\ {"text", "image"} \in {{"text"}, {"text", "image"}}
  OBVIOUS
<1>15. Count(Kind(w, {"thought"})) = IF Of(out, {"thought"}) \cap ended = {} THEN b ELSE Count(Kind(done, {"thought"}))
  <2>1. /\ Count(Kind(w, {"thought"})) = Count(Kind(done, {"thought"})) + 0 + Count(Kind(q, {"thought"}))
        /\ Count(Kind(done, {"thought"})) \in Nat /\ Count(Kind(q, {"thought"})) \in Nat
    BY <1>5, <1>6, <1>7
  <2>. QED
    BY <1>2, <1>12, <2>1
<1>. QED
  BY <1>1, <1>10, <1>13, <1>14, <1>15 DEF Given


-----------------------------------------------------------------------------
\* No item but a call is empty, and a response that has anything is not taken for empty.
Solid ==
  /\ \A k \in DOMAIN out : out[k].kind = "call" \/ out[k].n > 0
  /\ up.at = "before" => out = << >>
  /\ up.item = "thought" => Hand > 0
  /\ up.item = "text" => up.sent > 0
  /\ up.item # "none" \/ out # << >> => ~ContentEmpty
  /\ up.item = "thought" \/ chat.summary \/ told.thought > 0 => chat.thought

LEMMA SolidItem ==
  ASSUME ChatTyped, Solid, NEW kind \in {"thought", "text", "call", "image"}, NEW n \in Nat, kind = "call" \/ n > 0,
         NEW quirks \in SUBSET Quirks, Finished(kind, n, quirks)
  PROVE  /\ up'.at = up.at /\ up'.item = "none"
         /\ out' # << >> /\ \A k \in DOMAIN out' : out'[k].kind = "call" \/ out'[k].n > 0
<1>. DEFINE x == [kind |-> kind, n |-> n, id |-> Ids]
<1>1. up'.at = up.at /\ up'.item = "none"
  BY ItemFinished
<1>2. out' = Append(out, x) /\ out \in Seq(Item) /\ (x.kind = "call" \/ x.n > 0)
  BY DEF Finished, ChatTyped
<1>. HIDE DEF x
<1>3. /\ DOMAIN out' = 1..Len(out) + 1 /\ out'[Len(out) + 1] = x /\ Len(out) \in Nat
      /\ \A k \in 1..Len(out) : out'[k] = out[k] /\ k \in DOMAIN out
      /\ out' # << >>
  BY <1>2
<1>. QED
  BY <1>1, <1>2, <1>3 DEF Solid

\* What an action that is told to the chat client leaves of its state.
LEMMA SolidStays ==
  ASSUME Solid, ~ContentEmpty', up'.at = "on", up'.item = "none", chat.thought => chat'.thought,
         chat'.summary = chat.summary, told'.thought > 0 => told.thought > 0 \/ chat'.thought,
         \A k \in DOMAIN out' : out'[k].kind = "call" \/ out'[k].n > 0
  PROVE  Solid'
  BY DEF Solid

LEMMA CreatedSolid == ASSUME ChatInv, Solid, Created PROVE Solid'
<1>1. up.at = "before" /\ out = << >> /\ up = BeginUp /\ up.quirks = {} /\ up \in Upstream
      /\ out' = out /\ told' = told /\ chat \in ChatState /\ told \in ToldState
  BY DEF ChatInv, ChatTyped, Created, Solid, BeginUp
<1>2. /\ up' = [up EXCEPT !.at = "on"]
      /\ chat' = [chat EXCEPT !.thought = FALSE, !.summary = FALSE, !.told = 0]
  BY DEF Created
<1>3. up'.at = "on" /\ up'.item = "none" /\ chat'.summary = FALSE
  BY <1>1, <1>2 DEF Upstream, BeginUp, ChatState
<1>4. told.thought = 0
  <2>1. Pieces({"thought"}) = 0 /\ Hand = 0
    BY <1>1, NothingTold DEF Pieces, Hand, BeginUp
  <2>2. told.thought <= 0 /\ told.thought \in Nat
    BY <1>1, <2>1 DEF ChatInv, Spoken, ToldState
  <2>. QED
    BY <2>2
<1>5. told'.thought = 0 /\ ~(told'.thought > 0) /\ DOMAIN out' = {}
  BY <1>1, <1>4
<1>. QED
  BY <1>1, <1>3, <1>5 DEF Solid

LEMMA ThoughtSolid == ASSUME ChatInv, Solid, Thought PROVE Solid'
<1>1. /\ up.at = "on" /\ up.item \in {"none", "thought"} /\ up.sent \in Nat /\ up.part \in Nat /\ up \in Upstream
      /\ chat \in ChatState /\ out' = out
      /\ up.part > 0 => up.item = "thought"
  BY DEF ChatInv, ChatTyped, Thinking, Thought, Between, At
<1>2. PICK summary \in (IF up.item = "thought" THEN {up.summary} ELSE BOOLEAN) :
        /\ up' = [up EXCEPT !.item = "thought", !.sent = @ + 1, !.summary = summary,
                  !.quirks = @ \cup If("summed", summary) \cup If("astray", up.texted)
                               \cup If("beside", up.part > 0)]
        /\ chat' = [chat EXCEPT !.thought = TRUE, !.summary = @ \/ summary,
                                !.told = IF summary THEN @ ELSE @ + 1]
  BY DEF Thought
<1>3. up'.at = "on" /\ up'.item = "thought" /\ up'.sent = up.sent + 1 /\ up'.part = up.part
  BY <1>1, <1>2 DEF Upstream
<1>4. chat'.thought
  BY <1>1, <1>2 DEF ChatState
<1>5. Hand' > 0
  BY <1>1, <1>3 DEF Hand
<1>. QED
  BY <1>1, <1>3, <1>4, <1>5 DEF Solid, ContentEmpty

LEMMA PartAddedSolid == ASSUME ChatInv, Solid, PartAdded PROVE Solid'
<1>1. /\ up \in Upstream /\ up.at = "on" /\ chat \in ChatState /\ out' = out /\ chat' = [chat EXCEPT !.thought = TRUE]
  BY DEF ChatInv, ChatTyped, PartAdded, Between, At
<1>2. PICK n \in 1..MaxPieces :
        up' = [up EXCEPT !.item = "thought", !.part = n, !.summary = FALSE, !.quirks = @ \cup If("beside", up.sent > 0)]
  BY DEF PartAdded
<1>3. up'.at = "on" /\ up'.item = "thought" /\ up'.part = n /\ n > 0
  BY <1>1, <1>2 DEF Upstream
<1>4. chat'.thought
  BY <1>1 DEF ChatState
<1>5. Hand' > 0
  BY <1>3 DEF Hand
<1>. QED
  BY <1>1, <1>3, <1>4, <1>5 DEF Solid, ContentEmpty

LEMMA ThoughtDoneSolid == ASSUME ChatInv, Solid, ThoughtDone PROVE Solid'
<1>1. /\ up.at = "on" /\ up.item \in {"none", "thought"} /\ up.sent \in Nat
      /\ up.item = "none" => chat.told = 0
      /\ chat \in ChatState /\ told \in ToldState
  BY DEF ChatInv, ChatTyped, Thinking, ThoughtDone, Between, At
<1>2. PICK summary \in (IF up.item = "thought" THEN {up.summary} ELSE BOOLEAN), full \in 1..MaxPieces :
        LET rest == IF ~summary THEN full - chat.told ELSE IF chat.summary THEN 0 ELSE full
        IN /\ chat' = [chat EXCEPT !.thought = @ \/ rest > 0, !.told = 0]
           /\ TellThought(rest)
           /\ Finished("thought", full,
                If("beside", up.part > 0) \cup If("unpieced", up.sent < full)
                \cup If("muted", summary /\ up.sent = 0 /\ "summed" \in up.quirks))
  BY DEF ThoughtDone
<1>. DEFINE rest == IF ~summary THEN full - chat.told ELSE IF chat.summary THEN 0 ELSE full
            more == If("beside", up.part > 0) \cup If("unpieced", up.sent < full)
                    \cup If("muted", summary /\ up.sent = 0 /\ "summed" \in up.quirks)
            b == chat.thought \/ rest > 0
<1>3. /\ chat' = [chat EXCEPT !.thought = b, !.told = 0] /\ Finished("thought", full, more)
      /\ told' = [told EXCEPT !.thought = @ + rest]
  BY <1>2 DEF TellThought
<1>4. full \in Nat /\ full > 0 /\ more \in SUBSET Quirks
  BY <1>2 DEF If, Quirks
<1>5. b
  <2>1. CASE up.item = "thought"
    BY <2>1 DEF Solid
  <2>2. CASE up.item = "none" /\ summary /\ chat.summary
    BY <2>2 DEF Solid
  <2>3. CASE up.item = "none" /\ ~(summary /\ chat.summary)
    BY <1>1, <1>4, <2>3
  <2>. QED
    BY <1>1, <2>1, <2>2, <2>3
<1>. HIDE DEF b, more, rest
<1>6. chat'.thought /\ chat'.summary = chat.summary
  BY <1>1, <1>3, <1>5 DEF ChatState
<1>7. /\ up'.at = up.at /\ up'.item = "none"
      /\ out' # << >> /\ \A k \in DOMAIN out' : out'[k].kind = "call" \/ out'[k].n > 0
  <2>1. ChatTyped
    BY DEF ChatInv
  <2>. QED
    BY <1>3, <1>4, <2>1, SolidItem
<1>. QED
  BY <1>1, <1>6, <1>7 DEF Solid, ContentEmpty

LEMMA ThoughtEndsSolid == ASSUME ChatInv, Solid, ThoughtEnds PROVE Solid'
<1>1. /\ up.at = "on" /\ up.item = "thought" /\ up.sent \in Nat /\ up.part \in Nat /\ told' = told
      /\ chat' = [chat EXCEPT !.told = 0] /\ chat \in ChatState /\ ChatTyped
      /\ Finished("thought", Hand, If("unpieced", up.sent < Hand))
  BY DEF ChatInv, ChatTyped, ThoughtEnds, At, Hand
<1>2. Hand \in Nat /\ Hand > 0 /\ If("unpieced", up.sent < Hand) \in SUBSET Quirks /\ chat.thought
  BY <1>1 DEF Hand, Solid, If, Quirks
<1>3. PICK n \in Nat, more \in SUBSET Quirks : n > 0 /\ Finished("thought", n, more)
  BY <1>1, <1>2
<1>4. /\ up'.at = up.at /\ up'.item = "none"
      /\ out' # << >> /\ \A k \in DOMAIN out' : out'[k].kind = "call" \/ out'[k].n > 0
  BY <1>1, <1>3, SolidItem
<1>5. chat'.thought /\ chat'.summary = chat.summary
  BY <1>1, <1>2 DEF ChatState
<1>. QED
  BY <1>1, <1>4, <1>5 DEF Solid, ContentEmpty

LEMMA TextSolid == ASSUME ChatInv, Solid, Text PROVE Solid'
<1>1. /\ up.at = "on" /\ up.sent \in Nat /\ up \in Upstream /\ chat \in ChatState /\ told \in ToldState /\ out' = out
      /\ up' = [up EXCEPT !.item = "text", !.sent = @ + 1, !.texted = TRUE]
      /\ chat' = [chat EXCEPT !.text = TRUE] /\ told' = [told EXCEPT !.text = @ + 1]
  BY DEF ChatInv, ChatTyped, Text, TellText, Between, At
<1>2. up'.at = "on" /\ up'.item = "text" /\ up'.sent > 0
  BY <1>1 DEF Upstream
<1>3. chat'.text /\ chat'.thought = chat.thought /\ chat'.summary = chat.summary /\ told'.thought = told.thought
  BY <1>1 DEF ChatState, ToldState
<1>. QED
  BY <1>1, <1>2, <1>3 DEF Solid, ContentEmpty

LEMMA TextDoneSolid == ASSUME ChatInv, Solid, TextDone PROVE Solid'
<1>1. /\ up.at = "on" /\ up.item = "text" /\ up.sent \in Nat /\ up.sent > 0 /\ Finished("text", up.sent, {})
      /\ chat' = chat /\ told' = told /\ ChatTyped /\ ~ContentEmpty
  BY DEF ChatInv, ChatTyped, TextDone, At, Solid
<1>2. PICK n \in Nat, more \in SUBSET Quirks : n > 0 /\ Finished("text", n, more)
  BY <1>1
<1>3. /\ up'.at = up.at /\ up'.item = "none"
      /\ out' # << >> /\ \A k \in DOMAIN out' : out'[k].kind = "call" \/ out'[k].n > 0
  BY <1>1, <1>2, SolidItem
<1>. QED
  BY <1>1, <1>3 DEF Solid, ContentEmpty

LEMMA ImageSolid == ASSUME ChatInv, Solid, Image PROVE Solid'
<1>1. /\ up.at = "on" /\ Finished("image", 1, {}) /\ chat' = [chat EXCEPT !.text = TRUE]
      /\ told' = [told EXCEPT !.text = @ + 1] /\ ChatTyped /\ chat \in ChatState /\ told \in ToldState
  BY DEF ChatInv, ChatTyped, Image, Between, At, TellText
<1>2. /\ up'.at = up.at /\ up'.item = "none"
      /\ out' # << >> /\ \A k \in DOMAIN out' : out'[k].kind = "call" \/ out'[k].n > 0
  BY <1>1, SolidItem
<1>3. chat'.text /\ chat'.thought = chat.thought /\ chat'.summary = chat.summary /\ told'.thought = told.thought
  BY <1>1 DEF ChatState, ToldState
<1>. QED
  BY <1>1, <1>2, <1>3 DEF Solid, ContentEmpty

\* An event of a call says nothing of thoughts.
LEMMA CallSolid ==
  ASSUME ChatInv, Solid, Called \/ Args \/ ArgsDone
  PROVE  Solid'
<1>1. /\ up \in Upstream /\ chat \in ChatState /\ told \in ToldState /\ up.at = "on" /\ out' = out
  BY DEF ChatInv, ChatTyped, Called, Args, ArgsDone, Between, At
<1>2. up'.at = "on" /\ up'.item = "call"
  <2>1. CASE Called
    BY <1>1, <2>1 DEF Called, Upstream
  <2>2. CASE Args
    BY <1>1, <2>2 DEF Args, At, Upstream
  <2>3. CASE ArgsDone
    BY <1>1, <2>3 DEF ArgsDone, At, Upstream
  <2>. QED
    BY <2>1, <2>2, <2>3
<1>3. chat'.tool /\ chat'.thought = chat.thought /\ chat'.summary = chat.summary
  <2>1. CASE Called
    BY <1>1, <2>1 DEF Called, ChatState
  <2>2. CASE Args
    BY <1>1, <2>2 DEF Args, ChatState
  <2>3. CASE ArgsDone
    BY <1>1, <2>3 DEF ArgsDone, ChatState
  <2>. QED
    BY <2>1, <2>2, <2>3
<1>4. told'.thought = told.thought
  <2>1. ASSUME NEW i, NEW id, NEW n, TellCall(i, id, n) PROVE told'.thought = told.thought
    BY <1>1, <2>1 DEF TellCall, ToldState
  <2>2. CASE Called
    BY <2>1, <2>2 DEF Called
  <2>3. CASE Args
    BY <2>1, <2>3 DEF Args
  <2>4. CASE ArgsDone
    BY <2>1, <2>4 DEF ArgsDone
  <2>. QED
    BY <2>2, <2>3, <2>4
<1>. QED
  BY <1>1, <1>2, <1>3, <1>4 DEF Solid, ContentEmpty

LEMMA CallDoneSolid == ASSUME ChatInv, Solid, CallDone PROVE Solid'
<1>1. /\ up.at = "on" /\ up.sent \in Nat /\ chat \in ChatState /\ told \in ToldState /\ ChatTyped
  BY DEF ChatInv, ChatTyped, CallDone, Between, At
<1>2. PICK n \in (IF up.item = "call" THEN {up.sent} ELSE 1..MaxPieces) :
        /\ Finished("call", n, If("unpieced", up.item # "call"))
        /\ \/ chat' = [chat EXCEPT !.tool = TRUE, !.announced = FALSE] /\ told' = told
           \/ chat' = [chat EXCEPT !.tool = TRUE, !.index = @ + 1] /\ TellCall(chat.index + 1, Ids, n)
  BY DEF CallDone
<1>3. n \in Nat /\ If("unpieced", up.item # "call") \in SUBSET Quirks
  BY <1>1, <1>2 DEF If, Quirks
<1>4. PICK m \in Nat, more \in SUBSET Quirks : Finished("call", m, more)
  BY <1>2, <1>3
<1>5. /\ up'.at = up.at /\ up'.item = "none"
      /\ out' # << >> /\ \A k \in DOMAIN out' : out'[k].kind = "call" \/ out'[k].n > 0
  BY <1>1, <1>4, SolidItem
<1>6. chat'.tool /\ chat'.thought = chat.thought /\ chat'.summary = chat.summary
  BY <1>1, <1>2 DEF ChatState
<1>7. told'.thought = told.thought
  <2>1. ASSUME NEW i, NEW id, NEW k, TellCall(i, id, k) PROVE told'.thought = told.thought
    BY <1>1, <2>1 DEF TellCall, ToldState
  <2>. QED
    BY <1>2, <2>1
<1>. QED
  BY <1>1, <1>5, <1>6, <1>7 DEF Solid, ContentEmpty

LEMMA EndSolid == ASSUME ChatInv, Solid, Completed \/ BrokenOff \/ ReadFails PROVE Solid'
<1>1. /\ up \in Upstream /\ out' = out /\ chat \in ChatState /\ told \in ToldState
      /\ chat' = chat \/ chat' = [chat EXCEPT !.completed = TRUE]
      /\ up' = [up EXCEPT !.at = "over"] \/ up' = [up EXCEPT !.at = "failed"]
      /\ told' = told \/ told' = [told EXCEPT !.finish = FinishReason]
  BY DEF ChatInv, ChatTyped, Completed, BrokenOff, ReadFails
<1>2. up'.at # "before" /\ up'.item = up.item /\ up'.sent = up.sent /\ up'.part = up.part
  BY <1>1 DEF Upstream
<1>3. chat'.text = chat.text /\ chat'.tool = chat.tool /\ chat'.thought = chat.thought
      /\ chat'.summary = chat.summary /\ told'.thought = told.thought
  BY <1>1 DEF ChatState, ToldState
<1>. QED
  BY <1>1, <1>2, <1>3 DEF Solid, ContentEmpty, Hand

LEMMA BeginSolid ==
  /\ EventsInit => Solid
  /\ NextResponse => Solid'
<1>1. ASSUME EventsInit PROVE Solid
  BY <1>1 DEF EventsInit, Solid, BeginUp, BeginChat, BeginTold
<1>2. ASSUME NextResponse PROVE Solid'
  BY <1>2 DEF NextResponse, Solid, BeginUp, BeginChat, BeginTold
<1>. QED
  BY <1>1, <1>2

LEMMA SolidHolds == EventsSpec => []Solid
<1>1. EventsInit => Solid
  BY BeginSolid
<1>2. ChatInv /\ Solid /\ [EventsNext]_eventVars => Solid'
  <2>. SUFFICES ASSUME ChatInv, Solid, [EventsNext]_eventVars PROVE Solid'
    OBVIOUS
  <2>1. CASE UNCHANGED eventVars
    BY <2>1 DEF eventVars, Solid, Hand, ContentEmpty
  <2>2. CASE EventsNext
    BY <2>2, CreatedSolid, ThoughtSolid, PartAddedSolid, ThoughtDoneSolid, ThoughtEndsSolid, TextSolid, TextDoneSolid,
       ImageSolid, CallSolid, CallDoneSolid, EndSolid, BeginSolid DEF EventsNext
  <2>. QED
    BY <2>1, <2>2
<1>. QED
  BY <1>1, <1>2, ChatHolds, PTL DEF EventsSpec

\* A response is completed between two items, and then is over.
Closing == chat.completed => up.at = "over" /\ up.item = "none"

LEMMA ClosingHolds == EventsSpec => []Closing
<1>1. EventsInit => Closing
  BY DEF EventsInit, BeginChat, Closing
<1>2. ChatInv /\ Closing /\ [EventsNext]_eventVars => Closing'
  <2>. SUFFICES ASSUME ChatInv, Closing, [EventsNext]_eventVars PROVE Closing'
    OBVIOUS
  <2>1. chat \in ChatState /\ up \in Upstream
    BY DEF ChatInv, ChatTyped
  <2>2. CASE UNCHANGED eventVars
    BY <2>2 DEF eventVars, Closing
  <2>3. CASE Created \/ Thought \/ PartAdded \/ ThoughtDone \/ ThoughtEnds \/ Text \/ TextDone \/ Image
    <3>1. up.at # "over"
      BY <2>3 DEF Created, Thought, PartAdded, ThoughtDone, ThoughtEnds, Text, TextDone, Image, Between, At
    <3>2. chat'.completed = chat.completed
      BY <2>1, <2>3 DEF Created, Thought, PartAdded, ThoughtDone, ThoughtEnds, Text, TextDone, Image, ChatState
    <3>. QED
      BY <3>1, <3>2 DEF Closing
  <2>4. CASE Called \/ Args \/ ArgsDone \/ CallDone
    <3>1. up.at # "over"
      BY <2>4 DEF Called, Args, ArgsDone, CallDone, Between, At
    <3>2. chat'.completed = chat.completed
      BY <2>1, <2>4 DEF Called, Args, ArgsDone, CallDone, ChatState
    <3>. QED
      BY <3>1, <3>2 DEF Closing
  <2>5. CASE Completed
    <3>1. up'.at = "over" /\ up'.item = "none"
      BY <2>1, <2>5 DEF Completed, Between, At, Upstream
    <3>. QED
      BY <3>1 DEF Closing
  <2>6. CASE BrokenOff \/ ReadFails
    <3>1. up.at # "over" /\ chat' = chat
      BY <2>6 DEF BrokenOff, ReadFails
    <3>. QED
      BY <3>1 DEF Closing
  <2>7. CASE NextResponse
    BY <2>7 DEF NextResponse, BeginChat, Closing
  <2>8. CASE EventsNext
    BY <2>3, <2>4, <2>5, <2>6, <2>7, <2>8 DEF EventsNext
  <2>. QED
    BY <2>2, <2>8
<1>. QED
  BY <1>1, <1>2, ChatHolds, PTL DEF EventsSpec


\* What is answered if nothing is listed, and there is no image.
LEMMA AnsweredOfNothing ==
  ASSUME ChatInv, Solid, Closing, chat.completed, Images = {}, NEW ended, Of(out, {"call"}) \subseteq ended,
         NEW w, w = Gathered(<< >>, Pick(out, ended), Pieces({"text"}), told.thought)
  PROVE  LET kept == Pick(out, ended)
             bytext == Of(out, {"text"}) \cap ended = {}
             bythought == Of(out, {"thought"}) \cap ended = {}
         IN /\ (IF HasOutput(NonStreamOf(w)) THEN NonStreamOf(w) ELSE told) =
                 [NonStreamOf(kept) EXCEPT
                    !.text    = IF bytext THEN told.text ELSE @,
                    !.thought = IF bythought THEN told.thought ELSE @,
                    !.finish  = IF ContentEmpty THEN "none" ELSE @]
            /\ ClaudeNonStreamOf(w) =
                 [ClaudeNonStreamOf(kept) EXCEPT
                    !.text    = IF bytext THEN told.text ELSE @,
                    !.thought = IF bythought THEN told.thought ELSE @]
<1>. DEFINE bytext == Of(out, {"text"}) \cap ended = {}
            bythought == Of(out, {"thought"}) \cap ended = {}
<1>1. /\ up.at = "over" /\ up.item = "none" /\ out \in Seq(Item) /\ told \in ToldState
  BY DEF Closing, ChatInv, ChatTyped
<1>2. PICK b \in Nat : b = told.thought
  BY <1>1 DEF ToldState
<1>3. PICK kept \in Seq(Item) : kept = Pick(out, ended)
  BY <1>1, PickSeq
<1>4. Given(w, kept, b, bytext, bythought)
  BY <1>1, <1>2, <1>3, OfNothing
<1>5. PICK a \in Nat : a = Pieces({"text"})
  BY <1>1, PiecesType
<1>6. Of(out, {"text", "image"}) = Of(out, {"text"})
  BY DEF Images, Of
<1>7. told.text = a
  <2>1. Pieces({"text", "image"}) = Pieces({"text"})
    BY <1>6 DEF Pieces, Kind
  <2>. QED
    BY <1>1, <1>5, <2>1 DEF ChatInv, Spoken, SentOf
<1>. DEFINE calls == [k \in DOMAIN Kind(kept, {"call"}) |->
                        [index |-> k - 1, id |-> Kind(kept, {"call"})[k].id, n |-> Kind(kept, {"call"})[k].n]]
            finish == IF Kind(kept, {"call"}) = << >> THEN "stop" ELSE "tool_calls"
            reason == IF Kind(kept, {"call"}) = << >> THEN "end_turn" ELSE "tool_use"
            text(K) == IF bytext THEN a ELSE Count(Kind(kept, K))
            thought == IF bythought THEN b ELSE Count(Kind(kept, {"thought"}))
<1>8. /\ Kind(w, {"call"}) = Kind(kept, {"call"}) /\ Count(Kind(w, {"thought"})) = thought
      /\ Count(Kind(w, {"text"})) = text({"text"}) /\ Count(Kind(w, {"text", "image"})) = text({"text", "image"})
  BY <1>4, <1>5 DEF Given
<1>9. NonStreamOf(w) = [text |-> text({"text", "image"}), thought |-> thought, calls |-> calls, finish |-> finish]
  BY <1>8 DEF NonStreamOf
<1>10. ClaudeNonStreamOf(w) = [thought |-> thought, text |-> text({"text"}), calls |-> Len(Kind(kept, {"call"})),
                               reason |-> reason]
  BY <1>8 DEF ClaudeNonStreamOf
<1>11. /\ \A K : Count(Kind(kept, K)) \in Nat
       /\ text({"text", "image"}) \in Nat /\ text({"text"}) \in Nat /\ thought \in Nat
  <2>1. \A K : Count(Kind(kept, K)) \in Nat
    BY KindSeq, CountType
  <2>. QED
    BY <2>1
<1>12. ClaudeNonStreamOf(w) = [ClaudeNonStreamOf(kept) EXCEPT
                                 !.text    = IF bytext THEN told.text ELSE @,
                                 !.thought = IF bythought THEN told.thought ELSE @]
  <2>. DEFINE t == Count(Kind(kept, {"text"}))
              h == Count(Kind(kept, {"thought"}))
              n == Len(Kind(kept, {"call"}))
  <2>1. PICK c : c = ClaudeNonStreamOf(kept) /\ c = [thought |-> h, text |-> t, calls |-> n, reason |-> reason]
    BY DEF ClaudeNonStreamOf
  <2>2. PICK x \in Nat, y \in Nat : x = text({"text"}) /\ y = thought
    BY <1>11
  <2>3. x = (IF bytext THEN told.text ELSE t) /\ y = (IF bythought THEN told.thought ELSE h)
    BY <1>2, <1>7, <2>2
  <2>4. ClaudeNonStreamOf(w) = [thought |-> y, text |-> x, calls |-> n, reason |-> reason]
    BY <1>10, <2>2
  <2>5. t \in Nat /\ h \in Nat
    BY <1>11
  <2>. HIDE DEF t, h, n, reason, text, thought, bytext, bythought
  <2>6. c.text = t /\ c.thought = h /\ [c EXCEPT !.text = x, !.thought = y]
                                        = [thought |-> y, text |-> x, calls |-> n, reason |-> reason]
    <3>. DEFINE d == [c EXCEPT !.text = x, !.thought = y]
                R == [thought : Nat, text : Nat, calls : {n}, reason : {reason}]
    <3>1. c \in R
      BY <2>1, <2>5
    <3>2. d \in R /\ d.text = x /\ d.thought = y /\ d.calls = n /\ d.reason = reason
      BY <3>1
    <3>. HIDE DEF d
    <3>3. d = [thought |-> d.thought, text |-> d.text, calls |-> d.calls, reason |-> d.reason]
      BY <3>2
    <3>. QED
      BY <2>1, <3>2, <3>3 DEF d
  <2>7. [c EXCEPT !.text = IF bytext THEN told.text ELSE @, !.thought = IF bythought THEN told.thought ELSE @]
          = [c EXCEPT !.text = x, !.thought = y]
    BY <2>3, <2>6
  <2>. QED
    BY <2>1, <2>4, <2>6, <2>7
<1>13. [NonStreamOf(kept) EXCEPT !.text    = IF bytext THEN told.text ELSE @,
                                 !.thought = IF bythought THEN told.thought ELSE @,
                                 !.finish  = IF ContentEmpty THEN "none" ELSE @]
         = [text |-> text({"text", "image"}), thought |-> thought, calls |-> calls,
            finish |-> IF ContentEmpty THEN "none" ELSE finish]
  <2>. DEFINE t == Count(Kind(kept, {"text", "image"}))
              h == Count(Kind(kept, {"thought"}))
  <2>1. PICK c : c = NonStreamOf(kept) /\ c = [text |-> t, thought |-> h, calls |-> calls, finish |-> finish]
    BY DEF NonStreamOf
  <2>2. PICK x \in Nat, y \in Nat, z \in {"none", finish} :
          x = text({"text", "image"}) /\ y = thought /\ z = IF ContentEmpty THEN "none" ELSE finish
    BY <1>11
  <2>3. x = (IF bytext THEN told.text ELSE t) /\ y = (IF bythought THEN told.thought ELSE h)
    BY <1>2, <1>7, <2>2
  <2>4. t \in Nat /\ h \in Nat
    BY <1>11
  <2>. HIDE DEF t, h, calls, finish, text, thought, bytext, bythought
  <2>5. c.text = t /\ c.thought = h /\ c.finish = finish
        /\ [c EXCEPT !.text = x, !.thought = y, !.finish = z]
             = [text |-> x, thought |-> y, calls |-> calls, finish |-> z]
    <3>. DEFINE d == [c EXCEPT !.text = x, !.thought = y, !.finish = z]
                R == [text : Nat, thought : Nat, calls : {calls}, finish : {"none", finish}]
    <3>1. c \in R
      BY <2>1, <2>4
    <3>2. d \in R /\ d.text = x /\ d.thought = y /\ d.calls = calls /\ d.finish = z
      BY <3>1
    <3>. HIDE DEF d
    <3>3. d = [text |-> d.text, thought |-> d.thought, calls |-> d.calls, finish |-> d.finish]
      BY <3>2
    <3>. QED
      BY <2>1, <3>2, <3>3 DEF d
  <2>6. [c EXCEPT !.text = IF bytext THEN told.text ELSE @, !.thought = IF bythought THEN told.thought ELSE @,
                  !.finish = IF ContentEmpty THEN "none" ELSE @]
          = [c EXCEPT !.text = x, !.thought = y, !.finish = z]
    BY <2>2, <2>3, <2>5
  <2>. QED
    BY <2>1, <2>2, <2>5, <2>6
<1>14. \A K : Kind(kept, K) = Pick(out, ended \cap Of(out, K))
  BY <1>1, <1>3, KindPicked
<1>15. Kind(kept, {"call"}) = Calls
  <2>1. ended \cap Of(out, {"call"}) = Of(out, {"call"})
    OBVIOUS
  <2>. QED
    BY <1>14, <2>1 DEF Calls, Kind
<1>16. CASE HasOutput(NonStreamOf(w))
  <2>1. ~ContentEmpty
    <3>1. CASE out # << >>
      BY <3>1 DEF Solid
    <3>2. CASE out = << >>
      <4>1. CASE b > 0
        BY <1>2, <4>1 DEF Solid, ContentEmpty
      <4>2. CASE b = 0
        <5>1. \A P : Pick(out, P) = << >>
          BY <3>2, PickEmpty
        <5>2. \A K : Kind(kept, K) = << >>
          BY <1>14, <5>1
        <5>3. a = 0 /\ Count(<< >>) = 0
          BY <1>5, <5>1, CountEmpty DEF Pieces, Kind
        <5>4. text({"text", "image"}) = 0 /\ thought = 0
          BY <4>2, <5>2, <5>3
        <5>5. calls = << >>
          <6>1. DOMAIN calls = {}
            BY <5>2
          <6>. HIDE DEF calls
          <6>2. calls = [k \in DOMAIN calls |-> calls[k]]
            BY DEF calls
          <6>. QED
            BY <6>1, <6>2
        <5>. QED
          BY <1>9, <1>16, <5>4, <5>5 DEF HasOutput
      <4>. QED
        BY <4>1, <4>2
    <3>. QED
      BY <3>1, <3>2
  <2>. HIDE DEF calls, finish, reason, text, thought, bytext, bythought
  <2>. QED
    BY <1>3, <1>9, <1>12, <1>13, <1>16, <2>1 DEF bytext, bythought
<1>17. CASE ~HasOutput(NonStreamOf(w))
  <2>1. text({"text", "image"}) = 0 /\ thought = 0 /\ calls = << >>
    BY <1>9, <1>17, <1>11 DEF HasOutput
  <2>2. ASSUME NEW kind \in {"text", "thought"}, NEW k \in Of(out, {kind}) \cap ended
        PROVE  Count(Kind(kept, {kind})) > 0
    <3>1. k \in DOMAIN out /\ out[k].n > 0 /\ k \in ended \cap Of(out, {kind})
      BY <2>2 DEF Of, Solid
    <3>2. SomePicked(out, ended \cap Of(out, {kind}))
      BY <1>1, PickSome
    <3>. QED
      BY <1>14, <3>1, <3>2 DEF SomePicked
  <2>3. bytext
    <3>1. Kind(kept, {"text", "image"}) = Kind(kept, {"text"})
      BY <1>6, <1>14
    <3>2. "text" \in {"text", "thought"}
      OBVIOUS
    <3>. QED
      BY <2>1, <2>2, <3>1, <3>2
  <2>4. bythought
    <3>1. "thought" \in {"text", "thought"}
      OBVIOUS
    <3>. QED
      BY <2>1, <2>2, <3>1
  <2>5. a = 0 /\ b = 0
    BY <2>1, <2>3, <2>4
  <2>6. Kind(kept, {"call"}) = << >>
    <3>1. Kind(kept, {"call"}) \in Seq(Item) /\ DOMAIN calls = DOMAIN Kind(kept, {"call"})
      BY KindSeq
    <3>. HIDE DEF calls
    <3>2. DOMAIN Kind(kept, {"call"}) = {}
      BY <2>1, <3>1
    <3>. QED
      BY <3>1, <3>2
  <2>7. /\ told.calls = NonStreamOf(out).calls
        /\ told.finish = IF ContentEmpty THEN "none" ELSE NonStreamOf(out).finish
    BY <1>1, ToldIsWhole
  <2>8. NonStreamOf(out).calls = calls /\ NonStreamOf(out).finish = finish
    BY <1>15 DEF NonStreamOf, Calls
  <2>9. told = [text |-> told.text, thought |-> told.thought, calls |-> told.calls, finish |-> told.finish]
    BY <1>1 DEF ToldState
  <2>10. told = [text |-> text({"text", "image"}), thought |-> thought, calls |-> calls,
                 finish |-> IF ContentEmpty THEN "none" ELSE finish]
    <3>1. told.text = text({"text", "image"}) /\ told.thought = thought
      BY <1>2, <1>7, <2>3, <2>4
    <3>. HIDE DEF calls, finish, text, thought
    <3>. QED
      BY <2>7, <2>8, <2>9, <3>1
  <2>. HIDE DEF calls, finish, reason, text, thought, bytext, bythought
  <2>. QED
    BY <1>3, <1>12, <1>13, <1>17, <2>10 DEF bytext, bythought
<1>. QED
  BY <1>16, <1>17

\* codex.go:1020, 1079, 1200: whichever items a completed response lists, and whichever
\* texts and thoughts had a last event, a client without a stream gets each listed item and
\* each image once, and nothing else; if nothing is listed and there is no image, each item
\* with a last event, and of a kind without one what the chat client was told.
THEOREM CollectedOnce == EventsSpec => []CollectedWhole
<1>1. ChatInv /\ Solid /\ Closing => CollectedWhole
  <2>. SUFFICES ASSUME ChatInv, Solid, Closing, chat.completed,
                       NEW listed \in SUBSET DOMAIN out, NEW ended \in SUBSET DOMAIN out,
                       Of(out, {"call", "image"}) \subseteq ended
                PROVE  LET some == listed \cup Images
                           kept == Pick(out, IF some = {} THEN ended ELSE some)
                           ByDeltas(kind) == some = {} /\ Of(out, {kind}) \cap ended = {}
                       IN /\ Answered(listed, ended) =
                               [NonStreamOf(kept) EXCEPT
                                  !.text    = IF ByDeltas("text") THEN told.text ELSE @,
                                  !.thought = IF ByDeltas("thought") THEN told.thought ELSE @,
                                  !.finish  = IF ContentEmpty THEN "none" ELSE @]
                          /\ ClaudeNonStreamOf(Normalized(listed, ended)) =
                               [ClaudeNonStreamOf(kept) EXCEPT
                                  !.text    = IF ByDeltas("text") THEN told.text ELSE @,
                                  !.thought = IF ByDeltas("thought") THEN told.thought ELSE @]
    BY DEF CollectedWhole
  <2>1. out \in Seq(Item) /\ told \in ToldState
    BY DEF ChatInv, ChatTyped
  <2>2. CASE listed \cup Images # {}
    <3>. DEFINE kept == Pick(out, listed \cup Images)
                w == WithImages(listed)
    <3>1. w \in Seq(Item) /\ AlikeItems(w, kept)
      BY <2>1, ListedWithImages
    <3>2. HasOutput(NonStreamOf(kept)) /\ ~ContentEmpty
      <4>1. PICK k : k \in listed \cup Images
        BY <2>2
      <4>2. k \in DOMAIN out /\ (out[k].kind = "call" \/ out[k].n > 0) /\ out # << >>
        BY <4>1 DEF Images, Of, Solid
      <4>. QED
        BY <2>1, <4>1, <4>2, Shown DEF Solid
    <3>. HIDE DEF w, kept
    <3>3. NonStreamOf(w) = NonStreamOf(kept) /\ ClaudeNonStreamOf(w) = ClaudeNonStreamOf(kept)
      BY <3>1, SameAnswers
    <3>4. Meaningful(w)
      BY <3>1, <3>2, <3>3, Means
    <3>5. Normalized(listed, ended) = w
      BY <3>4 DEF Normalized, w
    <3>6. Answered(listed, ended) = NonStreamOf(kept)
      BY <3>2, <3>3, <3>5 DEF Answered
    <3>7. NonStreamOf(kept) = [NonStreamOf(kept) EXCEPT !.text = @, !.thought = @, !.finish = @]
      BY DEF NonStreamOf
    <3>8. ClaudeNonStreamOf(kept) = [ClaudeNonStreamOf(kept) EXCEPT !.text = @, !.thought = @]
      BY DEF ClaudeNonStreamOf
    <3>. QED
      BY <2>2, <3>2, <3>3, <3>5, <3>6, <3>7, <3>8 DEF kept
  <2>3. CASE listed \cup Images = {}
    <3>1. listed = {} /\ Images = {}
      BY <2>3
    <3>2. WithImages(listed) = << >>
      <4>1. Pick(out, {}) = << >>
        <5>1. SomePicked(out, {})
          BY <2>1, PickSome
        <5>. QED
          BY <5>1 DEF SomePicked
      <4>2. Images \ listed = {}
        BY <3>1
      <4>. QED
        BY <3>1, <4>1, <4>2 DEF WithImages
    <3>3. ~Meaningful(<< >>)
      BY DEF Meaningful
    <3>. DEFINE w == Gathered(<< >>, Pick(out, ended), Pieces({"text"}), told.thought)
    <3>4. Normalized(listed, ended) = w
      BY <3>2, <3>3 DEF Normalized, Gathered, Pieces
    <3>5. Answered(listed, ended) = IF HasOutput(NonStreamOf(w)) THEN NonStreamOf(w) ELSE told
      BY <3>4 DEF Answered
    <3>6. Of(out, {"call"}) \subseteq ended
      BY DEF Of
    <3>7. PICK v : v = w
      OBVIOUS
    <3>. HIDE DEF w
    <3>8. v = Gathered(<< >>, Pick(out, ended), Pieces({"text"}), told.thought)
      BY <3>7 DEF w
    <3>. QED
      BY <2>3, <3>1, <3>4, <3>5, <3>6, <3>7, <3>8, AnsweredOfNothing
  <2>. QED
    BY <2>2, <2>3
<1>. QED
  BY <1>1, ChatHolds, SolidHolds, ClosingHolds, PTL


-----------------------------------------------------------------------------
\* What a message has: of texts and thoughts how much, and the blocks of the calls.
Has(c, kind) == Count(Kind(c.blocks, {kind}))
CallBlocks(c) == Kind(c.blocks, {"call"})

\* A step passes on so much of a text or of a thought, and nothing of a call.
Passes(d, c, text, thought) ==
  /\ Has(d, "text") = Has(c, "text") + text
  /\ Has(d, "thought") = Has(c, "thought") + thought
  /\ Len(CallBlocks(d)) = Len(CallBlocks(c))
  /\ \A k \in DOMAIN CallBlocks(c) : CallBlocks(d)[k].n = CallBlocks(c)[k].n

\* A block more at the end of some.
LEMMA BlockAdded ==
  ASSUME NEW s \in Seq(Block), NEW b \in Block, NEW K
  PROVE  /\ Append(s, b) \in Seq(Block)
         /\ Kind(s, K) \in Seq(Block) /\ Count(Kind(s, K)) \in Nat
         /\ b.kind \in K => /\ Kind(Append(s, b), K) = Append(Kind(s, K), b)
                            /\ Count(Kind(Append(s, b), K)) = Count(Kind(s, K)) + b.n
         /\ b.kind \notin K => Kind(Append(s, b), K) = Kind(s, K)
<1>1. Append(s, b) \in Seq(Block) /\ \A x \in Block : x.n \in Nat
  BY DEF Block
<1>2. /\ Kind(s, K) \in Seq(Block)
      /\ b.kind \in K => Kind(Append(s, b), K) = Append(Kind(s, K), b)
      /\ b.kind \notin K => Kind(Append(s, b), K) = Kind(s, K)
  BY KindAppend
<1>3. Count(Kind(s, K)) \in Nat /\ Count(Append(Kind(s, K), b)) = Count(Kind(s, K)) + b.n
  BY <1>1, <1>2, CountAppend
<1>. QED
  BY <1>1, <1>2, <1>3

LEMMA MessageType ==
  ASSUME NEW c, c \in Claude
  PROVE  /\ CallBlocks(c) \in Seq(Block) /\ Has(c, "text") \in Nat /\ Has(c, "thought") \in Nat
         /\ Len(CallBlocks(c)) \in Nat /\ DOMAIN CallBlocks(c) = 1..Len(CallBlocks(c))
<1>1. PICK b \in Block : b = [kind |-> "text", n |-> 0, open |-> FALSE]
  BY DEF Block, BlockKinds
<1>2. c.blocks \in Seq(Block)
  BY DEF Claude
<1>3. CallBlocks(c) \in Seq(Block) /\ Has(c, "text") \in Nat /\ Has(c, "thought") \in Nat
  BY <1>2, BlockAdded DEF CallBlocks, Has
<1>. QED
  BY <1>3

\* Nothing but the flags is another.
LEMMA NothingPassed ==
  ASSUME NEW c, c \in Claude, NEW d, d.blocks = c.blocks
  PROVE  Passes(d, c, 0, 0)
  BY MessageType DEF Passes, Has, CallBlocks

LEMMA PassedOn ==
  ASSUME NEW b, b \in Claude, NEW c, c \in Claude, NEW d, d \in Claude, NEW m \in Nat, NEW n \in Nat,
         Passes(c, b, 0, 0), Passes(d, c, m, n)
  PROVE  Passes(d, b, m, n)
  BY MessageType DEF Passes

\* The last block is replaced by one of the same kind.
LastIs(c, d, b) ==
  \E t \in Seq(Block) : /\ c.blocks = Append(t, LastBlock(c)) /\ d.blocks = Append(t, b)
                        /\ LastBlock(c) \in Block /\ LastBlock(c).kind = b.kind

LEMMA LastReplaced ==
  ASSUME NEW c, Numbered(c), OpenKind(c) # "none", NEW b \in Block, b.kind = OpenKind(c),
         NEW d, d.blocks = [c.blocks EXCEPT ![Here(c)] = b]
  PROVE  LastIs(c, d, b)
<1>. DEFINE n == Len(c.blocks)
            t == SubSeq(c.blocks, 1, n - 1)
            l == LastBlock(c)
<1>1. /\ c.blocks \in Seq(Block) /\ n \in Nat /\ n > 0 /\ DOMAIN c.blocks = 1..n
      /\ Here(c) = n /\ l = c.blocks[n] /\ l.kind = b.kind /\ l \in Block
  BY OpenIsLast, Blocks DEF Numbered, Claude, LastBlock
<1>2. t \in Seq(Block) /\ Len(t) = n - 1 /\ \A k \in 1..(n - 1) : t[k] = c.blocks[k]
  BY <1>1
<1>3. c.blocks = Append(t, l)
  BY <1>1
<1>4. d.blocks = Append(t, b)
  <2>. DEFINE u == Append(t, b)
              v == [c.blocks EXCEPT ![n] = b]
  <2>1. u \in Seq(Block) /\ Len(u) = n /\ u[n] = b /\ \A k \in 1..(n - 1) : u[k] = c.blocks[k]
    BY <1>1, <1>2
  <2>2. v \in Seq(Block) /\ Len(v) = n /\ v[n] = b /\ \A k \in 1..(n - 1) : v[k] = c.blocks[k]
    BY <1>1
  <2>3. \A x \in Seq(Block), y \in Seq(Block) : Len(x) = Len(y) /\ (\A i \in 1..Len(x) : x[i] = y[i]) => x = y
    OBVIOUS
  <2>4. \A k \in 1..n : k = n \/ k \in 1..(n - 1)
    BY <1>1
  <2>. HIDE DEF u, v, t, n
  <2>5. \A k \in 1..n : u[k] = v[k]
    BY <2>1, <2>2, <2>4
  <2>6. u = v
    BY <2>1, <2>2, <2>3, <2>5
  <2>. QED
    BY <1>1, <2>6 DEF u, v
<1>. HIDE DEF t, n, l
<1>. QED
  BY <1>1, <1>2, <1>3, <1>4 DEF l, LastIs

\* A block that is stopped has what it had.
LEMMA StoppedPasses ==
  ASSUME NEW c, Numbered(c), OpenKind(c) # "none"
  PROVE  Passes(StopBlock(c), c, 0, 0)
<1>. DEFINE b == [c.blocks[Here(c)] EXCEPT !.open = FALSE]
            d == StopBlock(c)
<1>1. /\ c \in Claude /\ c.blocks \in Seq(Block) /\ Here(c) \in DOMAIN c.blocks /\ c.blocks[Here(c)].open
      /\ c.blocks[Here(c)].kind = OpenKind(c) /\ Here(c) = c.index + 1 /\ Here(c) = Len(c.blocks)
  BY OpenIsLast DEF Numbered, Claude, Here
<1>2. c.blocks[Here(c)] \in Block /\ LastBlock(c) = c.blocks[Here(c)]
  BY <1>1, Blocks DEF LastBlock
<1>3. b \in Block /\ b.kind = OpenKind(c) /\ b.n = LastBlock(c).n
  BY <1>1, <1>2 DEF Block
<1>4. d.blocks = [c.blocks EXCEPT ![Here(c)] = b]
  BY <1>1 DEF StopBlock, Claude
<1>. HIDE DEF b, d
<1>5. PICK t \in Seq(Block) : /\ c.blocks = Append(t, LastBlock(c)) /\ d.blocks = Append(t, b)
                              /\ LastBlock(c) \in Block /\ LastBlock(c).kind = b.kind
  <2>1. LastIs(c, d, b)
    BY <1>3, <1>4, LastReplaced
  <2>. QED
    BY <2>1 DEF LastIs
<1>6. ASSUME NEW K
      PROVE  /\ Count(Kind(d.blocks, K)) = Count(Kind(c.blocks, K))
             /\ Len(Kind(d.blocks, K)) = Len(Kind(c.blocks, K))
             /\ \A k \in DOMAIN Kind(c.blocks, K) : Kind(d.blocks, K)[k].n = Kind(c.blocks, K)[k].n
  <2>1. CASE b.kind \in K
    <3>. DEFINE s == Kind(t, K)
    <3>1. /\ s \in Seq(Block) /\ Kind(d.blocks, K) = Append(s, b) /\ Kind(c.blocks, K) = Append(s, LastBlock(c))
          /\ Count(Kind(d.blocks, K)) = Count(s) + b.n /\ Count(Kind(c.blocks, K)) = Count(s) + LastBlock(c).n
      BY <1>3, <1>5, <2>1, BlockAdded
    <3>. HIDE DEF s
    <3>. QED
      BY <1>3, <1>5, <3>1
  <2>2. CASE b.kind \notin K
    BY <1>3, <1>5, <2>2, BlockAdded
  <2>. QED
    BY <2>1, <2>2
<1>. QED
  BY <1>1, <1>6, MessageType DEF Passes, Has, CallBlocks, d

\* A block is filled: one piece more of its kind.
LEMMA FilledPasses ==
  ASSUME NEW c, Numbered(c), NEW kind \in BlockKinds, OpenKind(c) = kind, NEW d, d = FillBlock(c, kind)
  PROVE  \E t \in Seq(Block), l \in Block, b \in Block :
           /\ c.blocks = Append(t, l) /\ d.blocks = Append(t, b)
           /\ l.kind = kind /\ b.kind = kind /\ b.n = l.n + 1
<1>. DEFINE b == [c.blocks[Here(c)] EXCEPT !.n = @ + 1]
<1>1. kind # "none"
  BY DEF BlockKinds
<1>2. /\ c \in Claude /\ c.blocks \in Seq(Block) /\ Here(c) \in DOMAIN c.blocks /\ c.blocks[Here(c)].open
      /\ c.blocks[Here(c)].kind = OpenKind(c) /\ Here(c) = c.index + 1 /\ Here(c) = Len(c.blocks)
  BY <1>1, OpenIsLast DEF Numbered, Claude, Here
<1>3. c.blocks[Here(c)] \in Block /\ LastBlock(c) = c.blocks[Here(c)]
  BY <1>2, Blocks DEF LastBlock
<1>4. b \in Block /\ b.kind = OpenKind(c) /\ b.n = LastBlock(c).n + 1
  BY <1>2, <1>3 DEF Block
<1>5. d.blocks = [c.blocks EXCEPT ![Here(c)] = b]
  BY <1>2 DEF FillBlock, Claude
<1>. HIDE DEF b
<1>6. PICK t \in Seq(Block) : /\ c.blocks = Append(t, LastBlock(c)) /\ d.blocks = Append(t, b)
                              /\ LastBlock(c) \in Block /\ LastBlock(c).kind = b.kind
  <2>1. LastIs(c, d, b)
    BY <1>1, <1>4, <1>5, LastReplaced
  <2>. QED
    BY <2>1 DEF LastIs
<1>. QED
  BY <1>4, <1>6

LEMMA PieceFilled ==
  ASSUME NEW c, Numbered(c), NEW kind \in {"text", "thought"}, OpenKind(c) = kind, NEW d, d = FillBlock(c, kind)
  PROVE  Passes(d, c, IF kind = "text" THEN 1 ELSE 0, IF kind = "text" THEN 0 ELSE 1)
<1>1. kind \in BlockKinds
  BY DEF BlockKinds
<1>2. PICK t \in Seq(Block), l \in Block, b \in Block :
           /\ c.blocks = Append(t, l) /\ d.blocks = Append(t, b)
           /\ l.kind = kind /\ b.kind = kind /\ b.n = l.n + 1
  BY <1>1, FilledPasses
<1>3. l.n \in Nat
  BY DEF Block
<1>4. ASSUME NEW K, kind \notin K PROVE Kind(d.blocks, K) = Kind(c.blocks, K)
  BY <1>2, <1>4, BlockAdded
<1>5. ASSUME NEW K, kind \in K PROVE Count(Kind(d.blocks, K)) = Count(Kind(c.blocks, K)) + 1
  <2>1. /\ Count(Kind(t, K)) \in Nat /\ Count(Kind(Append(t, b), K)) = Count(Kind(t, K)) + b.n
        /\ Count(Kind(Append(t, l), K)) = Count(Kind(t, K)) + l.n
    BY <1>2, <1>5, BlockAdded
  <2>. QED
    BY <1>2, <1>3, <2>1
<1>6. CallBlocks(d) = CallBlocks(c)
  BY <1>4 DEF CallBlocks
<1>7. Has(c, "text") \in Nat /\ Has(c, "thought") \in Nat
  BY MessageType DEF Numbered
<1>8. CASE kind = "text"
  <2>1. Has(d, "text") = Has(c, "text") + 1 /\ Has(d, "thought") = Has(c, "thought")
    BY <1>4, <1>5, <1>8 DEF Has
  <2>. QED
    BY <1>6, <1>7, <1>8, <2>1 DEF Passes
<1>9. CASE kind = "thought"
  <2>1. Has(d, "thought") = Has(c, "thought") + 1 /\ Has(d, "text") = Has(c, "text")
    BY <1>4, <1>5, <1>9 DEF Has
  <2>. QED
    BY <1>6, <1>7, <1>9, <2>1 DEF Passes
<1>. QED
  BY <1>8, <1>9

\* A block is started: it has nothing yet.
LEMMA StartedPasses ==
  ASSUME NEW c, c \in Claude, NEW kind \in BlockKinds, NEW d, d = StartBlock(c, kind)
  PROVE  /\ Has(d, "text") = Has(c, "text") /\ Has(d, "thought") = Has(c, "thought")
         /\ kind # "call" => CallBlocks(d) = CallBlocks(c)
         /\ kind = "call" => \E b \in Block : b.n = 0 /\ CallBlocks(d) = Append(CallBlocks(c), b)
<1>1. PICK b \in Block : b = [kind |-> kind, n |-> 0, open |-> TRUE]
  BY DEF Block
<1>2. b.n = 0 /\ b.kind = kind
  BY <1>1
<1>3. c.blocks \in Seq(Block) /\ d.blocks = Append(c.blocks, b)
  BY <1>1 DEF Claude, StartBlock
<1>4. ASSUME NEW K
      PROVE  /\ Count(Kind(c.blocks, K)) \in Nat
             /\ kind \in K => /\ Kind(d.blocks, K) = Append(Kind(c.blocks, K), b)
                              /\ Count(Kind(d.blocks, K)) = Count(Kind(c.blocks, K)) + 0
             /\ kind \notin K => Kind(d.blocks, K) = Kind(c.blocks, K)
  <2>1. /\ Count(Kind(c.blocks, K)) \in Nat
        /\ kind \in K => /\ Kind(Append(c.blocks, b), K) = Append(Kind(c.blocks, K), b)
                         /\ Count(Kind(Append(c.blocks, b), K)) = Count(Kind(c.blocks, K)) + b.n
        /\ kind \notin K => Kind(Append(c.blocks, b), K) = Kind(c.blocks, K)
    <3>1. b.kind = kind /\ c.blocks \in Seq(Block)
      BY <1>2, <1>3
    <3>. QED
      BY <3>1, BlockAdded
  <2>. QED
    BY <1>2, <1>3, <2>1
<1>5. \A K : Count(Kind(d.blocks, K)) = Count(Kind(c.blocks, K))
  BY <1>4
<1>6. Has(d, "text") = Has(c, "text") /\ Has(d, "thought") = Has(c, "thought")
  BY <1>5 DEF Has
<1>7. kind # "call" => CallBlocks(d) = CallBlocks(c)
  BY <1>4 DEF CallBlocks
<1>8. kind = "call" => CallBlocks(d) = Append(CallBlocks(c), b)
  BY <1>4 DEF CallBlocks
<1>. QED
  BY <1>2, <1>6, <1>7, <1>8

-----------------------------------------------------------------------------
\* What the events pass on.
LEMMA ThinkingEnds ==
  ASSUME NEW c, Numbered(c), Flagged(c), NEW d, d = StopThinking(c)
  PROVE  Passes(d, c, 0, 0) /\ d \in Claude
<1>1. c \in Claude /\ d \in Claude
  BY ThinkingStopped DEF Numbered
<1>2. CASE ~c.thinking
  BY <1>1, <1>2, NothingPassed DEF StopThinking
<1>3. CASE c.thinking
  <2>. DEFINE s == StopBlock(c)
  <2>1. OpenKind(c) # "none"
    BY <1>3 DEF Flagged
  <2>2. Passes(s, c, 0, 0) /\ s \in Claude
    BY <2>1, StoppedPasses, Stopped DEF Numbered
  <2>. HIDE DEF s
  <2>3. d = [s EXCEPT !.thinking = FALSE]
    BY <1>3 DEF StopThinking, s
  <2>4. d.blocks = s.blocks
    BY <2>2, <2>3 DEF Claude
  <2>5. Passes(d, s, 0, 0)
    BY <2>2, <2>4, NothingPassed
  <2>. QED
    BY <1>1, <2>2, <2>5, PassedOn
<1>. QED
  BY <1>1, <1>2, <1>3

LEMMA TextEnds ==
  ASSUME NEW c, Numbered(c), Flagged(c), NEW d, d = StopText(c)
  PROVE  Passes(d, c, 0, 0) /\ d \in Claude
<1>1. c \in Claude /\ d \in Claude
  BY TextStopped DEF Numbered
<1>2. CASE ~c.started
  BY <1>1, <1>2, NothingPassed DEF StopText
<1>3. CASE c.started
  <2>. DEFINE s == StopBlock(c)
  <2>1. OpenKind(c) # "none"
    BY <1>3 DEF Flagged
  <2>2. Passes(s, c, 0, 0) /\ s \in Claude
    BY <2>1, StoppedPasses, Stopped DEF Numbered
  <2>. HIDE DEF s
  <2>3. d = [s EXCEPT !.started = FALSE]
    BY <1>3 DEF StopText, s
  <2>4. d.blocks = s.blocks
    BY <2>2, <2>3 DEF Claude
  <2>5. Passes(d, s, 0, 0)
    BY <2>2, <2>4, NothingPassed
  <2>. QED
    BY <1>1, <2>2, <2>5, PassedOn
<1>. QED
  BY <1>1, <1>2, <1>3

LEMMA BothEnd ==
  ASSUME NEW c, Numbered(c), Flagged(c), NEW d, d = StopText(StopThinking(c))
  PROVE  Passes(d, c, 0, 0) /\ d \in Claude
<1>1. PICK e : e = StopThinking(c)
  OBVIOUS
<1>2. Numbered(e) /\ Flagged(e)
  BY <1>1, ThinkingStopped
<1>3. Passes(e, c, 0, 0) /\ e \in Claude /\ c \in Claude
  BY <1>1, ThinkingEnds DEF Numbered
<1>4. d = StopText(e)
  BY <1>1
<1>5. Passes(d, e, 0, 0) /\ d \in Claude
  BY <1>2, <1>4, TextEnds
<1>. QED
  BY <1>3, <1>5, PassedOn

\* A piece, into the block that is open or a new one.
LEMMA PieceTold ==
  ASSUME NEW c, Numbered(c), Flagged(c), NEW kind \in {"text", "thought"}, OpenKind(c) \in {"none", kind},
         NEW b,
         OpenKind(c) = kind => b = [c EXCEPT !.has = TRUE],
         OpenKind(c) = "none" =>
           b = IF kind = "text" THEN [StartBlock(c, kind) EXCEPT !.started = TRUE, !.has = TRUE]
               ELSE [StartBlock(c, kind) EXCEPT !.thinking = TRUE, !.has = TRUE],
         NEW d, d = FillBlock(b, kind), d \in Claude
  PROVE  Passes(d, c, IF kind = "text" THEN 1 ELSE 0, IF kind = "text" THEN 0 ELSE 1)
<1>1. c \in Claude /\ kind \in BlockKinds
  BY DEF Numbered, BlockKinds
<1>2. Numbered(b) /\ b \in Claude /\ OpenKind(b) = kind /\ Passes(b, c, 0, 0)
  <2>1. CASE OpenKind(c) = kind
    <3>1. /\ b \in Claude /\ b.odd = c.odd /\ b.index = c.index /\ b.blocks = c.blocks
      BY <1>1, <2>1 DEF Claude
    <3>2. Numbered(b) /\ OpenKind(b) = kind
      BY <2>1, <3>1, SameBlocks
    <3>. QED
      BY <1>1, <3>1, <3>2, NothingPassed
  <2>2. CASE OpenKind(c) = "none"
    <3>1. PICK s : s = StartBlock(c, kind)
      OBVIOUS
    <3>2. Numbered(s) /\ OpenKind(s) = kind /\ s \in Claude
      BY <1>1, <2>2, <3>1, StartedBlock DEF Numbered
    <3>3. Passes(s, c, 0, 0)
      <4>1. kind # "call"
        OBVIOUS
      <4>2. Has(s, "text") = Has(c, "text") /\ Has(s, "thought") = Has(c, "thought") /\ CallBlocks(s) = CallBlocks(c)
        BY <1>1, <3>1, <4>1, StartedPasses
      <4>. QED
        BY <1>1, <4>2, MessageType DEF Passes
    <3>4. b = IF kind = "text" THEN [s EXCEPT !.started = TRUE, !.has = TRUE]
              ELSE [s EXCEPT !.thinking = TRUE, !.has = TRUE]
      BY <2>2, <3>1
    <3>5. b \in Claude /\ b.odd = s.odd /\ b.index = s.index /\ b.blocks = s.blocks
      <4>1. CASE kind = "text"
        <5>1. b = [s EXCEPT !.started = TRUE, !.has = TRUE]
          BY <3>4, <4>1
        <5>. QED
          BY <3>2, <5>1 DEF Claude
      <4>2. CASE kind = "thought"
        <5>1. b = [s EXCEPT !.thinking = TRUE, !.has = TRUE]
          BY <3>4, <4>2
        <5>. QED
          BY <3>2, <5>1 DEF Claude
      <4>. QED
        BY <4>1, <4>2
    <3>6. Numbered(b) /\ OpenKind(b) = kind
      BY <3>2, <3>5, SameBlocks
    <3>7. Passes(b, s, 0, 0)
      BY <3>2, <3>5, NothingPassed
    <3>. QED
      BY <1>1, <3>2, <3>3, <3>5, <3>6, <3>7, PassedOn
  <2>. QED
    BY <2>1, <2>2
<1>. DEFINE m == IF kind = "text" THEN 1 ELSE 0
            n == IF kind = "text" THEN 0 ELSE 1
<1>3. Passes(d, b, m, n)
  BY <1>2, PieceFilled
<1>4. m \in Nat /\ n \in Nat
  OBVIOUS
<1>. HIDE DEF m, n
<1>5. Passes(d, c, m, n)
  BY <1>1, <1>2, <1>3, <1>4, PassedOn
<1>. QED
  BY <1>5 DEF m, n

LEMMA ThoughtPasses ==
  ASSUME NEW c, Numbered(c), Flagged(c), OpenKind(c) \in {"none", "thought"}, NEW d, d = ClaudeThought(c)
  PROVE  Passes(d, c, 0, 1)
<1>. DEFINE b == IF OpenKind(c) = "thought" THEN [c EXCEPT !.has = TRUE]
                 ELSE [StartBlock(c, "thought") EXCEPT !.thinking = TRUE, !.has = TRUE]
<1>1. d = FillBlock(b, "thought")
  BY DEF ClaudeThought, Flagged
<1>. HIDE DEF b
<1>2. /\ OpenKind(c) = "thought" => b = [c EXCEPT !.has = TRUE]
      /\ OpenKind(c) = "none" => b = [StartBlock(c, "thought") EXCEPT !.thinking = TRUE, !.has = TRUE]
  BY DEF b
<1>3. "thought" \in {"text", "thought"} /\ "thought" # "text"
  OBVIOUS
<1>4. d \in Claude
  BY ThoughtTold DEF Numbered
<1>. QED
  BY <1>1, <1>2, <1>3, <1>4, PieceTold

LEMMA TextPasses ==
  ASSUME NEW c, Numbered(c), Flagged(c), OpenKind(c) # "call", NEW d, d = ClaudeText(c)
  PROVE  Passes(d, c, 1, 0)
<1>. DEFINE e == StopThinking(c)
            b == IF OpenKind(e) = "text" THEN [e EXCEPT !.has = TRUE]
                 ELSE [StartBlock(e, "text") EXCEPT !.started = TRUE, !.has = TRUE]
<1>1. OpenKind(c) \in {"none", "thought", "text"}
  BY KindOfOpen
<1>2. Numbered(e) /\ Flagged(e) /\ OpenKind(e) \in {"none", "text"}
  BY <1>1, ThinkingStopped
<1>3. d = FillBlock(b, "text")
  BY <1>2 DEF ClaudeText, Flagged
<1>4. Passes(e, c, 0, 0) /\ e \in Claude /\ c \in Claude
  BY ThinkingEnds DEF Numbered
<1>. HIDE DEF b, e
<1>5. /\ OpenKind(e) = "text" => b = [e EXCEPT !.has = TRUE]
      /\ OpenKind(e) = "none" => b = [StartBlock(e, "text") EXCEPT !.started = TRUE, !.has = TRUE]
  BY DEF b
<1>6. "text" \in {"text", "thought"}
  OBVIOUS
<1>7. d \in Claude
  BY TextTold DEF Numbered
<1>8. Passes(d, e, 1, 0)
  BY <1>2, <1>3, <1>5, <1>6, <1>7, PieceTold
<1>. QED
  BY <1>4, <1>7, <1>8, PassedOn

\* A call is a block of its own, with the arguments that were sent.
CallBegun(d, c) ==
  /\ Has(d, "text") = Has(c, "text") /\ Has(d, "thought") = Has(c, "thought")
  /\ \E b \in Block : b.n = 0 /\ CallBlocks(d) = Append(CallBlocks(c), b)

LEMMA CalledPasses ==
  ASSUME NEW c, Numbered(c), Flagged(c), NEW d, d = ClaudeCalled(c)
  PROVE  \E e \in Claude : Passes(e, c, 0, 0) /\ CallBegun(d, e)
<1>1. PICK e : e = StopText(StopThinking(c))
  OBVIOUS
<1>2. Passes(e, c, 0, 0) /\ e \in Claude
  BY <1>1, BothEnd
<1>3. PICK s : s = StartBlock(e, "call")
  OBVIOUS
<1>4. CallBegun(s, e)
  <2>1. "call" \in BlockKinds
    BY DEF BlockKinds
  <2>. QED
    BY <1>2, <1>3, <2>1, StartedPasses DEF CallBegun
<1>5. d = [s EXCEPT !.has = TRUE, !.tool = TRUE]
  BY <1>1, <1>3 DEF ClaudeCalled
<1>6. d.blocks = s.blocks
  BY <1>2, <1>3, <1>5 DEF StartBlock, Claude
<1>7. CallBegun(d, e)
  BY <1>4, <1>6 DEF CallBegun, Has, CallBlocks
<1>. QED
  BY <1>2, <1>7

ArgsAdded(d, c) ==
  /\ Has(d, "text") = Has(c, "text") /\ Has(d, "thought") = Has(c, "thought")
  /\ \E s \in Seq(Block), l \in Block, b \in Block :
       CallBlocks(c) = Append(s, l) /\ CallBlocks(d) = Append(s, b) /\ b.n = l.n + 1

LEMMA ArgsPass ==
  ASSUME NEW c, Numbered(c), OpenKind(c) = "call", NEW d, d = ClaudeArgs(c)
  PROVE  ArgsAdded(d, c)
<1>1. d = FillBlock(c, "call") /\ "call" \in BlockKinds
  BY DEF ClaudeArgs, BlockKinds
<1>2. PICK t \in Seq(Block), l \in Block, b \in Block :
           /\ c.blocks = Append(t, l) /\ d.blocks = Append(t, b)
           /\ l.kind = "call" /\ b.kind = "call" /\ b.n = l.n + 1
  BY <1>1, FilledPasses
<1>3. ASSUME NEW K, "call" \notin K PROVE Kind(d.blocks, K) = Kind(c.blocks, K)
  BY <1>2, <1>3, BlockAdded
<1>4. Has(d, "text") = Has(c, "text") /\ Has(d, "thought") = Has(c, "thought")
  BY <1>3 DEF Has
<1>5. PICK s \in Seq(Block) : s = Kind(t, {"call"})
  BY <1>2, BlockAdded
<1>6. CallBlocks(c) = Append(s, l) /\ CallBlocks(d) = Append(s, b)
  <2>1. PICK K : K = {"call"}
    OBVIOUS
  <2>2. l.kind \in K /\ b.kind \in K
    BY <1>2, <2>1
  <2>3. Kind(Append(t, l), K) = Append(Kind(t, K), l)
    BY <2>2, BlockAdded
  <2>4. Kind(Append(t, b), K) = Append(Kind(t, K), b)
    BY <2>2, BlockAdded
  <2>. QED
    BY <1>2, <1>5, <2>1, <2>3, <2>4 DEF CallBlocks
<1>. QED
  BY <1>2, <1>4, <1>6 DEF ArgsAdded

LEMMA ArgsDonePass ==
  ASSUME NEW c, Numbered(c), OpenKind(c) = "call", NEW d, d = ClaudeArgsDone(c)
  PROVE  Passes(d, c, 0, 0)
  BY StoppedPasses DEF ClaudeArgsDone

\* The end of a message passes on nothing, and has a reason.
LEMMA MessagePasses ==
  ASSUME NEW c, c \in Claude, NEW d, d = StopMessage(c)
  PROVE  Passes(d, c, 0, 0) /\ d.reason # "none"
<1>1. d.blocks = c.blocks /\ d.reason = IF c.tool THEN "tool_use" ELSE "end_turn"
  BY DEF StopMessage, Claude
<1>. QED
  BY <1>1, NothingPassed

LEMMA ClosedPasses ==
  ASSUME NEW c, Numbered(c), Flagged(c), c.begun > 0, NEW d, d = ClaudeClosed(c), d \in Claude
  PROVE  Passes(d, c, 0, 0) /\ d.reason # "none"
<1>1. PICK e : e = StopText(StopThinking(c))
  OBVIOUS
<1>2. Passes(e, c, 0, 0) /\ e \in Claude /\ c \in Claude
  BY <1>1, BothEnd DEF Numbered
<1>3. d = StopMessage(e)
  BY <1>1 DEF ClaudeClosed
<1>4. Passes(d, e, 0, 0) /\ d.reason # "none"
  BY <1>2, <1>3, MessagePasses
<1>. QED
  BY <1>2, <1>4, PassedOn

LEMMA CompletedPasses ==
  ASSUME NEW c, Numbered(c), Flagged(c), NEW d, d = ClaudeCompleted(c), d \in Claude
  PROVE  Passes(d, c, 0, 0) /\ d.reason # "none"
<1>1. PICK t : t = StopThinking(c)
  OBVIOUS
<1>2. Passes(t, c, 0, 0) /\ t \in Claude /\ c \in Claude /\ Numbered(t) /\ Flagged(t)
  BY <1>1, ThinkingEnds, ThinkingStopped DEF Numbered
<1>3. PICK e : e = IF t.started THEN StopBlock(t) ELSE t
  OBVIOUS
<1>4. Passes(e, t, 0, 0) /\ e \in Claude
  <2>1. CASE t.started
    <3>1. OpenKind(t) # "none" /\ e = StopBlock(t)
      BY <1>2, <1>3, <2>1 DEF Flagged
    <3>. QED
      BY <1>2, <3>1, StoppedPasses, Stopped DEF Numbered
  <2>2. CASE ~t.started
    BY <1>2, <1>3, <2>2, NothingPassed
  <2>. QED
    BY <2>1, <2>2
<1>5. PICK f : f = [e EXCEPT !.completed = TRUE]
  OBVIOUS
<1>6. f \in Claude /\ f.blocks = e.blocks
  BY <1>4, <1>5 DEF Claude
<1>7. d = StopMessage(f)
  BY <1>1, <1>3, <1>5 DEF ClaudeCompleted
<1>8. Passes(d, f, 0, 0) /\ d.reason # "none"
  BY <1>6, <1>7, MessagePasses
<1>9. Passes(f, e, 0, 0)
  BY <1>4, <1>6, NothingPassed
<1>10. Passes(d, e, 0, 0)
  BY <1>4, <1>6, <1>8, <1>9, PassedOn
<1>11. Passes(d, t, 0, 0)
  BY <1>2, <1>4, <1>10, PassedOn
<1>. QED
  BY <1>2, <1>8, <1>11, PassedOn

-----------------------------------------------------------------------------
\* The blocks of the calls: those of the response, and of the one at hand so much.
BlocksAre(blocks, whole, more, sent) ==
  /\ Len(blocks) = Len(whole) + (IF more THEN 1 ELSE 0)
  /\ \A k \in DOMAIN blocks : blocks[k].n = IF k \in DOMAIN whole THEN whole[k].n ELSE sent

LEMMA BlocksKept ==
  ASSUME NEW s \in Seq(Block), NEW t \in Seq(Block), NEW whole, NEW more, NEW sent,
         Len(t) = Len(s), \A k \in DOMAIN s : t[k].n = s[k].n, BlocksAre(s, whole, more, sent)
  PROVE  BlocksAre(t, whole, more, sent)
<1>1. DOMAIN t = DOMAIN s
  OBVIOUS
<1>. QED
  BY <1>1 DEF BlocksAre

LEMMA BlockBegins ==
  ASSUME NEW s \in Seq(Block), NEW whole \in Seq(Item), NEW sent, NEW b \in Block, b.n = 0,
         BlocksAre(s, whole, FALSE, sent)
  PROVE  BlocksAre(Append(s, b), whole, TRUE, 0)
<1>. DEFINE l == Len(whole)
            t == Append(s, b)
<1>1. /\ l \in Nat /\ DOMAIN whole = 1..l /\ Len(s) = l /\ DOMAIN s = 1..l
      /\ Len(t) = l + 1 /\ DOMAIN t = 1..l + 1 /\ t[l + 1] = b /\ \A k \in 1..l : t[k] = s[k]
  BY DEF BlocksAre
<1>. HIDE DEF t
<1>2. \A k \in 1..l + 1 : t[k].n = IF k \in 1..l THEN whole[k].n ELSE 0
  <2>. SUFFICES ASSUME NEW k \in 1..l + 1 PROVE t[k].n = IF k \in 1..l THEN whole[k].n ELSE 0
    OBVIOUS
  <2>1. CASE k = l + 1
    BY <1>1, <2>1
  <2>2. CASE k \in 1..l
    BY <1>1, <2>2 DEF BlocksAre
  <2>. QED
    BY <2>1, <2>2
<1>. QED
  BY <1>1, <1>2 DEF BlocksAre, t

LEMMA BlockGoesOn ==
  ASSUME NEW s \in Seq(Block), NEW whole \in Seq(Item), NEW sent, NEW x \in Block, NEW b \in Block,
         b.n = x.n + 1, BlocksAre(Append(s, x), whole, TRUE, sent)
  PROVE  BlocksAre(Append(s, b), whole, TRUE, sent + 1)
<1>. DEFINE l == Len(whole)
            t == Append(s, b)
            u == Append(s, x)
<1>1. /\ l \in Nat /\ DOMAIN whole = 1..l /\ Len(u) = l + 1 /\ DOMAIN u = 1..l + 1
      /\ Len(s) = l /\ DOMAIN s = 1..l
      /\ Len(t) = l + 1 /\ DOMAIN t = 1..l + 1 /\ t[l + 1] = b /\ \A k \in 1..l : t[k] = s[k]
      /\ u[l + 1] = x /\ \A k \in 1..l : u[k] = s[k]
  <2>1. Len(u) = l + 1 /\ l \in Nat /\ Len(u) = Len(s) + 1
    BY DEF BlocksAre
  <2>2. Len(s) = l
    BY <2>1
  <2>. QED
    BY <2>1, <2>2
<1>2. \A k \in 1..l + 1 : u[k].n = IF k \in 1..l THEN whole[k].n ELSE sent
  BY <1>1 DEF BlocksAre
<1>. HIDE DEF t, u
<1>3. \A k \in 1..l + 1 : t[k].n = IF k \in 1..l THEN whole[k].n ELSE sent + 1
  <2>. SUFFICES ASSUME NEW k \in 1..l + 1 PROVE t[k].n = IF k \in 1..l THEN whole[k].n ELSE sent + 1
    OBVIOUS
  <2>1. CASE k = l + 1
    <3>1. k \notin 1..l
      BY <1>1, <2>1
    <3>. QED
      BY <1>1, <1>2, <2>1, <3>1
  <2>2. CASE k \in 1..l
    BY <1>1, <1>2, <2>2
  <2>. QED
    BY <2>1, <2>2
<1>. QED
  BY <1>1, <1>3 DEF BlocksAre, t

LEMMA BlockEnds ==
  ASSUME NEW s \in Seq(Block), NEW whole \in Seq(Item), NEW sent, NEW any, NEW x \in Item, x.n = sent,
         BlocksAre(s, whole, TRUE, sent)
  PROVE  BlocksAre(s, Append(whole, x), FALSE, any)
<1>. DEFINE l == Len(whole)
            t == Append(whole, x)
<1>1. /\ l \in Nat /\ DOMAIN whole = 1..l /\ Len(s) = l + 1 /\ DOMAIN s = 1..l + 1
      /\ Len(t) = l + 1 /\ DOMAIN t = 1..l + 1 /\ t[l + 1] = x /\ \A k \in 1..l : t[k] = whole[k]
  BY DEF BlocksAre
<1>. HIDE DEF t
<1>2. \A k \in 1..l + 1 : s[k].n = t[k].n
  <2>. SUFFICES ASSUME NEW k \in 1..l + 1 PROVE s[k].n = t[k].n
    OBVIOUS
  <2>1. CASE k = l + 1
    BY <1>1, <2>1 DEF BlocksAre
  <2>2. CASE k \in 1..l
    BY <1>1, <2>2 DEF BlocksAre
  <2>. QED
    BY <2>1, <2>2
<1>. QED
  BY <1>1, <1>2 DEF BlocksAre, t

-----------------------------------------------------------------------------
\* What the Claude client has beside the finished items is what was sent in pieces of
\* the one at hand.
Matching ==
  /\ Has(claude, "text") = Pieces({"text"}) + SentOf("text")
  /\ Has(claude, "thought") = Pieces({"thought"}) + SentOf("thought")
  /\ up.item = "call" => BlocksAre(CallBlocks(claude), Calls, TRUE, up.sent)
  /\ up.item # "call" => BlocksAre(CallBlocks(claude), Calls, FALSE, 0)

Passed == Matching /\ (claude.stops > 0 => claude.reason # "none")

\* All has come in pieces, and no thought after a text.
InPieces == up.quirks \cap {"unpieced", "astray"} = {}

LEMMA InOrder == ASSUME Paired, InPieces PROVE Orderly
  BY DEF Paired, InPieces

\* What the invariants of the two clients say of a step.
LEMMA BothType ==
  ASSUME ChatInv, Paired
  PROVE  /\ up \in Upstream /\ up.sent \in Nat /\ (up.item = "none" => up.sent = 0) /\ out \in Seq(Item)
         /\ claude \in Claude /\ Calls \in Seq(Item)
         /\ \A K : Pieces(K) \in Nat
         /\ Has(claude, "text") \in Nat /\ Has(claude, "thought") \in Nat
         /\ CallBlocks(claude) \in Seq(Block)
<1>1. /\ up \in Upstream /\ up.sent \in Nat /\ (up.item = "none" => up.sent = 0) /\ out \in Seq(Item)
      /\ claude \in Claude
  BY DEF ChatInv, ChatTyped, Paired, Standing
<1>2. Calls \in Seq(Item) /\ \A K : Pieces(K) \in Nat
  BY <1>1, KindSeq, PiecesType DEF Calls
<1>. QED
  BY <1>1, <1>2, MessageType

\* A step that goes on with no item.
LEMMA MatchingKept ==
  ASSUME ChatInv, Paired, Paired', Matching, out' = out, up'.item = up.item, up'.sent = up.sent,
         Passes(claude', claude, 0, 0)
  PROVE  Matching'
<1>1. claude \in Claude /\ claude' \in Claude /\ out \in Seq(Item)
  BY BothType DEF Paired, Standing
<1>2. Calls' = Calls /\ \A K : Pieces(K)' = Pieces(K)
  BY <1>1, SameItems
<1>3. CallBlocks(claude) \in Seq(Block) /\ CallBlocks(claude') \in Seq(Block)
      /\ Has(claude, "text") \in Nat /\ Has(claude, "thought") \in Nat
  BY <1>1, MessageType
<1>4. /\ Has(claude', "text") = Has(claude, "text") /\ Has(claude', "thought") = Has(claude, "thought")
      /\ Len(CallBlocks(claude')) = Len(CallBlocks(claude))
      /\ \A k \in DOMAIN CallBlocks(claude) : CallBlocks(claude')[k].n = CallBlocks(claude)[k].n
  BY <1>3 DEF Passes
<1>5. up.item = "call" => BlocksAre(CallBlocks(claude'), Calls, TRUE, up.sent)
  <2>1. up.item = "call" => BlocksAre(CallBlocks(claude), Calls, TRUE, up.sent)
    BY DEF Matching
  <2>. QED
    BY <1>3, <1>4, <2>1, BlocksKept
<1>6. up.item # "call" => BlocksAre(CallBlocks(claude'), Calls, FALSE, 0)
  <2>1. up.item # "call" => BlocksAre(CallBlocks(claude), Calls, FALSE, 0)
    BY DEF Matching
  <2>. QED
    BY <1>3, <1>4, <2>1, BlocksKept
<1>7. /\ Has(claude', "text") = Pieces({"text"})' + SentOf("text")'
      /\ Has(claude', "thought") = Pieces({"thought"})' + SentOf("thought")'
  BY <1>2, <1>4 DEF Matching, SentOf
<1>. QED
  BY <1>2, <1>5, <1>6, <1>7 DEF Matching

\* A piece more of a text or of a thought.
LEMMA PieceMatches ==
  ASSUME ChatInv, Paired, Paired', Matching, out' = out, NEW kind \in {"text", "thought"},
         up.item \in {"none", kind}, up'.item = kind, up'.sent = up.sent + 1,
         Passes(claude', claude, IF kind = "text" THEN 1 ELSE 0, IF kind = "text" THEN 0 ELSE 1)
  PROVE  Matching'
<1>1. claude \in Claude /\ claude' \in Claude /\ out \in Seq(Item) /\ up.sent \in Nat
      /\ (up.item = "none" => up.sent = 0)
  BY BothType DEF Paired, Standing
<1>2. Calls' = Calls /\ \A K : Pieces(K) \in Nat /\ Pieces(K)' = Pieces(K)
  BY <1>1, SameItems
<1>3. CallBlocks(claude) \in Seq(Block) /\ CallBlocks(claude') \in Seq(Block)
      /\ Has(claude, "text") \in Nat /\ Has(claude, "thought") \in Nat
  BY <1>1, MessageType
<1>4. /\ Has(claude', "text") = Has(claude, "text") + (IF kind = "text" THEN 1 ELSE 0)
      /\ Has(claude', "thought") = Has(claude, "thought") + (IF kind = "text" THEN 0 ELSE 1)
      /\ Len(CallBlocks(claude')) = Len(CallBlocks(claude))
      /\ \A k \in DOMAIN CallBlocks(claude) : CallBlocks(claude')[k].n = CallBlocks(claude)[k].n
  BY DEF Passes
<1>5. BlocksAre(CallBlocks(claude'), Calls, FALSE, 0)
  <2>1. BlocksAre(CallBlocks(claude), Calls, FALSE, 0)
    BY DEF Matching
  <2>. QED
    BY <1>3, <1>4, <2>1, BlocksKept
<1>6. /\ SentOf("text")' = SentOf("text") + (IF kind = "text" THEN 1 ELSE 0)
      /\ SentOf("thought")' = SentOf("thought") + (IF kind = "text" THEN 0 ELSE 1)
      /\ SentOf("text") \in Nat /\ SentOf("thought") \in Nat
  <2>1. CASE kind = "text"
    BY <1>1, <2>1 DEF SentOf
  <2>2. CASE kind = "thought"
    BY <1>1, <2>2 DEF SentOf
  <2>. QED
    BY <2>1, <2>2
<1>7. Has(claude', "text") = Pieces({"text"})' + SentOf("text")'
  <2>1. Has(claude, "text") = Pieces({"text"}) + SentOf("text") /\ Pieces({"text"})' = Pieces({"text"})
        /\ Pieces({"text"}) \in Nat
    BY <1>2 DEF Matching
  <2>. QED
    BY <1>4, <1>6, <2>1
<1>8. Has(claude', "thought") = Pieces({"thought"})' + SentOf("thought")'
  <2>1. Has(claude, "thought") = Pieces({"thought"}) + SentOf("thought")
    BY DEF Matching
  <2>2. Pieces({"thought"})' = Pieces({"thought"}) /\ Pieces({"thought"}) \in Nat
    BY <1>2
  <2>. QED
    BY <1>4, <1>6, <2>1, <2>2
<1>. QED
  BY <1>2, <1>5, <1>7, <1>8 DEF Matching

\* An item ends as what it was, with all that was passed on.
EndsAs(kind, n) ==
  /\ up.item = kind \/ (kind = "image" /\ up.item = "none")
  /\ kind = "image" \/ n = up.sent

\* The item at hand is finished with what was sent of it.
LEMMA FinishMatches ==
  ASSUME ChatInv, Paired, Paired', Matching, NEW kind \in {"thought", "text", "call", "image"},
         NEW n \in Nat, NEW quirks \in SUBSET Quirks, Finished(kind, n, quirks), Passes(claude', claude, 0, 0),
         EndsAs(kind, n)
  PROVE  Matching'
<1>1. /\ claude \in Claude /\ claude' \in Claude /\ out \in Seq(Item) /\ up.sent \in Nat
      /\ (up.item = "none" => up.sent = 0) /\ Calls \in Seq(Item) /\ ChatTyped
  BY BothType DEF Paired, Standing, ChatInv
<1>2. /\ up'.item = "none" /\ up'.sent = 0
      /\ \A K : /\ Pieces(K) \in Nat
                /\ Pieces(K)' = Pieces(K) + (IF kind \in K THEN n ELSE 0)
      /\ Calls' = IF kind = "call" THEN Append(Calls, [kind |-> kind, n |-> n, id |-> Ids]) ELSE Calls
      /\ out' \in Seq(Item)
  BY <1>1, ItemFinished
<1>3. CallBlocks(claude) \in Seq(Block) /\ CallBlocks(claude') \in Seq(Block)
      /\ Has(claude, "text") \in Nat /\ Has(claude, "thought") \in Nat
  BY <1>1, MessageType
<1>4. /\ Has(claude', "text") = Has(claude, "text") /\ Has(claude', "thought") = Has(claude, "thought")
      /\ Len(CallBlocks(claude')) = Len(CallBlocks(claude))
      /\ \A k \in DOMAIN CallBlocks(claude) : CallBlocks(claude')[k].n = CallBlocks(claude)[k].n
  BY <1>3 DEF Passes
<1>5. BlocksAre(CallBlocks(claude'), Calls', FALSE, 0)
  <2>1. CASE kind = "call"
    <3>1. up.item = "call" /\ n = up.sent
      BY <2>1 DEF EndsAs
    <3>2. BlocksAre(CallBlocks(claude), Calls, TRUE, n)
      BY <3>1 DEF Matching
    <3>3. BlocksAre(CallBlocks(claude'), Calls, TRUE, n)
      BY <1>3, <1>4, <3>2, BlocksKept
    <3>4. PICK x \in Item : x = [kind |-> kind, n |-> n, id |-> Ids]
      BY <1>1, IdsType DEF Item
    <3>5. x.n = n /\ Calls' = Append(Calls, x)
      BY <1>2, <2>1, <3>4
    <3>6. BlocksAre(CallBlocks(claude'), Append(Calls, x), FALSE, 0)
      BY <1>1, <1>3, <3>3, <3>5, BlockEnds
    <3>. QED
      BY <3>5, <3>6
  <2>2. CASE kind # "call"
    <3>1. up.item # "call"
      BY <2>2 DEF EndsAs
    <3>2. BlocksAre(CallBlocks(claude), Calls, FALSE, 0)
      BY <3>1 DEF Matching
    <3>3. BlocksAre(CallBlocks(claude'), Calls, FALSE, 0)
      BY <1>3, <1>4, <3>2, BlocksKept
    <3>. QED
      BY <1>2, <2>2, <3>3
  <2>. QED
    BY <2>1, <2>2
<1>6. Has(claude', "text") = Pieces({"text"})' + 0
  <2>1. Has(claude, "text") = Pieces({"text"}) + SentOf("text") /\ Pieces({"text"}) \in Nat
        /\ Pieces({"text"})' = Pieces({"text"}) + (IF kind = "text" THEN n ELSE 0)
    BY <1>2 DEF Matching
  <2>2. SentOf("text") = IF kind = "text" THEN n ELSE 0
    <3>1. CASE kind = "text"
      BY <3>1 DEF SentOf, EndsAs
    <3>2. CASE kind # "text"
      BY <3>2 DEF SentOf, EndsAs
    <3>. QED
      BY <3>1, <3>2
  <2>. QED
    BY <1>4, <2>1, <2>2
<1>7. Has(claude', "thought") = Pieces({"thought"})' + 0
  <2>1. Has(claude, "thought") = Pieces({"thought"}) + SentOf("thought") /\ Pieces({"thought"}) \in Nat
        /\ Pieces({"thought"})' = Pieces({"thought"}) + (IF kind = "thought" THEN n ELSE 0)
    BY <1>2 DEF Matching
  <2>2. SentOf("thought") = IF kind = "thought" THEN n ELSE 0
    <3>1. CASE kind = "thought"
      BY <3>1 DEF SentOf, EndsAs
    <3>2. CASE kind # "thought"
      BY <3>2 DEF SentOf, EndsAs
    <3>. QED
      BY <3>1, <3>2
  <2>. QED
    BY <1>4, <2>1, <2>2
<1>8. SentOf("text")' = 0 /\ SentOf("thought")' = 0
  BY <1>2 DEF SentOf
<1>. QED
  BY <1>2, <1>5, <1>6, <1>7, <1>8 DEF Matching

\* Before the end of a message there is none to have a reason.
LEMMA Unstopped ==
  ASSUME Paired', up'.at = "on"
  PROVE  claude'.stops > 0 => claude'.reason # "none"
  BY DEF Paired, Standing

LEMMA CreatedPassed == ASSUME ChatInv, Paired, Paired', Passed, Created PROVE Passed'
<1>1. up \in Upstream /\ claude \in Claude
  BY BothType
<1>2. /\ out' = out /\ up' = [up EXCEPT !.at = "on"]
      /\ claude' = [claude EXCEPT !.begun = @ + 1]
  BY DEF Created, ClaudeCreated
<1>3. up'.at = "on" /\ up'.item = up.item /\ up'.sent = up.sent /\ claude'.blocks = claude.blocks
  BY <1>1, <1>2 DEF Upstream, Claude
<1>4. Passes(claude', claude, 0, 0)
  BY <1>1, <1>3, NothingPassed
<1>. QED
  BY <1>2, <1>3, <1>4, MatchingKept, Unstopped DEF Passed

LEMMA ThoughtPassed ==
  ASSUME ChatInv, Paired, Paired', Passed, InPieces', Thought PROVE Passed'
<1>1. up \in Upstream /\ up.sent \in Nat
  BY BothType
<1>2. /\ up.at = "on" /\ up.item \in {"none", "thought"} /\ out' = out /\ claude' = ClaudeThought(claude)
  BY DEF Thought, Between, At
<1>3. PICK summary, q :
        /\ up' = [up EXCEPT !.item = "thought", !.sent = @ + 1, !.summary = summary, !.quirks = q]
        /\ q = up.quirks \cup If("summed", summary) \cup If("astray", up.texted) \cup If("beside", up.part > 0)
  BY DEF Thought
<1>4. up'.at = "on" /\ up'.item = "thought" /\ up'.sent = up.sent + 1 /\ up'.quirks = q
  BY <1>1, <1>2, <1>3 DEF Upstream
<1>5. InPieces /\ ~up.texted
  BY <1>3, <1>4 DEF InPieces, If
<1>6. Follows /\ Numbered(claude)
  BY <1>2, <1>5, InOrder DEF Orderly
<1>7. OpenKind(claude) \in {"none", "thought"}
  BY <1>2, <1>5, <1>6, KindOfOpen DEF Follows
<1>8. Passes(claude', claude, 0, 1)
  BY <1>2, <1>6, <1>7, ThoughtPasses DEF Follows
<1>9. Matching'
  <2>1. "thought" \in {"text", "thought"} /\ "thought" # "text"
    OBVIOUS
  <2>. QED
    BY <1>2, <1>4, <1>8, <2>1, PieceMatches DEF Passed
<1>. QED
  BY <1>4, <1>9, Unstopped DEF Passed

LEMMA PartAddedPassed == ASSUME ChatInv, Paired, Paired', Passed, PartAdded PROVE Passed'
<1>1. /\ up \in Upstream /\ up.sent \in Nat /\ (up.item = "none" => up.sent = 0) /\ out \in Seq(Item)
  BY BothType
<1>2. /\ up.at = "on" /\ up.item \in {"none", "thought"} /\ out' = out /\ claude' = claude
  BY DEF PartAdded, Between, At
<1>3. PICK n, q : up' = [up EXCEPT !.item = "thought", !.part = n, !.summary = FALSE, !.quirks = q]
  BY DEF PartAdded
<1>4. up'.at = "on" /\ up'.item = "thought" /\ up'.sent = up.sent
  BY <1>1, <1>2, <1>3 DEF Upstream
<1>5. SentOf("text")' = SentOf("text") /\ SentOf("thought")' = SentOf("thought")
  BY <1>1, <1>2, <1>4 DEF SentOf
<1>6. Calls' = Calls /\ \A K : Pieces(K)' = Pieces(K)
  BY <1>1, <1>2, SameItems
<1>7. Matching'
  BY <1>2, <1>4, <1>5, <1>6 DEF Passed, Matching, Has, CallBlocks
<1>. QED
  BY <1>4, <1>7, Unstopped DEF Passed

LEMMA TextPassed == ASSUME ChatInv, Paired, Paired', Passed, InPieces, Text PROVE Passed'
<1>1. up \in Upstream /\ up.sent \in Nat
  BY BothType
<1>2. /\ up.at = "on" /\ up.item \in {"none", "text"} /\ out' = out
      /\ up' = [up EXCEPT !.item = "text", !.sent = @ + 1, !.texted = TRUE] /\ claude' = ClaudeText(claude)
  BY DEF Text, Between, At
<1>3. up'.at = "on" /\ up'.item = "text" /\ up'.sent = up.sent + 1
  BY <1>1, <1>2 DEF Upstream
<1>4. Follows /\ Numbered(claude) /\ OpenKind(claude) # "call"
  BY <1>2, InOrder DEF Orderly, Follows
<1>5. Passes(claude', claude, 1, 0)
  BY <1>2, <1>4, TextPasses DEF Follows
<1>6. Matching'
  <2>1. "text" \in {"text", "thought"}
    OBVIOUS
  <2>. QED
    BY <1>2, <1>3, <1>5, <2>1, PieceMatches DEF Passed
<1>. QED
  BY <1>3, <1>6, Unstopped DEF Passed

LEMMA EndedPassed ==
  ASSUME ChatInv, Paired, Paired', Passed, up.at = "on",
         NEW kind \in {"thought", "text", "call", "image"}, NEW n \in Nat, NEW quirks \in SUBSET Quirks,
         Finished(kind, n, quirks), Passes(claude', claude, 0, 0), EndsAs(kind, n)
  PROVE  Passed'
<1>1. Matching'
  <2>1. Matching
    BY DEF Passed
  <2>. QED
    BY <2>1, FinishMatches
<1>2. up'.at = "on"
  <2>1. ChatTyped
    BY DEF ChatInv
  <2>. QED
    BY <2>1, ItemFinished
<1>. QED
  BY <1>1, <1>2, Unstopped DEF Passed

\* What comes in pieces is not more than its pieces.
LEMMA AllInPieces ==
  ASSUME ChatInv, NEW kind \in {"thought", "text", "call", "image"}, NEW n \in Nat, NEW more \in SUBSET Quirks, NEW unpieced,
         Finished(kind, n, more), InPieces', If("unpieced", unpieced) \subseteq more
  PROVE  ~unpieced /\ InPieces
<1>1. up'.quirks = up.quirks \cup more
  <2>1. ChatTyped
    BY DEF ChatInv
  <2>. QED
    BY <2>1, ItemFinished
<1>. QED
  BY <1>1 DEF InPieces, If

LEMMA ThoughtDonePassed == ASSUME ChatInv, Paired, Paired', Passed, InPieces', ThoughtDone PROVE Passed'
<1>1. /\ up.sent \in Nat /\ (up.item = "none" => up.sent = 0) /\ claude \in Claude
      /\ up.at = "on" /\ up.item \in {"none", "thought"} /\ claude' = StopThinking(claude)
  BY BothType DEF ThoughtDone, Between, At
<1>2. PICK full \in Nat, more \in SUBSET Quirks :
        full > 0 /\ full >= up.sent /\ Finished("thought", full, more) /\ If("unpieced", up.sent < full) \subseteq more
  <2>1. PICK summary \in (IF up.item = "thought" THEN {up.summary} ELSE BOOLEAN), full \in 1..MaxPieces :
          /\ ThoughtIs(summary, full)
          /\ Finished("thought", full,
               If("beside", up.part > 0) \cup If("unpieced", up.sent < full)
               \cup If("muted", summary /\ up.sent = 0 /\ "summed" \in up.quirks))
    BY DEF ThoughtDone
  <2>. DEFINE more == If("beside", up.part > 0) \cup If("unpieced", up.sent < full)
                      \cup If("muted", summary /\ up.sent = 0 /\ "summed" \in up.quirks)
  <2>2. more \in SUBSET Quirks /\ If("unpieced", up.sent < full) \subseteq more
    BY DEF If, Quirks
  <2>3. full \in Nat /\ full > 0 /\ full >= up.sent
    BY <1>1, <2>1 DEF ThoughtIs
  <2>. QED
    BY <2>1, <2>2, <2>3
<1>3. PICK unpieced : unpieced = (up.sent < full)
  OBVIOUS
<1>4. ~unpieced /\ InPieces
  <2>1. If("unpieced", unpieced) \subseteq more /\ "thought" \in {"thought", "text", "call", "image"}
    BY <1>2, <1>3
  <2>. QED
    BY <1>2, <2>1, AllInPieces
<1>5. full = up.sent /\ up.item = "thought"
  <2>1. unpieced = (up.sent < full)
    BY <1>3
  <2>2. ~unpieced
    BY <1>4
  <2>3. ~(up.sent < full)
    BY <2>1, <2>2, Zenon
  <2>4. full \in Nat /\ full > 0 /\ full >= up.sent
    BY <1>2
  <2>. QED
    BY <1>1, <2>3, <2>4
<1>6. Follows /\ Numbered(claude)
  BY <1>1, <1>4, InOrder DEF Orderly
<1>7. Passes(claude', claude, 0, 0)
  BY <1>1, <1>6, ThinkingEnds DEF Follows
<1>8. EndsAs("thought", full) /\ "thought" \in {"thought", "text", "call", "image"}
  BY <1>5 DEF EndsAs
<1>. QED
  BY <1>1, <1>2, <1>7, <1>8, EndedPassed

LEMMA ThoughtEndsPassed == ASSUME ChatInv, Paired, Paired', Passed, InPieces', ThoughtEnds PROVE Passed'
<1>1. /\ up.sent \in Nat /\ up.part \in Nat /\ claude \in Claude /\ (up.part > 0 => up.sent <= up.part)
      /\ up.at = "on" /\ up.item = "thought" /\ claude' = claude
      /\ Finished("thought", Hand, If("unpieced", up.sent < Hand))
  BY BothType DEF ChatInv, ChatTyped, Thinking, ThoughtEnds, At, Hand
<1>2. PICK full \in Nat, more \in SUBSET Quirks :
        full >= up.sent /\ Finished("thought", full, more) /\ If("unpieced", up.sent < full) \subseteq more
  <2>1. Hand \in Nat /\ Hand >= up.sent
    BY <1>1 DEF Hand
  <2>2. If("unpieced", up.sent < Hand) \in SUBSET Quirks
    BY DEF If, Quirks
  <2>. QED
    BY <1>1, <2>1, <2>2
<1>3. PICK unpieced : unpieced = (up.sent < full)
  OBVIOUS
<1>4. ~unpieced
  <2>1. If("unpieced", unpieced) \subseteq more /\ "thought" \in {"thought", "text", "call", "image"}
    BY <1>2, <1>3
  <2>. QED
    BY <1>2, <2>1, AllInPieces
<1>5. full = up.sent
  <2>1. unpieced = (up.sent < full)
    BY <1>3
  <2>2. ~unpieced
    BY <1>4
  <2>3. ~(up.sent < full)
    BY <2>1, <2>2, Zenon
  <2>4. full \in Nat /\ full >= up.sent
    BY <1>2
  <2>. QED
    BY <1>1, <2>3, <2>4
<1>6. Passes(claude', claude, 0, 0)
  BY <1>1, NothingPassed
<1>7. EndsAs("thought", full) /\ "thought" \in {"thought", "text", "call", "image"}
  BY <1>1, <1>5 DEF EndsAs
<1>. QED
  BY <1>1, <1>2, <1>6, <1>7, EndedPassed

LEMMA TextDonePassed == ASSUME ChatInv, Paired, Paired', Passed, TextDone PROVE Passed'
<1>1. /\ up.sent \in Nat /\ claude \in Claude /\ up.at = "on" /\ up.item = "text" /\ claude' = claude
      /\ Finished("text", up.sent, {})
  BY BothType DEF TextDone, At
<1>2. PICK n \in Nat : n = up.sent
  BY <1>1
<1>3. Passes(claude', claude, 0, 0) /\ Finished("text", n, {}) /\ {} \in SUBSET Quirks
  BY <1>1, <1>2, NothingPassed
<1>4. EndsAs("text", n) /\ "text" \in {"thought", "text", "call", "image"}
  BY <1>1, <1>2 DEF EndsAs
<1>. QED
  BY <1>1, <1>3, <1>4, EndedPassed

LEMMA ImagePassed == ASSUME ChatInv, Paired, Paired', Passed, Image PROVE Passed'
<1>1. /\ claude \in Claude /\ up.at = "on" /\ up.item = "none" /\ claude' = claude
      /\ Finished("image", 1, {})
  BY BothType DEF Image, Between, At
<1>2. Passes(claude', claude, 0, 0) /\ 1 \in Nat /\ {} \in SUBSET Quirks
  BY <1>1, NothingPassed
<1>3. EndsAs("image", 1) /\ "image" \in {"thought", "text", "call", "image"}
  BY <1>1 DEF EndsAs
<1>. QED
  BY <1>1, <1>2, <1>3, EndedPassed

LEMMA CallDonePassed == ASSUME ChatInv, Paired, Paired', Passed, InPieces', CallDone PROVE Passed'
<1>1. /\ up.sent \in Nat /\ claude \in Claude /\ up.at = "on" /\ up.item \in {"none", "call"} /\ claude' = claude
  BY BothType DEF CallDone, Between, At
<1>2. PICK n \in Nat, more \in SUBSET Quirks :
        /\ Finished("call", n, more) /\ If("unpieced", up.item # "call") \subseteq more
        /\ up.item = "call" => n = up.sent
  <2>1. PICK n \in (IF up.item = "call" THEN {up.sent} ELSE 1..MaxPieces) :
          Finished("call", n, If("unpieced", up.item # "call"))
    BY DEF CallDone
  <2>2. n \in Nat /\ (up.item = "call" => n = up.sent)
    BY <1>1, <2>1
  <2>3. If("unpieced", up.item # "call") \in SUBSET Quirks
    BY DEF If, Quirks
  <2>. QED
    BY <2>1, <2>2, <2>3
<1>3. PICK unpieced : unpieced = (up.item # "call")
  OBVIOUS
<1>4. ~unpieced
  <2>1. If("unpieced", unpieced) \subseteq more /\ "call" \in {"thought", "text", "call", "image"}
    BY <1>2, <1>3
  <2>. QED
    BY <1>2, <2>1, AllInPieces
<1>5. Passes(claude', claude, 0, 0)
  BY <1>1, NothingPassed
<1>6. EndsAs("call", n) /\ "call" \in {"thought", "text", "call", "image"}
  BY <1>2, <1>3, <1>4 DEF EndsAs
<1>. QED
  BY <1>1, <1>2, <1>5, <1>6, EndedPassed

LEMMA CalledPassed == ASSUME ChatInv, Paired, Paired', Passed, InPieces, Called PROVE Passed'
<1>1. /\ up \in Upstream /\ (up.item = "none" => up.sent = 0) /\ claude \in Claude /\ out \in Seq(Item)
      /\ Calls \in Seq(Item)
  BY BothType
<1>2. /\ up.at = "on" /\ up.item = "none" /\ out' = out
      /\ up' = [up EXCEPT !.item = "call", !.texted = FALSE] /\ claude' = ClaudeCalled(claude)
  BY DEF Called, Between, At
<1>3. up'.at = "on" /\ up'.item = "call" /\ up'.sent = 0
  BY <1>1, <1>2 DEF Upstream
<1>4. Follows /\ Numbered(claude)
  BY <1>2, InOrder DEF Orderly
<1>5. PICK e \in Claude : Passes(e, claude, 0, 0) /\ CallBegun(claude', e)
  BY <1>2, <1>4, CalledPasses DEF Follows
<1>6. Calls' = Calls /\ \A K : Pieces(K)' = Pieces(K)
  BY <1>1, <1>2, SameItems
<1>7. /\ CallBlocks(claude) \in Seq(Block) /\ CallBlocks(e) \in Seq(Block)
      /\ Has(claude, "text") \in Nat /\ Has(claude, "thought") \in Nat
  BY <1>1, MessageType
<1>8. BlocksAre(CallBlocks(e), Calls, FALSE, 0)
  <2>1. BlocksAre(CallBlocks(claude), Calls, FALSE, 0)
    BY <1>2 DEF Passed, Matching
  <2>. QED
    BY <1>5, <1>7, <2>1, BlocksKept DEF Passes
<1>9. BlocksAre(CallBlocks(claude'), Calls, TRUE, 0)
  <2>1. PICK b \in Block : b.n = 0 /\ CallBlocks(claude') = Append(CallBlocks(e), b)
    BY <1>5 DEF CallBegun
  <2>2. BlocksAre(Append(CallBlocks(e), b), Calls, TRUE, 0)
    BY <1>1, <1>7, <1>8, <2>1, BlockBegins
  <2>. QED
    BY <2>1, <2>2
<1>10. Has(claude', "text") = Has(claude, "text") /\ Has(claude', "thought") = Has(claude, "thought")
  BY <1>5, <1>7 DEF Passes, CallBegun
<1>11. SentOf("text")' = SentOf("text") /\ SentOf("thought")' = SentOf("thought")
  BY <1>2, <1>3 DEF SentOf
<1>12. Matching'
  BY <1>2, <1>3, <1>6, <1>9, <1>10, <1>11 DEF Passed, Matching
<1>. QED
  BY <1>3, <1>12, Unstopped DEF Passed

LEMMA ArgsPassed == ASSUME ChatInv, Paired, Paired', Passed, InPieces, Args PROVE Passed'
<1>1. /\ up \in Upstream /\ up.sent \in Nat /\ claude \in Claude /\ out \in Seq(Item) /\ Calls \in Seq(Item)
  BY BothType
<1>2. /\ up.at = "on" /\ up.item = "call" /\ ~up.done /\ out' = out
      /\ up' = [up EXCEPT !.sent = @ + 1] /\ claude' = ClaudeArgs(claude)
  BY DEF Args, At
<1>3. up'.at = "on" /\ up'.item = "call" /\ up'.sent = up.sent + 1
  BY <1>1, <1>2 DEF Upstream
<1>4. Numbered(claude) /\ OpenKind(claude) = "call"
  BY <1>2, InOrder DEF Orderly, Follows
<1>5. ArgsAdded(claude', claude)
  BY <1>2, <1>4, ArgsPass
<1>6. Calls' = Calls /\ \A K : Pieces(K)' = Pieces(K)
  BY <1>1, <1>2, SameItems
<1>7. BlocksAre(CallBlocks(claude'), Calls, TRUE, up.sent + 1)
  <2>1. PICK s \in Seq(Block), l \in Block, b \in Block :
          CallBlocks(claude) = Append(s, l) /\ CallBlocks(claude') = Append(s, b) /\ b.n = l.n + 1
    BY <1>5 DEF ArgsAdded
  <2>2. BlocksAre(Append(s, l), Calls, TRUE, up.sent)
    BY <1>2, <2>1 DEF Passed, Matching
  <2>3. BlocksAre(Append(s, b), Calls, TRUE, up.sent + 1)
    BY <1>1, <2>1, <2>2, BlockGoesOn
  <2>. QED
    BY <2>1, <2>3
<1>8. SentOf("text")' = SentOf("text") /\ SentOf("thought")' = SentOf("thought")
  BY <1>2, <1>3 DEF SentOf
<1>9. Matching'
  BY <1>2, <1>3, <1>5, <1>6, <1>7, <1>8 DEF Passed, Matching, ArgsAdded
<1>. QED
  BY <1>3, <1>9, Unstopped DEF Passed

LEMMA ArgsDonePassed == ASSUME ChatInv, Paired, Paired', Passed, InPieces', ArgsDone PROVE Passed'
<1>1. up \in Upstream /\ up.sent \in Nat
  BY BothType
<1>2. up.at = "on" /\ up.item = "call" /\ ~up.done /\ out' = out /\ claude' = ClaudeArgsDone(claude)
  BY DEF ArgsDone, At
<1>3. PICK all, q :
        /\ up' = [up EXCEPT !.sent = all, !.done = TRUE, !.quirks = q]
        /\ q = up.quirks \cup If("unpieced", up.sent < all)
        /\ up.sent > 0 => all = up.sent
        /\ all \in Nat /\ all > 0
  <2>1. PICK all \in (IF up.sent > 0 THEN {up.sent} ELSE 1..MaxPieces) :
          up' = [up EXCEPT !.sent = all, !.done = TRUE, !.quirks = @ \cup If("unpieced", up.sent < all)]
    BY DEF ArgsDone
  <2>2. all \in Nat /\ all > 0 /\ (up.sent > 0 => all = up.sent)
    BY <1>1, <2>1
  <2>. QED
    BY <2>1, <2>2
<1>4. up'.at = "on" /\ up'.item = up.item /\ up'.sent = all /\ up'.quirks = q
  BY <1>1, <1>2, <1>3 DEF Upstream
<1>5. InPieces /\ ~(up.sent < all)
  BY <1>3, <1>4 DEF InPieces, If
<1>6. up'.sent = up.sent
  BY <1>1, <1>3, <1>4, <1>5
<1>7. Numbered(claude) /\ OpenKind(claude) = "call"
  BY <1>2, <1>5, InOrder DEF Orderly, Follows
<1>8. Passes(claude', claude, 0, 0)
  BY <1>2, <1>7, ArgsDonePass
<1>9. Matching'
  BY <1>2, <1>4, <1>6, <1>8, MatchingKept DEF Passed
<1>. QED
  BY <1>4, <1>9, Unstopped DEF Passed

LEMMA OverPassed ==
  ASSUME ChatInv, Paired, Paired', Passed, InPieces, Completed \/ BrokenOff \/ ReadFails PROVE Passed'
<1>1. up \in Upstream /\ claude \in Claude /\ claude' \in Claude
  BY BothType DEF Paired, Standing
<1>2. out' = out /\ (up' = [up EXCEPT !.at = "over"] \/ up' = [up EXCEPT !.at = "failed"])
  BY DEF Completed, BrokenOff, ReadFails
<1>3. up'.item = up.item /\ up'.sent = up.sent
  BY <1>1, <1>2 DEF Upstream
<1>4. Passes(claude', claude, 0, 0) /\ (claude'.stops > 0 => claude'.reason # "none")
  <2>1. CASE Completed
    <3>1. Follows /\ Numbered(claude) /\ claude' = ClaudeCompleted(claude)
      BY <2>1, InOrder DEF Completed, Between, At, Orderly
    <3>. QED
      BY <1>1, <3>1, CompletedPasses DEF Follows
  <2>2. CASE BrokenOff /\ up.at = "on"
    <3>1. Follows /\ Numbered(claude) /\ claude' = ClaudeClosed(claude) /\ claude.begun > 0
      BY <2>2, InOrder DEF BrokenOff, Orderly, Paired, Standing
    <3>. QED
      BY <1>1, <3>1, ClosedPasses DEF Follows
  <2>3. CASE BrokenOff /\ up.at = "before"
    <3>1. claude = BeginClaude /\ claude' = ClaudeClosed(claude)
      BY <2>3 DEF BrokenOff, Paired, Standing
    <3>2. claude.begun = 0 /\ claude.has = FALSE /\ claude.stops = 0
      BY <3>1 DEF BeginClaude
    <3>3. claude' = claude
      BY <3>1, <3>2 DEF ClaudeClosed
    <3>. QED
      BY <1>1, <3>2, <3>3, NothingPassed
  <2>4. CASE ReadFails
    <3>1. claude' = claude
      BY <2>4 DEF ReadFails
    <3>. QED
      BY <1>1, <3>1, NothingPassed DEF Passed
  <2>5. BrokenOff => up.at = "on" \/ up.at = "before"
    BY <1>1 DEF BrokenOff, Upstream
  <2>. QED
    BY <2>1, <2>2, <2>3, <2>4, <2>5
<1>5. Matching'
  BY <1>2, <1>3, <1>4, MatchingKept DEF Passed
<1>. QED
  BY <1>4, <1>5 DEF Passed

LEMMA NothingYet ==
  /\ Has(BeginClaude, "text") = 0 /\ Has(BeginClaude, "thought") = 0 /\ CallBlocks(BeginClaude) = << >>
  /\ BeginClaude.stops = 0 /\ BlocksAre(<< >>, << >>, FALSE, 0)
<1>1. BeginClaude.blocks = << >> /\ BeginClaude.stops = 0
  BY DEF BeginClaude
<1>2. DOMAIN << >> = {} /\ Len(<< >>) = 0
  OBVIOUS
<1>3. BlocksAre(<< >>, << >>, FALSE, 0)
  BY <1>2 DEF BlocksAre
<1>. QED
  BY <1>1, <1>3, NothingTold DEF Has, CallBlocks

LEMMA InitPassed == ASSUME EventsInit PROVE Passed
<1>1. up = BeginUp /\ out = << >> /\ claude = BeginClaude
  BY DEF EventsInit
<1>2. Calls = << >> /\ Pieces({"text"}) = 0 /\ Pieces({"thought"}) = 0 /\ up.item = "none"
  BY <1>1, NothingTold DEF Calls, Pieces, BeginUp
<1>3. SentOf("text") = 0 /\ SentOf("thought") = 0
  BY <1>2 DEF SentOf
<1>4. Has(claude, "text") = 0 /\ Has(claude, "thought") = 0 /\ CallBlocks(claude) = << >> /\ claude.stops = 0
  BY <1>1, NothingYet
<1>5. BlocksAre(CallBlocks(claude), Calls, FALSE, 0)
  BY <1>2, <1>4, NothingYet
<1>6. Matching
  <2>1. Has(claude, "text") = 0 /\ Has(claude, "thought") = 0
    BY <1>4
  <2>2. up.item # "call" /\ Pieces({"text"}) = 0 /\ Pieces({"thought"}) = 0
    BY <1>2
  <2>3. Has(claude, "text") = Pieces({"text"}) + SentOf("text")
    BY <1>3, <2>1, <2>2
  <2>4. Has(claude, "thought") = Pieces({"thought"}) + SentOf("thought")
    BY <1>3, <2>1, <2>2
  <2>5. /\ up.item = "call" => BlocksAre(CallBlocks(claude), Calls, TRUE, up.sent)
        /\ up.item # "call" => BlocksAre(CallBlocks(claude), Calls, FALSE, 0)
    BY <1>5, <2>2
  <2>. QED
    BY <2>3, <2>4, <2>5 DEF Matching
<1>. QED
  BY <1>4, <1>6 DEF Passed

LEMMA NextResponsePassed == ASSUME NextResponse PROVE Passed'
<1>1. up' = BeginUp /\ out' = << >> /\ claude' = BeginClaude
  BY DEF NextResponse
<1>2. Calls' = << >> /\ Pieces({"text"})' = 0 /\ Pieces({"thought"})' = 0 /\ up'.item = "none"
  BY <1>1, NothingTold DEF Calls, Pieces, BeginUp
<1>3. SentOf("text")' = 0 /\ SentOf("thought")' = 0
  BY <1>2 DEF SentOf
<1>4. Has(claude', "text") = 0 /\ Has(claude', "thought") = 0 /\ CallBlocks(claude') = << >> /\ claude'.stops = 0
  BY <1>1, NothingYet
<1>5. BlocksAre(CallBlocks(claude'), Calls', FALSE, 0)
  BY <1>2, <1>4, NothingYet
<1>6. Matching'
  <2>1. Has(claude', "text") = 0 /\ Has(claude', "thought") = 0
    BY <1>4
  <2>2. up'.item # "call" /\ Pieces({"text"})' = 0 /\ Pieces({"thought"})' = 0
    BY <1>2
  <2>3. Has(claude', "text") = Pieces({"text"})' + SentOf("text")'
    BY <1>3, <2>1, <2>2
  <2>4. Has(claude', "thought") = Pieces({"thought"})' + SentOf("thought")'
    BY <1>3, <2>1, <2>2
  <2>5. /\ up'.item = "call" => BlocksAre(CallBlocks(claude'), Calls', TRUE, up'.sent)
        /\ up'.item # "call" => BlocksAre(CallBlocks(claude'), Calls', FALSE, 0)
    BY <1>5, <2>2
  <2>. QED
    BY <2>3, <2>4, <2>5 DEF Matching
<1>. QED
  BY <1>4, <1>6 DEF Passed

LEMMA StillInPieces ==
  ASSUME ChatInv, EventsNext, ~NextResponse, InPieces'
  PROVE  InPieces
<1>1. up \in Upstream /\ ChatTyped
  BY DEF ChatInv, ChatTyped
<1>2. ASSUME NEW kind \in {"thought", "text", "call", "image"}, NEW n, NEW more, Finished(kind, n, more) PROVE InPieces
  BY <1>1, <1>2 DEF Finished, InPieces, Upstream
<1>3. CASE Created \/ Text \/ Called \/ Args \/ Completed \/ BrokenOff \/ ReadFails
  <2>1. up'.quirks = up.quirks
    BY <1>1, <1>3 DEF Created, Text, Called, Args, Completed, BrokenOff, ReadFails, Upstream
  <2>. QED
    BY <2>1 DEF InPieces
<1>4. CASE Thought \/ PartAdded \/ ArgsDone
  <2>1. up.quirks \subseteq up'.quirks
    <3>1. CASE Thought
      <4>1. PICK summary \in (IF up.item = "thought" THEN {up.summary} ELSE BOOLEAN) :
              up' = [up EXCEPT !.item = "thought", !.sent = @ + 1, !.summary = summary,
                     !.quirks = @ \cup If("summed", summary) \cup If("astray", up.texted)
                                  \cup If("beside", up.part > 0)]
        BY <3>1 DEF Thought
      <4>. QED
        BY <1>1, <4>1 DEF Upstream, If
    <3>2. CASE PartAdded
      <4>1. PICK n, q :
              /\ up' = [up EXCEPT !.item = "thought", !.part = n, !.summary = FALSE, !.quirks = q]
              /\ up.quirks \subseteq q
        BY <3>2 DEF PartAdded
      <4>. QED
        BY <1>1, <4>1 DEF Upstream
    <3>3. CASE ArgsDone
      <4>1. PICK all, q : up' = [up EXCEPT !.sent = all, !.done = TRUE, !.quirks = q] /\ up.quirks \subseteq q
        BY <3>3 DEF ArgsDone
      <4>. QED
        BY <1>1, <4>1 DEF Upstream
    <3>. QED
      BY <1>4, <3>1, <3>2, <3>3
  <2>. QED
    BY <2>1 DEF InPieces
<1>5. CASE ThoughtDone
  BY <1>2, <1>5 DEF ThoughtDone
<1>6. CASE ThoughtEnds
  BY <1>2, <1>6 DEF ThoughtEnds
<1>7. CASE TextDone \/ Image \/ CallDone
  BY <1>2, <1>7 DEF TextDone, Image, CallDone
<1>. QED
  BY <1>3, <1>4, <1>5, <1>6, <1>7 DEF EventsNext

LEMMA PassedHolds == EventsSpec => [](InPieces => Passed)
<1>1. EventsInit => Passed
  BY InitPassed
<1>2. ChatInv /\ Paired /\ Paired' /\ (InPieces => Passed) /\ [EventsNext]_eventVars => (InPieces => Passed)'
  <2>. SUFFICES ASSUME ChatInv, Paired, Paired', InPieces => Passed, [EventsNext]_eventVars, InPieces'
                PROVE  Passed'
    OBVIOUS
  <2>1. CASE UNCHANGED eventVars
    BY <2>1 DEF eventVars, InPieces, Passed, Matching, Has, CallBlocks, Pieces, SentOf, Calls
  <2>2. CASE NextResponse
    BY <2>2, NextResponsePassed
  <2>3. CASE EventsNext /\ ~NextResponse
    <3>1. InPieces /\ Passed
      BY <2>3, StillInPieces
    <3>2. CASE Created \/ Thought \/ PartAdded \/ ThoughtDone \/ ThoughtEnds \/ Text
      BY <3>1, <3>2, CreatedPassed, ThoughtPassed, PartAddedPassed, ThoughtDonePassed, ThoughtEndsPassed, TextPassed
    <3>3. CASE TextDone \/ Image \/ Called \/ Args \/ ArgsDone \/ CallDone
      BY <3>1, <3>3, TextDonePassed, ImagePassed, CalledPassed, ArgsPassed, ArgsDonePassed, CallDonePassed
    <3>4. CASE Completed \/ BrokenOff \/ ReadFails
      BY <3>1, <3>4, OverPassed
    <3>. QED
      BY <2>3, <3>2, <3>3, <3>4 DEF EventsNext
  <2>. QED
    BY <2>1, <2>2, <2>3
<1>. QED
  BY <1>1, <1>2, ChatHolds, StreamHolds, PTL DEF EventsSpec

\* A message has a block of a call if it has blocks of calls.
LEMMA CallOrNone ==
  ASSUME NEW c, c \in Claude
  PROVE  HasCall(c) <=> CallBlocks(c) # << >>
<1>. DEFINE call(s) == \E k \in DOMAIN s : s[k].kind = "call"
            S == {s \in Seq(Block) : call(s) <=> Kind(s, {"call"}) # << >>}
<1>1. << >> \in S
  <2>1. Kind(<< >>, {"call"}) = << >>
    BY KindEmpty
  <2>. QED
    BY <2>1
<1>2. \A s \in Seq(Block), x \in Block : s \in S => Append(s, x) \in S
  <2>. SUFFICES ASSUME NEW s \in Seq(Block), NEW x \in Block, s \in S PROVE Append(s, x) \in S
    OBVIOUS
  <2>1. /\ Len(s) \in Nat /\ DOMAIN s = 1..Len(s) /\ DOMAIN Append(s, x) = 1..Len(s) + 1
        /\ Append(s, x)[Len(s) + 1] = x /\ \A k \in 1..Len(s) : Append(s, x)[k] = s[k]
        /\ Len(s) + 1 \in 1..Len(s) + 1 /\ \A k \in 1..Len(s) + 1 : k = Len(s) + 1 \/ k \in 1..Len(s)
        /\ \A k \in 1..Len(s) : k \in 1..Len(s) + 1
    OBVIOUS
  <2>2. call(Append(s, x)) <=> call(s) \/ x.kind = "call"
    BY <2>1
  <2>3. Append(s, x) \in Seq(Block) /\ Kind(s, {"call"}) \in Seq(Block)
    BY BlockAdded
  <2>4. CASE x.kind = "call"
    <3>1. Kind(Append(s, x), {"call"}) = Append(Kind(s, {"call"}), x)
      BY <2>4, BlockAdded
    <3>2. Append(Kind(s, {"call"}), x) # << >>
      BY <2>3
    <3>. QED
      BY <2>2, <2>3, <2>4, <3>1, <3>2
  <2>5. CASE x.kind # "call"
    <3>1. Kind(Append(s, x), {"call"}) = Kind(s, {"call"})
      BY <2>5, BlockAdded
    <3>. QED
      BY <2>2, <2>3, <2>5, <3>1
  <2>. QED
    BY <2>4, <2>5
<1>3. Seq(Block) \subseteq S
  <2>. HIDE DEF S
  <2>. QED
    BY <1>1, <1>2, Appending
<1>. QED
  BY <1>3 DEF HasCall, CallBlocks, Claude

\* claude.go:344, 447, 460: what came in pieces, with no thought after a text but for a call
\* announced between, the Claude client's blocks have between two items as a client without
\* a stream will get it, however many items there are and however long.
THEOREM PiecesArePassedOn == EventsSpec => []ClaudeWhole
<1>1. ChatInv /\ Paired /\ (InPieces => Passed) => ClaudeWhole
  <2>. SUFFICES ASSUME ChatInv, Paired, Passed, InPieces, up.item = "none"
                PROVE  LET whole == ClaudeNonStreamOf(out)
                       IN /\ Count(Filled("text")) = whole.text
                          /\ Count(Filled("thought")) = whole.thought
                          /\ [k \in DOMAIN Filled("call") |-> Filled("call")[k].n] = [k \in DOMAIN Calls |-> Calls[k].n]
                          /\ claude.stops = 1 => claude.reason = whole.reason
    BY DEF ClaudeWhole, InPieces
  <2>1. /\ claude \in Claude /\ Calls \in Seq(Item) /\ (\A K : Pieces(K) \in Nat)
        /\ CallBlocks(claude) \in Seq(Block)
    BY BothType
  <2>2. SentOf("text") = 0 /\ SentOf("thought") = 0
    BY DEF SentOf
  <2>3. Count(Filled("text")) = Pieces({"text"})
    BY <2>1, <2>2 DEF Passed, Matching, Filled, Has
  <2>4. Count(Filled("thought")) = Pieces({"thought"})
    BY <2>1, <2>2 DEF Passed, Matching, Filled, Has
  <2>5. BlocksAre(Filled("call"), Calls, FALSE, 0) /\ Filled("call") \in Seq(Block)
    BY <2>1 DEF Passed, Matching, Filled, CallBlocks
  <2>6. DOMAIN Filled("call") = DOMAIN Calls /\ \A k \in DOMAIN Calls : Filled("call")[k].n = Calls[k].n
    BY <2>1, <2>5 DEF BlocksAre
  <2>7. [k \in DOMAIN Filled("call") |-> Filled("call")[k].n] = [k \in DOMAIN Calls |-> Calls[k].n]
    BY <2>6
  <2>8. ASSUME claude.stops = 1 PROVE claude.reason = IF Calls = << >> THEN "end_turn" ELSE "tool_use"
    <3>1. claude.reason \in {"end_turn", "tool_use"}
      BY <2>1, <2>8 DEF Passed, Claude
    <3>2. claude.reason = "tool_use" <=> HasCall(claude)
      BY <2>8 DEF Paired, Standing
    <3>3. HasCall(claude) <=> Calls # << >>
      <4>1. HasCall(claude) <=> CallBlocks(claude) # << >>
        BY <2>1, CallOrNone
      <4>2. Len(CallBlocks(claude)) = Len(Calls)
        BY <2>1, <2>5 DEF BlocksAre, Filled, CallBlocks
      <4>. QED
        BY <2>1, <4>1, <4>2
    <3>. QED
      BY <3>1, <3>2, <3>3
  <2>. QED
    BY <2>3, <2>4, <2>7, <2>8 DEF ClaudeNonStreamOf, Pieces, Calls
<1>. QED
  BY <1>1, ChatHolds, StreamHolds, PassedHolds, PTL

=============================================================================
