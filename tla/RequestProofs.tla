------------------------------ MODULE RequestProofs ------------------------------
(***************************************************************************)
(* Proofs about the way of a request.                                      *)
(*                                                                         *)
(* RequestRetry, for any accounts, max-retry, number of picks per round    *)
(* and size of the fan-out: the attempts of a request are bounded and its  *)
(* outcome is final (it implements AttemptBudget), a round picks no        *)
(* account twice, and no answer of the fan-out leaks.  The budget joins    *)
(* two countings: that of the rounds, by their number, and that of the     *)
(* fan-out, by the goroutines that have sent, which go on sending while    *)
(* the request has moved on.                                               *)
(*                                                                         *)
(* RequestTranslation, for any tools with any names, any limit of their    *)
(* length, and conversations of any length: a client is told its own names *)
(* again, the calls of earlier turns come to the upstream under the names  *)
(* it is told now, and the whole conversation comes to it, once and in     *)
(* order.  The short names of tools differ since there are more numbers    *)
(* to try than names that are taken; what a translation does to a          *)
(* conversation follows from what it does to each message, whose blocks    *)
(* keep their places.                                                      *)
(***************************************************************************)
EXTENDS RequestRetry, RequestTranslation, FiniteSetTheorems, WellFoundedInduction, TLAPS

Requests == [at : Places, attempt : 0..(MaxRetry + 1), looks : 0..MaxLooks,
             acc : Accounts \cup {NoAcct}, err : Errors, quota : BOOLEAN,
             turn : 0..FanOut, skip : SUBSET Accounts]
Teams == [Slots -> [acc : Accounts \cup {NoAcct}, is : Flights]]
Outcomes == [kind : {"open", "answered", "refused", "failed"}, slot : 0..FanOut]

Typed ==
  /\ world \in Worlds /\ req \in Requests /\ excluded \in SUBSET Accounts /\ team \in Teams
  /\ cut \in BOOLEAN /\ spent \in Nat /\ tried \in SUBSET Accounts /\ outcome \in Outcomes

Choosing == {"pick", "check", "fresh", "send"}
Rounds   == Choosing \cup {"asked"}
Over     == {"fall", "lastSend", "lastAsked", "done"}

\* The loop's counters.
Looping ==
  /\ req.at \in Rounds => req.attempt <= MaxRetry
  /\ req.at \in Choosing => req.looks < MaxLooks

\* The fan-out: nobody before it is gathered, everybody waits until it flies, and
\* when the request has moved on its context is cancelled.
Crew ==
  /\ req.at \in Rounds \cup {"after"} => \A i \in Slots : team[i].is = "none"
  /\ req.at \in {"gather", "regather"} =>
       Cardinality(Members) <= req.turn /\ \A i \in Slots : team[i].is \in {"none", "ready"}
  /\ req.at \in Over => cut \/ \A i \in Slots : team[i].is = "none"
  /\ \A i \in Slots : team[i].is # "none" => team[i].acc \in Accounts

\* What can only be after something was sent.
Prior ==
  /\ req.quota \/ req.err = "refused" \/ req.at \in {"asked", "lastAsked"} => spent > 0
  /\ req.at \in {"gather", "regather", "fly"} \/ Members # {} => req.quota

\* Who has sent, or was cancelled before it could.
Sent == {i \in Slots : team[i].is \notin {"none", "ready"}}

RoundsSpent ==
  IF req.at \in Choosing THEN req.attempt ELSE IF req.at = "asked" THEN req.attempt + 1 ELSE MaxRetry + 1
LastSpent == IF req.at \in {"lastAsked", "done"} THEN 1 ELSE 0

Counted == spent <= RoundsSpent + Cardinality(Sent) + LastSpent

\* The exclusions of the rounds.
Exclusive ==
  /\ req.at \in Choosing => tried \subseteq excluded
  /\ req.at = "asked" => tried \subseteq excluded \cup {req.acc}
  /\ ~world.healthy /\ ~world.stale /\ req.at \in {"check", "fresh", "send"} => req.acc \notin excluded

Settled == outcome.kind # "open" <=> req.at = "done"

\* The account at hand.
Picked == req.at \in {"check", "fresh", "send", "asked"} => req.acc \in Accounts

Inv == Typed /\ Picked /\ Looping /\ Crew /\ Prior /\ Counted /\ Exclusive /\ Settled

LEMMA Numbers == MaxRetry \in Nat /\ MaxLooks \in Nat \ {0} /\ FanOut \in Nat \ {0} /\ NoAcct \notin Accounts
BY RetryAssumption DEF NoAcct

LEMMA SlotsFinite ==
  /\ IsFiniteSet(Slots) /\ Cardinality(Slots) = FanOut
<1>1. FanOut \in Nat
  BY Numbers
<1>2. 1 \in Int /\ FanOut \in Int /\ (IF 1 > FanOut THEN 0 ELSE FanOut - 1 + 1) = FanOut
  BY <1>1
<1> QED
  BY <1>2, FS_Interval DEF Slots

LEMMA Crowds ==
  /\ IsFiniteSet(Members) /\ Cardinality(Members) \in Nat /\ Cardinality(Members) <= FanOut
  /\ IsFiniteSet(Sent) /\ Cardinality(Sent) \in Nat /\ Cardinality(Sent) <= FanOut
<1>1. Members \subseteq Slots /\ Sent \subseteq Slots
  BY DEF Members, Sent
<1> QED
  BY <1>1, SlotsFinite, FS_Subset, FS_CardinalityType

LEMMA Nobody ==
  ASSUME \A i \in Slots : team[i].is = "none"
  PROVE  Members = {} /\ Cardinality(Members) = 0 /\ Sent = {} /\ Cardinality(Sent) = 0
<1>1. Members = {} /\ Sent = {}
  BY DEF Members, Sent
<1> QED
  BY <1>1, FS_EmptySet

LEMMA Waiting ==
  ASSUME \A i \in Slots : team[i].is \in {"none", "ready"}
  PROVE  Sent = {} /\ Cardinality(Sent) = 0
<1>1. Sent = {}
  BY DEF Sent
<1> QED
  BY <1>1, FS_EmptySet

-----------------------------------------------------------------------------
LEMMA BeginType == Begin \in Requests /\ Empty \in Teams /\ Open \in Outcomes
BY Numbers DEF Begin, Requests, Places, Errors, Empty, Teams, Flights, Open, Outcomes, NoAcct

\* Where every request starts.
Beginning ==
  /\ req = Begin /\ team = Empty /\ excluded = {} /\ cut = FALSE /\ spent = 0 /\ tried = {}
  /\ outcome = Open /\ world \in Worlds

LEMMA BeginningInv == Beginning => Inv
<1> SUFFICES ASSUME Beginning PROVE Inv
  OBVIOUS
<1>1. Typed
  BY BeginType DEF Typed, Beginning
<1>2. \A i \in Slots : team[i].is = "none"
  BY DEF Empty, Beginning
<1>3. req.at = "pick" /\ req.attempt = 0 /\ req.looks = 0 /\ req.err = "none" /\ req.quota = FALSE
  BY DEF Begin, Beginning
<1>4. Picked /\ Looping /\ Crew /\ Exclusive
  BY <1>2, <1>3, Numbers DEF Beginning, Picked, Looping, Crew, Exclusive, Rounds, Choosing, Over
<1>5. Prior
  BY <1>2, <1>3, Nobody DEF Beginning, Prior
<1>6. Counted
  BY <1>2, <1>3, Nobody DEF Beginning, Counted, RoundsSpent, LastSpent, Choosing
<1>7. Settled
  BY <1>3 DEF Beginning, Settled, Open
<1> QED
  BY <1>1, <1>4, <1>5, <1>6, <1>7 DEF Inv

LEMMA InitInv == Init => Inv
BY BeginningInv DEF Init, Beginning

-----------------------------------------------------------------------------
\* What the steps set.
LEMMA SameTeam ==
  ASSUME team' = team
  PROVE  Members' = Members /\ Sent' = Sent
BY DEF Members, Sent

LEMMA GotoSets ==
  ASSUME Typed, NEW s \in Places, Goto(s)
  PROVE  /\ req' \in Requests /\ req'.at = s
         /\ req'.attempt = req.attempt /\ req'.looks = req.looks /\ req'.acc = req.acc
         /\ req'.err = req.err /\ req'.quota = req.quota /\ req'.turn = req.turn
BY DEF Typed, Requests, Goto

LEMMA NextAttemptSets ==
  ASSUME NEW r \in Requests, r.attempt <= MaxRetry
  PROVE  /\ NextAttempt(r) \in Requests
         /\ NextAttempt(r).at \in {"pick", "after"}
         /\ NextAttempt(r).at = "pick" =>
              NextAttempt(r).attempt = r.attempt + 1 /\ r.attempt + 1 <= MaxRetry /\ NextAttempt(r).looks = 0
         /\ NextAttempt(r).err = r.err /\ NextAttempt(r).quota = r.quota
<1> DEFINE k == r.attempt + 1
           l == 0
           w == IF r.attempt < MaxRetry THEN "pick" ELSE "after"
<1>1. /\ k \in 0..(MaxRetry + 1) /\ l \in 0..MaxLooks /\ w \in Places /\ w \in {"pick", "after"}
      /\ w = "pick" => k <= MaxRetry
  BY Numbers DEF Requests, Places
<1>2. NextAttempt(r) = [r EXCEPT !.attempt = k, !.looks = l, !.acc = NoAcct, !.at = w]
  BY DEF NextAttempt
<1> DEFINE n == NextAttempt(r)
<1> HIDE DEF k, l, w, n
<1>3. n = [r EXCEPT !.attempt = k, !.looks = l, !.acc = NoAcct, !.at = w]
  BY <1>2 DEF n
<1>4. /\ n \in Requests /\ n.at = w /\ n.attempt = k /\ n.looks = l
      /\ n.err = r.err /\ n.quota = r.quota
  BY <1>1, <1>3 DEF Requests
<1> QED
  BY <1>1, <1>4 DEF k, l, n

\* The end of the request.
LEMMA EndsInv ==
  ASSUME Inv, NEW k \in {"answered", "refused", "failed"}, NEW i \in 0..FanOut, Ends(k, i),
         UNCHANGED << world, team, spent, tried >>, excluded' \in SUBSET Accounts, cut' \in BOOLEAN,
         cut' \/ \A j \in Slots : team[j].is = "none"
  PROVE  Inv'
<1>1. /\ req' \in Requests /\ req'.at = "done" /\ outcome' \in Outcomes /\ outcome'.kind # "open"
      /\ req'.err = req.err /\ req'.quota = req.quota
  BY GotoSets DEF Inv, Ends, Outcomes, Places
<1>2. Typed' /\ Picked' /\ Looping' /\ Crew' /\ Exclusive' /\ Settled'
  BY <1>1 DEF Inv, Typed, Picked, Looping, Crew, Exclusive, Settled, Rounds, Choosing, Over
<1>3. Prior'
  BY <1>1, SameTeam DEF Inv, Prior
<1>4. RoundsSpent \in Nat /\ RoundsSpent <= MaxRetry + 1 /\ LastSpent \in 0..1
  BY Numbers DEF Inv, Typed, Requests, Looping, Rounds, RoundsSpent, LastSpent
<1>5. RoundsSpent' = MaxRetry + 1 /\ LastSpent' = 1
  BY <1>1 DEF RoundsSpent, LastSpent, Choosing
<1>6. Counted'
  BY <1>4, <1>5, SameTeam, Crowds, Numbers DEF Inv, Typed, Counted
<1> QED
  BY <1>2, <1>3, <1>6 DEF Inv

\* A step of the rounds that sends nothing.
LEMMA RoundsOn ==
  ASSUME Inv, req.at \in Rounds, req' \in Requests, req'.at \in Choosing \cup {"after"},
         UNCHANGED << world, team, cut, spent, tried, outcome >>, excluded' \in SUBSET Accounts,
         req'.at \in Choosing =>
           /\ req'.attempt <= MaxRetry /\ req'.looks < MaxLooks
           /\ RoundsSpent <= req'.attempt
           /\ tried \subseteq excluded',
         req'.at \in {"check", "fresh", "send"} => req'.acc \in Accounts,
         req'.quota => spent > 0, req'.err # "refused" \/ req'.err = req.err,
         ~world.healthy /\ ~world.stale /\ req'.at \in {"check", "fresh", "send"} => req'.acc \notin excluded'
  PROVE  Inv'
<1>1. Typed' /\ Picked' /\ Looping' /\ Exclusive' /\ Settled'
  BY DEF Inv, Typed, Picked, Looping, Exclusive, Settled, Rounds, Choosing
<1>2. \A i \in Slots : team[i].is = "none"
  BY DEF Inv, Crew
<1>3. Crew'
  BY <1>2 DEF Crew, Rounds, Choosing, Over
<1>4. Prior'
  BY <1>2, Nobody, SameTeam DEF Inv, Prior, Choosing
<1>5. RoundsSpent \in Nat /\ RoundsSpent <= MaxRetry + 1 /\ LastSpent = 0
  BY Numbers DEF Inv, Typed, Requests, Looping, Rounds, Choosing, RoundsSpent, LastSpent
<1>6. RoundsSpent' >= RoundsSpent /\ RoundsSpent' \in Nat /\ LastSpent' = 0
  BY <1>5, Numbers DEF RoundsSpent, LastSpent, Choosing, Requests
<1>7. Counted'
  BY <1>2, <1>5, <1>6, SameTeam, Nobody DEF Inv, Typed, Counted
<1> QED
  BY <1>1, <1>3, <1>4, <1>7 DEF Inv

-----------------------------------------------------------------------------
\* The rounds.
LEMMA PickFrom ==
  ASSUME NEW up \in SUBSET Accounts, NEW a \in PickForAttempt(up)
  PROVE  /\ a \in Accounts \cup {NoAcct}
         /\ ~world.healthy /\ ~world.stale /\ a # NoAcct => a \notin excluded
BY DEF PickForAttempt, Regular, Recent, Late

LEMMA PickInv == Inv /\ Pick => Inv'
<1> SUFFICES ASSUME Inv, Pick PROVE Inv'
  OBVIOUS
<1>0. PICK up \in SUBSET Accounts : \E a \in PickForAttempt(up) :
        \/ /\ a # NoAcct
           /\ req' = [req EXCEPT !.acc = a, !.at = IF world.precheck THEN "check" ELSE "fresh"]
           /\ UNCHANGED outcome
        \/ a = NoAcct /\ req.attempt = 0 /\ Ends("failed", 0)
        \/ a = NoAcct /\ req.attempt > 0 /\ Goto("after") /\ UNCHANGED outcome
  BY DEF Pick
<1>1. PICK a \in PickForAttempt(up) :
        \/ /\ a # NoAcct
           /\ req' = [req EXCEPT !.acc = a, !.at = IF world.precheck THEN "check" ELSE "fresh"]
           /\ UNCHANGED outcome
        \/ a = NoAcct /\ req.attempt = 0 /\ Ends("failed", 0)
        \/ a = NoAcct /\ req.attempt > 0 /\ Goto("after") /\ UNCHANGED outcome
  BY <1>0
<1>2. req.at = "pick" /\ UNCHANGED << world, excluded, team, cut, spent, tried >>
  BY DEF Pick, fanVars, pastVars
<1>3. \A i \in Slots : team[i].is = "none"
  BY <1>2 DEF Inv, Crew, Rounds, Choosing
<1>4. CASE Ends("failed", 0)
  BY <1>2, <1>3, <1>4, EndsInv, Numbers DEF Inv, Typed
<1>5. CASE Goto("after") /\ UNCHANGED outcome
  <2>1. req' \in Requests /\ req'.at = "after" /\ req'.err = req.err /\ req'.quota = req.quota
    BY <1>5, GotoSets DEF Inv, Places
  <2> QED
    BY <1>2, <1>5, <2>1, RoundsOn DEF Inv, Typed, Prior, Rounds, Choosing
<1>6. CASE /\ a # NoAcct
           /\ req' = [req EXCEPT !.acc = a, !.at = IF world.precheck THEN "check" ELSE "fresh"]
           /\ UNCHANGED outcome
  <2>1. /\ req' \in Requests /\ req'.at \in {"check", "fresh"} /\ req'.acc = a
        /\ req'.attempt = req.attempt /\ req'.looks = req.looks
        /\ req'.err = req.err /\ req'.quota = req.quota
    BY <1>6, PickFrom DEF Inv, Typed, Requests, Places
  <2>2. RoundsSpent = req.attempt /\ req.attempt \in Nat
    BY <1>2, Numbers DEF RoundsSpent, Choosing, Inv, Typed, Requests
  <2>3. req.attempt <= MaxRetry /\ req.looks < MaxLooks /\ tried \subseteq excluded /\ (req.quota => spent > 0)
    BY <1>2 DEF Inv, Looping, Exclusive, Prior, Rounds, Choosing
  <2>4. ~world.healthy /\ ~world.stale => a \notin excluded
    BY <1>6, PickFrom
  <2>5. a \in Accounts /\ UNCHANGED outcome
    BY <1>6, PickFrom
  <2>6. excluded \in SUBSET Accounts
    BY DEF Inv, Typed
  <2> QED
    BY <1>2, <2>1, <2>2, <2>3, <2>4, <2>5, <2>6, RoundsOn DEF Rounds, Choosing
<1> QED
  BY <1>1, <1>4, <1>5, <1>6

LEMMA CheckInv == Inv /\ Check => Inv'
<1> SUFFICES ASSUME Inv, Check PROVE Inv'
  OBVIOUS
<1>1. req.at = "check" /\ UNCHANGED << world, team, cut, spent, tried, outcome >>
  BY DEF Check, fanVars, pastVars
<1>2. RoundsSpent = req.attempt /\ req.attempt \in Nat /\ req.looks \in Nat
  BY <1>1, Numbers DEF RoundsSpent, Choosing, Inv, Typed, Requests
<1>3. /\ req.attempt <= MaxRetry /\ req.looks < MaxLooks /\ tried \subseteq excluded /\ (req.quota => spent > 0)
      /\ excluded \in SUBSET Accounts /\ req.acc \in Accounts \cup {NoAcct}
      /\ ~world.healthy /\ ~world.stale => req.acc \notin excluded
  BY <1>1 DEF Inv, Typed, Requests, Looping, Exclusive, Prior, Rounds, Choosing
<1>4. CASE Goto("fresh") /\ UNCHANGED excluded
  <2>1. /\ req' \in Requests /\ req'.at = "fresh" /\ req'.attempt = req.attempt
        /\ req'.looks = req.looks /\ req'.acc = req.acc /\ req'.err = req.err /\ req'.quota = req.quota
    BY <1>4, GotoSets DEF Inv, Places
  <2>2. req.acc \in Accounts
    BY <1>1 DEF Inv, Picked
  <2> QED
    BY <1>1, <1>2, <1>3, <1>4, <2>1, <2>2, RoundsOn DEF Rounds, Choosing
<1>5. CASE /\ excluded' = excluded \cup {req.acc}
           /\ req' = [req EXCEPT !.acc = NoAcct, !.looks = @ + 1,
                                 !.at = IF req.looks + 1 < MaxLooks THEN "pick" ELSE "after"]
  <2>1. /\ req' \in Requests /\ req'.at \in {"pick", "after"} /\ req'.attempt = req.attempt
        /\ req'.at = "pick" => req'.looks < MaxLooks
        /\ req'.err = req.err /\ req'.quota = req.quota
    <3> DEFINE l == req.looks + 1
               w == IF req.looks + 1 < MaxLooks THEN "pick" ELSE "after"
    <3>1. l \in 0..MaxLooks /\ w \in Places /\ w \in {"pick", "after"} /\ (w = "pick" => l < MaxLooks)
      BY <1>2, <1>3, Numbers DEF Places
    <3>2. req' = [req EXCEPT !.acc = NoAcct, !.looks = l, !.at = w]
      BY <1>5
    <3> HIDE DEF l, w
    <3>3. /\ req' \in Requests /\ req'.at = w /\ req'.attempt = req.attempt /\ req'.looks = l
          /\ req'.err = req.err /\ req'.quota = req.quota
      BY <3>1, <3>2 DEF Inv, Typed, Requests
    <3> QED
      BY <3>1, <3>3
  <2>2. req.acc \in Accounts
    BY <1>1 DEF Inv, Picked
  <2>3. excluded' = excluded \cup {req.acc}
    BY <1>5
  <2> QED
    BY <1>1, <1>2, <1>3, <2>3, <2>1, <2>2, RoundsOn DEF Rounds, Choosing
<1> QED
  BY <1>4, <1>5 DEF Check

LEMMA FreshInv == Inv /\ Fresh => Inv'
<1> SUFFICES ASSUME Inv, Fresh PROVE Inv'
  OBVIOUS
<1>1. req.at = "fresh" /\ UNCHANGED << world, team, cut, spent, tried, outcome >>
  BY DEF Fresh, fanVars, pastVars
<1>2. RoundsSpent = req.attempt /\ req.attempt \in Nat
  BY <1>1, Numbers DEF RoundsSpent, Choosing, Inv, Typed, Requests
<1>3. /\ req.attempt <= MaxRetry /\ req.looks < MaxLooks /\ tried \subseteq excluded /\ (req.quota => spent > 0)
      /\ excluded \in SUBSET Accounts /\ req.acc \in Accounts
      /\ ~world.healthy /\ ~world.stale => req.acc \notin excluded
  BY <1>1 DEF Inv, Typed, Picked, Looping, Exclusive, Prior, Rounds, Choosing
<1>4. CASE Goto("send") /\ UNCHANGED excluded
  <2>1. /\ req' \in Requests /\ req'.at = "send" /\ req'.attempt = req.attempt
        /\ req'.looks = req.looks /\ req'.acc = req.acc /\ req'.err = req.err /\ req'.quota = req.quota
    BY <1>4, GotoSets DEF Inv, Places
  <2> QED
    BY <1>1, <1>2, <1>3, <1>4, <2>1, RoundsOn DEF Rounds, Choosing
<1>5. CASE excluded' = excluded \cup {req.acc} /\ req' = NextAttempt(req)
  <2>1. /\ req' \in Requests /\ req'.at \in {"pick", "after"}
        /\ req'.at = "pick" => req'.attempt = req.attempt + 1 /\ req'.attempt <= MaxRetry /\ req'.looks = 0
        /\ req'.err = req.err /\ req'.quota = req.quota
    BY <1>3, <1>5, NextAttemptSets DEF Inv, Typed
  <2> QED
    BY <1>1, <1>2, <1>3, <1>5, <2>1, Numbers, RoundsOn DEF Rounds, Choosing
<1> QED
  BY <1>4, <1>5 DEF Fresh

LEMMA AnswerInv == ASSUME NEW ans \in Answers PROVE Inv /\ Answer(ans) => Inv'
<1> SUFFICES ASSUME Inv, Answer(ans) PROVE Inv'
  OBVIOUS
<1>1. req.at = "asked" /\ UNCHANGED << world, team, cut, spent, tried >>
  BY DEF Answer, fanVars, pastVars
<1>2. RoundsSpent = req.attempt + 1 /\ req.attempt \in Nat
  BY <1>1, Numbers DEF RoundsSpent, Choosing, Inv, Typed, Requests
<1>3. /\ req.attempt <= MaxRetry /\ tried \subseteq excluded \cup {req.acc} /\ spent > 0
      /\ excluded \in SUBSET Accounts /\ req.acc \in Accounts /\ cut \in BOOLEAN
      /\ \A i \in Slots : team[i].is = "none"
  BY <1>1 DEF Inv, Typed, Picked, Crew, Looping, Exclusive, Prior, Rounds, Choosing
<1>4. CASE ans = "ok" /\ Ends("answered", 0) /\ UNCHANGED excluded
  BY <1>1, <1>3, <1>4, EndsInv, Numbers
<1>5. CASE excluded' = excluded \cup {req.acc} /\ Ends("refused", 0)
  BY <1>1, <1>3, <1>5, EndsInv, Numbers
<1>6. CASE /\ excluded' = excluded \cup {req.acc} /\ UNCHANGED outcome
           /\ req' = NextAttempt([req EXCEPT !.err = "retry", !.quota = (ans = "quota")])
  <2> DEFINE q == (ans = "quota")
             r == [req EXCEPT !.err = "retry", !.quota = q]
  <2>1. q \in BOOLEAN
    OBVIOUS
  <2> HIDE DEF q
  <2>2. r \in Requests /\ r.attempt = req.attempt /\ r.err = "retry"
    BY <2>1 DEF Inv, Typed, Requests, Errors
  <2>3. req' = NextAttempt(r)
    BY <1>6 DEF q
  <2> HIDE DEF r
  <2>4. /\ req' \in Requests /\ req'.at \in {"pick", "after"} /\ req'.err = "retry"
        /\ req'.at = "pick" => req'.attempt = req.attempt + 1 /\ req'.attempt <= MaxRetry /\ req'.looks = 0
    BY <1>3, <2>2, <2>3, NextAttemptSets
  <2>5. excluded' = excluded \cup {req.acc} /\ UNCHANGED outcome
    BY <1>6
  <2> QED
    BY <1>1, <1>2, <1>3, <2>4, <2>5, Numbers, RoundsOn DEF Rounds, Choosing
<1> QED
  BY <1>4, <1>5, <1>6 DEF Answer

-----------------------------------------------------------------------------
\* Behind the rounds.
LEMMA LateNumbers ==
  ASSUME Inv, req.at \notin Rounds
  PROVE  RoundsSpent = MaxRetry + 1 /\ spent <= MaxRetry + 1 + Cardinality(Sent) + LastSpent
         /\ LastSpent \in 0..1 /\ spent \in Nat
BY DEF Inv, Typed, Counted, RoundsSpent, LastSpent, Rounds, Choosing

LEMMA LateCounted ==
  ASSUME Inv, req.at \notin Rounds, req'.at \notin Rounds, spent' = spent,
         Cardinality(Sent') \in Nat, Cardinality(Sent') >= Cardinality(Sent),
         req.at \in {"lastAsked", "done"} => req'.at \in {"lastAsked", "done"}
  PROVE  Counted'
<1>1. RoundsSpent' = MaxRetry + 1 /\ LastSpent' \in 0..1 /\ LastSpent' >= LastSpent
  BY DEF RoundsSpent, LastSpent, Rounds, Choosing
<1> QED
  BY <1>1, LateNumbers, Crowds, Numbers DEF Counted

LEMMA LaterInv ==
  ASSUME Inv, req.at \notin Rounds, req' \in Requests, req'.at \notin Rounds \cup {"after"},
         req.at = "done" <=> req'.at = "done",
         team' \in Teams, cut' \in BOOLEAN, spent' \in Nat, spent <= spent',
         UNCHANGED << world, excluded, tried, outcome >>,
         req'.quota = req.quota, req'.err = "refused" \/ req'.at = "lastAsked" => spent' > 0,
         req'.at \in {"gather", "regather", "fly"} \/ Members' # {} => req.quota,
         Crew', Counted'
  PROVE  Inv'
<1>1. Typed' /\ Picked' /\ Looping' /\ Exclusive' /\ Settled'
  BY DEF Inv, Typed, Picked, Looping, Exclusive, Settled, Rounds, Choosing
<1>2. Prior'
  BY DEF Inv, Typed, Prior, Rounds
<1> QED
  BY <1>1, <1>2 DEF Inv

LEMMA SendInv == Inv /\ Send => Inv'
<1> SUFFICES ASSUME Inv, Send PROVE Inv'
  OBVIOUS
<1>1. req.at \in {"send", "lastSend"} /\ UNCHANGED << world, excluded, team, cut >>
  BY DEF Send, fanVars
<1>2. /\ excluded \in SUBSET Accounts /\ cut \in BOOLEAN /\ spent \in Nat
      /\ cut \/ \A j \in Slots : team[j].is = "none"
  BY <1>1 DEF Inv, Typed, Crew, Rounds, Choosing, Over
<1>3. CASE Ends("failed", 0) /\ UNCHANGED pastVars
  BY <1>1, <1>2, <1>3, EndsInv, Numbers DEF pastVars
<1>4. CASE req.at = "send" /\ Goto("asked") /\ spent' = spent + 1 /\ tried' = tried \cup {req.acc} /\ UNCHANGED outcome
  <2>1. /\ req' \in Requests /\ req'.at = "asked" /\ req'.attempt = req.attempt /\ req'.acc = req.acc
        /\ req'.err = req.err /\ req'.quota = req.quota
    BY <1>4, GotoSets DEF Inv, Places
  <2>2. req.acc \in Accounts /\ req.attempt <= MaxRetry /\ req.attempt \in Nat /\ tried \subseteq excluded
    BY <1>4, Numbers DEF Inv, Typed, Requests, Picked, Looping, Exclusive, Rounds, Choosing
  <2>3. Typed' /\ Picked' /\ Looping' /\ Exclusive' /\ Settled'
    BY <1>1, <1>4, <2>1, <2>2 DEF Inv, Typed, Picked, Looping, Exclusive, Settled, Rounds, Choosing
  <2>4. \A i \in Slots : team[i].is = "none"
    BY <1>4 DEF Inv, Crew, Rounds, Choosing
  <2>5. Crew'
    BY <1>1, <2>1, <2>4 DEF Crew, Rounds, Choosing, Over
  <2>6. Prior'
    BY <1>1, <1>2, <1>4, <2>1, <2>4, Nobody, SameTeam DEF Prior
  <2>7. spent <= req.attempt
    BY <1>4, <2>2, <2>4, Nobody DEF Inv, Counted, RoundsSpent, LastSpent, Choosing
  <2>8. RoundsSpent' = req.attempt + 1 /\ LastSpent' = 0
    BY <2>1 DEF RoundsSpent, LastSpent, Choosing
  <2>9. Counted'
    BY <1>1, <1>2, <1>4, <2>2, <2>4, <2>7, <2>8, SameTeam, Nobody DEF Counted
  <2> QED
    BY <2>3, <2>5, <2>6, <2>9 DEF Inv
<1>5. CASE req.at = "lastSend" /\ Goto("lastAsked") /\ spent' = spent + 1 /\ tried' = tried /\ UNCHANGED outcome
  <2>1. /\ req' \in Requests /\ req'.at = "lastAsked" /\ req'.err = req.err /\ req'.quota = req.quota
    BY <1>5, GotoSets DEF Inv, Places
  <2>2. LastSpent = 0 /\ LastSpent' = 1 /\ RoundsSpent' = MaxRetry + 1
    BY <1>5, <2>1 DEF LastSpent, RoundsSpent, Choosing
  <2>3. Counted'
    BY <1>1, <1>5, <2>2, LateNumbers, SameTeam, Crowds, Numbers DEF Counted, Rounds, Choosing
  <2>4. Crew'
    BY <1>1, <1>2, <2>1 DEF Inv, Crew, Rounds, Choosing, Over
  <2>5. Members' # {} => req.quota
    BY <1>1, SameTeam DEF Inv, Prior
  <2>6. team' \in Teams /\ cut' \in BOOLEAN /\ spent' \in Nat /\ spent <= spent' /\ spent' > 0
    BY <1>1, <1>2, <1>5 DEF Inv, Typed
  <2> QED
    BY <1>1, <1>5, <2>1, <2>3, <2>4, <2>5, <2>6, LaterInv DEF Rounds, Choosing
<1> QED
  BY <1>1, <1>3, <1>4, <1>5 DEF Send

LEMMA AfterInv == Inv /\ After => Inv'
<1> SUFFICES ASSUME Inv, After PROVE Inv'
  OBVIOUS
<1>1. req.at = "after" /\ UNCHANGED << world, excluded, team, cut, spent, tried, outcome >>
  BY DEF After, fanVars, pastVars
<1>2. \A i \in Slots : team[i].is = "none"
  BY <1>1 DEF Inv, Crew
<1>3. /\ req' \in Requests /\ req'.at \in {"gather", "fall"} /\ (req'.at = "gather" => req.quota)
      /\ req'.err = req.err /\ req'.quota = req.quota /\ req'.turn = req.turn
  <2> DEFINE w == IF req.quota /\ world.fan THEN "gather" ELSE "fall"
  <2>1. req' = [req EXCEPT !.at = w, !.skip = excluded] /\ excluded \in SUBSET Accounts
    BY DEF After, Inv, Typed
  <2>2. w \in Places /\ w \in {"gather", "fall"} /\ (w = "gather" => req.quota)
    BY DEF Places, Inv, Typed, Requests
  <2> HIDE DEF w
  <2> QED
    BY <2>1, <2>2 DEF Inv, Typed, Requests
<1>4. Crew'
  BY <1>1, <1>2, <1>3, Nobody, SameTeam, Numbers DEF Inv, Crew, Rounds, Choosing, Over, Requests
<1>5. Counted'
  BY <1>1, <1>3, LateCounted, SameTeam, Crowds DEF Rounds, Choosing
<1>6. Members' # {} => req.quota
  BY <1>1, SameTeam DEF Inv, Prior
<1>7. team' \in Teams /\ cut' \in BOOLEAN /\ spent' \in Nat /\ spent <= spent' /\ (req.err = "refused" => spent > 0)
  BY <1>1 DEF Inv, Typed, Prior
<1> QED
  BY <1>1, <1>3, <1>4, <1>5, <1>6, <1>7, LaterInv DEF Rounds, Choosing

-----------------------------------------------------------------------------
\* Gathering the fan-out.
LEMMA TurnSets ==
  ASSUME Inv, req.at \in {"gather", "regather"}, req.turn < FanOut,
         NEW answers \in SUBSET (Accounts \cup {NoAcct}), Turn(answers)
  PROVE  /\ req' \in Requests /\ req'.at = req.at /\ req'.err = req.err /\ req'.quota = req.quota
         /\ team' \in Teams /\ \A i \in Slots : team'[i].is \in {"none", "ready"}
         /\ \A i \in Slots : team'[i].is # "none" => team'[i].acc \in Accounts
         /\ Cardinality(Members') <= req'.turn
<1>1. PICK a \in answers \ {NoAcct} :
        /\ req' = [req EXCEPT !.turn = @ + 1, !.skip = @ \cup {a}]
        /\ \/ UNCHANGED team
           \/ team' = [team EXCEPT ![Cardinality(Members) + 1] = [acc |-> a, is |-> "ready"]]
  BY DEF Turn
<1>2. a \in Accounts /\ req.turn \in Nat /\ Cardinality(Members) <= req.turn
      /\ \A i \in Slots : team[i].is \in {"none", "ready"}
  BY Numbers DEF Inv, Typed, Requests, Crew
<1>3. /\ req' \in Requests /\ req'.at = req.at /\ req'.err = req.err /\ req'.quota = req.quota
      /\ req'.turn = req.turn + 1
  <2> DEFINE k == req.turn + 1
             b == req.skip \cup {a}
  <2>1. req' = [req EXCEPT !.turn = k, !.skip = b]
    BY <1>1
  <2>2. k \in 0..FanOut /\ b \in SUBSET Accounts
    BY <1>2, Numbers DEF Inv, Typed, Requests
  <2> HIDE DEF k, b
  <2>3. /\ req' \in Requests /\ req'.at = req.at /\ req'.err = req.err /\ req'.quota = req.quota
        /\ req'.turn = k
    BY <2>1, <2>2 DEF Inv, Typed, Requests
  <2> QED
    BY <2>3 DEF k
<1>4. CASE UNCHANGED team
  BY <1>2, <1>3, <1>4, SameTeam, Crowds DEF Inv, Typed, Crew
<1>5. CASE team' = [team EXCEPT ![Cardinality(Members) + 1] = [acc |-> a, is |-> "ready"]]
  <2> DEFINE n == Cardinality(Members) + 1
             t == [acc |-> a, is |-> "ready"]
  <2>1. n \in Slots /\ t \in [acc : Accounts \cup {NoAcct}, is : Flights] /\ t.is = "ready" /\ t.acc = a
    BY <1>2, Crowds, Numbers DEF Slots, Flights
  <2>2. team' = [team EXCEPT ![n] = t]
    BY <1>5
  <2> HIDE DEF n, t
  <2>3. /\ team' \in Teams /\ \A i \in Slots : team'[i].is \in {"none", "ready"}
        /\ \A i \in Slots : i # n => team'[i] = team[i]
        /\ \A i \in Slots : team'[i].is # "none" => team'[i].acc \in Accounts
    BY <1>2, <2>1, <2>2 DEF Inv, Typed, Teams, Crew
  <2>4. Members' \subseteq Members \cup {n} /\ IsFiniteSet(Members \cup {n})
        /\ Cardinality(Members \cup {n}) <= Cardinality(Members) + 1
    <3>1. Members' \subseteq Members \cup {n}
      BY <2>3 DEF Members
    <3>2. /\ IsFiniteSet(Members \cup {n})
          /\ Cardinality(Members \cup {n}) = IF n \in Members THEN Cardinality(Members) ELSE Cardinality(Members) + 1
      BY Crowds, FS_AddElement
    <3> QED
      BY <3>1, <3>2, Crowds
  <2>5. Cardinality(Members') <= Cardinality(Members) + 1
    BY <2>4, Crowds, FS_Subset, FS_CardinalityType
  <2>6. Cardinality(Members') \in Nat
    BY <2>4, FS_Subset, FS_CardinalityType
  <2> QED
    BY <1>2, <1>3, <2>3, <2>5, <2>6, Crowds
<1> QED
  BY <1>1, <1>4, <1>5

LEMMA PickedFrom ==
  ASSUME NEW s, NEW up \in SUBSET Accounts
  PROVE  /\ Regular(s, up) \in SUBSET (Accounts \cup {NoAcct})
         /\ Cooling(s, up) \in SUBSET (Accounts \cup {NoAcct})
BY DEF Regular, Cooling

LEMMA GatherInv == Inv /\ (Gather \/ Regather) => Inv'
<1> SUFFICES ASSUME Inv, Gather \/ Regather PROVE Inv'
  OBVIOUS
<1>1. req.at \in {"gather", "regather"} /\ UNCHANGED << world, excluded, cut, spent, tried, outcome >>
  BY DEF Gather, Regather, pastVars
<1>2. /\ req.quota /\ spent > 0 /\ spent \in Nat /\ cut \in BOOLEAN /\ req.turn \in Nat
      /\ \A i \in Slots : team[i].is \in {"none", "ready"}
  BY <1>1 DEF Inv, Typed, Requests, Prior, Crew
<1>3. ASSUME NEW answers \in SUBSET (Accounts \cup {NoAcct}), req.turn < FanOut, Turn(answers)
      PROVE  Inv'
  <2>1. /\ req' \in Requests /\ req'.at = req.at /\ req'.err = req.err /\ req'.quota = req.quota
        /\ team' \in Teams /\ \A i \in Slots : team'[i].is \in {"none", "ready"}
        /\ \A i \in Slots : team'[i].is # "none" => team'[i].acc \in Accounts
        /\ Cardinality(Members') <= req'.turn
    BY <1>1, <1>3, TurnSets
  <2>2. Crew'
    BY <1>1, <2>1 DEF Crew, Rounds, Choosing, Over
  <2>3. Sent = {} /\ Sent' = {}
    BY <1>2, <2>1 DEF Sent
  <2>4. Cardinality(Sent') \in Nat /\ Cardinality(Sent') = Cardinality(Sent)
    BY <2>3, FS_EmptySet
  <2>5. Counted'
    BY <1>1, <2>1, <2>4, LateCounted, Crowds DEF Rounds, Choosing
  <2> QED
    BY <1>1, <1>2, <2>1, <2>2, <2>5, LaterInv DEF Rounds, Choosing
<1>4. ASSUME UNCHANGED team, req' \in Requests, req'.quota = req.quota,
             \/ req'.at = "regather" /\ Cardinality(Members) <= req'.turn
             \/ req'.at = "fly"
             \/ req'.at = "fall" /\ Members = {}
      PROVE  Inv'
  <2>1. Crew'
    BY <1>1, <1>2, <1>4, SameTeam DEF Inv, Crew, Rounds, Choosing, Over, Members
  <2>2. Counted'
    BY <1>1, <1>4, SameTeam, LateCounted, Crowds DEF Rounds, Choosing
  <2>3. team' \in Teams
    BY <1>4 DEF Inv, Typed
  <2> QED
    BY <1>1, <1>2, <1>4, <2>1, <2>2, <2>3, LaterInv DEF Rounds, Choosing
<1>5. CASE Gather
  <2>1. CASE req.turn < FanOut /\ \E up \in SUBSET Accounts : Turn(Regular(req.skip, up))
    BY <1>3, <2>1, PickedFrom
  <2>2. CASE /\ req' = [req EXCEPT !.at = "regather", !.turn = Cardinality(Members), !.skip = Squad]
             /\ UNCHANGED team
    <3> DEFINE k == Cardinality(Members)
               b == Squad
    <3>1. \A i \in Members : team[i].acc \in Accounts
      BY DEF Inv, Crew, Members
    <3>2. k \in 0..FanOut /\ b \in SUBSET Accounts
      BY <3>1, Crowds DEF Squad
    <3>3. req' = [req EXCEPT !.at = "regather", !.turn = k, !.skip = b]
      BY <2>2
    <3> HIDE DEF k, b
    <3>4. req' \in Requests /\ req'.quota = req.quota /\ req'.at = "regather" /\ req'.turn = k
      BY <3>2, <3>3 DEF Inv, Typed, Requests, Places
    <3>5. Cardinality(Members) <= req'.turn
      BY <3>2, <3>4, Crowds DEF k
    <3> QED
      BY <1>4, <2>2, <3>4, <3>5
  <2> QED
    BY <1>5, <2>1, <2>2 DEF Gather
<1>6. CASE Regather
  <2>1. CASE req.turn < FanOut /\ \E on \in SUBSET Accounts : Turn(Cooling(req.skip, on))
    BY <1>3, <2>1, PickedFrom
  <2>2. CASE Members = {} /\ FanFails("retry") /\ UNCHANGED team
    <3>1. req' \in Requests /\ req'.quota = req.quota /\ req'.at = "fall"
      BY <2>2 DEF Inv, Typed, Requests, FanFails, Places, Errors
    <3> QED
      BY <1>4, <2>2, <3>1
  <2>3. CASE Goto("fly") /\ UNCHANGED team
    BY <1>4, <2>3, GotoSets DEF Inv, Places
  <2> QED
    BY <1>6, <2>1, <2>2, <2>3 DEF Regather
<1> QED
  BY <1>5, <1>6

-----------------------------------------------------------------------------
\* The goroutines.
LEMMA FliesSets ==
  ASSUME Inv, NEW i \in Slots, NEW f \in Flights \ {"none", "ready"}, Flies(i, f), team[i].is # "none"
  PROVE  /\ team' \in Teams /\ team'[i].is = f /\ \A j \in Slots \ {i} : team'[j] = team[j]
         /\ \A j \in Slots : team'[j].is # "none" => team'[j].acc \in Accounts
         /\ Members' = Members /\ Members # {} /\ Sent' = Sent \cup {i} /\ req.quota /\ spent > 0
<1>1. team' = [team EXCEPT ![i] = [team[i] EXCEPT !.is = f]] /\ team \in Teams
  BY DEF Flies, Inv, Typed
<1> DEFINE t == [team[i] EXCEPT !.is = f]
<1>2. t \in [acc : Accounts \cup {NoAcct}, is : Flights] /\ t.is = f /\ t.acc = team[i].acc
  BY <1>1 DEF Teams
<1> HIDE DEF t
<1>3. team' \in Teams /\ team'[i] = t /\ \A j \in Slots \ {i} : team'[j] = team[j]
  BY <1>1, <1>2 DEF Teams, t
<1>4. Members' = Members /\ i \in Members /\ Sent' = Sent \cup {i}
  BY <1>2, <1>3 DEF Members, Sent
<1> QED
  BY <1>2, <1>3, <1>4 DEF Inv, Crew, Prior

\* A goroutine that moves on while the request stays where it is.
LEMMA FlightInv ==
  ASSUME Inv, NEW i \in Slots, NEW f \in Flights \ {"none", "ready"}, Flies(i, f), team[i].is # "none",
         UNCHANGED << world, req, excluded, cut, tried, outcome >>,
         \/ spent' = spent
         \/ spent' = spent + 1 /\ i \notin Sent,
         req.at \notin Rounds \cup {"after", "gather", "regather"}
  PROVE  Inv'
<1>1. /\ team' \in Teams /\ team'[i].is = f /\ \A j \in Slots \ {i} : team'[j] = team[j]
      /\ \A j \in Slots : team'[j].is # "none" => team'[j].acc \in Accounts
      /\ Members' = Members /\ Members # {} /\ Sent' = Sent \cup {i} /\ req.quota /\ spent > 0
  BY FliesSets
<1>2. Crew'
  BY <1>1 DEF Inv, Crew, Members
<1>3. Cardinality(Sent') = IF i \in Sent THEN Cardinality(Sent) ELSE Cardinality(Sent) + 1
  BY <1>1, Crowds, FS_AddElement
<1>4. RoundsSpent' = RoundsSpent /\ LastSpent' = LastSpent
  BY DEF RoundsSpent, LastSpent
<1>5. Counted'
  BY <1>3, <1>4, LateNumbers, Crowds, Numbers DEF Inv, Counted
<1>6. spent' \in Nat /\ spent <= spent' /\ spent' > 0 /\ cut' \in BOOLEAN /\ req' \in Requests
  BY <1>1 DEF Inv, Typed
<1> QED
  BY <1>1, <1>2, <1>5, <1>6, LaterInv

\* Where the request is when a goroutine is on its way.
LEMMA Aloft ==
  ASSUME Inv, NEW i \in Slots, team[i].is \notin {"none", "ready"}
  PROVE  req.at \notin Rounds \cup {"after", "gather", "regather"} /\ i \in Sent
BY DEF Inv, Crew, Sent

LEMMA FanInv ==
  ASSUME NEW i \in Slots, NEW ans \in Answers
  PROVE  Inv /\ (FanSend(i) \/ FanAnswer(i, ans) \/ FanCut(i)) => Inv'
<1> SUFFICES ASSUME Inv, FanSend(i) \/ FanAnswer(i, ans) \/ FanCut(i) PROVE Inv'
  OBVIOUS
<1>0. {"other", "asked", ans} \subseteq Flights \ {"none", "ready"}
  BY DEF Answers, Flights
<1>1. CASE FanSend(i)
  <2>1. /\ req.at \notin Rounds \cup {"after", "gather", "regather"} /\ i \notin Sent /\ team[i].is # "none"
        /\ UNCHANGED << world, req, excluded, cut, tried, outcome >>
    BY <1>1 DEF FanSend, Rounds, Choosing, Sent
  <2> QED
    BY <1>0, <1>1, <2>1, FlightInv DEF FanSend
<1>2. CASE FanAnswer(i, ans)
  BY <1>0, <1>2, Aloft, FlightInv DEF FanAnswer, pastVars
<1>3. CASE FanCut(i)
  BY <1>0, <1>3, Aloft, FlightInv DEF FanCut, pastVars
<1> QED
  BY <1>1, <1>2, <1>3

LEMMA FanFailsSets ==
  ASSUME Typed, NEW e \in Errors, FanFails(e)
  PROVE  req' \in Requests /\ req'.at = "fall" /\ req'.err = e /\ req'.quota = req.quota
BY DEF Typed, Requests, FanFails, Places

LEMMA FanReadInv == ASSUME NEW i \in Slots PROVE Inv /\ FanRead(i) => Inv'
<1> SUFFICES ASSUME Inv, FanRead(i) PROVE Inv'
  OBVIOUS
<1>1. req.at = "fly" /\ team[i].is \in Answers /\ UNCHANGED << world, excluded, spent, tried >>
  BY DEF FanRead, pastVars
<1>2. CASE cut' = TRUE /\ Ends("answered", i) /\ UNCHANGED team
  <2>1. i \in 0..FanOut
    BY Numbers DEF Slots
  <2> QED
    BY <1>1, <1>2, <2>1, EndsInv DEF Inv, Typed
<1>3. CASE /\ Flies(i, "read") /\ UNCHANGED outcome
           /\ \/ cut' = TRUE /\ FanFails(ErrorOf(team[i].is))
              \/ req' = [req EXCEPT !.err = ErrorOf(team[i].is)] /\ UNCHANGED cut
  <2>1. "read" \in Flights \ {"none", "ready"} /\ team[i].is # "none"
    BY <1>1 DEF Answers, Flights
  <2>2. /\ team' \in Teams /\ \A j \in Slots : team'[j].is # "none" => team'[j].acc \in Accounts
        /\ Sent' = Sent /\ req.quota /\ spent > 0
    BY <1>1, <1>3, <2>1, FliesSets, Aloft DEF Answers
  <2>3. ErrorOf(team[i].is) \in Errors
    BY DEF ErrorOf, Errors
  <2>4. req' \in Requests /\ req'.at \in {"fly", "fall"} /\ req'.quota = req.quota /\ (req'.at = "fall" => cut')
    BY <1>1, <1>3, <2>3, FanFailsSets DEF Inv, Typed, Requests
  <2>5. Crew' /\ cut' \in BOOLEAN
    BY <1>3, <2>2, <2>4 DEF Inv, Typed, Crew, Rounds, Choosing, Over
  <2>6. Counted'
    BY <1>1, <2>2, <2>4, LateCounted, Crowds DEF Rounds, Choosing
  <2>7. spent' \in Nat /\ spent <= spent' /\ spent' > 0
    BY <1>1, <2>2 DEF Inv, Typed
  <2> QED
    BY <1>1, <1>3, <2>2, <2>4, <2>5, <2>6, <2>7, LaterInv DEF Rounds, Choosing
<1> QED
  BY <1>2, <1>3 DEF FanRead

LEMMA FanTimeoutInv == Inv /\ FanTimeout => Inv'
<1> SUFFICES ASSUME Inv, FanTimeout PROVE Inv'
  OBVIOUS
<1>1. /\ req.at = "fly" /\ cut' = TRUE /\ FanFails(req.err) /\ req.quota /\ spent > 0
      /\ UNCHANGED << world, excluded, team, spent, tried, outcome >>
  BY DEF FanTimeout, pastVars, Inv, Prior
<1>2. req' \in Requests /\ req'.at = "fall" /\ req'.quota = req.quota
  BY <1>1, FanFailsSets DEF Inv, Typed, Requests
<1>3. Crew' /\ team' \in Teams /\ cut' \in BOOLEAN
  BY <1>1, <1>2 DEF Inv, Typed, Crew, Rounds, Choosing, Over
<1>4. Counted'
  BY <1>1, <1>2, SameTeam, LateCounted, Crowds DEF Rounds, Choosing
<1>5. spent' \in Nat /\ spent <= spent' /\ spent' > 0
  BY <1>1 DEF Inv, Typed
<1> QED
  BY <1>1, <1>2, <1>3, <1>4, <1>5, LaterInv DEF Rounds, Choosing

LEMMA FallInv == Inv /\ Fall => Inv'
<1> SUFFICES ASSUME Inv, Fall PROVE Inv'
  OBVIOUS
<1>1. /\ req.at = "fall" /\ UNCHANGED << world, excluded, team, cut, spent, tried >>
      /\ excluded \in SUBSET Accounts /\ cut \in BOOLEAN /\ spent \in Nat
      /\ cut \/ \A j \in Slots : team[j].is = "none"
  BY DEF Fall, fanVars, pastVars, Inv, Typed, Crew, Over
<1>2. ASSUME NEW a \in Accounts, req' = [req EXCEPT !.at = "lastSend", !.acc = a], req.err = "retry", UNCHANGED outcome
      PROVE  Inv'
  <2>1. req' \in Requests /\ req'.at = "lastSend" /\ req'.quota = req.quota /\ req'.err = "retry"
    BY <1>2 DEF Inv, Typed, Requests, Places
  <2>2. Crew' /\ team' \in Teams
    BY <1>1, <2>1 DEF Inv, Typed, Crew, Rounds, Choosing, Over
  <2>3. Counted'
    BY <1>1, <2>1, SameTeam, LateCounted, Crowds DEF Rounds, Choosing
  <2>4. Members' # {} => req.quota
    BY <1>1, SameTeam DEF Inv, Prior
  <2> QED
    BY <1>1, <1>2, <2>1, <2>2, <2>3, <2>4, LaterInv DEF Rounds, Choosing
<1>3. ASSUME NEW k \in {"refused", "failed"}, Ends(k, 0) PROVE Inv'
  BY <1>1, <1>3, EndsInv, Numbers
<1>4. \A up \in SUBSET Accounts : Recent(excluded, up) \ {NoAcct} \subseteq Accounts
  BY DEF Recent
<1> QED
  BY <1>2, <1>3, <1>4 DEF Fall

LEMMA LastAnswerInv == ASSUME NEW ans \in Answers PROVE Inv /\ LastAnswer(ans) => Inv'
<1> SUFFICES ASSUME Inv, LastAnswer(ans) PROVE Inv'
  OBVIOUS
<1>1. /\ UNCHANGED << world, excluded, team, cut, spent, tried >>
      /\ excluded \in SUBSET Accounts /\ cut \in BOOLEAN
      /\ cut \/ \A j \in Slots : team[j].is = "none"
  BY DEF LastAnswer, fanVars, pastVars, Inv, Typed, Crew, Over
<1>2. PICK k \in {"answered", "refused", "failed"} : Ends(k, 0)
  BY DEF LastAnswer
<1> QED
  BY <1>1, <1>2, EndsInv, Numbers

LEMMA AgainInv == Inv /\ Again => Inv'
<1>1. Inv /\ Again => Beginning'
  BY DEF Again, Inv, Typed, Beginning
<1> QED
  BY <1>1, BeginningInv, PTL

LEMMA NextInv == Inv /\ [Next]_vars => Inv'
<1> SUFFICES ASSUME Inv, [Next]_vars PROVE Inv'
  OBVIOUS
<1>1. CASE UNCHANGED vars
  <2>1. /\ UNCHANGED << world, req, excluded, team, cut, spent, tried, outcome >>
        /\ Members' = Members /\ Sent' = Sent
    BY <1>1, SameTeam DEF vars
  <2>2. Typed' /\ Picked' /\ Looping' /\ Crew' /\ Exclusive' /\ Settled'
    BY <2>1 DEF Inv, Typed, Picked, Looping, Crew, Exclusive, Settled
  <2>3. Prior' /\ Counted'
    BY <2>1 DEF Inv, Prior, Counted, RoundsSpent, LastSpent
  <2> QED
    BY <2>2, <2>3 DEF Inv
<1>2. CASE Proceed
  <2>1. "ok" \in Answers
    BY DEF Answers
  <2> QED
    BY <1>2, <2>1, PickInv, CheckInv, FreshInv, SendInv, AfterInv, GatherInv, FallInv, FanTimeoutInv,
       FanInv, FanReadInv DEF Proceed
<1>3. CASE Reply
  BY <1>3, AnswerInv, LastAnswerInv, FanInv DEF Reply
<1> QED
  BY <1>1, <1>2, <1>3, AgainInv DEF Next

LEMMA Invariance == Spec => []Inv
BY InitInv, NextInv, PTL DEF Spec

-----------------------------------------------------------------------------
\* The variables of a request keep their types, and the number of attempts stays
\* within the budget at every moment.
THEOREM TypeCorrect == Spec => []TypeOK
<1>1. ASSUME Inv PROVE TypeOK
  <2>1. spent <= Budget
    <3>1. RoundsSpent \in Nat /\ RoundsSpent <= MaxRetry + 1 /\ LastSpent \in 0..1
      BY <1>1, Numbers DEF Inv, Typed, Requests, Looping, Rounds, RoundsSpent, LastSpent
    <3> QED
      BY <1>1, <3>1, Crowds, Numbers DEF Inv, Typed, Counted, Budget
  <2>2. Budget \in Nat
    BY Numbers DEF Budget
  <2> QED
    BY <1>1, <2>1, <2>2 DEF TypeOK, Inv, Typed, Requests, Teams, Outcomes
<1> QED
  BY <1>1, Invariance, PTL

\* codex.go:725: when the request is over, every good answer of the fan-out is the
\* caller's, or its context is cancelled.
THEOREM NothingLeaks == Spec => []NoneLeaks
<1>1. ASSUME Inv PROVE NoneLeaks
  BY <1>1 DEF Inv, Crew, Over, NoneLeaks, Members
<1> QED
  BY <1>1, Invariance, PTL

\* codex.go:596: in the rounds that pick as always, with a list of its own, the
\* request goes to no account twice.
THEOREM NoAccountTwice == Spec => NoneTwice
<1>1. ASSUME Inv, ~world.healthy, ~world.stale, req.at = "send" PROVE req.acc \notin tried
  BY <1>1 DEF Inv, Exclusive, Choosing
<1>2. Inv /\ [Next]_vars =>
        [~world.healthy /\ ~world.stale /\ req.at = "send" /\ spent' # spent => req.acc \notin tried]_vars
  BY <1>1
<1> QED
  BY <1>2, Invariance, PTL DEF Spec, NoneTwice

-----------------------------------------------------------------------------
\* What a step does to the caller's view.
LEMMA Visible ==
  ASSUME Inv, Next
  PROVE  \/ UNCHANGED << spent, outcome >>
         \/ spent' = spent + 1 /\ outcome' = outcome /\ req.at # "done" /\ spent < Budget
         \/ /\ spent' = spent /\ req.at # "done" /\ outcome'.kind \in {"answered", "refused", "failed"}
            /\ outcome'.kind \in {"answered", "refused"} => spent > 0
         \/ Again
<1>0. Budget = MaxRetry + 1 + FanOut + 1 /\ spent \in Nat /\ MaxRetry \in Nat /\ FanOut \in Nat
  BY Numbers DEF Budget, Inv, Typed
<1>1. CASE Pick
  <2>1. req.at = "pick" /\ spent' = spent /\ (UNCHANGED outcome \/ Ends("failed", 0))
    BY <1>1 DEF Pick, pastVars
  <2> QED
    BY <2>1 DEF Ends
<1>8. CASE Check \/ Fresh \/ After \/ Gather \/ Regather \/ FanTimeout
  BY <1>8 DEF Check, Fresh, After, Gather, Regather, FanTimeout, pastVars
<1>2. CASE Send
  <2>1. CASE Ends("failed", 0) /\ UNCHANGED pastVars
    BY <1>2, <2>1 DEF Send, Ends, pastVars
  <2>2. CASE req.at = "send" /\ spent' = spent + 1 /\ UNCHANGED outcome
    <3>1. \A i \in Slots : team[i].is = "none"
      BY <2>2 DEF Inv, Crew, Rounds, Choosing
    <3>2. spent <= req.attempt /\ req.attempt <= MaxRetry /\ req.attempt \in Nat
      BY <2>2, <3>1, Nobody, Numbers
      DEF Inv, Typed, Requests, Looping, Counted, RoundsSpent, LastSpent, Rounds, Choosing
    <3> QED
      BY <1>0, <2>2, <3>2
  <2>3. CASE req.at = "lastSend" /\ spent' = spent + 1 /\ UNCHANGED outcome
    <3>1. spent <= MaxRetry + 1 + Cardinality(Sent) + 0
      BY <2>3, LateNumbers DEF LastSpent, Rounds, Choosing
    <3> QED
      BY <1>0, <2>3, <3>1, Crowds
  <2> QED
    BY <1>2, <2>1, <2>2, <2>3 DEF Send
<1>3. ASSUME NEW i \in Slots, FanSend(i)
      PROVE  \/ UNCHANGED << spent, outcome >>
             \/ spent' = spent + 1 /\ outcome' = outcome /\ req.at # "done" /\ spent < Budget
  <2>1. CASE UNCHANGED << spent, outcome >>
    BY <2>1
  <2>2. CASE ~cut /\ spent' = spent + 1 /\ UNCHANGED outcome
    <3>1. req.at = "fly"
      BY <1>3, <2>2 DEF FanSend, Inv, Crew, Over
    <3>2. spent <= MaxRetry + 1 + Cardinality(Sent) + 0
      BY <3>1, LateNumbers DEF LastSpent, Rounds, Choosing
    <3> QED
      BY <1>0, <2>2, <3>1, <3>2, Crowds
  <2> QED
    BY <1>3, <2>1, <2>2 DEF FanSend
<1>4. ASSUME NEW i \in Slots, FanCut(i) \/ \E ans \in Answers : FanAnswer(i, ans)
      PROVE  UNCHANGED << spent, outcome >>
  BY <1>4 DEF FanAnswer, FanCut, pastVars
<1>5. ASSUME NEW i \in Slots, FanRead(i)
      PROVE  \/ UNCHANGED << spent, outcome >>
             \/ /\ spent' = spent /\ req.at # "done" /\ outcome'.kind \in {"answered", "refused", "failed"}
                /\ outcome'.kind \in {"answered", "refused"} => spent > 0
  BY <1>5 DEF FanRead, pastVars, Ends, Inv, Prior
<1>6. CASE Fall
  <2>1. CASE UNCHANGED outcome
    BY <1>6, <2>1 DEF Fall, pastVars
  <2>2. CASE Ends(IF req.err = "refused" THEN "refused" ELSE "failed", 0)
    BY <1>6, <2>2 DEF Fall, pastVars, Ends, Inv, Prior
  <2> QED
    BY <1>6, <2>1, <2>2 DEF Fall
<1>7. ASSUME NEW ans \in Answers, Answer(ans) \/ LastAnswer(ans)
      PROVE  \/ UNCHANGED << spent, outcome >>
             \/ /\ spent' = spent /\ req.at # "done" /\ outcome'.kind \in {"answered", "refused", "failed"}
                /\ outcome'.kind \in {"answered", "refused"} => spent > 0
  <2>1. req.at \in {"asked", "lastAsked"} /\ spent' = spent /\ spent > 0
    BY <1>7 DEF Answer, LastAnswer, pastVars, Inv, Prior
  <2>2. UNCHANGED outcome \/ Ends("answered", 0) \/ Ends("refused", 0) \/ Ends("failed", 0)
    BY <1>7 DEF Answer, LastAnswer
  <2>3. UNCHANGED outcome \/ outcome'.kind \in {"answered", "refused", "failed"}
    BY <2>2 DEF Ends
  <2> QED
    BY <2>1, <2>3
<1> QED
  BY <1>1, <1>2, <1>3, <1>4, <1>5, <1>6, <1>7, <1>8 DEF Next, Proceed, Reply

\* A request spends a bounded number of attempts, its outcome is final, and nothing
\* is sent for it afterwards: RequestRetry implements AttemptBudget.
THEOREM RetryWithinBudget == Spec => WithinBudget
<1>1. Init => Bound!Init
  BY DEF Init, Open, Bound!Init
<1>2. ASSUME Inv, [Next]_vars PROVE [Bound!Next]_Bound!vars
  <2>1. outcome.kind = "open" <=> req.at # "done"
    BY <1>2 DEF Inv, Settled
  <2>2. CASE UNCHANGED vars \/ UNCHANGED << spent, outcome >>
    BY <2>2 DEF vars, Bound!vars
  <2>3. CASE spent' = spent + 1 /\ outcome' = outcome /\ req.at # "done" /\ spent < Budget
    BY <2>1, <2>3 DEF Bound!Next, Bound!Attempt
  <2>4. CASE /\ spent' = spent /\ req.at # "done" /\ outcome'.kind \in {"answered", "refused", "failed"}
             /\ outcome'.kind \in {"answered", "refused"} => spent > 0
    <3>1. \E o \in Bound!Outcomes \ {"open"} : Bound!Conclude(o)
      <4>1. PICK o \in {"answered", "refused", "failed"} : o = outcome'.kind
        BY <2>4
      <4> QED
        BY <2>1, <2>4, <4>1 DEF Bound!Conclude, Bound!Outcomes
    <3> QED
      BY <3>1 DEF Bound!Next
  <2>5. CASE Again
    BY <2>1, <2>5 DEF Again, Open, Bound!Next, Bound!Again
  <2> QED
    BY <1>2, <2>2, <2>3, <2>4, <2>5, Visible
<1> QED
  BY <1>1, <1>2, Invariance, PTL DEF Spec, WithinBudget, Bound!Spec

-----------------------------------------------------------------------------
\* Induction over the naturals: a set that has 0, and with a number the next one, has all.
LEMMA Induction ==
  ASSUME NEW S, 0 \in S, \A n \in Nat : n \in S => n + 1 \in S
  PROVE  Nat \subseteq S
<1>. DEFINE T == {n \in Nat : n \notin S}
            R == OpToRel(<, Nat)
<1>1. SUFFICES ASSUME T # {} PROVE FALSE
  OBVIOUS
<1>2. IsWellFoundedOn(R, Nat)
  BY NatLessThanWellFounded
<1>3. \A m, n \in Nat : m < n => << m, n >> \in R
  BY DEF OpToRel
<1>. HIDE DEF R
<1>4. PICK x \in T : \A y \in T : << y, x >> \notin R
  BY <1>1, <1>2, WFMin
<1>5. x \in Nat \ {0} /\ x - 1 \in Nat /\ x - 1 < x
  OBVIOUS
<1>6. x - 1 \in S
  BY <1>3, <1>4, <1>5
<1>. QED
  BY <1>4, <1>5, <1>6

\* A set of numbers of which there is one has a least one.
LEMMA LeastIn ==
  ASSUME NEW T, T \subseteq Nat, T # {}
  PROVE  Min(T) \in T /\ \A y \in T : Min(T) <= y
<1>. DEFINE R == OpToRel(<, Nat)
<1>1. IsWellFoundedOn(R, Nat)
  BY NatLessThanWellFounded
<1>2. \A m, n \in Nat : m < n => << m, n >> \in R
  BY DEF OpToRel
<1>. HIDE DEF R
<1>3. PICK x \in T : \A y \in T : << y, x >> \notin R
  BY <1>1, WFMin
<1>4. \A y \in T : x <= y
  <2>. TAKE y \in T
  <2>1. x \in Nat /\ y \in Nat /\ ~(y < x)
    BY <1>2, <1>3
  <2>. QED
    BY <2>1
<1>. QED
  BY <1>4 DEF Min

\* A set of numbers up to n of which there is one has a greatest one.
LEMMA GreatestIn ==
  ASSUME NEW n \in Nat, NEW T, T \subseteq 1..n, T # {}
  PROVE  Max(T) \in T
<1>. DEFINE U == {n - i : i \in T}
<1>1. U \subseteq Nat /\ U # {}
  <2>1. \A i \in T : n - i \in Nat
    OBVIOUS
  <2>. QED
    BY <2>1
<1>2. Min(U) \in U /\ \A y \in U : Min(U) <= y
  <2>. HIDE DEF U
  <2>. QED
    BY <1>1, LeastIn
<1>3. PICK x \in T : Min(U) = n - x
  BY <1>2
<1>4. \A y \in T : n - x <= n - y
  <2>. TAKE y \in T
  <2>1. n - y \in U
    OBVIOUS
  <2>. HIDE DEF U
  <2>. QED
    BY <1>2, <1>3, <2>1
<1>5. \A y \in T : x >= y
  <2>1. n \in Int /\ x \in Int /\ \A y \in T : y \in Int
    OBVIOUS
  <2>2. \A i, j, m \in Int : m - i <= m - j => i >= j
    OBVIOUS
  <2>. QED
    BY <1>4, <2>1, <2>2
<1>. QED
  BY <1>5 DEF Max

\* Induction over sequences, built up at their ends.
LEMMA Appending ==
  ASSUME NEW X, NEW S, << >> \in S,
         \A s \in Seq(X), x \in X : s \in S => Append(s, x) \in S
  PROVE  Seq(X) \subseteq S
<1>. DEFINE L == {n \in Nat : \A s \in Seq(X) : Len(s) = n => s \in S}
<1>1. 0 \in L
  <2>1. \A s \in Seq(X) : Len(s) = 0 => s = << >>
    OBVIOUS
  <2>. QED
    BY <2>1
<1>2. \A n \in Nat : n \in L => n + 1 \in L
  <2>. SUFFICES ASSUME NEW n \in Nat, n \in L, NEW s \in Seq(X), Len(s) = n + 1 PROVE s \in S
    OBVIOUS
  <2>. DEFINE t == SubSeq(s, 1, n)
              x == s[n + 1]
  <2>1. t \in Seq(X) /\ Len(t) = n /\ x \in X
    OBVIOUS
  <2>2. s = Append(t, x)
    OBVIOUS
  <2>3. t \in S
    BY <2>1
  <2>. HIDE DEF t, x
  <2>. QED
    BY <2>1, <2>2, <2>3
<1>3. Nat \subseteq L
  <2>. HIDE DEF L
  <2>. QED
    BY <1>1, <1>2, Induction
<1>. QED
  BY <1>3

-----------------------------------------------------------------------------
\* A function that is built up from its value at 0 by a step for each place.
Built(S, a, n, step, f) ==
  f \in [0..n -> S] /\ f[0] = a /\ \A i \in 1..n : f[i] = step[i][f[i - 1]]

LEMMA BuiltUp ==
  ASSUME NEW S, NEW a, a \in S, NEW n, n \in Nat, NEW step, step \in [1..n -> [S -> S]]
  PROVE  \E f : Built(S, a, n, step, f)
<1>. DEFINE Good(m, f) == f[0] = a /\ \A i \in 1..m : f[i] = step[i][f[i - 1]]
            T == {m \in Nat : m <= n => \E f \in [0..m -> S] : Good(m, f)}
<1>1. 0 \in T
  <2>. DEFINE f == [i \in 0..0 |-> a]
  <2>1. f \in [0..0 -> S] /\ Good(0, f)
    OBVIOUS
  <2>. QED
    BY <2>1
<1>2. \A m \in Nat : m \in T => m + 1 \in T
  <2>. SUFFICES ASSUME NEW m \in Nat, m \in T, m + 1 <= n PROVE \E f \in [0..m + 1 -> S] : Good(m + 1, f)
    OBVIOUS
  <2>1. PICK f \in [0..m -> S] : Good(m, f)
    OBVIOUS
  <2>. DEFINE v == step[m + 1][f[m]]
              g == [i \in 0..m + 1 |-> IF i = m + 1 THEN v ELSE f[i]]
  <2>2. v \in S
    OBVIOUS
  <2>. HIDE DEF v
  <2>3. g \in [0..m + 1 -> S] /\ g[m + 1] = v /\ \A i \in 0..m : g[i] = f[i]
    BY <2>2
  <2>. HIDE DEF g
  <2>4. \A i \in 1..m + 1 : g[i] = step[i][g[i - 1]]
    <3>1. \A i \in 1..m : g[i] = step[i][g[i - 1]]
      BY <2>1, <2>3
    <3>2. g[m + 1] = step[m + 1][g[(m + 1) - 1]]
      <4>1. g[m] = f[m] /\ (m + 1) - 1 = m
        BY <2>3
      <4>. QED
        BY <2>3, <4>1 DEF v
    <3>3. \A i \in 1..m + 1 : i \in 1..m \/ i = m + 1
      OBVIOUS
    <3>. QED
      BY <3>1, <3>2, <3>3
  <2>. QED
    BY <2>1, <2>3, <2>4
<1>3. n \in T
  <2>. HIDE DEF T
  <2>. QED
    BY <1>1, <1>2, Induction
<1>. QED
  BY <1>3 DEF Built

\* Two such functions agree as far as both are built up alike.
LEMMA BuiltAlike ==
  ASSUME NEW n \in Nat, NEW f, NEW g, f[0] = g[0],
         \A i \in 1..n : f[i - 1] = g[i - 1] => f[i] = g[i]
  PROVE  f[n] = g[n]
<1>. DEFINE T == {i \in Nat : i <= n => f[i] = g[i]}
<1>1. 0 \in T
  OBVIOUS
<1>2. \A i \in Nat : i \in T => i + 1 \in T
  <2>. SUFFICES ASSUME NEW i \in Nat, i \in T, i + 1 <= n PROVE f[i + 1] = g[i + 1]
    OBVIOUS
  <2>1. i + 1 \in 1..n /\ (i + 1) - 1 = i /\ f[i] = g[i]
    OBVIOUS
  <2>. QED
    BY <2>1
<1>3. n \in T
  <2>. HIDE DEF T
  <2>. QED
    BY <1>1, <1>2, Induction
<1>. QED
  BY <1>3

-----------------------------------------------------------------------------
Names == Seq(Int)
Tools == [type : ToolTypes, name : Names]

LEMMA Limits == Limit \in Nat /\ Limit - 1 \in Nat /\ Limit - 1 > 0
BY TranslationAssumption

\* What is left of a name that is cut is a name.
LEMMA CutName ==
  ASSUME NEW name \in Names, NEW n \in Nat
  PROVE  Cut(name, n) \in Names
<1>. DEFINE m == Min({n, Len(name)})
<1>1. m \in {n, Len(name)} /\ m <= n /\ m <= Len(name)
  <2>1. {n, Len(name)} \subseteq Nat /\ {n, Len(name)} # {}
    BY DEF Names
  <2>. QED
    BY <2>1, LeastIn
<1>2. m \in Nat /\ m <= Len(name)
  BY <1>1 DEF Names
<1>3. Cut(name, n) = SubSeq(name, 1, m)
  BY DEF Cut
<1>. HIDE DEF m
<1>. QED
  BY <1>2, <1>3 DEF Names

\* A shortened name fits, and one that fits is not shortened.
LEMMA ShortenedName ==
  ASSUME NEW name \in Names
  PROVE  Shortened(name) \in Names
<1>. DEFINE m == Max(Marks(name))
            rest == <<Mcp>> \o SubSeq(name, m + 1, Len(name))
<1>1. Limit \in Nat
  BY Limits
<1>2. CASE Len(name) <= Limit
  BY <1>2 DEF Shortened
<1>3. CASE ~(Len(name) <= Limit) /\ name[1] = Mcp
  <2>1. Len(name) \in Nat /\ 1 \in 1..Len(name) /\ DOMAIN name = 1..Len(name)
    BY <1>1, <1>3 DEF Names
  <2>2. Marks(name) \subseteq 1..Len(name) /\ Marks(name) # {}
    BY <1>3, <2>1 DEF Marks
  <2>3. m \in 1..Len(name)
    BY <2>1, <2>2, GreatestIn
  <2>. HIDE DEF m
  <2>4. SubSeq(name, m + 1, Len(name)) \in Names
    BY <2>1, <2>3 DEF Names
  <2>5. rest \in Names
    BY <2>4 DEF Names, Mcp
  <2>6. Shortened(name) = Cut(rest, Limit)
    BY <1>3 DEF Shortened, m
  <2>. HIDE DEF rest
  <2>. QED
    BY <1>1, <2>5, <2>6, CutName
<1>4. CASE ~(Len(name) <= Limit) /\ ~(name[1] = Mcp)
  <2>1. Shortened(name) = Cut(name, Limit)
    BY <1>4 DEF Shortened
  <2>. QED
    BY <1>1, <2>1, CutName
<1>. QED
  BY <1>2, <1>3, <1>4

\* makeUnique finds a name that is not taken: of so many numbers and one, not all can be.
LEMMA UniqueNew ==
  ASSUME NEW name \in Names, NEW used, IsFiniteSet(used)
  PROVE  Unique(name, used) \in Names /\ Unique(name, used) \notin used
<1>. DEFINE numbered(i) == Append(Cut(name, Limit - 1), i)
            N == Cardinality(used) + 1
            free == {i \in 1..N : numbered(i) \notin used}
<1>1. Cut(name, Limit - 1) \in Names
  BY Limits, CutName
<1>2. N \in Nat /\ Cardinality(used) \in Nat /\ Cardinality(used) < N
  <2>1. Cardinality(used) \in Nat
    BY FS_CardinalityType
  <2>. QED
    BY <2>1
<1>3. \A i, j \in 1..N : numbered(i) = numbered(j) => i = j
  <2>. TAKE i, j \in 1..N
  <2>1. i \in Int /\ j \in Int
    BY <1>2
  <2>2. numbered(i)[Len(Cut(name, Limit - 1)) + 1] = i /\ numbered(j)[Len(Cut(name, Limit - 1)) + 1] = j
    BY <1>1, <2>1 DEF Names
  <2>. QED
    BY <2>2
<1>4. \A i \in 1..N : numbered(i) \in Names
  BY <1>1, <1>2 DEF Names
<1>5. free # {}
  <2>. SUFFICES ASSUME \A i \in 1..N : numbered(i) \in used PROVE FALSE
    OBVIOUS
  <2>. DEFINE f == [i \in 1..N |-> numbered(i)]
  <2>1. f \in [1..N -> used] /\ \A i \in 1..N : f[i] = numbered(i)
    OBVIOUS
  <2>2. IsFiniteSet(1..N) /\ Cardinality(1..N) = N
    BY <1>2, FS_Interval
  <2>3. \A i, j \in 1..N : f[i] = f[j] => i = j
    <3>. HIDE DEF numbered, f, N
    <3>. QED
      BY <1>3, <2>1
  <2>. HIDE DEF f, N, numbered
  <2>4. \E i, j \in 1..N : i # j /\ f[i] = f[j]
    BY <1>2, <2>1, <2>2, FS_PigeonHole
  <2>. QED
    BY <2>3, <2>4
<1>6. free \subseteq Nat
  BY <1>2
<1>7. Min(free) \in free
  <2>. HIDE DEF free
  <2>. QED
    BY <1>5, <1>6, LeastIn
<1>8. numbered(Min(free)) \notin used /\ numbered(Min(free)) \in Names
  <2>. DEFINE i == Min(free)
  <2>1. i \in 1..N /\ numbered(i) \notin used
    BY <1>7
  <2>. HIDE DEF i, numbered, N
  <2>. QED
    BY <1>4, <2>1 DEF i
<1>9. Unique(name, used) = IF name \notin used THEN name ELSE numbered(Min(free))
  BY DEF Unique
<1>. HIDE DEF numbered, free
<1>. QED
  BY <1>8, <1>9

-----------------------------------------------------------------------------
\* Functional, as a function of how far it has come, and at its end.
FunctionalTo(tools, f) ==
  f = [i \in 0..Len(tools) |->
        IF i = 0 THEN <<>>
        ELSE IF tools[i].type = "function" THEN Append(f[i - 1], tools[i]) ELSE f[i - 1]]
NextFunction(t, v) == IF t.type = "function" THEN Append(v, t) ELSE v
FunctionalBy(tools, n, f) ==
  /\ f \in [0..n -> Seq(Tools)] /\ Functional(tools) = f[n]
  /\ f[0] = <<>> /\ \A i \in 1..n : f[i] = NextFunction(tools[i], f[i - 1])

\* There is such a function.
LEMMA FunctionalIs ==
  ASSUME NEW tools \in Seq(Tools), NEW n \in Nat, n = Len(tools)
  PROVE  \E f : FunctionalBy(tools, n, f)
<1>. DEFINE next(i, v) == NextFunction(tools[i], v)
            step == [i \in 1..n |-> [v \in Seq(Tools) |-> next(i, v)]]
            some == CHOOSE f : FunctionalTo(tools, f)
<1>1. /\ step \in [1..n -> [Seq(Tools) -> Seq(Tools)]]
      /\ \A v \in Seq(Tools), i \in 1..n : step[i][v] = next(i, v)
  <2>1. \A i \in 1..n : tools[i] \in Tools
    OBVIOUS
  <2>. QED
    BY <2>1 DEF NextFunction
<1>2. /\ 0 \in 0..n
      /\ \A i \in 0..n : i # 0 => i \in 1..n
      /\ \A i \in 1..n : i \in 0..n /\ i # 0 /\ i - 1 \in 0..n
  OBVIOUS
<1>. HIDE DEF step, some
<1>3. PICK f : Built(Seq(Tools), <<>>, n, step, f)
  <2>1. <<>> \in Seq(Tools) /\ step \in [1..n -> [Seq(Tools) -> Seq(Tools)]]
    BY <1>1
  <2>. QED
    BY <2>1, BuiltUp, Zenon
<1>4. f \in [0..n -> Seq(Tools)] /\ f[0] = <<>> /\ \A i \in 1..n : f[i] = next(i, f[i - 1])
  <2>. HIDE DEF next
  <2>. QED
    BY <1>1, <1>2, <1>3 DEF Built
<1>5. FunctionalTo(tools, f)
  <2>1. \A i \in 0..n : f[i] = IF i = 0 THEN <<>> ELSE next(i, f[i - 1])
    <3>. HIDE DEF next
    <3>. QED
      BY <1>2, <1>4
  <2>. QED
    BY <1>4, <2>1 DEF FunctionalTo, NextFunction
<1>6. FunctionalTo(tools, some)
  BY <1>5 DEF some
<1>7. Functional(tools) = some[n] /\ some[0] = <<>> /\ \A i \in 1..n : some[i] = next(i, some[i - 1])
  <2>1. Functional(tools) = some[n]
    BY DEF Functional, FunctionalTo, some
  <2>2. \A i \in 0..n : some[i] = IF i = 0 THEN <<>> ELSE next(i, some[i - 1])
    BY <1>6 DEF FunctionalTo, NextFunction
  <2>. HIDE DEF next
  <2>. QED
    BY <1>2, <2>1, <2>2
<1>8. some[n] = f[n]
  <2>1. some[0] = f[0] /\ \A i \in 1..n : some[i - 1] = f[i - 1] => some[i] = f[i]
    <3>. HIDE DEF next
    <3>. QED
      BY <1>4, <1>7
  <2>. QED
    BY <2>1, BuiltAlike
<1>. QED
  BY <1>4, <1>7, <1>8 DEF FunctionalBy

LEMMA FunctionalEmpty == Functional(<<>>) = <<>>
<1>1. <<>> \in Seq(Tools) /\ 0 = Len(<<>>) /\ 0 \in Nat
  OBVIOUS
<1>2. PICK f : FunctionalBy(<<>>, 0, f)
  BY <1>1, FunctionalIs, Zenon
<1>. QED
  BY <1>2 DEF FunctionalBy

LEMMA FunctionalAppend ==
  ASSUME NEW s \in Seq(Tools), NEW t \in Tools
  PROVE  /\ Functional(s) \in Seq(Tools)
         /\ Functional(Append(s, t)) = NextFunction(t, Functional(s))
<1>. DEFINE u == Append(s, t)
<1>1. PICK n \in Nat : n = Len(s)
  OBVIOUS
<1>2. /\ u \in Seq(Tools) /\ n + 1 \in Nat /\ Len(u) = n + 1 /\ u[n + 1] = t /\ n + 1 \in 1..n + 1
      /\ \A i \in 1..n : u[i] = s[i] /\ i \in 1..n + 1
  BY <1>1
<1>. HIDE DEF u
<1>3. PICK f : FunctionalBy(s, n, f)
  BY <1>1, FunctionalIs, Zenon
<1>4. PICK g : FunctionalBy(u, n + 1, g)
  <2>1. u \in Seq(Tools) /\ n + 1 \in Nat /\ n + 1 = Len(u)
    BY <1>2
  <2>. QED
    BY <2>1, FunctionalIs, Zenon
<1>5. f[n] = g[n]
  <2>1. f[0] = g[0] /\ \A i \in 1..n : f[i - 1] = g[i - 1] => f[i] = g[i]
    BY <1>2, <1>3, <1>4 DEF FunctionalBy
  <2>. QED
    BY <2>1, BuiltAlike
<1>6. g[n + 1] = NextFunction(t, g[n])
  <2>1. (n + 1) - 1 = n
    OBVIOUS
  <2>. QED
    BY <1>2, <1>4, <2>1 DEF FunctionalBy
<1>7. Functional(s) \in Seq(Tools)
  BY <1>1, <1>3 DEF FunctionalBy
<1>8. Functional(u) = NextFunction(t, Functional(s))
  BY <1>3, <1>4, <1>5, <1>6 DEF FunctionalBy
<1>. QED
  BY <1>7, <1>8 DEF u

\* The functions among the tools are these tools, each of them is there, and they
\* all are if the tools are functions.
Sorts(tools, fs) ==
  /\ fs \in Seq(Tools)
  /\ \A i \in DOMAIN fs : fs[i].type = "function" /\ \E k \in DOMAIN tools : fs[i] = tools[k]
  /\ \A k \in DOMAIN tools : tools[k].type = "function" => \E i \in DOMAIN fs : fs[i] = tools[k]
  /\ (\A k \in DOMAIN tools : tools[k].type = "function") => fs = tools

\* The functions of some tools are those tools that are functions, in their order.
LEMMA FunctionalSorts == \A tools \in Seq(Tools) : Sorts(tools, Functional(tools))
<1>. DEFINE S == {tools \in Seq(Tools) : Sorts(tools, Functional(tools))}
<1>1. <<>> \in S
  <2>1. <<>> \in Seq(Tools) /\ DOMAIN <<>> = {}
    OBVIOUS
  <2>2. Sorts(<<>>, <<>>)
    BY <2>1 DEF Sorts
  <2>. QED
    BY <2>1, <2>2, FunctionalEmpty
<1>2. ASSUME NEW s \in Seq(Tools), NEW t \in Tools, s \in S PROVE Append(s, t) \in S
  <2>. DEFINE u == Append(s, t)
  <2>1. PICK n \in Nat : n = Len(s)
    OBVIOUS
  <2>2. /\ u \in Seq(Tools) /\ DOMAIN u = 1..n + 1 /\ u[n + 1] = t /\ n + 1 \in 1..n + 1 /\ DOMAIN s = 1..n
        /\ \A i \in 1..n : u[i] = s[i] /\ i \in 1..n + 1
        /\ \A i \in 1..n + 1 : i \in 1..n \/ i = n + 1
    BY <2>1
  <2>. HIDE DEF u
  <2>3. PICK fs \in Seq(Tools) : fs = Functional(s) /\ Sorts(s, fs) /\ Functional(u) = NextFunction(t, fs)
    <3>1. Sorts(s, Functional(s))
      BY <1>2
    <3>2. Functional(s) \in Seq(Tools) /\ Functional(u) = NextFunction(t, Functional(s))
      BY FunctionalAppend DEF u
    <3>. QED
      BY <3>1, <3>2
  <2>4. CASE t.type = "function"
    <3>. DEFINE gs == Append(fs, t)
    <3>1. PICK m \in Nat : m = Len(fs)
      OBVIOUS
    <3>2. /\ gs \in Seq(Tools) /\ DOMAIN gs = 1..m + 1 /\ gs[m + 1] = t /\ m + 1 \in 1..m + 1 /\ DOMAIN fs = 1..m
          /\ \A i \in 1..m : gs[i] = fs[i] /\ i \in 1..m + 1
          /\ \A i \in 1..m + 1 : i \in 1..m \/ i = m + 1
      BY <3>1
    <3>3. Functional(u) = gs
      BY <2>3, <2>4 DEF NextFunction
    <3>4. (\A k \in DOMAIN u : u[k].type = "function") => gs = u
      <4>1. (\A k \in DOMAIN u : u[k].type = "function") => \A k \in DOMAIN s : s[k].type = "function"
        BY <2>2
      <4>. QED
        BY <2>3, <4>1 DEF Sorts, u
    <3>. HIDE DEF gs
    <3>5. \A i \in DOMAIN gs : gs[i].type = "function" /\ \E k \in DOMAIN u : gs[i] = u[k]
      <4>. TAKE i \in DOMAIN gs
      <4>1. CASE i = m + 1
        BY <2>2, <2>4, <3>2, <4>1
      <4>2. CASE i \in 1..m
        <5>1. fs[i].type = "function" /\ \E k \in DOMAIN s : fs[i] = s[k]
          BY <2>3, <3>2, <4>2 DEF Sorts
        <5>. QED
          BY <2>2, <3>2, <4>2, <5>1
      <4>. QED
        BY <3>2, <4>1, <4>2
    <3>6. \A k \in DOMAIN u : u[k].type = "function" => \E i \in DOMAIN gs : gs[i] = u[k]
      <4>. SUFFICES ASSUME NEW k \in DOMAIN u, u[k].type = "function" PROVE \E i \in DOMAIN gs : gs[i] = u[k]
        OBVIOUS
      <4>1. CASE k = n + 1
        BY <2>2, <3>2, <4>1
      <4>2. CASE k \in 1..n
        <5>1. \E i \in DOMAIN fs : fs[i] = s[k]
          BY <2>2, <2>3, <4>2 DEF Sorts
        <5>. QED
          BY <2>2, <3>2, <4>2, <5>1
      <4>. QED
        BY <2>2, <4>1, <4>2
    <3>7. Sorts(u, Functional(u))
      BY <3>2, <3>3, <3>4, <3>5, <3>6 DEF Sorts
    <3>. QED
      BY <2>2, <3>7 DEF u
  <2>5. CASE t.type # "function"
    <3>1. Functional(u) = fs
      BY <2>3, <2>5 DEF NextFunction
    <3>2. \A i \in DOMAIN fs : fs[i].type = "function" /\ \E k \in DOMAIN u : fs[i] = u[k]
      <4>. TAKE i \in DOMAIN fs
      <4>1. fs[i].type = "function" /\ \E k \in DOMAIN s : fs[i] = s[k]
        BY <2>3 DEF Sorts
      <4>. QED
        BY <2>2, <4>1
    <3>3. \A k \in DOMAIN u : u[k].type = "function" => \E i \in DOMAIN fs : fs[i] = u[k]
      <4>. SUFFICES ASSUME NEW k \in DOMAIN u, u[k].type = "function" PROVE \E i \in DOMAIN fs : fs[i] = u[k]
        OBVIOUS
      <4>1. k \in DOMAIN s /\ s[k] = u[k]
        BY <2>2, <2>5
      <4>. QED
        BY <2>3, <4>1 DEF Sorts
    <3>4. ~(\A k \in DOMAIN u : u[k].type = "function")
      BY <2>2, <2>5
    <3>5. Sorts(u, fs)
      BY <3>2, <3>3, <3>4 DEF Sorts
    <3>. QED
      BY <2>2, <3>1, <3>5 DEF u
  <2>. QED
    BY <2>4, <2>5
<1>3. Seq(Tools) \subseteq S
  <2>. HIDE DEF S
  <2>. QED
    BY <1>1, <1>2, Appending
<1>. QED
  BY <1>3

\* injectImageGeneration adds no function.
LEMMA DrawingNoFunction ==
  ASSUME NEW tools \in Seq(Tools), NEW image
  PROVE  /\ WithDrawing(tools, image) \in Seq(Tools)
         /\ Functional(WithDrawing(tools, image)) = Functional(tools)
<1>1. Drawing \in Tools /\ Drawing.type # "function"
  <2>1. <<>> \in Seq(Int)
    OBVIOUS
  <2>. QED
    BY <2>1 DEF Drawing, Tools, ToolTypes, Names
<1>2. CASE WithDrawing(tools, image) = tools
  BY <1>2
<1>3. CASE WithDrawing(tools, image) = Append(tools, Drawing)
  BY <1>1, <1>3, FunctionalAppend DEF NextFunction
<1>. QED
  BY <1>2, <1>3 DEF WithDrawing

\* The next function is given a name that none has.
LEMMA ShortOfNew ==
  ASSUME NEW v \in Seq(Names), NEW name \in Names
  PROVE  ShortOf(v, name) \in Names /\ \A i \in DOMAIN v : ShortOf(v, name) # v[i]
<1>1. IsFiniteSet(Range(v))
  <2>1. IsFiniteSet(1..Len(v))
    <3>1. Len(v) \in Int /\ 1 \in Int
      OBVIOUS
    <3>. QED
      BY <3>1, FS_Interval
  <2>2. v \in Surjection(1..Len(v), Range(v))
    <3>1. v \in [1..Len(v) -> Range(v)] /\ \A y \in Range(v) : \E i \in 1..Len(v) : v[i] = y
      BY DEF Range
    <3>. QED
      BY <3>1 DEF Surjection
  <2>. QED
    BY <2>1, <2>2, FS_Surjection
<1>2. Shortened(name) \in Names
  BY ShortenedName
<1>3. Unique(Shortened(name), Range(v)) \in Names /\ Unique(Shortened(name), Range(v)) \notin Range(v)
  BY <1>1, <1>2, UniqueNew
<1>4. \A i \in DOMAIN v : v[i] \in Range(v)
  BY DEF Range
<1>. QED
  BY <1>3, <1>4 DEF ShortOf

-----------------------------------------------------------------------------
\* Shorts, as a function of how far it has come, and at its end.
ShortsTo(fs, f) ==
  f = [i \in 0..Len(fs) |->
        IF i = 0 THEN <<>> ELSE Append(f[i - 1], ShortOf(f[i - 1], fs[i].name))]
NextShort(t, v) == Append(v, ShortOf(v, t.name))
ShortsBy(fs, n, f) ==
  /\ f \in [0..n -> Seq(Names)] /\ Shorts(fs) = f[n]
  /\ f[0] = <<>> /\ \A i \in 1..n : f[i] = NextShort(fs[i], f[i - 1])

\* There is such a function.
LEMMA ShortsIs ==
  ASSUME NEW fs \in Seq(Tools), NEW n \in Nat, n = Len(fs)
  PROVE  \E f : ShortsBy(fs, n, f)
<1>. DEFINE next(i, v) == NextShort(fs[i], v)
            step == [i \in 1..n |-> [v \in Seq(Names) |-> next(i, v)]]
            some == CHOOSE f : ShortsTo(fs, f)
<1>1. /\ step \in [1..n -> [Seq(Names) -> Seq(Names)]]
      /\ \A v \in Seq(Names), i \in 1..n : step[i][v] = next(i, v)
  <2>1. \A i \in 1..n : fs[i] \in Tools
    OBVIOUS
  <2>2. \A i \in 1..n : fs[i].name \in Names
    BY <2>1 DEF Tools
  <2>3. \A i \in 1..n, v \in Seq(Names) : ShortOf(v, fs[i].name) \in Names
    BY <2>2, ShortOfNew
  <2>4. \A i \in 1..n, v \in Seq(Names) : next(i, v) \in Seq(Names)
    BY <2>3 DEF NextShort
  <2>. HIDE DEF next
  <2>. QED
    BY <2>4
<1>2. /\ 0 \in 0..n
      /\ \A i \in 0..n : i # 0 => i \in 1..n
      /\ \A i \in 1..n : i \in 0..n /\ i # 0 /\ i - 1 \in 0..n
  OBVIOUS
<1>. HIDE DEF step, some
<1>3. PICK f : Built(Seq(Names), <<>>, n, step, f)
  <2>1. <<>> \in Seq(Names) /\ step \in [1..n -> [Seq(Names) -> Seq(Names)]]
    BY <1>1
  <2>. QED
    BY <2>1, BuiltUp, Zenon
<1>4. f \in [0..n -> Seq(Names)] /\ f[0] = <<>> /\ \A i \in 1..n : f[i] = next(i, f[i - 1])
  <2>. HIDE DEF next
  <2>. QED
    BY <1>1, <1>2, <1>3 DEF Built
<1>5. ShortsTo(fs, f)
  <2>1. \A i \in 0..n : f[i] = IF i = 0 THEN <<>> ELSE next(i, f[i - 1])
    <3>. HIDE DEF next
    <3>. QED
      BY <1>2, <1>4
  <2>. QED
    BY <1>4, <2>1 DEF ShortsTo, NextShort
<1>6. ShortsTo(fs, some)
  BY <1>5 DEF some
<1>7. Shorts(fs) = some[n] /\ some[0] = <<>> /\ \A i \in 1..n : some[i] = next(i, some[i - 1])
  <2>1. Shorts(fs) = some[n]
    BY DEF Shorts, ShortsTo, some
  <2>2. \A i \in 0..n : some[i] = IF i = 0 THEN <<>> ELSE next(i, some[i - 1])
    BY <1>6 DEF ShortsTo, NextShort
  <2>. HIDE DEF next
  <2>. QED
    BY <1>2, <2>1, <2>2
<1>8. some[n] = f[n]
  <2>1. some[0] = f[0] /\ \A i \in 1..n : some[i - 1] = f[i - 1] => some[i] = f[i]
    <3>. HIDE DEF next
    <3>. QED
      BY <1>4, <1>7
  <2>. QED
    BY <2>1, BuiltAlike
<1>. QED
  BY <1>4, <1>7, <1>8 DEF ShortsBy

LEMMA ShortsEmpty == Shorts(<<>>) = <<>>
<1>1. <<>> \in Seq(Tools) /\ 0 = Len(<<>>) /\ 0 \in Nat
  OBVIOUS
<1>2. PICK f : ShortsBy(<<>>, 0, f)
  BY <1>1, ShortsIs, Zenon
<1>. QED
  BY <1>2 DEF ShortsBy

LEMMA ShortsAppend ==
  ASSUME NEW s \in Seq(Tools), NEW t \in Tools
  PROVE  /\ Shorts(s) \in Seq(Names)
         /\ Shorts(Append(s, t)) = NextShort(t, Shorts(s))
<1>. DEFINE u == Append(s, t)
<1>1. PICK n \in Nat : n = Len(s)
  OBVIOUS
<1>2. /\ u \in Seq(Tools) /\ n + 1 \in Nat /\ Len(u) = n + 1 /\ u[n + 1] = t /\ n + 1 \in 1..n + 1
      /\ \A i \in 1..n : u[i] = s[i] /\ i \in 1..n + 1
  BY <1>1
<1>. HIDE DEF u
<1>3. PICK f : ShortsBy(s, n, f)
  BY <1>1, ShortsIs, Zenon
<1>4. PICK g : ShortsBy(u, n + 1, g)
  <2>1. u \in Seq(Tools) /\ n + 1 \in Nat /\ n + 1 = Len(u)
    BY <1>2
  <2>. QED
    BY <2>1, ShortsIs, Zenon
<1>5. f[n] = g[n]
  <2>1. f[0] = g[0] /\ \A i \in 1..n : f[i - 1] = g[i - 1] => f[i] = g[i]
    BY <1>2, <1>3, <1>4 DEF ShortsBy
  <2>. QED
    BY <2>1, BuiltAlike
<1>6. g[n + 1] = NextShort(t, g[n])
  <2>1. (n + 1) - 1 = n
    OBVIOUS
  <2>. QED
    BY <1>2, <1>4, <2>1 DEF ShortsBy
<1>7. Shorts(s) \in Seq(Names)
  BY <1>1, <1>3 DEF ShortsBy
<1>8. Shorts(u) = NextShort(t, Shorts(s))
  BY <1>3, <1>4, <1>5, <1>6 DEF ShortsBy
<1>. QED
  BY <1>7, <1>8 DEF u

\* There is a short name for each function; no two are alike; and names that fit and
\* are all different are their own short names.
Fit(fs) ==
  /\ \A i \in DOMAIN fs : Len(fs[i].name) <= Limit
  /\ \A i, j \in DOMAIN fs : fs[i].name = fs[j].name => i = j
Distinct(fs, v) ==
  /\ v \in Seq(Names) /\ DOMAIN v = DOMAIN fs
  /\ \A i, j \in DOMAIN v : v[i] = v[j] => i = j
  /\ Fit(fs) => \A i \in DOMAIN v : v[i] = fs[i].name

\* The short names differ and fit; if the names do, they are not shortened.
LEMMA ShortsDistinct == \A fs \in Seq(Tools) : Distinct(fs, Shorts(fs))
<1>. DEFINE S == {fs \in Seq(Tools) : Distinct(fs, Shorts(fs))}
<1>1. <<>> \in S
  <2>1. <<>> \in Seq(Tools) /\ <<>> \in Seq(Names) /\ DOMAIN <<>> = {}
    OBVIOUS
  <2>2. Distinct(<<>>, <<>>)
    BY <2>1 DEF Distinct
  <2>. QED
    BY <2>1, <2>2, ShortsEmpty
<1>2. ASSUME NEW s \in Seq(Tools), NEW t \in Tools, s \in S PROVE Append(s, t) \in S
  <2>. DEFINE u == Append(s, t)
  <2>1. PICK n \in Nat : n = Len(s)
    OBVIOUS
  <2>2. /\ u \in Seq(Tools) /\ DOMAIN u = 1..n + 1 /\ u[n + 1] = t /\ n + 1 \in 1..n + 1 /\ DOMAIN s = 1..n
        /\ \A i \in 1..n : u[i] = s[i] /\ i \in 1..n + 1 /\ i # n + 1
        /\ \A i \in 1..n + 1 : i \in 1..n \/ i = n + 1
    BY <2>1
  <2>. HIDE DEF u
  <2>3. PICK v \in Seq(Names) : v = Shorts(s) /\ Distinct(s, v) /\ Shorts(u) = NextShort(t, v)
    <3>1. Distinct(s, Shorts(s))
      BY <1>2
    <3>2. Shorts(s) \in Seq(Names) /\ Shorts(u) = NextShort(t, Shorts(s))
      BY ShortsAppend DEF u
    <3>. QED
      BY <3>1, <3>2
  <2>4. PICK x : x = ShortOf(v, t.name)
    OBVIOUS
  <2>5. x \in Names /\ \A i \in DOMAIN v : x # v[i]
    <3>1. t.name \in Names
      BY DEF Tools
    <3>. QED
      BY <2>4, <3>1, ShortOfNew
  <2>. DEFINE w == Append(v, x)
  <2>6. /\ w \in Seq(Names) /\ DOMAIN w = 1..n + 1 /\ w[n + 1] = x /\ DOMAIN v = 1..n
        /\ \A i \in 1..n : w[i] = v[i]
    <3>1. DOMAIN v = 1..n
      BY <2>2, <2>3 DEF Distinct
    <3>2. Len(v) = n
      BY <3>1
    <3>. QED
      BY <2>5, <3>1, <3>2
  <2>7. Shorts(u) = w
    BY <2>3, <2>4 DEF NextShort
  <2>. HIDE DEF w
  <2>8. \A i, j \in DOMAIN w : w[i] = w[j] => i = j
    <3>. SUFFICES ASSUME NEW i \in 1..n + 1, NEW j \in 1..n + 1, w[i] = w[j] PROVE i = j
      BY <2>6
    <3>1. CASE i \in 1..n /\ j \in 1..n
      BY <2>3, <2>6, <3>1 DEF Distinct
    <3>2. CASE i = n + 1 /\ j \in 1..n
      BY <2>5, <2>6, <3>2
    <3>3. CASE i \in 1..n /\ j = n + 1
      BY <2>5, <2>6, <3>3
    <3>. QED
      BY <2>2, <3>1, <3>2, <3>3
  <2>9. ASSUME Fit(u) PROVE \A i \in DOMAIN w : w[i] = u[i].name
    <3>1. Fit(s)
      BY <2>2, <2>9 DEF Fit
    <3>2. \A i \in 1..n : v[i] = s[i].name
      BY <2>3, <2>6, <3>1 DEF Distinct
    <3>3. Shortened(t.name) = t.name
      <4>1. Len(t.name) <= Limit
        BY <2>2, <2>9 DEF Fit
      <4>. QED
        BY <4>1 DEF Shortened
    <3>4. t.name \notin Range(v)
      <4>1. \A i \in 1..n : s[i].name # t.name
        BY <2>2, <2>9 DEF Fit
      <4>. QED
        BY <2>6, <3>2, <4>1 DEF Range
    <3>5. x = t.name
      BY <2>4, <3>3, <3>4 DEF ShortOf, Unique
    <3>. QED
      BY <2>2, <2>6, <3>2, <3>5
  <2>10. Distinct(u, w)
    BY <2>2, <2>6, <2>8, <2>9 DEF Distinct
  <2>. QED
    BY <2>2, <2>7, <2>10 DEF u
<1>3. Seq(Tools) \subseteq S
  <2>. HIDE DEF S
  <2>. QED
    BY <1>1, <1>2, Appending
<1>. QED
  BY <1>3

-----------------------------------------------------------------------------
\* The short names of two declared functions are alike only if their names are.
Declares(tools, name) == \E k \in DOMAIN tools : tools[k].type = "function" /\ tools[k].name = name

\* A declared name has the short name that was made for one of its declarations.
LEMMA ShortIs ==
  ASSUME NEW tools \in Seq(Tools), NEW name, Declares(tools, name), NEW fs, fs = Functional(tools)
  PROVE  \E i \in DOMAIN fs : fs[i].name = name /\ Short(tools, name) = Shorts(fs)[i]
<1>1. fs \in Seq(Tools) /\ Sorts(tools, fs)
  BY FunctionalSorts DEF Sorts
<1>2. PICK n \in Nat : n = Len(fs) /\ DOMAIN fs = 1..n
  BY <1>1
<1>3. DeclaredAt(fs, name) \subseteq 1..n /\ DeclaredAt(fs, name) # {}
  <2>1. PICK k \in DOMAIN tools : tools[k].type = "function" /\ tools[k].name = name
    BY DEF Declares
  <2>2. PICK i \in DOMAIN fs : fs[i] = tools[k]
    BY <1>1, <2>1 DEF Sorts
  <2>. QED
    BY <1>2, <2>1, <2>2 DEF DeclaredAt
<1>4. Max(DeclaredAt(fs, name)) \in DeclaredAt(fs, name)
  BY <1>2, <1>3, GreatestIn
<1>5. Short(tools, name) = Shorts(fs)[Max(DeclaredAt(fs, name))]
  BY <1>3 DEF Short
<1>. QED
  BY <1>4, <1>5 DEF DeclaredAt

\* Names that differ have short names that differ.
LEMMA ShortInjective ==
  ASSUME NEW tools \in Seq(Tools), NEW a, NEW b, Declares(tools, a), Declares(tools, b),
         Short(tools, a) = Short(tools, b)
  PROVE  a = b
<1>1. PICK fs \in Seq(Tools) : fs = Functional(tools)
  BY FunctionalSorts DEF Sorts
<1>2. PICK i \in DOMAIN fs : fs[i].name = a /\ Short(tools, a) = Shorts(fs)[i]
  BY <1>1, ShortIs
<1>3. PICK j \in DOMAIN fs : fs[j].name = b /\ Short(tools, b) = Shorts(fs)[j]
  BY <1>1, ShortIs
<1>4. Distinct(fs, Shorts(fs))
  BY ShortsDistinct
<1>. QED
  BY <1>2, <1>3, <1>4 DEF Distinct

\* A short name is a name.
LEMMA ShortName ==
  ASSUME NEW tools \in Seq(Tools), NEW name \in Names
  PROVE  Short(tools, name) \in Names
<1>1. PICK fs \in Seq(Tools) : fs = Functional(tools) /\ Sorts(tools, fs)
  BY FunctionalSorts DEF Sorts
<1>2. CASE DeclaredAt(fs, name) = {}
  BY <1>1, <1>2, ShortenedName DEF Short
<1>3. CASE DeclaredAt(fs, name) # {}
  <2>1. PICK i \in DOMAIN fs : fs[i].name = name
    BY <1>3 DEF DeclaredAt
  <2>2. Declares(tools, name)
    BY <1>1, <2>1 DEF Sorts, Declares
  <2>3. PICK j \in DOMAIN fs : Short(tools, name) = Shorts(fs)[j]
    BY <1>1, <2>2, ShortIs
  <2>4. Shorts(fs) \in Seq(Names) /\ DOMAIN Shorts(fs) = DOMAIN fs
    BY ShortsDistinct DEF Distinct
  <2>. QED
    BY <2>3, <2>4
<1>. QED
  BY <1>2, <1>3

\* The image tool changes no short name and declares nothing.
LEMMA DrawingKeeps ==
  ASSUME NEW tools \in Seq(Tools), NEW image, NEW name
  PROVE  /\ Short(WithDrawing(tools, image), name) = Short(tools, name)
         /\ Declares(WithDrawing(tools, image), name) <=> Declares(tools, name)
<1>1. Short(WithDrawing(tools, image), name) = Short(tools, name)
  BY DrawingNoFunction DEF Short
<1>2. CASE WithDrawing(tools, image) = tools
  BY <1>1, <1>2
<1>3. CASE WithDrawing(tools, image) = Append(tools, Drawing)
  <2>1. PICK n \in Nat : n = Len(tools)
    OBVIOUS
  <2>2. Drawing \in Tools
    <3>1. <<>> \in Seq(Int)
      OBVIOUS
    <3>. QED
      BY <3>1 DEF Drawing, Tools, ToolTypes, Names
  <2>3. PICK u : u = Append(tools, Drawing)
    OBVIOUS
  <2>4. /\ DOMAIN tools = 1..n /\ DOMAIN u = 1..n + 1 /\ \A k \in 1..n : u[k] = tools[k]
        /\ u[n + 1] = Drawing /\ \A k \in 1..n + 1 : k \in 1..n \/ k = n + 1
        /\ \A k \in 1..n : k \in 1..n + 1
    BY <2>1, <2>2, <2>3
  <2>5. u[n + 1].type # "function"
    BY <2>4 DEF Drawing
  <2>6. Declares(u, name) <=> Declares(tools, name)
    BY <2>4, <2>5 DEF Declares
  <2>. QED
    BY <1>1, <1>3, <2>3, <2>6
<1>. QED
  BY <1>2, <1>3 DEF WithDrawing

\* Names that fit and are all different are their own short names.
LEMMA FittingShort ==
  ASSUME NEW tools \in Seq(Tools), \A k \in DOMAIN tools : tools[k].type = "function", Fit(tools),
         NEW name, Declares(tools, name)
  PROVE  Short(tools, name) = name
<1>1. Functional(tools) = tools
  BY FunctionalSorts DEF Sorts
<1>2. PICK i \in DOMAIN tools : tools[i].name = name /\ Short(tools, name) = Shorts(tools)[i]
  BY <1>1, ShortIs
<1>. QED
  BY <1>2, ShortsDistinct DEF Distinct

\* BuildReverseToolNameMap has the name of a declared function for its short name.
LEMMA ReverseMap ==
  ASSUME NEW tools \in Seq(Tools), NEW name, Declares(tools, name), client = "chat"
  PROVE  Restored(tools, Short(tools, name)) = name
<1>. DEFINE of == {t \in Range(Functional(tools)) : Short(tools, t.name) = Short(tools, name)}
<1>1. PICK fs \in Seq(Tools) : fs = Functional(tools) /\ Sorts(tools, fs)
  BY FunctionalSorts DEF Sorts
<1>2. \A t \in of : t.name = name
  <2>. TAKE t \in of
  <2>1. PICK i \in DOMAIN fs : fs[i] = t
    BY <1>1 DEF Range
  <2>2. Declares(tools, t.name)
    <3>1. fs[i].type = "function" /\ \E k \in DOMAIN tools : fs[i] = tools[k]
      BY <1>1 DEF Sorts
    <3>. HIDE DEF of
    <3>. QED
      BY <2>1, <3>1 DEF Declares
  <2>3. Short(tools, t.name) = Short(tools, name)
    OBVIOUS
  <2>. QED
    BY <2>2, <2>3, ShortInjective
<1>3. of # {}
  <2>1. PICK k \in DOMAIN tools : tools[k].type = "function" /\ tools[k].name = name
    BY DEF Declares
  <2>2. PICK i \in DOMAIN fs : fs[i] = tools[k]
    BY <1>1, <2>1 DEF Sorts
  <2>. QED
    BY <1>1, <2>1, <2>2 DEF Range
<1>4. Restored(tools, Short(tools, name)) = (CHOOSE t \in of : TRUE).name
  BY <1>3 DEF Restored
<1>5. (CHOOSE t \in of : TRUE) \in of
  BY <1>3
<1>. HIDE DEF of
<1>. QED
  BY <1>2, <1>4, <1>5

\* The names that the client is told are names.
LEMMA RestoredName ==
  ASSUME NEW tools \in Seq(Tools), NEW name \in Names
  PROVE  Restored(tools, name) \in Names
<1>. DEFINE of == {t \in Range(Functional(tools)) : Short(tools, t.name) = name}
<1>1. \A t \in of : t.name \in Names
  <2>. TAKE t \in of
  <2>1. PICK fs \in Seq(Tools) : fs = Functional(tools)
    BY FunctionalSorts DEF Sorts
  <2>2. PICK i \in DOMAIN fs : fs[i] = t
    BY <2>1 DEF Range
  <2>3. t \in Tools
    BY <2>2
  <2>. HIDE DEF of
  <2>. QED
    BY <2>3 DEF Tools
<1>2. CASE client # "chat" \/ of = {}
  BY <1>2 DEF Restored
<1>3. CASE ~(client # "chat" \/ of = {})
  <2>1. PICK t : t = CHOOSE u \in of : TRUE
    OBVIOUS
  <2>2. t \in of
    BY <1>3, <2>1
  <2>3. Restored(tools, name) = t.name
    BY <1>3, <2>1 DEF Restored
  <2>. HIDE DEF of
  <2>. QED
    BY <1>1, <2>2, <2>3
<1>. QED
  BY <1>2, <1>3

-----------------------------------------------------------------------------
\* What a request says of the tools, for a client: tools and names are what is sent.
SaysOfTools(body, tools, names) ==
  /\ tools \in Seq(Tools) /\ names \in Seq(Names) /\ DOMAIN names = DOMAIN tools
  /\ \A k \in DOMAIN tools : tools[k].type = "function" =>
       /\ Declares(body.tools, tools[k].name)
       /\ names[k] = IF client = "responses" THEN tools[k].name ELSE Short(body.tools, tools[k].name)
       /\ Restored(tools, names[k]) = tools[k].name
  /\ \A name : Declares(body.tools, name) => \E k \in DOMAIN tools : tools[k].type = "function" /\ tools[k].name = name

LEMMA BodyTools == ASSUME NEW body \in Bodies PROVE body.tools \in Seq(Tools) /\ body.ask.json \in BOOLEAN
BY TranslationAssumption DEF Tools, Names

\* A translation says so of the tools, whatever the conversation.
LEMMA TranslatedTools ==
  ASSUME client \in Clients, NEW body \in Bodies, Declarable(body.tools), NEW messages, NEW told,
         told = Translate(messages, body)
  PROVE  SaysOfTools(body, told.tools, told.names)
<1>1. PICK all \in Seq(Tools) : all = body.tools
  BY BodyTools
<1>2. PICK tools \in Seq(Tools) : \E image : tools = WithDrawing(all, image) /\ told.tools = tools
  BY <1>1, DrawingNoFunction DEF Translate
<1>3. PICK image : tools = WithDrawing(all, image) /\ told.tools = tools
  BY <1>2
<1>4. PICK names : names = told.names
  OBVIOUS
<1>5. /\ DOMAIN names = DOMAIN tools
      /\ \A k \in DOMAIN tools :
           names[k] = IF client = "responses" \/ tools[k].type \notin {"function", "custom"} THEN tools[k].name
                      ELSE Short(all, tools[k].name)
  BY <1>1, <1>3, <1>4 DEF Translate
<1>6. \A k \in DOMAIN tools : tools[k].name \in Names /\ Short(all, tools[k].name) \in Names
  <2>. TAKE k \in DOMAIN tools
  <2>1. tools[k] \in Tools
    OBVIOUS
  <2>2. tools[k].name \in Names
    BY <2>1 DEF Tools
  <2>. QED
    BY <2>2, ShortName
<1>7. names \in Seq(Names)
  <2>1. names = [k \in DOMAIN tools |-> names[k]]
    BY <1>1, <1>3, <1>4 DEF Translate
  <2>2. \A k \in DOMAIN tools : names[k] \in Names
    BY <1>5, <1>6
  <2>3. PICK n \in Nat : DOMAIN tools = 1..n
    OBVIOUS
  <2>4. names \in [1..n -> Names]
    BY <2>1, <2>2, <2>3, Zenon
  <2>. QED
    BY <2>3, <2>4
<1>8. \A name : Short(tools, name) = Short(all, name) /\ (Declares(tools, name) <=> Declares(all, name))
  BY <1>3, DrawingKeeps
<1>9. ASSUME NEW k \in DOMAIN tools, tools[k].type = "function"
      PROVE  /\ Declares(all, tools[k].name)
             /\ names[k] = IF client = "responses" THEN tools[k].name ELSE Short(all, tools[k].name)
             /\ Restored(tools, names[k]) = tools[k].name
  <2>1. Declares(tools, tools[k].name)
    BY <1>9 DEF Declares
  <2>2. Declares(all, tools[k].name)
    BY <1>8, <2>1
  <2>3. names[k] = IF client = "responses" THEN tools[k].name ELSE Short(all, tools[k].name)
    BY <1>5, <1>9
  <2>4. client \in {"chat", "claude", "responses"}
    BY TranslationAssumption
  <2>5. CASE client = "responses"
    BY <2>2, <2>3, <2>5 DEF Restored
  <2>6. CASE client = "chat"
    <3>1. names[k] = Short(tools, tools[k].name)
      BY <1>8, <2>3, <2>6
    <3>. QED
      BY <2>1, <2>2, <2>3, <2>6, <3>1, ReverseMap
  <2>7. CASE client = "claude"
    <3>1. (\A j \in DOMAIN all : all[j].type = "function") /\ Fit(all)
      BY <1>1, <2>7 DEF Declarable, Fit
    <3>2. Short(all, tools[k].name) = tools[k].name
      BY <2>2, <3>1, FittingShort
    <3>. QED
      BY <2>2, <2>3, <2>7, <3>2 DEF Restored
  <2>. QED
    BY <2>4, <2>5, <2>6, <2>7
<1>10. ASSUME NEW name, Declares(all, name)
       PROVE  \E k \in DOMAIN tools : tools[k].type = "function" /\ tools[k].name = name
  BY <1>8, <1>10 DEF Declares
<1>. QED
  BY <1>1, <1>3, <1>4, <1>5, <1>7, <1>9, <1>10 DEF SaysOfTools

-----------------------------------------------------------------------------
BlockKinds == {"text", "image", "thought", "call", "result"}
Blocks == [kind : BlockKinds, n : Nat \X Nat, of : Nat \X Nat, name : Names, tool : Names,
           type : ToolTypes \cup {"none"}, json : BOOLEAN]

\* Kinds, as a function of how far it has come, and at its end.
KindsTo(blocks, kinds, f) ==
  f = [i \in 0..Len(blocks) |->
        IF i = 0 THEN <<>>
        ELSE IF blocks[i].kind \in kinds THEN Append(f[i - 1], blocks[i]) ELSE f[i - 1]]
NextKind(kinds, b, v) == IF b.kind \in kinds THEN Append(v, b) ELSE v
KindsBy(blocks, kinds, n, f) ==
  /\ f \in [0..n -> Seq(Blocks)] /\ Kinds(blocks, kinds) = f[n]
  /\ f[0] = <<>> /\ \A i \in 1..n : f[i] = NextKind(kinds, blocks[i], f[i - 1])

\* There is such a function.
LEMMA KindsIs ==
  ASSUME NEW blocks \in Seq(Blocks), NEW kinds, NEW n \in Nat, n = Len(blocks)
  PROVE  \E f : KindsBy(blocks, kinds, n, f)
<1>. DEFINE next(i, v) == NextKind(kinds, blocks[i], v)
            step == [i \in 1..n |-> [v \in Seq(Blocks) |-> next(i, v)]]
            some == CHOOSE f : KindsTo(blocks, kinds, f)
<1>1. /\ step \in [1..n -> [Seq(Blocks) -> Seq(Blocks)]]
      /\ \A v \in Seq(Blocks), i \in 1..n : step[i][v] = next(i, v)
  <2>1. \A i \in 1..n : blocks[i] \in Blocks
    OBVIOUS
  <2>. QED
    BY <2>1 DEF NextKind
<1>2. /\ 0 \in 0..n
      /\ \A i \in 0..n : i # 0 => i \in 1..n
      /\ \A i \in 1..n : i \in 0..n /\ i # 0 /\ i - 1 \in 0..n
  OBVIOUS
<1>. HIDE DEF step, some
<1>3. PICK f : Built(Seq(Blocks), <<>>, n, step, f)
  <2>1. <<>> \in Seq(Blocks) /\ step \in [1..n -> [Seq(Blocks) -> Seq(Blocks)]]
    BY <1>1
  <2>. QED
    BY <2>1, BuiltUp, Zenon
<1>4. f \in [0..n -> Seq(Blocks)] /\ f[0] = <<>> /\ \A i \in 1..n : f[i] = next(i, f[i - 1])
  <2>. HIDE DEF next
  <2>. QED
    BY <1>1, <1>2, <1>3 DEF Built
<1>5. KindsTo(blocks, kinds, f)
  <2>1. \A i \in 0..n : f[i] = IF i = 0 THEN <<>> ELSE next(i, f[i - 1])
    <3>. HIDE DEF next
    <3>. QED
      BY <1>2, <1>4
  <2>. QED
    BY <1>4, <2>1 DEF KindsTo, NextKind
<1>6. KindsTo(blocks, kinds, some)
  BY <1>5 DEF some
<1>7. Kinds(blocks, kinds) = some[n] /\ some[0] = <<>> /\ \A i \in 1..n : some[i] = next(i, some[i - 1])
  <2>1. Kinds(blocks, kinds) = some[n]
    BY DEF Kinds, KindsTo, some
  <2>2. \A i \in 0..n : some[i] = IF i = 0 THEN <<>> ELSE next(i, some[i - 1])
    BY <1>6 DEF KindsTo, NextKind
  <2>. HIDE DEF next
  <2>. QED
    BY <1>2, <2>1, <2>2
<1>8. some[n] = f[n]
  <2>1. some[0] = f[0] /\ \A i \in 1..n : some[i - 1] = f[i - 1] => some[i] = f[i]
    <3>. HIDE DEF next
    <3>. QED
      BY <1>4, <1>7
  <2>. QED
    BY <2>1, BuiltAlike
<1>. QED
  BY <1>4, <1>7, <1>8 DEF KindsBy

LEMMA KindsEmpty == ASSUME NEW kinds PROVE Kinds(<<>>, kinds) = <<>>
<1>1. <<>> \in Seq(Blocks) /\ 0 = Len(<<>>) /\ 0 \in Nat
  OBVIOUS
<1>2. PICK f : KindsBy(<<>>, kinds, 0, f)
  BY <1>1, KindsIs, Zenon
<1>. QED
  BY <1>2 DEF KindsBy

LEMMA KindsAppend ==
  ASSUME NEW s \in Seq(Blocks), NEW kinds, NEW b \in Blocks
  PROVE  /\ Kinds(s, kinds) \in Seq(Blocks)
         /\ Kinds(Append(s, b), kinds) = NextKind(kinds, b, Kinds(s, kinds))
<1>. DEFINE u == Append(s, b)
<1>1. PICK n \in Nat : n = Len(s)
  OBVIOUS
<1>2. /\ u \in Seq(Blocks) /\ n + 1 \in Nat /\ Len(u) = n + 1 /\ u[n + 1] = b /\ n + 1 \in 1..n + 1
      /\ \A i \in 1..n : u[i] = s[i] /\ i \in 1..n + 1
  BY <1>1
<1>. HIDE DEF u
<1>3. PICK f : KindsBy(s, kinds, n, f)
  BY <1>1, KindsIs, Zenon
<1>4. PICK g : KindsBy(u, kinds, n + 1, g)
  <2>1. u \in Seq(Blocks) /\ n + 1 \in Nat /\ n + 1 = Len(u)
    BY <1>2
  <2>. QED
    BY <2>1, KindsIs, Zenon
<1>5. f[n] = g[n]
  <2>1. f[0] = g[0] /\ \A i \in 1..n : f[i - 1] = g[i - 1] => f[i] = g[i]
    BY <1>2, <1>3, <1>4 DEF KindsBy
  <2>. QED
    BY <2>1, BuiltAlike
<1>6. g[n + 1] = NextKind(kinds, b, g[n])
  <2>1. (n + 1) - 1 = n
    OBVIOUS
  <2>. QED
    BY <1>2, <1>4, <2>1 DEF KindsBy
<1>7. Kinds(s, kinds) \in Seq(Blocks)
  BY <1>1, <1>3 DEF KindsBy
<1>8. Kinds(u, kinds) = NextKind(kinds, b, Kinds(s, kinds))
  BY <1>3, <1>4, <1>5, <1>6 DEF KindsBy
<1>. QED
  BY <1>7, <1>8 DEF u

\* The blocks of some kinds are these blocks, each of them is there, and none twice
\* if each has a number of its own.
Numbered(blocks) == \A j, k \in DOMAIN blocks : blocks[j].n = blocks[k].n => j = k
OfKinds(blocks, kinds, s) ==
  /\ s \in Seq(Blocks)
  /\ \A k \in DOMAIN s : s[k].kind \in kinds /\ \E j \in DOMAIN blocks : s[k] = blocks[j]
  /\ \A j \in DOMAIN blocks : blocks[j].kind \in kinds => \E k \in DOMAIN s : s[k] = blocks[j]
  /\ Numbered(blocks) => Numbered(s)

LEMMA KindsOf ==
  ASSUME NEW kinds
  PROVE  \A blocks \in Seq(Blocks) : OfKinds(blocks, kinds, Kinds(blocks, kinds))
<1>. DEFINE S == {blocks \in Seq(Blocks) : OfKinds(blocks, kinds, Kinds(blocks, kinds))}
<1>1. <<>> \in S
  <2>1. <<>> \in Seq(Blocks) /\ DOMAIN <<>> = {}
    OBVIOUS
  <2>2. OfKinds(<<>>, kinds, <<>>)
    BY <2>1 DEF OfKinds, Numbered
  <2>. QED
    BY <2>1, <2>2, KindsEmpty
<1>2. ASSUME NEW s \in Seq(Blocks), NEW b \in Blocks, s \in S PROVE Append(s, b) \in S
  <2>. DEFINE u == Append(s, b)
  <2>1. PICK n \in Nat : n = Len(s)
    OBVIOUS
  <2>2. /\ u \in Seq(Blocks) /\ DOMAIN u = 1..n + 1 /\ u[n + 1] = b /\ n + 1 \in 1..n + 1 /\ DOMAIN s = 1..n
        /\ \A i \in 1..n : u[i] = s[i] /\ i \in 1..n + 1 /\ i # n + 1
        /\ \A i \in 1..n + 1 : i \in 1..n \/ i = n + 1
    BY <2>1
  <2>. HIDE DEF u
  <2>3. PICK v \in Seq(Blocks) : v = Kinds(s, kinds) /\ OfKinds(s, kinds, v) /\ Kinds(u, kinds) = NextKind(kinds, b, v)
    <3>1. OfKinds(s, kinds, Kinds(s, kinds))
      BY <1>2
    <3>2. Kinds(s, kinds) \in Seq(Blocks) /\ Kinds(u, kinds) = NextKind(kinds, b, Kinds(s, kinds))
      BY KindsAppend DEF u
    <3>. QED
      BY <3>1, <3>2
  <2>4. Numbered(u) => Numbered(s)
    BY <2>2 DEF Numbered
  <2>5. CASE b.kind \in kinds
    <3>. DEFINE w == Append(v, b)
    <3>1. PICK m \in Nat : m = Len(v)
      OBVIOUS
    <3>2. /\ w \in Seq(Blocks) /\ DOMAIN w = 1..m + 1 /\ w[m + 1] = b /\ m + 1 \in 1..m + 1 /\ DOMAIN v = 1..m
          /\ \A i \in 1..m : w[i] = v[i] /\ i \in 1..m + 1 /\ i # m + 1
          /\ \A i \in 1..m + 1 : i \in 1..m \/ i = m + 1
      BY <3>1
    <3>. HIDE DEF w
    <3>3. Kinds(u, kinds) = w
      BY <2>3, <2>5 DEF NextKind, w
    <3>4. \A i \in 1..m : v[i].kind \in kinds /\ \E k \in 1..n : v[i] = s[k]
      BY <2>2, <2>3, <3>2 DEF OfKinds
    <3>5. \A k \in DOMAIN w : w[k].kind \in kinds /\ \E j \in DOMAIN u : w[k] = u[j]
      <4>. TAKE k \in DOMAIN w
      <4>1. CASE k = m + 1
        BY <2>2, <2>5, <3>2, <4>1
      <4>2. CASE k \in 1..m
        <5>1. v[k].kind \in kinds /\ \E j \in 1..n : v[k] = s[j]
          BY <3>4, <4>2
        <5>. QED
          BY <2>2, <3>2, <4>2, <5>1
      <4>. QED
        BY <3>2, <4>1, <4>2
    <3>6. \A j \in DOMAIN u : u[j].kind \in kinds => \E k \in DOMAIN w : w[k] = u[j]
      <4>. SUFFICES ASSUME NEW j \in DOMAIN u, u[j].kind \in kinds PROVE \E k \in DOMAIN w : w[k] = u[j]
        OBVIOUS
      <4>1. CASE j = n + 1
        BY <2>2, <3>2, <4>1
      <4>2. CASE j \in 1..n
        <5>1. \E k \in DOMAIN v : v[k] = s[j]
          BY <2>2, <2>3, <4>2 DEF OfKinds
        <5>. QED
          BY <2>2, <3>2, <4>2, <5>1
      <4>. QED
        BY <2>2, <4>1, <4>2
    <3>7. ASSUME Numbered(u) PROVE Numbered(w)
      <4>1. Numbered(v)
        BY <2>3, <2>4, <3>7 DEF OfKinds
      <4>2. \A i \in 1..m : v[i].n # b.n
        <5>. TAKE i \in 1..m
        <5>1. PICK k \in 1..n : v[i] = s[k]
          BY <3>4
        <5>2. u[k] = v[i] /\ u[n + 1] = b /\ k \in DOMAIN u /\ n + 1 \in DOMAIN u /\ k # n + 1
          BY <2>2, <5>1
        <5>. QED
          BY <3>7, <5>2 DEF Numbered
      <4>. SUFFICES ASSUME NEW j \in 1..m + 1, NEW k \in 1..m + 1, w[j].n = w[k].n PROVE j = k
        BY <3>2 DEF Numbered
      <4>3. CASE j \in 1..m /\ k \in 1..m
        BY <3>2, <4>1, <4>3 DEF Numbered
      <4>4. CASE j = m + 1 /\ k \in 1..m
        BY <3>2, <4>2, <4>4
      <4>5. CASE j \in 1..m /\ k = m + 1
        BY <3>2, <4>2, <4>5
      <4>. QED
        BY <3>2, <4>3, <4>4, <4>5
    <3>8. OfKinds(u, kinds, w)
      BY <3>2, <3>5, <3>6, <3>7 DEF OfKinds
    <3>. QED
      BY <2>2, <3>3, <3>8 DEF u
  <2>6. CASE b.kind \notin kinds
    <3>1. Kinds(u, kinds) = v
      BY <2>3, <2>6 DEF NextKind
    <3>2. \A k \in DOMAIN v : v[k].kind \in kinds /\ \E j \in DOMAIN u : v[k] = u[j]
      <4>. TAKE k \in DOMAIN v
      <4>1. v[k].kind \in kinds /\ \E j \in DOMAIN s : v[k] = s[j]
        BY <2>3 DEF OfKinds
      <4>. QED
        BY <2>2, <4>1
    <3>3. \A j \in DOMAIN u : u[j].kind \in kinds => \E k \in DOMAIN v : v[k] = u[j]
      <4>. SUFFICES ASSUME NEW j \in DOMAIN u, u[j].kind \in kinds PROVE \E k \in DOMAIN v : v[k] = u[j]
        OBVIOUS
      <4>1. j \in DOMAIN s /\ s[j] = u[j]
        BY <2>2, <2>6
      <4>. QED
        BY <2>3, <4>1 DEF OfKinds
    <3>4. OfKinds(u, kinds, v)
      BY <2>3, <2>4, <3>2, <3>3 DEF OfKinds
    <3>. QED
      BY <2>2, <3>1, <3>4 DEF u
  <2>. QED
    BY <2>5, <2>6
<1>3. Seq(Blocks) \subseteq S
  <2>. HIDE DEF S
  <2>. QED
    BY <1>1, <1>2, Appending
<1>. QED
  BY <1>3

-----------------------------------------------------------------------------
\* FlattenSeq, as a function of how far it has come, and at its end.
FlattenTo(parts, f) ==
  f = [i \in 1..Len(parts) |-> IF i = 1 THEN parts[i] ELSE f[i - 1] \o parts[i]]
FlattenBy(X, parts, n, f) ==
  /\ f \in [0..n -> Seq(X)] /\ FlattenSeq(parts) = f[n]
  /\ f[0] = <<>> /\ \A i \in 1..n : f[i] = f[i - 1] \o parts[i]

\* There is such a function.
LEMMA FlattenIs ==
  ASSUME NEW X, NEW parts \in Seq(Seq(X)), NEW n \in Nat, n = Len(parts)
  PROVE  \E f : FlattenBy(X, parts, n, f)
<1>. DEFINE step == [i \in 1..n |-> [v \in Seq(X) |-> v \o parts[i]]]
            flat == CHOOSE f : FlattenTo(parts, f)
<1>1. /\ step \in [1..n -> [Seq(X) -> Seq(X)]]
      /\ \A v \in Seq(X), i \in 1..n : step[i][v] = v \o parts[i]
  <2>1. \A i \in 1..n : parts[i] \in Seq(X)
    OBVIOUS
  <2>2. \A i \in 1..n, v \in Seq(X) : v \o parts[i] \in Seq(X)
    BY <2>1
  <2>. QED
    BY <2>2
<1>2. /\ 0 \in 0..n
      /\ \A i \in 0..n : i # 0 => i \in 1..n
      /\ \A i \in 1..n : i \in 0..n /\ i # 0 /\ i - 1 \in 0..n
  OBVIOUS
<1>. HIDE DEF step, flat
<1>3. PICK f : Built(Seq(X), <<>>, n, step, f)
  <2>1. <<>> \in Seq(X) /\ step \in [1..n -> [Seq(X) -> Seq(X)]]
    BY <1>1
  <2>. QED
    BY <2>1, BuiltUp, Zenon
<1>4. f \in [0..n -> Seq(X)] /\ f[0] = <<>> /\ \A i \in 1..n : f[i] = f[i - 1] \o parts[i]
  BY <1>1, <1>2, <1>3 DEF Built
<1>5. FlattenSeq(parts) = f[n]
  <2>1. CASE n = 0
    <3>1. Len(parts) = 0 /\ parts \in Seq(Seq(X))
      BY <2>1
    <3>2. \A Y : \A s \in Seq(Y) : Len(s) = 0 => s = <<>>
      OBVIOUS
    <3>3. parts = <<>>
      BY <3>1, <3>2
    <3>. QED
      BY <1>4, <2>1, <3>1, <3>3 DEF FlattenSeq
  <2>2. CASE n # 0
    <3>. DEFINE g == [i \in 1..n |-> f[i]]
    <3>1. f[1] = parts[1]
      <4>1. 1 \in 1..n /\ 1 - 1 = 0 /\ parts[1] \in Seq(X)
        BY <2>2
      <4>2. <<>> \o parts[1] = parts[1]
        BY <4>1
      <4>. QED
        BY <1>4, <4>1, <4>2
    <3>2. \A i \in 1..n : g[i] = IF i = 1 THEN parts[i] ELSE g[i - 1] \o parts[i]
      <4>. TAKE i \in 1..n
      <4>1. CASE i = 1
        BY <3>1, <4>1
      <4>2. CASE i # 1
        <5>1. i - 1 \in 1..n
          BY <4>2
        <5>. QED
          BY <1>4, <4>2, <5>1
      <4>. QED
        BY <4>1, <4>2
    <3>3. FlattenTo(parts, g)
      BY <3>2 DEF FlattenTo
    <3>4. FlattenTo(parts, flat)
      BY <3>3 DEF flat
    <3>5. FlattenSeq(parts) = flat[n]
      BY <2>2 DEF FlattenSeq, FlattenTo, flat
    <3>6. \A i \in 1..n : flat[i] = IF i = 1 THEN parts[i] ELSE flat[i - 1] \o parts[i]
      BY <3>4 DEF FlattenTo
    <3>. DEFINE h == [i \in 0..n |-> IF i = 0 THEN <<>> ELSE flat[i]]
    <3>7. h[0] = f[0] /\ \A i \in 1..n : h[i - 1] = f[i - 1] => h[i] = f[i]
      <4>1. h[0] = f[0]
        BY <1>2, <1>4
      <4>. SUFFICES ASSUME NEW i \in 1..n, h[i - 1] = f[i - 1] PROVE h[i] = f[i]
        BY <4>1
      <4>2. h[i] = flat[i]
        BY <1>2
      <4>3. CASE i = 1
        BY <3>1, <3>6, <4>2, <4>3
      <4>4. CASE i # 1
        <5>1. i - 1 \in 1..n
          BY <4>4
        <5>2. h[i - 1] = flat[i - 1]
          BY <1>2, <5>1
        <5>. QED
          BY <1>4, <3>6, <4>2, <4>4, <5>2
      <4>. QED
        BY <4>3, <4>4
    <3>8. h[n] = flat[n]
      BY <2>2
    <3>. HIDE DEF h
    <3>9. h[n] = f[n]
      BY <3>7, BuiltAlike
    <3>. QED
      BY <3>5, <3>8, <3>9
  <2>. QED
    BY <2>1, <2>2
<1>. QED
  BY <1>4, <1>5 DEF FlattenBy

\* What is put together is made of the elements of its parts.
LEMMA FlattenFrom ==
  ASSUME NEW X, NEW parts \in Seq(Seq(X))
  PROVE  /\ FlattenSeq(parts) \in Seq(X)
         /\ \A x \in DOMAIN FlattenSeq(parts) : \E i \in DOMAIN parts : \E j \in DOMAIN parts[i] :
              FlattenSeq(parts)[x] = parts[i][j]
<1>1. PICK n \in Nat : n = Len(parts) /\ DOMAIN parts = 1..n
  OBVIOUS
<1>2. PICK f : FlattenBy(X, parts, n, f)
  BY <1>1, FlattenIs, Zenon
<1>3. f \in [0..n -> Seq(X)] /\ FlattenSeq(parts) = f[n] /\ f[0] = <<>> /\ \A i \in 1..n : f[i] = f[i - 1] \o parts[i]
  BY <1>2 DEF FlattenBy
<1>. DEFINE From(x) == \E i \in DOMAIN parts : \E j \in DOMAIN parts[i] : x = parts[i][j]
            T == {i \in Nat : i <= n => \A x \in DOMAIN f[i] : From(f[i][x])}
<1>4. 0 \in T
  BY <1>3
<1>5. \A i \in Nat : i \in T => i + 1 \in T
  <2>. SUFFICES ASSUME NEW i \in Nat, i \in T, i + 1 <= n, NEW x \in DOMAIN f[i + 1] PROVE From(f[i + 1][x])
    OBVIOUS
  <2>1. i \in 0..n /\ i + 1 \in 1..n /\ (i + 1) - 1 = i
    OBVIOUS
  <2>2. PICK s \in Seq(X), t \in Seq(X) : s = f[i] /\ t = parts[i + 1] /\ f[i + 1] = s \o t
    <3>1. f[i] \in Seq(X)
      BY <1>3, <2>1
    <3>2. parts[i + 1] \in Seq(X)
      BY <1>1, <2>1
    <3>3. f[i + 1] = f[i] \o parts[i + 1]
      BY <1>3, <2>1
    <3>. QED
      BY <3>1, <3>2, <3>3
  <2>3. (x \in DOMAIN s /\ (s \o t)[x] = s[x]) \/ \E j \in DOMAIN t : (s \o t)[x] = t[j]
    <3>. HIDE DEF From
    <3>1. x \in 1..(Len(s) + Len(t))
      <4>1. DOMAIN (s \o t) = 1..(Len(s) + Len(t))
        OBVIOUS
      <4>2. x \in DOMAIN f[i + 1]
        OBVIOUS
      <4>. QED
        BY <2>2, <4>1, <4>2
    <3>2. CASE x <= Len(s)
      BY <3>1, <3>2
    <3>3. CASE ~(x <= Len(s))
      <4>1. x - Len(s) \in DOMAIN t /\ (s \o t)[x] = t[x - Len(s)]
        BY <3>1, <3>3
      <4>. QED
        BY <4>1
    <3>. QED
      BY <3>2, <3>3
  <2>4. CASE x \in DOMAIN s /\ (s \o t)[x] = s[x]
    <3>1. From(s[x])
      BY <2>1, <2>2, <2>4
    <3>. HIDE DEF From
    <3>. QED
      BY <2>2, <2>4, <3>1
  <2>5. CASE \E j \in DOMAIN t : (s \o t)[x] = t[j]
    BY <1>1, <2>1, <2>2, <2>5
  <2>. QED
    BY <2>3, <2>4, <2>5
<1>6. n \in T
  <2>. HIDE DEF T
  <2>. QED
    BY <1>4, <1>5, Induction
<1>. QED
  BY <1>3, <1>6

-----------------------------------------------------------------------------
\* Messages and items are parts with blocks.  Block k of part i has number x and is of kind c.
In(parts, i, k, x, c) ==
  /\ i \in DOMAIN parts /\ k \in DOMAIN parts[i].blocks
  /\ parts[i].blocks[k].n = x /\ parts[i].blocks[k].kind = c
On(parts, i, x) == \E k, c : In(parts, i, k, x, c)

\* What is made of some parts has all their blocks but the thoughts, and only those; no
\* number twice; and in the order of the parts.
Comes(from, to) == \A i, k, x, c : In(to, i, k, x, c) => c # "thought" /\ \E j, l : In(from, j, l, x, c)
Goes(from, to)  == \A j, l, x, c : In(from, j, l, x, c) /\ c # "thought" => \E i, k : In(to, i, k, x, c)
Once(to) == \A i, k, j, l, x, c, d : In(to, i, k, x, c) /\ In(to, j, l, x, d) => i = j /\ k = l
InOrder(from, to) ==
  \A j, l, x, y, i, k : On(from, j, x) /\ On(from, l, y) /\ j < l /\ On(to, i, x) /\ On(to, k, y) => i < k
Brings(from, to) == Comes(from, to) /\ Goes(from, to) /\ Once(to) /\ InOrder(from, to)

\* One translation after the other.
LEMMA BringsOn ==
  ASSUME NEW a, NEW b, NEW c, Brings(a, b), Brings(b, c)
  PROVE  Brings(a, c)
<1>1. Comes(a, b) /\ Comes(b, c) /\ Goes(a, b) /\ Goes(b, c) /\ Once(c) /\ InOrder(a, b) /\ InOrder(b, c)
  BY DEF Brings
<1>2. Comes(a, c)
  BY <1>1 DEF Comes
<1>3. Goes(a, c)
  BY <1>1 DEF Goes, Comes
<1>4. InOrder(a, c)
  <2>. SUFFICES ASSUME NEW j, NEW l, NEW x, NEW y, NEW i, NEW k,
                       On(a, j, x), On(a, l, y), j < l, On(c, i, x), On(c, k, y)
                PROVE  i < k
    BY DEF InOrder
  <2>1. PICK p : On(b, p, x)
    BY <1>1 DEF Comes, On
  <2>2. PICK q : On(b, q, y)
    BY <1>1 DEF Comes, On
  <2>3. p < q
    BY <1>1, <2>1, <2>2 DEF InOrder
  <2>. QED
    BY <1>1, <2>1, <2>2, <2>3 DEF InOrder
<1>. QED
  BY <1>1, <1>2, <1>3, <1>4 DEF Brings

-----------------------------------------------------------------------------
\* The blocks of parts put behind others.
Beside(s, t, n, u) ==
  /\ \A i, k, x, c : In(s, i, k, x, c) => i \in 1..n /\ In(u, i, k, x, c)
  /\ \A i, k, x, c : In(t, i, k, x, c) => i \in Nat /\ i > 0 /\ In(u, n + i, k, x, c)
  /\ \A i, k, x, c : In(u, i, k, x, c) =>
       \/ i \in 1..n /\ In(s, i, k, x, c)
       \/ \E j \in Nat : j > 0 /\ i = n + j /\ In(t, j, k, x, c)

\* Two sequences of parts, one after the other, are beside each other.
LEMMA InBeside ==
  ASSUME NEW X, NEW s \in Seq(X), NEW t \in Seq(X), NEW n \in Nat, n = Len(s), NEW u, u = s \o t
  PROVE  Beside(s, t, n, u)
<1>1. PICK m \in Nat : m = Len(t)
  OBVIOUS
<1>2. /\ DOMAIN s = 1..n /\ DOMAIN t = 1..m /\ DOMAIN u = 1..n + m
      /\ \A i \in 1..n : u[i] = s[i]
      /\ \A i \in 1..m : u[n + i] = t[i] /\ n + i \in 1..n + m
      /\ \A i \in 1..n : i \in 1..n + m
      /\ \A i \in 1..n + m : i \in 1..n \/ \E j \in 1..m : i = n + j
  <2>1. /\ DOMAIN s = 1..n /\ DOMAIN t = 1..m /\ DOMAIN u = 1..n + m
        /\ \A i \in 1..n : u[i] = s[i]
        /\ \A i \in 1..m : u[n + i] = t[i]
    BY <1>1
  <2>2. \A i \in 1..n + m : i \in 1..n \/ \E j \in 1..m : i = n + j
    <3>. TAKE i \in 1..n + m
    <3>1. CASE i <= n
      BY <3>1
    <3>2. CASE ~(i <= n)
      <4>1. i - n \in 1..m /\ i = n + (i - n)
        BY <3>2
      <4>. QED
        BY <4>1
    <3>. QED
      BY <3>1, <3>2
  <2>3. (\A i \in 1..n : i \in 1..n + m) /\ \A i \in 1..m : n + i \in 1..n + m
    OBVIOUS
  <2>. QED
    BY <2>1, <2>2, <2>3
<1>3. \A i, k, x, c : In(s, i, k, x, c) => i \in 1..n /\ In(u, i, k, x, c)
  BY <1>2 DEF In
<1>4. \A i, k, x, c : In(t, i, k, x, c) => i \in Nat /\ i > 0 /\ In(u, n + i, k, x, c)
  <2>. SUFFICES ASSUME NEW i, NEW k, NEW x, NEW c, In(t, i, k, x, c)
                PROVE  i \in Nat /\ i > 0 /\ In(u, n + i, k, x, c)
    OBVIOUS
  <2>1. i \in 1..m
    BY <1>2 DEF In
  <2>2. u[n + i] = t[i] /\ n + i \in DOMAIN u
    BY <1>2, <2>1
  <2>3. In(u, n + i, k, x, c)
    BY <2>2 DEF In
  <2>. QED
    BY <2>1, <2>3
<1>5. ASSUME NEW i, NEW k, NEW x, NEW c, In(u, i, k, x, c)
      PROVE  \/ i \in 1..n /\ In(s, i, k, x, c)
             \/ \E j \in Nat : j > 0 /\ i = n + j /\ In(t, j, k, x, c)
  <2>1. i \in 1..n + m
    BY <1>2, <1>5 DEF In
  <2>2. CASE i \in 1..n
    BY <1>2, <1>5, <2>2 DEF In
  <2>3. CASE \E j \in 1..m : i = n + j
    <3>1. PICK j \in 1..m : i = n + j
      BY <2>3
    <3>2. u[i] = t[j] /\ j \in DOMAIN t
      BY <1>2, <3>1
    <3>3. In(t, j, k, x, c)
      BY <1>5, <3>2 DEF In
    <3>4. j \in Nat /\ j > 0
      BY <3>1
    <3>. QED
      BY <3>1, <3>3, <3>4
  <2>. QED
    BY <1>2, <2>1, <2>2, <2>3
<1>. QED
  BY <1>3, <1>4, <1>5 DEF Beside

\* Translations beside each other, of parts without a common number.
Apart(a, b) == \A i, j, x : ~(On(a, i, x) /\ On(b, j, x))

\* They can be translated each for itself.
LEMMA BringsBeside ==
  ASSUME NEW X, NEW a \in Seq(X), NEW b \in Seq(X), NEW Y, NEW c \in Seq(Y), NEW d \in Seq(Y),
         Brings(a, c), Brings(b, d), Apart(a, b)
  PROVE  Brings(a \o b, c \o d)
<1>1. PICK n \in Nat : n = Len(a)
  OBVIOUS
<1>2. PICK m \in Nat : m = Len(c)
  OBVIOUS
<1>3. PICK u : u = a \o b
  OBVIOUS
<1>4. PICK v : v = c \o d
  OBVIOUS
<1>5. Beside(a, b, n, u) /\ Beside(c, d, m, v)
  <2>1. Beside(a, b, n, u)
    BY <1>1, <1>3, InBeside, Zenon
  <2>2. Beside(c, d, m, v)
    BY <1>2, <1>4, InBeside, Zenon
  <2>. QED
    BY <2>1, <2>2
<1>6. Comes(a, c) /\ Comes(b, d) /\ Goes(a, c) /\ Goes(b, d) /\ Once(c) /\ Once(d) /\ InOrder(a, c) /\ InOrder(b, d)
  BY DEF Brings
<1>7. Comes(u, v)
  <2>. SUFFICES ASSUME NEW i, NEW k, NEW x, NEW e, In(v, i, k, x, e)
                PROVE  e # "thought" /\ \E j, l : In(u, j, l, x, e)
    BY DEF Comes
  <2>1. CASE In(c, i, k, x, e)
    BY <1>5, <1>6, <2>1 DEF Comes, Beside
  <2>2. CASE \E j \in Nat : In(d, j, k, x, e)
    BY <1>5, <1>6, <2>2 DEF Comes, Beside
  <2>. QED
    BY <1>5, <2>1, <2>2 DEF Beside
<1>8. Goes(u, v)
  <2>. SUFFICES ASSUME NEW i, NEW k, NEW x, NEW e, In(u, i, k, x, e), e # "thought"
                PROVE  \E j, l : In(v, j, l, x, e)
    BY DEF Goes
  <2>1. CASE In(a, i, k, x, e)
    BY <1>5, <1>6, <2>1 DEF Goes, Beside
  <2>2. CASE \E j \in Nat : In(b, j, k, x, e)
    BY <1>5, <1>6, <2>2 DEF Goes, Beside
  <2>. QED
    BY <1>5, <2>1, <2>2 DEF Beside
\* Of a number that is on a or c nothing is on b or d, and the other way round.
<1>9. /\ \A i, x : On(c, i, x) => \E j : On(a, j, x)
      /\ \A i, x : On(d, i, x) => \E j : On(b, j, x)
  BY <1>6 DEF Comes, On
<1>10. Once(v)
  <2>. SUFFICES ASSUME NEW i, NEW k, NEW j, NEW l, NEW x, NEW e, NEW g, In(v, i, k, x, e), In(v, j, l, x, g)
                PROVE  i = j /\ k = l
    BY DEF Once
  <2>1. \/ i \in 1..m /\ In(c, i, k, x, e)
        \/ \E p \in Nat : p > 0 /\ i = m + p /\ In(d, p, k, x, e)
    BY <1>5 DEF Beside
  <2>2. \/ j \in 1..m /\ In(c, j, l, x, g)
        \/ \E p \in Nat : p > 0 /\ j = m + p /\ In(d, p, l, x, g)
    BY <1>5 DEF Beside
  <2>3. ~((\E p : On(c, p, x)) /\ \E p : On(d, p, x))
    BY <1>9 DEF Apart
  <2>4. CASE In(c, i, k, x, e) /\ In(c, j, l, x, g)
    BY <1>6, <2>4 DEF Once
  <2>5. CASE (\E p \in Nat : i = m + p /\ In(d, p, k, x, e)) /\ \E p \in Nat : j = m + p /\ In(d, p, l, x, g)
    <3>1. PICK p \in Nat : i = m + p /\ In(d, p, k, x, e)
      BY <2>5
    <3>2. PICK q \in Nat : j = m + q /\ In(d, q, l, x, g)
      BY <2>5
    <3>3. p = q /\ k = l
      BY <1>6, <3>1, <3>2 DEF Once
    <3>. QED
      BY <3>1, <3>2, <3>3
  <2>6. ~(In(c, i, k, x, e) /\ \E p : In(d, p, l, x, g)) /\ ~(In(c, j, l, x, g) /\ \E p : In(d, p, k, x, e))
    BY <2>3 DEF On
  <2>. QED
    BY <2>1, <2>2, <2>4, <2>5, <2>6
<1>11. InOrder(u, v)
  <2>. SUFFICES ASSUME NEW j, NEW l, NEW x, NEW y, NEW i, NEW k,
                       On(u, j, x), On(u, l, y), j < l, On(v, i, x), On(v, k, y)
                PROVE  i < k
    BY DEF InOrder
  <2>1. (j \in 1..n /\ On(a, j, x)) \/ \E p \in Nat : p > 0 /\ j = n + p /\ On(b, p, x)
    BY <1>5 DEF On, Beside
  <2>2. (l \in 1..n /\ On(a, l, y)) \/ \E p \in Nat : p > 0 /\ l = n + p /\ On(b, p, y)
    BY <1>5 DEF On, Beside
  <2>3. (i \in 1..m /\ On(c, i, x)) \/ \E p \in Nat : p > 0 /\ i = m + p /\ On(d, p, x)
    BY <1>5 DEF On, Beside
  <2>4. (k \in 1..m /\ On(c, k, y)) \/ \E p \in Nat : p > 0 /\ k = m + p /\ On(d, p, y)
    BY <1>5 DEF On, Beside
  <2>5. /\ ~((\E p : On(a, p, x)) /\ \E p : On(d, p, x))
        /\ ~((\E p : On(b, p, x)) /\ \E p : On(c, p, x))
        /\ ~((\E p : On(a, p, y)) /\ \E p : On(d, p, y))
        /\ ~((\E p : On(b, p, y)) /\ \E p : On(c, p, y))
    BY <1>9 DEF Apart
  <2>6. CASE j \in 1..n /\ On(a, j, x) /\ l \in 1..n /\ On(a, l, y)
    <3>1. On(c, i, x) /\ On(c, k, y)
      BY <2>3, <2>4, <2>5, <2>6
    <3>. QED
      BY <1>6, <2>6, <3>1 DEF InOrder
  <2>7. CASE j \in 1..n /\ On(a, j, x) /\ \E p \in Nat : p > 0 /\ l = n + p /\ On(b, p, y)
    <3>1. i \in 1..m /\ \E p \in Nat : p > 0 /\ k = m + p
      BY <2>3, <2>4, <2>5, <2>7
    <3>. QED
      BY <3>1
  <2>8. CASE /\ \E p \in Nat : p > 0 /\ j = n + p /\ On(b, p, x)
             /\ \E p \in Nat : p > 0 /\ l = n + p /\ On(b, p, y)
    <3>1. PICK p \in Nat : j = n + p /\ On(b, p, x)
      BY <2>8
    <3>2. PICK q \in Nat : l = n + q /\ On(b, q, y)
      BY <2>8
    <3>3. PICK r \in Nat : i = m + r /\ On(d, r, x)
      BY <2>3, <2>5, <3>1
    <3>4. PICK s \in Nat : k = m + s /\ On(d, s, y)
      BY <2>4, <2>5, <3>2
    <3>5. p < q
      BY <3>1, <3>2
    <3>6. r < s
      BY <1>6, <3>1, <3>2, <3>3, <3>4, <3>5 DEF InOrder
    <3>. QED
      BY <3>3, <3>4, <3>6
  <2>9. ~((\E p \in Nat : p > 0 /\ j = n + p) /\ l \in 1..n)
    OBVIOUS
  <2>. QED
    BY <2>1, <2>2, <2>6, <2>7, <2>8, <2>9
<1>. QED
  BY <1>3, <1>4, <1>7, <1>8, <1>10, <1>11 DEF Brings

\* Parts translated one by one and put together.
Unlike(parts) == \A i, j, x : On(parts, i, x) /\ On(parts, j, x) => i = j

\* If each part is translated the whole is.
LEMMA BringsAll ==
  ASSUME NEW X, NEW from \in Seq(X), Unlike(from), NEW Y, NEW parts \in Seq(Seq(Y)), Len(parts) = Len(from),
         \A i \in DOMAIN from : Brings(<<from[i]>>, parts[i])
  PROVE  Brings(from, FlattenSeq(parts))
<1>1. PICK n \in Nat : n = Len(parts) /\ n = Len(from) /\ DOMAIN parts = 1..n /\ DOMAIN from = 1..n
  OBVIOUS
<1>2. PICK f : FlattenBy(Y, parts, n, f)
  BY <1>1, FlattenIs, Zenon
<1>3. f \in [0..n -> Seq(Y)] /\ FlattenSeq(parts) = f[n] /\ f[0] = <<>> /\ \A i \in 1..n : f[i] = f[i - 1] \o parts[i]
  BY <1>2 DEF FlattenBy
<1>. DEFINE T == {i \in Nat : i <= n => Brings(SubSeq(from, 1, i), f[i])}
<1>4. 0 \in T
  <2>1. SubSeq(from, 1, 0) = <<>> /\ DOMAIN <<>> = {}
    OBVIOUS
  <2>2. Brings(<<>>, <<>>)
    BY <2>1 DEF Brings, Comes, Goes, Once, InOrder, On, In
  <2>. QED
    BY <1>3, <2>1, <2>2
<1>5. \A i \in Nat : i \in T => i + 1 \in T
  <2>. SUFFICES ASSUME NEW i \in Nat, i \in T, i + 1 <= n PROVE Brings(SubSeq(from, 1, i + 1), f[i + 1])
    OBVIOUS
  <2>1. i \in 0..n /\ i + 1 \in 1..n /\ (i + 1) - 1 = i /\ \A j \in 1..i : j \in 1..n /\ j # i + 1
    OBVIOUS
  <2>2. PICK s \in Seq(Y) : s = f[i]
    BY <1>3, <2>1
  <2>3. PICK t \in Seq(Y) : t = parts[i + 1]
    BY <1>1, <2>1
  <2>4. f[i + 1] = s \o t
    BY <1>3, <2>1, <2>2, <2>3
  <2>5. PICK a : a = SubSeq(from, 1, i) /\ a \in Seq(X) /\ DOMAIN a = 1..i /\ \A j \in 1..i : a[j] = from[j]
    <3>. DEFINE c == SubSeq(from, 1, i)
    <3>1. c \in Seq(X) /\ DOMAIN c = 1..i /\ \A j \in 1..i : c[j] = from[j]
      BY <1>1, <2>1
    <3>. QED
      BY <3>1, Zenon
  <2>6. PICK b : b = <<from[i + 1]>> /\ b \in Seq(X) /\ DOMAIN b = {1} /\ b[1] = from[i + 1]
    <3>1. from[i + 1] \in X
      BY <1>1, <2>1
    <3>. DEFINE c == <<from[i + 1]>>
    <3>2. c \in Seq(X)
      BY <3>1
    <3>3. DOMAIN c = {1} /\ c[1] = from[i + 1]
      OBVIOUS
    <3>. QED
      BY <3>2, <3>3, Zenon
  <2>7. SubSeq(from, 1, i + 1) = a \o b
    BY <1>1, <2>1, <2>5, <2>6
  <2>8. Brings(a, s)
    BY <2>2, <2>5
  <2>9. Brings(b, t)
    BY <1>1, <2>1, <2>3, <2>6
  <2>10. Apart(a, b)
    <3>. SUFFICES ASSUME NEW p, NEW q, NEW x, On(a, p, x), On(b, q, x) PROVE FALSE
      BY DEF Apart
    <3>1. p \in 1..i /\ On(from, p, x)
      BY <1>1, <2>1, <2>5 DEF On, In
    <3>2. On(from, i + 1, x)
      BY <1>1, <2>1, <2>6 DEF On, In
    <3>. QED
      BY <2>1, <3>1, <3>2 DEF Unlike
  <2>11. Brings(a \o b, s \o t)
    BY <2>2, <2>3, <2>5, <2>6, <2>8, <2>9, <2>10, BringsBeside, Zenon
  <2>. QED
    BY <2>4, <2>7, <2>11
<1>6. n \in T
  <2>. HIDE DEF T
  <2>. QED
    BY <1>4, <1>5, Induction
<1>7. SubSeq(from, 1, n) = from
  BY <1>1
<1>8. Brings(SubSeq(from, 1, n), f[n])
  BY <1>6
<1>. QED
  BY <1>3, <1>7, <1>8, Zenon

-----------------------------------------------------------------------------
\* Parts that hold some blocks, and no others.
Holds(parts, s) ==
  /\ \A i, k, x, c : In(parts, i, k, x, c) => \E l \in DOMAIN s : s[l].n = x /\ s[l].kind = c
  /\ \A l \in DOMAIN s : \E i, k : In(parts, i, k, s[l].n, s[l].kind)
  /\ Numbered(s) => Once(parts)

\* One part for each block, or one for them all.
LEMMA SinglesHold ==
  ASSUME NEW parts, NEW s, DOMAIN parts = DOMAIN s,
         \A i \in DOMAIN s : /\ DOMAIN parts[i].blocks = {1}
                             /\ parts[i].blocks[1].n = s[i].n /\ parts[i].blocks[1].kind = s[i].kind
  PROVE  Holds(parts, s)
<1>1. \A i, k, x, c : In(parts, i, k, x, c) => i \in DOMAIN s /\ k = 1 /\ s[i].n = x /\ s[i].kind = c
  BY DEF In
<1>2. \A l \in DOMAIN s : In(parts, l, 1, s[l].n, s[l].kind)
  BY DEF In
<1>3. Numbered(s) => Once(parts)
  BY <1>1 DEF Numbered, Once
<1>. QED
  BY <1>1, <1>2, <1>3 DEF Holds

LEMMA WholeHolds ==
  ASSUME NEW part, NEW s, part.blocks = s
  PROVE  Holds(<<part>>, s)
<1>1. DOMAIN <<part>> = {1} /\ <<part>>[1] = part
  OBVIOUS
<1>2. \A i, k, x, c : In(<<part>>, i, k, x, c) <=> i = 1 /\ k \in DOMAIN s /\ s[k].n = x /\ s[k].kind = c
  BY <1>1 DEF In
<1>3. Numbered(s) => Once(<<part>>)
  BY <1>2 DEF Numbered, Once
<1>4. \A l \in DOMAIN s : In(<<part>>, 1, l, s[l].n, s[l].kind)
  BY <1>2
<1>5. \A l \in DOMAIN s : \E i, k : In(<<part>>, i, k, s[l].n, s[l].kind)
  BY <1>4, Zenon
<1>6. \A i, k, x, c : In(<<part>>, i, k, x, c) => \E l \in DOMAIN s : s[l].n = x /\ s[l].kind = c
  BY <1>2, Zenon
<1>. QED
  BY <1>3, <1>5, <1>6, Zenon DEF Holds

LEMMA NothingHolds ==
  ASSUME NEW s, DOMAIN s = {}
  PROVE  Holds(<<>>, s)
<1>1. DOMAIN <<>> = {}
  OBVIOUS
<1>. QED
  BY <1>1 DEF Holds, Once, In

\* A message is translated if its blocks are there, of which none is a thought.
LEMMA HeldBrought ==
  ASSUME NEW m, Numbered(m.blocks), NEW parts, Holds(parts, m.blocks),
         \A k \in DOMAIN m.blocks : m.blocks[k].kind # "thought"
  PROVE  Brings(<<m>>, parts)
<1>1. DOMAIN <<m>> = {1} /\ <<m>>[1] = m
  OBVIOUS
<1>2. \A i, k, x, c : In(<<m>>, i, k, x, c) <=> i = 1 /\ k \in DOMAIN m.blocks /\ m.blocks[k].n = x /\ m.blocks[k].kind = c
  BY <1>1 DEF In
<1>3. Comes(<<m>>, parts)
  <2>. SUFFICES ASSUME NEW i, NEW k, NEW x, NEW c, In(parts, i, k, x, c)
                PROVE  c # "thought" /\ \E j, l : In(<<m>>, j, l, x, c)
    BY DEF Comes
  <2>1. PICK l \in DOMAIN m.blocks : m.blocks[l].n = x /\ m.blocks[l].kind = c
    BY DEF Holds
  <2>2. In(<<m>>, 1, l, x, c)
    BY <1>2, <2>1
  <2>. QED
    BY <2>1, <2>2
<1>4. Goes(<<m>>, parts)
  BY <1>2 DEF Goes, Holds
<1>5. Once(parts)
  BY DEF Holds
<1>6. InOrder(<<m>>, parts)
  BY <1>2 DEF InOrder, On
<1>. QED
  BY <1>3, <1>4, <1>5, <1>6 DEF Brings

\* It is too if some of its blocks are there and then those of other kinds, and the rest
\* are thoughts.
LEMMA BothBrought ==
  ASSUME NEW m, m.blocks \in Seq(Blocks), Numbered(m.blocks), NEW K, NEW L, K \cap L = {}, "thought" \notin K \cup L,
         \A k \in DOMAIN m.blocks : m.blocks[k].kind \in K \cup L \cup {"thought"},
         NEW Y, NEW a \in Seq(Y), NEW b \in Seq(Y),
         Holds(a, Kinds(m.blocks, K)), Holds(b, Kinds(m.blocks, L))
  PROVE  Brings(<<m>>, a \o b)
<1>1. PICK blocks \in Seq(Blocks) : blocks = m.blocks
  OBVIOUS
<1>2. PICK s : s = Kinds(blocks, K) /\ OfKinds(blocks, K, s) /\ Holds(a, s)
  BY <1>1, KindsOf
<1>3. PICK t : t = Kinds(blocks, L) /\ OfKinds(blocks, L, t) /\ Holds(b, t)
  BY <1>1, KindsOf
<1>4. PICK n \in Nat : n = Len(a)
  OBVIOUS
<1>5. PICK u : u = a \o b
  OBVIOUS
<1>6. Beside(a, b, n, u)
  BY <1>4, <1>5, InBeside, Zenon
<1>7. DOMAIN <<m>> = {1} /\ <<m>>[1] = m
  OBVIOUS
<1>8. \A i, k, x, c : In(<<m>>, i, k, x, c) <=> i = 1 /\ k \in DOMAIN blocks /\ blocks[k].n = x /\ blocks[k].kind = c
  BY <1>1, <1>7 DEF In
<1>9. \A i, k, x, c : In(a, i, k, x, c) => c \in K /\ \E l \in DOMAIN blocks : blocks[l].n = x /\ blocks[l].kind = c
  <2>. TAKE i, k, x, c
  <2>. HAVE In(a, i, k, x, c)
  <2>1. PICK l \in DOMAIN s : s[l].n = x /\ s[l].kind = c
    BY <1>2 DEF Holds
  <2>. QED
    BY <1>2, <2>1 DEF OfKinds
<1>10. \A i, k, x, c : In(b, i, k, x, c) => c \in L /\ \E l \in DOMAIN blocks : blocks[l].n = x /\ blocks[l].kind = c
  <2>. TAKE i, k, x, c
  <2>. HAVE In(b, i, k, x, c)
  <2>1. PICK l \in DOMAIN t : t[l].n = x /\ t[l].kind = c
    BY <1>3 DEF Holds
  <2>. QED
    BY <1>3, <2>1 DEF OfKinds
<1>11. \A i, k, x, c : In(u, i, k, x, c) =>
         c \in K \cup L /\ \E l \in DOMAIN blocks : blocks[l].n = x /\ blocks[l].kind = c
  BY <1>6, <1>9, <1>10 DEF Beside
<1>12. Comes(<<m>>, u)
  <2>. SUFFICES ASSUME NEW i, NEW k, NEW x, NEW c, In(u, i, k, x, c)
                PROVE  c # "thought" /\ \E j, l : In(<<m>>, j, l, x, c)
    BY DEF Comes
  <2>1. c \in K \cup L
    BY <1>11
  <2>2. PICK l \in DOMAIN blocks : blocks[l].n = x /\ blocks[l].kind = c
    BY <1>11
  <2>3. In(<<m>>, 1, l, x, c)
    <3>1. In(<<m>>, 1, l, blocks[l].n, blocks[l].kind)
      BY <1>8
    <3>. QED
      BY <2>2, <3>1
  <2>4. c # "thought"
    BY <2>1
  <2>. QED
    BY <2>3, <2>4, Zenon
<1>13. Goes(<<m>>, u)
  <2>. SUFFICES ASSUME NEW k \in DOMAIN blocks, blocks[k].kind # "thought"
                PROVE  \E i, l : In(u, i, l, blocks[k].n, blocks[k].kind)
    BY <1>8 DEF Goes
  <2>1. CASE blocks[k].kind \in K
    <3>1. PICK l \in DOMAIN s : s[l] = blocks[k]
      BY <1>2, <2>1 DEF OfKinds
    <3>2. \E i, j : In(a, i, j, blocks[k].n, blocks[k].kind)
      BY <1>2, <3>1 DEF Holds
    <3>. QED
      BY <1>6, <3>2 DEF Beside
  <2>2. CASE blocks[k].kind \in L
    <3>1. PICK l \in DOMAIN t : t[l] = blocks[k]
      BY <1>3, <2>2 DEF OfKinds
    <3>2. \E i, j : In(b, i, j, blocks[k].n, blocks[k].kind)
      BY <1>3, <3>1 DEF Holds
    <3>. QED
      BY <1>6, <3>2 DEF Beside
  <2>. QED
    BY <1>1, <2>1, <2>2
<1>14. Once(u)
  <2>. SUFFICES ASSUME NEW i, NEW k, NEW j, NEW l, NEW x, NEW c, NEW d, In(u, i, k, x, c), In(u, j, l, x, d)
                PROVE  i = j /\ k = l
    BY DEF Once
  <2>1. (\E p : In(a, p, k, x, c) /\ p = i) \/ \E p \in Nat : i = n + p /\ In(b, p, k, x, c)
    BY <1>6 DEF Beside
  <2>2. (\E p : In(a, p, l, x, d) /\ p = j) \/ \E p \in Nat : j = n + p /\ In(b, p, l, x, d)
    BY <1>6 DEF Beside
  <2>3. c = d
    <3>1. PICK p \in DOMAIN blocks : blocks[p].n = x /\ blocks[p].kind = c
      BY <1>11
    <3>2. PICK q \in DOMAIN blocks : blocks[q].n = x /\ blocks[q].kind = d
      BY <1>11
    <3>. QED
      BY <1>1, <3>1, <3>2 DEF Numbered
  <2>4. Once(a) /\ Once(b)
    <3>1. Numbered(s) /\ Numbered(t)
      BY <1>1, <1>2, <1>3 DEF OfKinds
    <3>. QED
      BY <1>2, <1>3, <3>1 DEF Holds
  <2>5. CASE In(a, i, k, x, c) /\ In(a, j, l, x, d)
    BY <2>4, <2>5 DEF Once
  <2>6. CASE (\E p \in Nat : i = n + p /\ In(b, p, k, x, c)) /\ \E p \in Nat : j = n + p /\ In(b, p, l, x, d)
    <3>1. PICK p \in Nat : i = n + p /\ In(b, p, k, x, c)
      BY <2>6
    <3>2. PICK q \in Nat : j = n + q /\ In(b, q, l, x, d)
      BY <2>6
    <3>3. p = q /\ k = l
      BY <2>4, <3>1, <3>2 DEF Once
    <3>. QED
      BY <3>1, <3>2, <3>3
  <2>7. /\ ~((\E p, q : In(a, p, q, x, c)) /\ \E p, q : In(b, p, q, x, d))
        /\ ~((\E p, q : In(a, p, q, x, d)) /\ \E p, q : In(b, p, q, x, c))
    BY <1>9, <1>10, <2>3
  <2>. QED
    BY <2>1, <2>2, <2>5, <2>6, <2>7
<1>15. InOrder(<<m>>, u)
  BY <1>8 DEF InOrder, On
<1>. QED
  BY <1>5, <1>12, <1>13, <1>14, <1>15 DEF Brings

-----------------------------------------------------------------------------
Roles == {"system", "user", "assistant", "tool"}
Messages == [role : Roles, blocks : Seq(Blocks)]
Items == [kind : {"message", "call", "output"}, role : {"none", "developer", "user", "assistant", "tool"},
          blocks : Seq(Blocks)]

\* Who says what to an API.
MaySay(api, role, kind) ==
  \/ role = "system" /\ kind = "text"
  \/ role = "user" /\ kind \in {"text", "image"}
  \/ role = "user" /\ kind = "result" /\ api = "claude"
  \/ role = "tool" /\ kind = "result" /\ api # "claude"
  \/ role = "assistant" /\ kind \in {"text", "call"}
  \/ role = "assistant" /\ kind = "thought" /\ api = "claude"
Shaped(api, m) == \A k \in DOMAIN m.blocks : MaySay(api, m.role, m.blocks[k].kind)

\* A function that is typed block by block.
LEMMA SequenceOf ==
  ASSUME NEW X, NEW s, NEW Y, NEW t \in Seq(Y), DOMAIN s = DOMAIN t, s = [k \in DOMAIN t |-> s[k]],
         \A k \in DOMAIN t : s[k] \in X
  PROVE  s \in Seq(X)
<1>1. PICK n \in Nat : DOMAIN t = 1..n
  OBVIOUS
<1>2. s \in [1..n -> X]
  BY <1>1, Zenon
<1>. QED
  BY <1>2

\* Blocks as messages of their own.
LEMMA AloneHolds ==
  ASSUME NEW role \in Roles, NEW s \in Seq(Blocks)
  PROVE  Alone(role, s) \in Seq(Messages) /\ Holds(Alone(role, s), s)
<1>. DEFINE t == Alone(role, s)
<1>1. /\ DOMAIN t = DOMAIN s /\ t = [k \in DOMAIN s |-> t[k]]
      /\ \A k \in DOMAIN s : t[k] = [role |-> role, blocks |-> <<s[k]>>]
  BY DEF Alone
<1>. HIDE DEF t
<1>2. \A k \in DOMAIN s : s[k] \in Blocks /\ <<s[k]>> \in Seq(Blocks)
  OBVIOUS
<1>3. \A k \in DOMAIN s : t[k] \in Messages
  <2>. TAKE k \in DOMAIN s
  <2>1. PICK b \in Seq(Blocks) : b = <<s[k]>>
    BY <1>2
  <2>2. t[k] = [role |-> role, blocks |-> b]
    BY <1>1, <2>1
  <2>. QED
    BY <2>2 DEF Messages
<1>4. t \in Seq(Messages)
  BY <1>1, <1>3, SequenceOf, Zenon
<1>5. \A k \in DOMAIN s : DOMAIN t[k].blocks = {1} /\ t[k].blocks[1] = s[k]
  BY <1>1
<1>6. Holds(t, s)
  BY <1>1, <1>5, SinglesHold
<1>. QED
  BY <1>4, <1>6 DEF t

\* Blocks as items of their own.
LEMMA AsItemsHolds ==
  ASSUME NEW kind \in {"message", "call", "output"}, NEW s \in Seq(Blocks)
  PROVE  /\ AsItems(kind, s) \in Seq(Items) /\ Holds(AsItems(kind, s), s) /\ DOMAIN AsItems(kind, s) = DOMAIN s
         /\ \A k \in DOMAIN s : AsItems(kind, s)[k] = Item(kind, "none", <<s[k]>>)
<1>. DEFINE t == AsItems(kind, s)
<1>1. /\ DOMAIN t = DOMAIN s /\ t = [k \in DOMAIN s |-> t[k]]
      /\ \A k \in DOMAIN s : t[k] = Item(kind, "none", <<s[k]>>)
  BY DEF AsItems
<1>. HIDE DEF t
<1>2. \A k \in DOMAIN s : s[k] \in Blocks /\ <<s[k]>> \in Seq(Blocks)
  OBVIOUS
<1>3. \A k \in DOMAIN s : t[k] \in Items
  <2>. TAKE k \in DOMAIN s
  <2>1. PICK b \in Seq(Blocks) : b = <<s[k]>>
    BY <1>2
  <2>2. t[k] = [kind |-> kind, role |-> "none", blocks |-> b]
    BY <1>1, <2>1 DEF Item
  <2>. QED
    BY <2>2 DEF Items
<1>4. t \in Seq(Items)
  BY <1>1, <1>3, SequenceOf, Zenon
<1>5. \A k \in DOMAIN s : DOMAIN t[k].blocks = {1} /\ t[k].blocks[1] = s[k]
  BY <1>1 DEF Item
<1>6. Holds(t, s)
  BY <1>1, <1>5, SinglesHold
<1>. QED
  BY <1>1, <1>4, <1>6 DEF t

\* A block of another name holds the same number and kind.
LEMMA HoldsAlike ==
  ASSUME NEW parts, NEW s, NEW t, Holds(parts, t), DOMAIN s = DOMAIN t,
         \A k \in DOMAIN t : t[k].n = s[k].n /\ t[k].kind = s[k].kind
  PROVE  Holds(parts, s)
<1>1. Numbered(s) => Numbered(t)
  BY DEF Numbered
<1>2. Numbered(s) => Once(parts)
  BY <1>1 DEF Holds
<1>3. \A i, k, x, c : In(parts, i, k, x, c) => \E l \in DOMAIN s : s[l].n = x /\ s[l].kind = c
  BY DEF Holds
<1>4. \A l \in DOMAIN s : \E i, k : In(parts, i, k, s[l].n, s[l].kind)
  BY DEF Holds
<1>. QED
  BY <1>2, <1>3, <1>4 DEF Holds

-----------------------------------------------------------------------------
\* Block c of an item is call b under a name.
Renamed(name, b, c) == c.type = b.type /\ c.tool = b.tool /\ c.name = name

\* A call among the items is one of the message, under its short name.
ChatItem(tools, m, item) ==
  item.kind = "call" =>
    \E l \in DOMAIN m.blocks : m.blocks[l].kind = "call" /\ Renamed(Short(tools, m.blocks[l].name), m.blocks[l], item.blocks[1])
ChatItems(tools, m, items) ==
  items \in Seq(Items) /\ Brings(<<m>>, items) /\ \A i \in DOMAIN items : ChatItem(tools, m, items[i])

\* An element of two sequences one after the other is one of either.
Elements(s, t, u) ==
  \A i \in DOMAIN u : (\E j \in DOMAIN s : u[i] = s[j]) \/ \E j \in DOMAIN t : u[i] = t[j]

\* This holds of any two sequences.
LEMMA EitherOf ==
  ASSUME NEW X, NEW s \in Seq(X), NEW t \in Seq(X)
  PROVE  Elements(s, t, s \o t)
<1>. SUFFICES ASSUME NEW i \in DOMAIN (s \o t)
              PROVE  (\E j \in DOMAIN s : (s \o t)[i] = s[j]) \/ \E j \in DOMAIN t : (s \o t)[i] = t[j]
  BY DEF Elements
<1>1. i \in 1..(Len(s) + Len(t))
  OBVIOUS
<1>2. CASE i <= Len(s)
  <2>1. i \in DOMAIN s /\ (s \o t)[i] = s[i]
    BY <1>1, <1>2
  <2>. QED
    BY <2>1
<1>3. CASE ~(i <= Len(s))
  <2>1. i - Len(s) \in DOMAIN t /\ (s \o t)[i] = t[i - Len(s)]
    BY <1>1, <1>3
  <2>. QED
    BY <2>1
<1>. QED
  BY <1>2, <1>3

\* A message of results becomes their items.
LEMMA ToolMessage ==
  ASSUME NEW m \in Messages, m.role = "tool", Shaped("chat", m), Numbered(m.blocks), NEW tools
  PROVE  ChatItems(tools, m, FromChat(m, tools))
<1>1. FromChat(m, tools) = AsItems("output", m.blocks)
  BY DEF FromChat
<1>2. m.blocks \in Seq(Blocks)
  BY DEF Messages
<1>3. /\ AsItems("output", m.blocks) \in Seq(Items) /\ Holds(AsItems("output", m.blocks), m.blocks)
      /\ DOMAIN AsItems("output", m.blocks) = DOMAIN m.blocks
      /\ \A k \in DOMAIN m.blocks : AsItems("output", m.blocks)[k] = Item("output", "none", <<m.blocks[k]>>)
  BY <1>2, AsItemsHolds
<1>4. \A k \in DOMAIN m.blocks : m.blocks[k].kind # "thought"
  <2>. TAKE k \in DOMAIN m.blocks
  <2>1. MaySay("chat", m.role, m.blocks[k].kind)
    BY DEF Shaped
  <2>. QED
    BY <2>1 DEF MaySay
<1>5. Brings(<<m>>, AsItems("output", m.blocks))
  BY <1>3, <1>4, HeldBrought
<1>6. \A k \in DOMAIN m.blocks : AsItems("output", m.blocks)[k].kind # "call"
  <2>. TAKE k \in DOMAIN m.blocks
  <2>1. AsItems("output", m.blocks)[k] = Item("output", "none", <<m.blocks[k]>>)
    BY <1>3
  <2>2. Item("output", "none", <<m.blocks[k]>>).kind = "output"
    BY DEF Item
  <2>. QED
    BY <2>1, <2>2
<1>. QED
  BY <1>1, <1>3, <1>5, <1>6 DEF ChatItems, ChatItem

\* The calls of a message under their short names.
ShortCalls(tools, calls) == [k \in DOMAIN calls |-> [calls[k] EXCEPT !.name = NameOfCall(tools, @)]]

\* The items of calls hold them, under their short names.
LEMMA CallItems ==
  ASSUME NEW tools \in Seq(Tools), NEW calls \in Seq(Blocks)
  PROVE  /\ ShortCalls(tools, calls) \in Seq(Blocks)
         /\ AsItems("call", ShortCalls(tools, calls)) \in Seq(Items)
         /\ DOMAIN AsItems("call", ShortCalls(tools, calls)) = DOMAIN calls
         /\ Holds(AsItems("call", ShortCalls(tools, calls)), calls)
         /\ \A k \in DOMAIN calls : Renamed(Short(tools, calls[k].name), calls[k], AsItems("call", ShortCalls(tools, calls))[k].blocks[1])
<1>. DEFINE s == ShortCalls(tools, calls)
            t == AsItems("call", s)
<1>1. /\ DOMAIN s = DOMAIN calls /\ s = [k \in DOMAIN calls |-> s[k]]
      /\ \A k \in DOMAIN calls : s[k] = [calls[k] EXCEPT !.name = Short(tools, calls[k].name)]
  BY DEF ShortCalls, NameOfCall
<1>. HIDE DEF s
<1>2. \A k \in DOMAIN calls : calls[k] \in Blocks
  OBVIOUS
<1>3. \A k \in DOMAIN calls : calls[k].name \in Names
  BY <1>2 DEF Blocks
<1>4. \A k \in DOMAIN calls : Short(tools, calls[k].name) \in Names
  BY <1>3, ShortName
<1>5. \A k \in DOMAIN calls : s[k] \in Blocks
  <2>. TAKE k \in DOMAIN calls
  <2>1. PICK b \in Blocks : b = calls[k]
    BY <1>2
  <2>2. PICK name \in Names : name = Short(tools, calls[k].name)
    BY <1>4
  <2>3. s[k] = [b EXCEPT !.name = name]
    BY <1>1, <2>1, <2>2
  <2>. HIDE DEF t
  <2>. QED
    BY <2>3 DEF Blocks
<1>6. s \in Seq(Blocks)
  BY <1>1, <1>5, SequenceOf, Zenon
<1>7. \A k \in DOMAIN calls :
        /\ s[k].n = calls[k].n /\ s[k].kind = calls[k].kind
        /\ Renamed(Short(tools, calls[k].name), calls[k], s[k])
  BY <1>1, <1>2 DEF Blocks, Renamed
<1>8. t \in Seq(Items) /\ Holds(t, s) /\ DOMAIN t = DOMAIN s /\ \A k \in DOMAIN s : t[k] = Item("call", "none", <<s[k]>>)
  BY <1>6, AsItemsHolds
<1>. HIDE DEF t
<1>9. Holds(t, calls)
  BY <1>1, <1>7, <1>8, HoldsAlike
<1>10. \A k \in DOMAIN calls : t[k].blocks[1] = s[k]
  BY <1>1, <1>8 DEF Item
<1>. QED
  BY <1>1, <1>6, <1>7, <1>8, <1>9, <1>10 DEF t, s

\* Nothing needs to be said of kinds that a message does not have.
LEMMA EmptyHolds ==
  ASSUME NEW blocks \in Seq(Blocks), NEW kinds, \A k \in DOMAIN blocks : blocks[k].kind \notin kinds
  PROVE  Holds(<<>>, Kinds(blocks, kinds))
<1>1. PICK s : s = Kinds(blocks, kinds) /\ OfKinds(blocks, kinds, s)
  BY KindsOf
<1>2. DOMAIN s = {}
  BY <1>1 DEF OfKinds
<1>. QED
  BY <1>1, <1>2, NothingHolds

\* Any other message becomes an item of what it says and the items of its calls.
LEMMA SpokenMessage ==
  ASSUME NEW m \in Messages, m.role # "tool", Shaped("chat", m), Numbered(m.blocks), NEW tools \in Seq(Tools)
  PROVE  ChatItems(tools, m, FromChat(m, tools))
<1>. DEFINE K == {"text"} \cup (IF m.role = "user" THEN {"image"} ELSE {})
            L == {"call"}
            said == Item("message", RoleOf(m.role), Kinds(m.blocks, K))
<1>1. PICK blocks \in Seq(Blocks) : blocks = m.blocks
  BY DEF Messages
<1>2. m.role \in Roles
  BY DEF Messages
<1>3. \A k \in DOMAIN blocks : MaySay("chat", m.role, blocks[k].kind)
  BY <1>1 DEF Shaped
<1>4. /\ K \cap L = {} /\ "thought" \notin K \cup L
      /\ \A k \in DOMAIN blocks : blocks[k].kind \in K \cup L \cup {"thought"}
  <2>1. K \cap L = {} /\ "thought" \notin K \cup L
    OBVIOUS
  <2>2. ASSUME NEW k \in DOMAIN blocks PROVE blocks[k].kind \in K \cup L
    BY <1>3 DEF MaySay
  <2>. QED
    BY <2>1, <2>2
<1>5. PICK parts : parts = Kinds(blocks, K) /\ OfKinds(blocks, K, parts) /\ parts \in Seq(Blocks)
  <2>. HIDE DEF K
  <2>1. OfKinds(blocks, K, Kinds(blocks, K))
    BY KindsOf
  <2>2. Kinds(blocks, K) \in Seq(Blocks)
    BY <2>1 DEF OfKinds
  <2>. QED
    BY <2>1, <2>2, Zenon
<1>6. PICK calls : calls = Kinds(blocks, L) /\ OfKinds(blocks, L, calls) /\ calls \in Seq(Blocks)
  <2>. HIDE DEF L
  <2>1. OfKinds(blocks, L, Kinds(blocks, L))
    BY KindsOf
  <2>2. Kinds(blocks, L) \in Seq(Blocks)
    BY <2>1 DEF OfKinds
  <2>. QED
    BY <2>1, <2>2, Zenon
<1>7. said \in Items /\ said.blocks = parts /\ said.kind = "message"
  <2>1. PICK role \in {"none", "developer", "user", "assistant", "tool"} : role = RoleOf(m.role)
    BY <1>2 DEF RoleOf, Roles
  <2>2. said = [kind |-> "message", role |-> role, blocks |-> parts]
    BY <1>1, <1>5, <2>1 DEF Item
  <2>. HIDE DEF said
  <2>. QED
    BY <1>5, <2>2 DEF Items
<1>. HIDE DEF said
<1>8. PICK a \in Seq(Items) : a = <<said>> /\ Holds(a, parts) /\ \A i \in DOMAIN a : a[i].kind # "call"
  <2>. DEFINE s == <<said>>
  <2>1. s \in Seq(Items) /\ DOMAIN s = {1} /\ s[1] = said
    BY <1>7
  <2>2. Holds(s, parts)
    BY <1>7, WholeHolds
  <2>3. \A i \in DOMAIN s : s[i].kind # "call"
    BY <1>7, <2>1
  <2>. HIDE DEF s
  <2>4. s = <<said>>
    BY DEF s
  <2>. QED
    BY <2>1, <2>2, <2>3, <2>4
<1>9. PICK b \in Seq(Items) : /\ FromChat(m, tools) = a \o b /\ Holds(b, calls)
                              /\ \A i \in DOMAIN b : ChatItem(tools, m, b[i])
  <2>1. CASE m.role = "assistant"
    <3>. DEFINE t == AsItems("call", ShortCalls(tools, calls))
    <3>1. FromChat(m, tools) = <<said>> \o t
      BY <1>1, <1>6, <2>1 DEF FromChat, ShortCalls, said
    <3>2. /\ t \in Seq(Items) /\ DOMAIN t = DOMAIN calls /\ Holds(t, calls)
          /\ \A k \in DOMAIN calls : Renamed(Short(tools, calls[k].name), calls[k], t[k].blocks[1])
      BY <1>6, CallItems
    <3>. HIDE DEF t
    <3>3. ASSUME NEW i \in DOMAIN t PROVE ChatItem(tools, m, t[i])
      <4>1. PICK l \in DOMAIN blocks : calls[i] = blocks[l] /\ blocks[l].kind = "call"
        <5>1. i \in DOMAIN calls
          BY <3>2
        <5>2. calls[i].kind \in {"call"} /\ \E j \in DOMAIN blocks : calls[i] = blocks[j]
          BY <1>6, <5>1 DEF OfKinds
        <5>. QED
          BY <5>2
      <4>2. Renamed(Short(tools, blocks[l].name), blocks[l], t[i].blocks[1])
        BY <3>2, <4>1
      <4>. QED
        BY <1>1, <4>1, <4>2 DEF ChatItem
    <3>. QED
      BY <1>8, <3>1, <3>2, <3>3
  <2>2. CASE m.role # "assistant"
    <3>1. FromChat(m, tools) = <<said>> \o <<>>
      BY <1>1, <2>2 DEF FromChat, said
    <3>2. \A k \in DOMAIN blocks : blocks[k].kind \notin L
      BY <1>3, <2>2 DEF MaySay
    <3>3. Holds(<<>>, calls)
      BY <1>6, <3>2, EmptyHolds
    <3>4. <<>> \in Seq(Items) /\ DOMAIN <<>> = {}
      OBVIOUS
    <3>. QED
      BY <1>8, <3>1, <3>3, <3>4
  <2>. QED
    BY <2>1, <2>2
<1>10. Brings(<<m>>, a \o b)
  <2>1. Holds(a, Kinds(m.blocks, K)) /\ Holds(b, Kinds(m.blocks, L)) /\ m.blocks \in Seq(Blocks)
    BY <1>1, <1>5, <1>6, <1>8, <1>9
  <2>2. \A k \in DOMAIN m.blocks : m.blocks[k].kind \in K \cup L \cup {"thought"}
    BY <1>1, <1>4
  <2>. HIDE DEF K, L
  <2>. QED
    BY <1>4, <2>1, <2>2, BothBrought, Zenon
<1>11. a \o b \in Seq(Items)
  OBVIOUS
<1>12. \A i \in DOMAIN (a \o b) : ChatItem(tools, m, (a \o b)[i])
  <2>. TAKE i \in DOMAIN (a \o b)
  <2>1. Elements(a, b, a \o b)
    BY EitherOf, Zenon
  <2>2. (\E j \in DOMAIN a : (a \o b)[i] = a[j]) \/ \E j \in DOMAIN b : (a \o b)[i] = b[j]
    BY <2>1, Zenon DEF Elements
  <2>. QED
    BY <1>8, <1>9, <2>2 DEF ChatItem
<1>. QED
  BY <1>9, <1>10, <1>11, <1>12 DEF ChatItems

\* A message of a client of the chat API.
LEMMA ChatMessage ==
  ASSUME NEW m \in Messages, Shaped("chat", m), Numbered(m.blocks), NEW tools \in Seq(Tools)
  PROVE  ChatItems(tools, m, FromChat(m, tools))
BY ToolMessage, SpokenMessage

\* A message of what a Claude client says is one that a client of the chat API might
\* say, of the same blocks.
PlainMessage(m, p) ==
  /\ Shaped("chat", p)
  /\ \A k \in DOMAIN p.blocks : \E l \in DOMAIN m.blocks : p.blocks[k] = m.blocks[l]
PlainMessages(m, plain) ==
  plain \in Seq(Messages) /\ Brings(<<m>>, plain) /\ \A i \in DOMAIN plain : PlainMessage(m, plain[i])

\* ConvertClaudeRequestToOpenAI translates a message into such messages.
LEMMA ClaudeMessage ==
  ASSUME NEW m \in Messages, Shaped("claude", m), Numbered(m.blocks)
  PROVE  PlainMessages(m, FromClaude(m))
<1>. DEFINE K == {"result"}
            L == {"text", "image", "call"}
<1>1. PICK blocks \in Seq(Blocks) : blocks = m.blocks
  BY DEF Messages
<1>2. m.role \in Roles
  BY DEF Messages
<1>3. \A k \in DOMAIN blocks : MaySay("claude", m.role, blocks[k].kind)
  BY <1>1 DEF Shaped
<1>4. /\ K \cap L = {} /\ "thought" \notin K \cup L
      /\ \A k \in DOMAIN blocks : blocks[k].kind \in K \cup L \cup {"thought"}
  <2>1. K \cap L = {} /\ "thought" \notin K \cup L
    OBVIOUS
  <2>2. ASSUME NEW k \in DOMAIN blocks PROVE blocks[k].kind \in K \cup L \cup {"thought"}
    BY <1>3 DEF MaySay
  <2>. QED
    BY <2>1, <2>2
<1>5. PICK results : results = Kinds(blocks, K) /\ OfKinds(blocks, K, results) /\ results \in Seq(Blocks)
  <2>. HIDE DEF K
  <2>1. OfKinds(blocks, K, Kinds(blocks, K))
    BY KindsOf
  <2>2. Kinds(blocks, K) \in Seq(Blocks)
    BY <2>1 DEF OfKinds
  <2>. QED
    BY <2>1, <2>2, Zenon
<1>6. PICK rest : rest = Kinds(blocks, L) /\ OfKinds(blocks, L, rest) /\ rest \in Seq(Blocks)
  <2>. HIDE DEF L
  <2>1. OfKinds(blocks, L, Kinds(blocks, L))
    BY KindsOf
  <2>2. Kinds(blocks, L) \in Seq(Blocks)
    BY <2>1 DEF OfKinds
  <2>. QED
    BY <2>1, <2>2, Zenon
<1>7. PICK a \in Seq(Messages) : /\ a = Alone("tool", results) /\ Holds(a, results)
                                 /\ \A i \in DOMAIN a : PlainMessage(m, a[i])
  <2>. DEFINE t == Alone("tool", results)
  <2>1. t \in Seq(Messages) /\ Holds(t, results)
    BY <1>5, AloneHolds DEF Roles
  <2>2. ASSUME NEW i \in DOMAIN t PROVE PlainMessage(m, t[i])
    <3>1. i \in DOMAIN results /\ t[i] = [role |-> "tool", blocks |-> <<results[i]>>]
      BY DEF Alone
    <3>2. PICK p : p = t[i]
      OBVIOUS
    <3>3. p.role = "tool" /\ DOMAIN p.blocks = {1} /\ p.blocks[1] = results[i]
      BY <3>1, <3>2
    <3>4. results[i].kind \in {"result"} /\ \E l \in DOMAIN blocks : results[i] = blocks[l]
      BY <1>5, <3>1 DEF OfKinds
    <3>5. Shaped("chat", p)
      BY <3>3, <3>4 DEF Shaped, MaySay
    <3>6. \A k \in DOMAIN p.blocks : \E l \in DOMAIN m.blocks : p.blocks[k] = m.blocks[l]
      BY <1>1, <3>3, <3>4
    <3>. QED
      BY <3>2, <3>5, <3>6, Zenon DEF PlainMessage
  <2>3. \A i \in DOMAIN t : PlainMessage(m, t[i])
    BY <2>2
  <2>4. PICK u : u = t
    OBVIOUS
  <2>5. u \in Seq(Messages) /\ u = Alone("tool", results) /\ Holds(u, results) /\ \A i \in DOMAIN u : PlainMessage(m, u[i])
    BY <2>1, <2>3, <2>4, Zenon
  <2>. HIDE DEF t
  <2>. QED
    BY <2>5
<1>8. PICK b \in Seq(Messages) : /\ FromClaude(m) = a \o b /\ Holds(b, rest)
                                 /\ \A i \in DOMAIN b : PlainMessage(m, b[i])
  <2>1. CASE m.role = "user" /\ Only(m.blocks, {"result"})
    <3>1. FromClaude(m) = a \o <<>>
      BY <1>1, <1>5, <1>7, <2>1 DEF FromClaude
    <3>2. \A k \in DOMAIN blocks : blocks[k].kind \notin L
      BY <1>1, <2>1 DEF Only
    <3>3. Holds(<<>>, rest)
      BY <1>6, <3>2, EmptyHolds
    <3>4. <<>> \in Seq(Messages) /\ DOMAIN <<>> = {}
      OBVIOUS
    <3>. QED
      BY <3>1, <3>3, <3>4
  <2>2. CASE ~(m.role = "user" /\ Only(m.blocks, {"result"}))
    <3>1. PICK p : p = [role |-> m.role, blocks |-> rest]
      OBVIOUS
    <3>2. FromClaude(m) = a \o <<p>>
      BY <1>1, <1>5, <1>6, <1>7, <2>2, <3>1 DEF FromClaude
    <3>3. p \in Messages /\ p.role = m.role /\ p.blocks = rest
      BY <1>2, <1>6, <3>1 DEF Messages
    <3>4. Holds(<<p>>, rest)
      BY <3>3, WholeHolds
    <3>5. \A k \in DOMAIN rest : rest[k].kind \in L /\ \E l \in DOMAIN blocks : rest[k] = blocks[l]
      BY <1>6 DEF OfKinds
    <3>6. ASSUME NEW k \in DOMAIN rest PROVE MaySay("chat", m.role, rest[k].kind)
      <4>1. MaySay("claude", m.role, rest[k].kind)
        BY <1>3, <3>5
      <4>. QED
        BY <3>5, <4>1 DEF MaySay
    <3>7. PlainMessage(m, p)
      BY <1>1, <3>3, <3>5, <3>6 DEF PlainMessage, Shaped
    <3>8. <<p>> \in Seq(Messages) /\ DOMAIN <<p>> = {1} /\ <<p>>[1] = p
      BY <3>3
    <3>. QED
      BY <3>2, <3>4, <3>7, <3>8
  <2>. QED
    BY <2>1, <2>2
<1>9. Brings(<<m>>, a \o b)
  <2>1. Holds(a, Kinds(m.blocks, K)) /\ Holds(b, Kinds(m.blocks, L)) /\ m.blocks \in Seq(Blocks)
    BY <1>1, <1>5, <1>6, <1>7, <1>8
  <2>2. \A k \in DOMAIN m.blocks : m.blocks[k].kind \in K \cup L \cup {"thought"}
    BY <1>1, <1>4
  <2>. HIDE DEF K, L
  <2>. QED
    BY <1>4, <2>1, <2>2, BothBrought, Zenon
<1>10. a \o b \in Seq(Messages)
  OBVIOUS
<1>11. \A i \in DOMAIN (a \o b) : PlainMessage(m, (a \o b)[i])
  <2>. TAKE i \in DOMAIN (a \o b)
  <2>1. Elements(a, b, a \o b)
    BY EitherOf, Zenon
  <2>2. (\E j \in DOMAIN a : (a \o b)[i] = a[j]) \/ \E j \in DOMAIN b : (a \o b)[i] = b[j]
    BY <2>1, Zenon DEF Elements
  <2>. QED
    BY <1>7, <1>8, <2>2
<1>. QED
  BY <1>8, <1>9, <1>10, <1>11 DEF PlainMessages

\* A client of the Responses API tells items.
OwnItem(m, item) ==
  item.kind = "call" =>
    \E l \in DOMAIN m.blocks : m.blocks[l].kind = "call" /\ Renamed(m.blocks[l].name, m.blocks[l], item.blocks[1])
OwnItems(m, items) ==
  items \in Seq(Items) /\ Brings(<<m>>, items) /\ \A i \in DOMAIN items : OwnItem(m, items[i])

\* It tells them itself.
LEMMA ResponsesMessage ==
  ASSUME NEW m \in Messages, Shaped("responses", m), Numbered(m.blocks)
  PROVE  OwnItems(m, FromResponses(m))
<1>1. PICK blocks \in Seq(Blocks) : blocks = m.blocks
  BY DEF Messages
<1>2. PICK role \in {"none", "developer", "user", "assistant", "tool"} : role = RoleOf(m.role)
  BY DEF RoleOf, Roles, Messages
<1>3. PICK items : items = FromResponses(m)
  OBVIOUS
<1>4. DOMAIN items = DOMAIN blocks /\ items = [k \in DOMAIN blocks |-> items[k]]
  BY <1>1, <1>3 DEF FromResponses
<1>5. ASSUME NEW k \in DOMAIN blocks
      PROVE  /\ items[k] \in Items /\ DOMAIN items[k].blocks = {1} /\ items[k].blocks[1] = blocks[k]
             /\ items[k].kind = "call" => blocks[k].kind = "call"
  <2>1. PICK kind \in {"message", "call", "output"}, by \in {role, "none"} :
          items[k] = Item(kind, by, <<blocks[k]>>) /\ (kind = "call" => blocks[k].kind = "call")
    <3>1. CASE blocks[k].kind = "call"
      <4>1. items[k] = Item("call", "none", <<blocks[k]>>)
        BY <1>1, <1>3, <3>1 DEF FromResponses
      <4>. QED
        BY <3>1, <4>1
    <3>2. CASE blocks[k].kind = "result"
      <4>1. items[k] = Item("output", "none", <<blocks[k]>>)
        BY <1>1, <1>3, <3>2 DEF FromResponses
      <4>. QED
        BY <4>1
    <3>3. CASE blocks[k].kind \notin {"call", "result"}
      <4>1. items[k] = Item("message", role, <<blocks[k]>>)
        BY <1>1, <1>2, <1>3, <3>3 DEF FromResponses
      <4>. QED
        BY <4>1
    <3>. QED
      BY <3>1, <3>2, <3>3
  <2>. DEFINE one == <<blocks[k]>>
  <2>2. blocks[k] \in Blocks
    OBVIOUS
  <2>3. one \in Seq(Blocks) /\ DOMAIN one = {1} /\ one[1] = blocks[k]
    BY <2>2
  <2>4. PICK b \in Seq(Blocks) : b = <<blocks[k]>> /\ DOMAIN b = {1} /\ b[1] = blocks[k]
    BY <2>3, Zenon
  <2>5. items[k] = [kind |-> kind, role |-> by, blocks |-> b]
    BY <2>1, <2>4 DEF Item
  <2>6. by \in {"none", "developer", "user", "assistant", "tool"}
    OBVIOUS
  <2>7. items[k] \in Items
    BY <2>5, <2>6 DEF Items
  <2>8. items[k].blocks = b /\ items[k].kind = kind
    BY <2>5
  <2>. QED
    BY <2>1, <2>4, <2>7, <2>8
<1>6. items \in Seq(Items)
  BY <1>4, <1>5, SequenceOf, Zenon
<1>7. Holds(items, blocks)
  BY <1>4, <1>5, SinglesHold
<1>8. ASSUME NEW k \in DOMAIN m.blocks PROVE m.blocks[k].kind # "thought"
  <2>1. MaySay("responses", m.role, m.blocks[k].kind)
    BY DEF Shaped
  <2>. QED
    BY <2>1 DEF MaySay
<1>9. Brings(<<m>>, items)
  BY <1>1, <1>7, <1>8, HeldBrought
<1>10. \A i \in DOMAIN items : OwnItem(m, items[i])
  BY <1>1, <1>4, <1>5 DEF OwnItem, Renamed
<1>. QED
  BY <1>3, <1>6, <1>9, <1>10 DEF OwnItems

-----------------------------------------------------------------------------
\* The blocks of a conversation have their places.
Marked(h) == \A i \in DOMAIN h : \A k \in DOMAIN h[i].blocks : h[i].blocks[k].n = <<i, k>>

\* Then no two blocks have the same number.
LEMMA MarkedUnlike ==
  ASSUME NEW h, Marked(h)
  PROVE  Unlike(h) /\ Once(h) /\ \A i \in DOMAIN h : Numbered(h[i].blocks)
<1>1. \A i, k, x, c : In(h, i, k, x, c) => x = <<i, k>> /\ i \in DOMAIN h
  BY DEF In, Marked
<1>2. \A i, k, j, l : <<i, k>> = <<j, l>> => i = j /\ k = l
  OBVIOUS
<1>3. Unlike(h) /\ Once(h)
  BY <1>1, <1>2 DEF Unlike, On, Once
<1>4. \A i \in DOMAIN h : Numbered(h[i].blocks)
  BY <1>2 DEF Marked, Numbered
<1>. QED
  BY <1>3, <1>4

\* Parts that have every number once are unlike each other, and so are their blocks.
LEMMA OnceUnlike ==
  ASSUME NEW h, Once(h)
  PROVE  Unlike(h) /\ \A i \in DOMAIN h : Numbered(h[i].blocks)
<1>1. Unlike(h)
  BY DEF Unlike, On, Once
<1>2. ASSUME NEW i \in DOMAIN h, NEW j \in DOMAIN h[i].blocks, NEW k \in DOMAIN h[i].blocks,
             h[i].blocks[j].n = h[i].blocks[k].n
      PROVE  j = k
  <2>1. /\ In(h, i, j, h[i].blocks[j].n, h[i].blocks[j].kind)
        /\ In(h, i, k, h[i].blocks[j].n, h[i].blocks[k].kind)
    BY <1>2 DEF In
  <2>. QED
    BY <2>1 DEF Once
<1>. QED
  BY <1>1, <1>2 DEF Numbered

\* The calls among the items are those of the messages, under their short names, or
\* under their own.
ShortCallOf(h, tools, item) ==
  item.kind = "call" =>
    \E i \in DOMAIN h : \E l \in DOMAIN h[i].blocks :
      h[i].blocks[l].kind = "call" /\ Renamed(Short(tools, h[i].blocks[l].name), h[i].blocks[l], item.blocks[1])
OwnCallOf(h, item) ==
  item.kind = "call" =>
    \E i \in DOMAIN h : \E l \in DOMAIN h[i].blocks :
      h[i].blocks[l].kind = "call" /\ Renamed(h[i].blocks[l].name, h[i].blocks[l], item.blocks[1])
AllShort(h, tools, items) ==
  items \in Seq(Items) /\ Brings(h, items) /\ \A i \in DOMAIN items : ShortCallOf(h, tools, items[i])
AllOwn(h, items) ==
  items \in Seq(Items) /\ Brings(h, items) /\ \A i \in DOMAIN items : OwnCallOf(h, items[i])
AllPlain(h, plain) ==
  plain \in Seq(Messages) /\ Brings(h, plain)
    /\ \A i \in DOMAIN plain : \E j \in DOMAIN h : PlainMessage(h[j], plain[i])

\* A conversation of a client of the chat API, message by message.
LEMMA ChatConversation ==
  ASSUME NEW h \in Seq(Messages), Once(h), \A i \in DOMAIN h : Shaped("chat", h[i]), NEW tools \in Seq(Tools)
  PROVE  AllShort(h, tools, FlattenSeq([k \in DOMAIN h |-> FromChat(h[k], tools)]))
<1>1. PICK parts : parts = [k \in DOMAIN h |-> FromChat(h[k], tools)]
  OBVIOUS
<1>2. /\ DOMAIN parts = DOMAIN h /\ parts = [k \in DOMAIN h |-> parts[k]]
      /\ \A k \in DOMAIN h : parts[k] = FromChat(h[k], tools)
  BY <1>1
<1>3. Unlike(h) /\ \A i \in DOMAIN h : h[i] \in Messages /\ Numbered(h[i].blocks)
  BY OnceUnlike
<1>4. ASSUME NEW k \in DOMAIN h PROVE ChatItems(tools, h[k], parts[k])
  BY <1>2, <1>3, ChatMessage
<1>5. \A k \in DOMAIN h : parts[k] \in Seq(Items) /\ Brings(<<h[k]>>, parts[k])
  BY <1>4 DEF ChatItems
<1>6. parts \in Seq(Seq(Items))
  BY <1>2, <1>5, SequenceOf, Zenon
<1>7. Len(parts) = Len(h)
  BY <1>2, <1>6
<1>8. Brings(h, FlattenSeq(parts))
  BY <1>2, <1>3, <1>5, <1>6, <1>7, BringsAll, Zenon
<1>9. PICK items : items = FlattenSeq(parts)
  OBVIOUS
<1>10. /\ items \in Seq(Items)
       /\ \A x \in DOMAIN items : \E i \in DOMAIN parts : \E j \in DOMAIN parts[i] : items[x] = parts[i][j]
  BY <1>6, <1>9, FlattenFrom, Zenon
<1>11. ASSUME NEW x \in DOMAIN items PROVE ShortCallOf(h, tools, items[x])
  <2>1. PICK i \in DOMAIN h : \E j \in DOMAIN parts[i] : items[x] = parts[i][j]
    BY <1>2, <1>10
  <2>2. ChatItem(tools, h[i], items[x])
    BY <1>4, <2>1 DEF ChatItems
  <2>. QED
    BY <2>2 DEF ChatItem, ShortCallOf
<1>. QED
  BY <1>1, <1>8, <1>9, <1>10, <1>11, Zenon DEF AllShort

\* One of a client of the Responses API.
LEMMA OwnConversation ==
  ASSUME NEW h \in Seq(Messages), Once(h), \A i \in DOMAIN h : Shaped("responses", h[i])
  PROVE  AllOwn(h, FlattenSeq([k \in DOMAIN h |-> FromResponses(h[k])]))
<1>1. PICK parts : parts = [k \in DOMAIN h |-> FromResponses(h[k])]
  OBVIOUS
<1>2. /\ DOMAIN parts = DOMAIN h /\ parts = [k \in DOMAIN h |-> parts[k]]
      /\ \A k \in DOMAIN h : parts[k] = FromResponses(h[k])
  BY <1>1
<1>3. Unlike(h) /\ \A i \in DOMAIN h : h[i] \in Messages /\ Numbered(h[i].blocks)
  BY OnceUnlike
<1>4. ASSUME NEW k \in DOMAIN h PROVE OwnItems(h[k], parts[k])
  BY <1>2, <1>3, ResponsesMessage
<1>5. \A k \in DOMAIN h : parts[k] \in Seq(Items) /\ Brings(<<h[k]>>, parts[k])
  BY <1>4 DEF OwnItems
<1>6. parts \in Seq(Seq(Items))
  BY <1>2, <1>5, SequenceOf, Zenon
<1>7. Len(parts) = Len(h)
  BY <1>2, <1>6
<1>8. Brings(h, FlattenSeq(parts))
  BY <1>2, <1>3, <1>5, <1>6, <1>7, BringsAll, Zenon
<1>9. PICK items : items = FlattenSeq(parts)
  OBVIOUS
<1>10. /\ items \in Seq(Items)
       /\ \A x \in DOMAIN items : \E i \in DOMAIN parts : \E j \in DOMAIN parts[i] : items[x] = parts[i][j]
  BY <1>6, <1>9, FlattenFrom, Zenon
<1>11. ASSUME NEW x \in DOMAIN items PROVE OwnCallOf(h, items[x])
  <2>1. PICK i \in DOMAIN h : \E j \in DOMAIN parts[i] : items[x] = parts[i][j]
    BY <1>2, <1>10
  <2>2. OwnItem(h[i], items[x])
    BY <1>4, <2>1 DEF OwnItems
  <2>. QED
    BY <2>2 DEF OwnItem, OwnCallOf
<1>. QED
  BY <1>1, <1>8, <1>9, <1>10, <1>11, Zenon DEF AllOwn

\* One of a client of Claude becomes one that a client of the chat API might have.
LEMMA PlainConversation ==
  ASSUME NEW h \in Seq(Messages), Once(h), \A i \in DOMAIN h : Shaped("claude", h[i])
  PROVE  AllPlain(h, FlattenSeq([k \in DOMAIN h |-> FromClaude(h[k])]))
<1>1. PICK parts : parts = [k \in DOMAIN h |-> FromClaude(h[k])]
  OBVIOUS
<1>2. /\ DOMAIN parts = DOMAIN h /\ parts = [k \in DOMAIN h |-> parts[k]]
      /\ \A k \in DOMAIN h : parts[k] = FromClaude(h[k])
  BY <1>1
<1>3. Unlike(h) /\ \A i \in DOMAIN h : h[i] \in Messages /\ Numbered(h[i].blocks)
  BY OnceUnlike
<1>4. ASSUME NEW k \in DOMAIN h PROVE PlainMessages(h[k], parts[k])
  BY <1>2, <1>3, ClaudeMessage
<1>5. \A k \in DOMAIN h : parts[k] \in Seq(Messages) /\ Brings(<<h[k]>>, parts[k])
  BY <1>4 DEF PlainMessages
<1>6. parts \in Seq(Seq(Messages))
  BY <1>2, <1>5, SequenceOf, Zenon
<1>7. Len(parts) = Len(h)
  BY <1>2, <1>6
<1>8. Brings(h, FlattenSeq(parts))
  BY <1>2, <1>3, <1>5, <1>6, <1>7, BringsAll, Zenon
<1>9. PICK plain : plain = FlattenSeq(parts)
  OBVIOUS
<1>10. /\ plain \in Seq(Messages)
       /\ \A x \in DOMAIN plain : \E i \in DOMAIN parts : \E j \in DOMAIN parts[i] : plain[x] = parts[i][j]
  BY <1>6, <1>9, FlattenFrom, Zenon
<1>11. ASSUME NEW x \in DOMAIN plain PROVE \E j \in DOMAIN h : PlainMessage(h[j], plain[x])
  <2>1. PICK i \in DOMAIN h : \E j \in DOMAIN parts[i] : plain[x] = parts[i][j]
    BY <1>2, <1>10
  <2>2. PlainMessage(h[i], plain[x])
    BY <1>4, <2>1 DEF PlainMessages
  <2>. QED
    BY <2>2
<1>. QED
  BY <1>1, <1>8, <1>9, <1>10, <1>11, Zenon DEF AllPlain

\* One of a client of Claude, by way of the chat API.
LEMMA ClaudeConversation ==
  ASSUME NEW h \in Seq(Messages), Once(h), \A i \in DOMAIN h : Shaped("claude", h[i]), NEW tools \in Seq(Tools),
         NEW plain, plain = FlattenSeq([k \in DOMAIN h |-> FromClaude(h[k])])
  PROVE  AllShort(h, tools, FlattenSeq([k \in DOMAIN plain |-> FromChat(plain[k], tools)]))
<1>1. AllPlain(h, plain)
  BY PlainConversation
<1>2. /\ plain \in Seq(Messages) /\ Brings(h, plain)
      /\ \A i \in DOMAIN plain : \E j \in DOMAIN h : PlainMessage(h[j], plain[i])
  BY <1>1 DEF AllPlain
<1>3. Once(plain) /\ \A i \in DOMAIN plain : Shaped("chat", plain[i])
  BY <1>2 DEF Brings, PlainMessage
<1>4. PICK items : items = FlattenSeq([k \in DOMAIN plain |-> FromChat(plain[k], tools)])
  OBVIOUS
<1>5. AllShort(plain, tools, items)
  BY <1>2, <1>3, <1>4, ChatConversation
<1>6. items \in Seq(Items) /\ Brings(plain, items) /\ \A i \in DOMAIN items : ShortCallOf(plain, tools, items[i])
  BY <1>5 DEF AllShort
<1>7. Brings(h, items)
  BY <1>2, <1>6, BringsOn
<1>8. ASSUME NEW x \in DOMAIN items, items[x].kind = "call"
      PROVE  \E i \in DOMAIN h : \E l \in DOMAIN h[i].blocks :
               h[i].blocks[l].kind = "call" /\ Renamed(Short(tools, h[i].blocks[l].name), h[i].blocks[l], items[x].blocks[1])
  <2>1. PICK j \in DOMAIN plain : \E l \in DOMAIN plain[j].blocks :
          /\ plain[j].blocks[l].kind = "call"
          /\ Renamed(Short(tools, plain[j].blocks[l].name), plain[j].blocks[l], items[x].blocks[1])
    BY <1>6, <1>8 DEF ShortCallOf
  <2>2. PICK l \in DOMAIN plain[j].blocks :
          /\ plain[j].blocks[l].kind = "call"
          /\ Renamed(Short(tools, plain[j].blocks[l].name), plain[j].blocks[l], items[x].blocks[1])
    BY <2>1
  <2>3. PICK i \in DOMAIN h : PlainMessage(h[i], plain[j])
    BY <1>2
  <2>4. PICK k \in DOMAIN h[i].blocks : plain[j].blocks[l] = h[i].blocks[k]
    BY <2>3 DEF PlainMessage
  <2>. QED
    BY <2>2, <2>4
<1>9. \A x \in DOMAIN items : ShortCallOf(h, tools, items[x])
  BY <1>8 DEF ShortCallOf
<1>. QED
  BY <1>4, <1>6, <1>7, <1>9 DEF AllShort

-----------------------------------------------------------------------------
\* The items of a conversation.
NameSent(tools, name) == IF client = "responses" THEN name ELSE Short(tools, name)
CallOfOne(h, tools, item) ==
  item.kind = "call" =>
    \E i \in DOMAIN h : \E l \in DOMAIN h[i].blocks :
      h[i].blocks[l].kind = "call" /\ Renamed(NameSent(tools, h[i].blocks[l].name), h[i].blocks[l], item.blocks[1])
Tells(h, tools, items) ==
  items \in Seq(Items) /\ Brings(h, items) /\ \A i \in DOMAIN items : CallOfOne(h, tools, items[i])

\* A conversation of any client.
LEMMA ConvertedTells ==
  ASSUME client \in {"chat", "claude", "responses"},
         NEW h \in Seq(Messages), Marked(h), \A i \in DOMAIN h : Shaped(client, h[i]), NEW tools \in Seq(Tools)
  PROVE  Tells(h, tools, Converted(h, tools))
<1>1. Once(h)
  BY MarkedUnlike
<1>2. CASE client = "responses"
  <2>1. PICK items : items = FlattenSeq([k \in DOMAIN h |-> FromResponses(h[k])])
    OBVIOUS
  <2>2. AllOwn(h, items)
    BY <1>1, <1>2, <2>1, OwnConversation
  <2>3. items = Converted(h, tools)
    BY <1>2, <2>1 DEF Converted
  <2>4. Tells(h, tools, items)
    BY <1>2, <2>2 DEF AllOwn, Tells, OwnCallOf, CallOfOne, NameSent
  <2>. QED
    BY <2>3, <2>4
<1>3. CASE client = "chat"
  <2>1. PICK items : items = FlattenSeq([k \in DOMAIN h |-> FromChat(h[k], tools)])
    OBVIOUS
  <2>2. AllShort(h, tools, items)
    BY <1>1, <1>3, <2>1, ChatConversation
  <2>3. items = Converted(h, tools)
    BY <1>3, <2>1 DEF Converted
  <2>4. Tells(h, tools, items)
    BY <1>3, <2>2 DEF AllShort, Tells, ShortCallOf, CallOfOne, NameSent
  <2>. QED
    BY <2>3, <2>4
<1>4. CASE client = "claude"
  <2>1. PICK plain : plain = FlattenSeq([k \in DOMAIN h |-> FromClaude(h[k])])
    OBVIOUS
  <2>2. PICK items : items = FlattenSeq([k \in DOMAIN plain |-> FromChat(plain[k], tools)])
    OBVIOUS
  <2>3. AllShort(h, tools, items)
    BY <1>1, <1>4, <2>1, <2>2, ClaudeConversation
  <2>4. items = Converted(h, tools)
    BY <1>4, <2>1, <2>2 DEF Converted
  <2>5. Tells(h, tools, items)
    BY <1>4, <2>3 DEF AllShort, Tells, ShortCallOf, CallOfOne, NameSent
  <2>. QED
    BY <2>4, <2>5
<1>. QED
  BY <1>2, <1>3, <1>4

-----------------------------------------------------------------------------
\* The conversation as it should be: its blocks are marked and shaped, functions are
\* called by their own names, and a result is one of an earlier call.
OwnName(b) == b.kind = "call" /\ b.type = "function" => b.name = b.tool
AnswersCall(h, i, b) ==
  b.kind = "result" =>
    \E j \in DOMAIN h : j < i /\ \E l \in DOMAIN h[j].blocks : b.of = <<j, l>> /\ h[j].blocks[l].kind = "call"
WellTold(api, h) ==
  /\ h \in Seq(Messages) /\ Marked(h)
  /\ \A i \in DOMAIN h : Shaped(api, h[i])
  /\ \A i \in DOMAIN h : \A k \in DOMAIN h[i].blocks : OwnName(h[i].blocks[k]) /\ AnswersCall(h, i, h[i].blocks[k])

\* What a client adds to it.
CallIn(h, b) == \E j \in DOMAIN h : \E l \in DOMAIN h[j].blocks : b.of = <<j, l>> /\ h[j].blocks[l].kind = "call"
New(api, h, m) ==
  /\ m \in Messages /\ Shaped(api, m)
  /\ \A k \in DOMAIN m.blocks : OwnName(m.blocks[k]) /\ (m.blocks[k].kind = "result" => CallIn(h, m.blocks[k]))

Behind(messages, from, t) ==
  /\ t \in Seq(Messages) /\ DOMAIN t = DOMAIN messages
  /\ \A i \in DOMAIN messages :
       /\ t[i].role = messages[i].role /\ DOMAIN t[i].blocks = DOMAIN messages[i].blocks
       /\ \A k \in DOMAIN messages[i].blocks : t[i].blocks[k] = [messages[i].blocks[k] EXCEPT !.n = <<from + i, k>>]

\* Messages that are told get their places and stay what they are.
LEMMA PlacedMessages ==
  ASSUME NEW messages \in Seq(Messages), NEW from \in Nat
  PROVE  Behind(messages, from, Placed(messages, from))
<1>1. PICK t : t = Placed(messages, from)
  OBVIOUS
<1>2. /\ DOMAIN t = DOMAIN messages /\ t = [i \in DOMAIN messages |-> t[i]]
      /\ \A i \in DOMAIN messages :
           t[i] = [role   |-> messages[i].role,
                   blocks |-> [k \in DOMAIN messages[i].blocks |-> [messages[i].blocks[k] EXCEPT !.n = <<from + i, k>>]]]
  BY <1>1 DEF Placed
<1>3. ASSUME NEW i \in DOMAIN messages
      PROVE  /\ t[i] \in Messages /\ t[i].role = messages[i].role /\ DOMAIN t[i].blocks = DOMAIN messages[i].blocks
             /\ \A k \in DOMAIN messages[i].blocks : t[i].blocks[k] = [messages[i].blocks[k] EXCEPT !.n = <<from + i, k>>]
  <2>1. messages[i] \in Messages
    OBVIOUS
  <2>2. PICK blocks \in Seq(Blocks) : blocks = messages[i].blocks
    BY <2>1 DEF Messages
  <2>3. PICK role \in Roles : role = messages[i].role
    BY <2>1 DEF Messages
  <2>4. PICK s : s = [k \in DOMAIN blocks |-> [blocks[k] EXCEPT !.n = <<from + i, k>>]]
    OBVIOUS
  <2>5. /\ DOMAIN s = DOMAIN blocks /\ s = [k \in DOMAIN blocks |-> s[k]]
        /\ \A k \in DOMAIN blocks : s[k] = [blocks[k] EXCEPT !.n = <<from + i, k>>]
    BY <2>4
  <2>6. ASSUME NEW k \in DOMAIN blocks PROVE s[k] \in Blocks
    <3>1. blocks[k] \in Blocks
      OBVIOUS
    <3>2. PICK p \in Nat \X Nat : p = <<from + i, k>>
      <4>1. from + i \in Nat /\ k \in Nat
        OBVIOUS
      <4>. QED
        BY <4>1
    <3>3. s[k] = [blocks[k] EXCEPT !.n = p]
      BY <2>5, <3>2
    <3>. QED
      BY <3>1, <3>3 DEF Blocks
  <2>7. s \in Seq(Blocks)
    BY <2>5, <2>6, SequenceOf, Zenon
  <2>8. t[i] = [role |-> role, blocks |-> s]
    BY <1>2, <2>2, <2>3, <2>4
  <2>9. t[i] \in Messages
    BY <2>7, <2>8 DEF Messages
  <2>10. t[i].role = role /\ t[i].blocks = s
    BY <2>8
  <2>. QED
    BY <2>2, <2>3, <2>5, <2>9, <2>10
<1>4. t \in Seq(Messages)
  BY <1>2, <1>3, SequenceOf, Zenon
<1>. QED
  BY <1>1, <1>2, <1>3, <1>4 DEF Behind

\* A conversation stays as it should be when such messages are told.
LEMMA ToldOn ==
  ASSUME NEW api, NEW h, WellTold(api, h), NEW messages \in Seq(Messages),
         \A i \in DOMAIN messages : New(api, h, messages[i])
  PROVE  WellTold(api, h \o Placed(messages, Len(h)))
<1>1. h \in Seq(Messages) /\ Marked(h)
  BY DEF WellTold
<1>2. PICK n \in Nat : n = Len(h) /\ DOMAIN h = 1..n
  BY <1>1
<1>3. PICK m \in Nat : m = Len(messages) /\ DOMAIN messages = 1..m
  OBVIOUS
<1>4. PICK t : t = Placed(messages, n) /\ Behind(messages, n, t)
  BY PlacedMessages
<1>5. /\ t \in Seq(Messages) /\ DOMAIN t = 1..m
      /\ \A i \in 1..m :
           /\ t[i].role = messages[i].role /\ DOMAIN t[i].blocks = DOMAIN messages[i].blocks
           /\ \A k \in DOMAIN messages[i].blocks : t[i].blocks[k] = [messages[i].blocks[k] EXCEPT !.n = <<n + i, k>>]
  BY <1>3, <1>4 DEF Behind
<1>6. PICK u : u = h \o t /\ u \in Seq(Messages)
  <2>1. h \o t \in Seq(Messages)
    BY <1>1, <1>5
  <2>. QED
    BY <2>1
<1>7. /\ DOMAIN u = 1..(n + m) /\ \A i \in 1..n : i \in 1..(n + m) /\ u[i] = h[i]
      /\ \A i \in 1..m : n + i \in 1..(n + m) /\ u[n + i] = t[i]
  <2>1. Len(t) = m
    BY <1>5
  <2>. QED
    BY <1>1, <1>2, <1>5, <1>6, <2>1
<1>8. ASSUME NEW i \in 1..n
      PROVE  /\ Shaped(api, u[i])
             /\ \A k \in DOMAIN u[i].blocks : /\ u[i].blocks[k].n = <<i, k>>
                                              /\ OwnName(u[i].blocks[k]) /\ AnswersCall(u, i, u[i].blocks[k])
  <2>1. Shaped(api, u[i]) /\ u[i] = h[i]
    BY <1>2, <1>7 DEF WellTold
  <2>2. ASSUME NEW k \in DOMAIN h[i].blocks
        PROVE  h[i].blocks[k].n = <<i, k>> /\ OwnName(h[i].blocks[k]) /\ AnswersCall(u, i, h[i].blocks[k])
    <3>1. h[i].blocks[k].n = <<i, k>>
      BY <1>1, <1>2 DEF Marked
    <3>2. OwnName(h[i].blocks[k]) /\ AnswersCall(h, i, h[i].blocks[k])
      BY <1>2 DEF WellTold
    <3>3. AnswersCall(u, i, h[i].blocks[k])
      BY <1>2, <1>7, <3>2 DEF AnswersCall
    <3>. QED
      BY <3>1, <3>2, <3>3
  <2>. QED
    BY <2>1, <2>2
<1>9. ASSUME NEW i \in 1..m
      PROVE  /\ Shaped(api, u[n + i])
             /\ \A k \in DOMAIN u[n + i].blocks :
                  /\ u[n + i].blocks[k].n = <<n + i, k>>
                  /\ OwnName(u[n + i].blocks[k]) /\ AnswersCall(u, n + i, u[n + i].blocks[k])
  <2>1. u[n + i] = t[i] /\ New(api, h, messages[i]) /\ messages[i] \in Messages
    <3>1. i \in DOMAIN messages
      BY <1>3
    <3>. QED
      BY <1>7, <3>1 DEF New
  <2>2. PICK blocks \in Seq(Blocks) : blocks = messages[i].blocks
    BY <2>1 DEF Messages
  <2>3. ASSUME NEW k \in DOMAIN blocks
        PROVE  /\ t[i].blocks[k].n = <<n + i, k>> /\ t[i].blocks[k].kind = blocks[k].kind
               /\ OwnName(t[i].blocks[k]) /\ AnswersCall(u, n + i, t[i].blocks[k])
    <3>1. blocks[k] \in Blocks
      OBVIOUS
    <3>2. PICK b : b = t[i].blocks[k]
      OBVIOUS
    <3>3. b = [blocks[k] EXCEPT !.n = <<n + i, k>>]
      BY <1>5, <2>2, <3>2
    <3>4. /\ b.n = <<n + i, k>> /\ b.kind = blocks[k].kind /\ b.type = blocks[k].type
          /\ b.name = blocks[k].name /\ b.tool = blocks[k].tool /\ b.of = blocks[k].of
      BY <3>1, <3>3 DEF Blocks
    <3>5. OwnName(blocks[k]) /\ (blocks[k].kind = "result" => CallIn(h, blocks[k]))
      BY <2>1, <2>2 DEF New
    <3>6. OwnName(b)
      BY <3>4, <3>5 DEF OwnName
    <3>7. ASSUME b.kind = "result"
          PROVE  \E j \in DOMAIN u : j < n + i /\ \E l \in DOMAIN u[j].blocks : b.of = <<j, l>> /\ u[j].blocks[l].kind = "call"
      <4>1. PICK j \in 1..n : \E l \in DOMAIN h[j].blocks : b.of = <<j, l>> /\ h[j].blocks[l].kind = "call"
        BY <1>2, <3>4, <3>5, <3>7 DEF CallIn
      <4>2. j \in DOMAIN u /\ u[j] = h[j] /\ j < n + i
        BY <1>7
      <4>. QED
        BY <4>1, <4>2
    <3>8. AnswersCall(u, n + i, b)
      BY <3>7 DEF AnswersCall
    <3>. QED
      BY <3>2, <3>4, <3>6, <3>8
  <2>4. Shaped(api, t[i])
    <3>1. Shaped(api, messages[i])
      BY <2>1 DEF New
    <3>2. t[i].role = messages[i].role /\ DOMAIN t[i].blocks = DOMAIN messages[i].blocks
      BY <1>5
    <3>. QED
      BY <2>2, <2>3, <3>1, <3>2 DEF Shaped
  <2>. QED
    BY <1>5, <2>1, <2>2, <2>3, <2>4
<1>10. \A i \in 1..(n + m) : i \in 1..n \/ \E j \in 1..m : i = n + j
  <2>. TAKE i \in 1..(n + m)
  <2>1. CASE i <= n
    BY <2>1
  <2>2. CASE ~(i <= n)
    <3>1. i - n \in 1..m /\ i = n + (i - n)
      BY <2>2
    <3>. QED
      BY <3>1
  <2>. QED
    BY <2>1, <2>2
<1>11. ASSUME NEW i \in DOMAIN u
       PROVE  /\ Shaped(api, u[i])
              /\ \A k \in DOMAIN u[i].blocks : /\ u[i].blocks[k].n = <<i, k>>
                                               /\ OwnName(u[i].blocks[k]) /\ AnswersCall(u, i, u[i].blocks[k])
  <2>1. CASE i \in 1..n
    BY <1>8, <2>1
  <2>2. CASE i \notin 1..n
    <3>1. PICK j \in 1..m : i = n + j
      BY <1>7, <1>10, <2>2
    <3>. QED
      BY <1>9, <3>1
  <2>. QED
    BY <2>1, <2>2
<1>12. WellTold(api, u)
  BY <1>6, <1>11 DEF WellTold, Marked
<1>. QED
  BY <1>2, <1>4, <1>6, <1>12

-----------------------------------------------------------------------------
\* What is new is one message after the other.
AllNew(api, h, messages) == messages \in Seq(Messages) /\ \A i \in DOMAIN messages : New(api, h, messages[i])

\* Nothing is new.
LEMMA AllNewNone == ASSUME NEW api, NEW h PROVE AllNew(api, h, <<>>)
<1>1. <<>> \in Seq(Messages) /\ DOMAIN <<>> = {}
  OBVIOUS
<1>. QED
  BY <1>1 DEF AllNew

\* A new message.
LEMMA AllNewOne ==
  ASSUME NEW api, NEW h, NEW m, New(api, h, m)
  PROVE  AllNew(api, h, <<m>>)
<1>1. m \in Messages
  BY DEF New
<1>2. <<m>> \in Seq(Messages)
  BY <1>1
<1>3. DOMAIN <<m>> = {1} /\ <<m>>[1] = m
  OBVIOUS
<1>. QED
  BY <1>2, <1>3 DEF AllNew

\* New messages after new messages.
LEMMA AllNewBoth ==
  ASSUME NEW api, NEW h, NEW a, NEW b, AllNew(api, h, a), AllNew(api, h, b)
  PROVE  AllNew(api, h, a \o b)
<1>1. /\ a \in Seq(Messages) /\ \A i \in DOMAIN a : New(api, h, a[i])
      /\ b \in Seq(Messages) /\ \A i \in DOMAIN b : New(api, h, b[i])
  BY DEF AllNew
<1>2. PICK u : u = a \o b
  OBVIOUS
<1>3. u \in Seq(Messages)
  BY <1>1, <1>2
<1>4. Elements(a, b, u)
  BY <1>1, <1>2, EitherOf, Zenon
<1>5. \A i \in DOMAIN u : New(api, h, u[i])
  BY <1>1, <1>4 DEF Elements
<1>. QED
  BY <1>2, <1>3, <1>5 DEF AllNew

NewBlock(api, h, role, b) ==
  MaySay(api, role, b.kind) /\ OwnName(b) /\ (b.kind = "result" => CallIn(h, b))

\* A message of new blocks is new.
LEMMA NewMessage ==
  ASSUME NEW api, NEW h, NEW role \in Roles, NEW s \in Seq(Blocks), \A k \in DOMAIN s : NewBlock(api, h, role, s[k])
  PROVE  New(api, h, [role |-> role, blocks |-> s])
<1>1. PICK m : m = [role |-> role, blocks |-> s]
  OBVIOUS
<1>2. m.role = role /\ m.blocks = s /\ m \in Messages
  BY <1>1 DEF Messages
<1>3. New(api, h, m)
  BY <1>2 DEF New, Shaped, NewBlock
<1>. QED
  BY <1>1, <1>3

\* A bare block.
LEMMA BlockOf ==
  ASSUME NEW kind \in BlockKinds
  PROVE  Block(kind) \in Blocks /\ Block(kind).kind = kind /\ Block(kind).n = Nowhere
<1>1. PICK p \in Nat \X Nat : p = Nowhere
  BY DEF Nowhere
<1>2. PICK e \in Names : e = <<>>
  <2>1. <<>> \in Names
    BY DEF Names
  <2>. QED
    BY <2>1
<1>3. PICK b : b = Block(kind)
  OBVIOUS
<1>4. b = [kind |-> kind, n |-> p, of |-> p, name |-> e, tool |-> e, type |-> "none", json |-> FALSE]
  BY <1>1, <1>2, <1>3 DEF Block
<1>5. b \in Blocks
  BY <1>4 DEF Blocks
<1>6. b.kind = kind /\ b.n = p
  BY <1>4
<1>. QED
  BY <1>1, <1>3, <1>5, <1>6

\* The text that mentions JSON.
LEMMA JSONBlock ==
  ASSUME NEW b, b = [Block("text") EXCEPT !.json = TRUE]
  PROVE  b \in Blocks /\ b.kind = "text" /\ b.n = Nowhere /\ b.json
<1>1. "text" \in BlockKinds
  BY DEF BlockKinds
<1>2. PICK c \in Blocks : c = Block("text") /\ c.kind = "text" /\ c.n = Nowhere
  BY <1>1, BlockOf
<1>3. b = [c EXCEPT !.json = TRUE]
  BY <1>2
<1>. QED
  BY <1>2, <1>3 DEF Blocks

Spoken(words, s) ==
  /\ s \in Seq(Blocks) /\ DOMAIN s = DOMAIN words
  /\ \A k \in DOMAIN s : s[k].kind = IF words[k] = "json" THEN "text" ELSE words[k]

\* What words say.
LEMMA SayingWords ==
  ASSUME NEW words \in Seq({"json", "text", "image", "thought"})
  PROVE  Spoken(words, Saying(words))
<1>1. PICK s : s = Saying(words)
  OBVIOUS
<1>2. /\ DOMAIN s = DOMAIN words /\ s = [k \in DOMAIN words |-> s[k]]
      /\ \A k \in DOMAIN words :
           s[k] = IF words[k] = "json" THEN [Block("text") EXCEPT !.json = TRUE] ELSE Block(words[k])
  BY <1>1 DEF Saying
<1>3. ASSUME NEW k \in DOMAIN words
      PROVE  s[k] \in Blocks /\ s[k].kind = IF words[k] = "json" THEN "text" ELSE words[k]
  <2>1. CASE words[k] = "json"
    BY <1>2, <2>1, JSONBlock
  <2>2. CASE words[k] # "json"
    <3>1. words[k] \in BlockKinds
      BY <2>2 DEF BlockKinds
    <3>2. Block(words[k]) \in Blocks /\ Block(words[k]).kind = words[k]
      BY <3>1, BlockOf
    <3>. QED
      BY <1>2, <2>2, <3>2
  <2>. QED
    BY <2>1, <2>2
<1>4. s \in Seq(Blocks)
  <2>1. PICK Y : words \in Seq(Y)
    OBVIOUS
  <2>2. \A k \in DOMAIN words : s[k] \in Blocks
    BY <1>3
  <2>. QED
    BY <1>2, <2>1, <2>2, SequenceOf, Zenon
<1>. QED
  BY <1>1, <1>2, <1>3, <1>4 DEF Spoken

\* The calls that a client has the results of.
Due(h, s) ==
  s \in Seq(Blocks) /\ \A k \in DOMAIN s : \E j \in DOMAIN h : \E l \in DOMAIN h[j].blocks :
                         s[k].n = <<j, l>> /\ h[j].blocks[l].kind = "call"
Results(h, s) == s \in Seq(Blocks) /\ \A k \in DOMAIN s : s[k].kind = "result" /\ CallIn(h, s[k])

\* Pending are such calls.
LEMMA PendingDue ==
  ASSUME NEW api, WellTold(api, history)
  PROVE  Due(history, Pending)
<1>1. PICK h \in Seq(Messages) : h = history /\ Marked(h)
  BY DEF WellTold
<1>2. CASE h = <<>>
  <2>1. Pending = <<>>
    BY <1>1, <1>2 DEF Pending
  <2>2. <<>> \in Seq(Blocks) /\ DOMAIN <<>> = {}
    OBVIOUS
  <2>. QED
    BY <2>1, <2>2 DEF Due
<1>3. CASE h # <<>>
  <2>1. PICK n \in DOMAIN h : Last(h) = h[n]
    <3>1. Len(h) \in DOMAIN h
      BY <1>3
    <3>. QED
      BY <3>1 DEF Last
  <2>2. h[n] \in Messages
    OBVIOUS
  <2>3. PICK blocks \in Seq(Blocks) : blocks = h[n].blocks
    BY <2>2 DEF Messages
  <2>4. Pending = Kinds(blocks, {"call"})
    BY <1>1, <1>3, <2>1, <2>3 DEF Pending
  <2>5. OfKinds(blocks, {"call"}, Pending)
    BY <2>4, KindsOf
  <2>6. /\ Pending \in Seq(Blocks)
        /\ \A k \in DOMAIN Pending : Pending[k].kind = "call" /\ \E j \in DOMAIN blocks : Pending[k] = blocks[j]
    BY <2>5 DEF OfKinds
  <2>7. \A j \in DOMAIN blocks : blocks[j].n = <<n, j>>
    BY <1>1, <2>3 DEF Marked
  <2>. QED
    BY <1>1, <2>3, <2>6, <2>7 DEF Due
<1>. QED
  BY <1>2, <1>3

\* Their results answer them.
LEMMA ResultsDue ==
  ASSUME NEW h, NEW calls, Due(h, calls)
  PROVE  Results(h, ResultsOf(calls))
<1>1. PICK s : s = ResultsOf(calls)
  OBVIOUS
<1>2. calls \in Seq(Blocks)
  BY DEF Due
<1>3. /\ DOMAIN s = DOMAIN calls /\ s = [k \in DOMAIN calls |-> s[k]]
      /\ \A k \in DOMAIN calls : s[k] = [Block("result") EXCEPT !.of = calls[k].n]
  BY <1>1 DEF ResultsOf
<1>4. PICK c \in Blocks : c = Block("result") /\ c.kind = "result"
  <2>1. "result" \in BlockKinds
    BY DEF BlockKinds
  <2>. QED
    BY <2>1, BlockOf
<1>5. ASSUME NEW k \in DOMAIN calls
      PROVE  s[k] \in Blocks /\ s[k].kind = "result" /\ CallIn(h, s[k])
  <2>1. calls[k] \in Blocks
    BY <1>2
  <2>2. PICK p \in Nat \X Nat : p = calls[k].n
    BY <2>1 DEF Blocks
  <2>3. s[k] = [c EXCEPT !.of = p]
    BY <1>3, <1>4, <2>2
  <2>4. s[k] \in Blocks /\ s[k].kind = "result" /\ s[k].of = p
    BY <1>4, <2>3 DEF Blocks
  <2>5. \E j \in DOMAIN h : \E l \in DOMAIN h[j].blocks : p = <<j, l>> /\ h[j].blocks[l].kind = "call"
    BY <2>2 DEF Due
  <2>. QED
    BY <2>4, <2>5 DEF CallIn
<1>6. s \in Seq(Blocks)
  BY <1>2, <1>3, <1>5, SequenceOf, Zenon
<1>. QED
  BY <1>1, <1>3, <1>5, <1>6 DEF Results

-----------------------------------------------------------------------------
Said(words) == \A k \in DOMAIN words : words[k] \in {"json", "text", "image"}

\* What a client may have to say.
LEMMA SaysTyped ==
  ASSUME NEW words \in Says
  PROVE  words \in Seq({"json", "text", "image", "thought"}) /\ Said(words)
<1>1. CASE words = <<>>
  BY <1>1 DEF Said
<1>2. CASE words = <<"json">>
  BY <1>2 DEF Said
<1>3. CASE words = <<"text", "image">>
  BY <1>3 DEF Said
<1>. QED
  BY <1>1, <1>2, <1>3 DEF Says

\* What a client adds to its conversation is new, in every API and order.
LEMMA NewMessagesNew ==
  ASSUME client \in {"chat", "claude", "responses"}, WellTold(client, history), NEW words \in Says, NEW before \in BOOLEAN
  PROVE  AllNew(client, history, NewMessages(words, before))
<1>1. PICK said : said = Saying(words) /\ Spoken(words, said)
  BY SaysTyped, SayingWords
<1>2. /\ said \in Seq(Blocks)
      /\ \A k \in DOMAIN said : said[k].kind \in {"text", "image"}
  BY <1>1, SaysTyped DEF Spoken, Said
<1>3. PICK results : results = ResultsOf(Pending) /\ Results(history, results)
  BY PendingDue, ResultsDue
<1>4. results \in Seq(Blocks) /\ \A k \in DOMAIN results : results[k].kind = "result" /\ CallIn(history, results[k])
  BY <1>3 DEF Results
<1>5. {"system", "user", "assistant", "tool"} = Roles
  BY DEF Roles
<1>6. \A k \in DOMAIN said : NewBlock(client, history, "user", said[k])
  BY <1>2 DEF NewBlock, MaySay, OwnName
<1>7. PICK system : /\ system = IF history = <<>> /\ before THEN <<[role |-> "system", blocks |-> <<Block("text")>>]>> ELSE <<>>
                    /\ AllNew(client, history, system)
  <2>1. AllNew(client, history, <<>>)
    BY AllNewNone
  <2>2. PICK b \in Blocks : b = Block("text") /\ b.kind = "text"
    <3>1. "text" \in BlockKinds
      BY DEF BlockKinds
    <3>. QED
      BY <3>1, BlockOf
  <2>3. PICK s \in Seq(Blocks) : s = <<b>> /\ \A k \in DOMAIN s : s[k] = b
    <3>1. <<b>> \in Seq(Blocks) /\ \A k \in DOMAIN <<b>> : <<b>>[k] = b
      OBVIOUS
    <3>. QED
      BY <3>1
  <2>4. \A k \in DOMAIN s : NewBlock(client, history, "system", s[k])
    BY <2>2, <2>3 DEF NewBlock, MaySay, OwnName
  <2>5. New(client, history, [role |-> "system", blocks |-> s])
    BY <1>5, <2>4, NewMessage
  <2>6. AllNew(client, history, <<[role |-> "system", blocks |-> s]>>)
    BY <2>5, AllNewOne
  <2>. QED
    BY <2>1, <2>2, <2>3, <2>6
<1>8. PICK all : /\ all = IF client = "claude"
                          THEN <<[role |-> "user", blocks |-> IF before THEN results \o said ELSE said \o results]>>
                          ELSE Alone("tool", results) \o IF said = <<>> THEN <<>> ELSE <<[role |-> "user", blocks |-> said]>>
                 /\ AllNew(client, history, all)
  <2>1. CASE client = "claude"
    <3>1. PICK s : s = IF before THEN results \o said ELSE said \o results
      OBVIOUS
    <3>2. results \o said \in Seq(Blocks) /\ said \o results \in Seq(Blocks)
      BY <1>2, <1>4
    <3>3. Elements(results, said, results \o said) /\ Elements(said, results, said \o results)
      BY <1>2, <1>4, EitherOf, Zenon
    <3>4. \A k \in DOMAIN results : NewBlock(client, history, "user", results[k])
      BY <1>4, <2>1 DEF NewBlock, MaySay, OwnName
    <3>5. s \in Seq(Blocks) /\ \A k \in DOMAIN s : NewBlock(client, history, "user", s[k])
      BY <1>6, <3>1, <3>2, <3>3, <3>4 DEF Elements
    <3>6. New(client, history, [role |-> "user", blocks |-> s])
      BY <1>5, <3>5, NewMessage
    <3>7. AllNew(client, history, <<[role |-> "user", blocks |-> s]>>)
      BY <3>6, AllNewOne
    <3>. QED
      BY <2>1, <3>1, <3>7
  <2>2. CASE client # "claude"
    <3>1. AllNew(client, history, Alone("tool", results))
      <4>1. PICK t : t = Alone("tool", results)
        OBVIOUS
      <4>2. /\ DOMAIN t = DOMAIN results
            /\ \A k \in DOMAIN results : t[k] = [role |-> "tool", blocks |-> <<results[k]>>]
        BY <4>1 DEF Alone
      <4>3. t \in Seq(Messages)
        BY <1>4, <1>5, <4>1, AloneHolds
      <4>4. ASSUME NEW k \in DOMAIN results PROVE New(client, history, t[k])
        <5>1. PICK b \in Blocks : b = results[k] /\ b.kind = "result" /\ CallIn(history, b)
          BY <1>4
        <5>2. PICK s \in Seq(Blocks) : s = <<b>> /\ \A l \in DOMAIN s : s[l] = b
          <6>1. <<b>> \in Seq(Blocks) /\ \A l \in DOMAIN <<b>> : <<b>>[l] = b
            OBVIOUS
          <6>. QED
            BY <6>1
        <5>3. \A l \in DOMAIN s : NewBlock(client, history, "tool", s[l])
          BY <2>2, <5>1, <5>2 DEF NewBlock, MaySay, OwnName
        <5>4. New(client, history, [role |-> "tool", blocks |-> s])
          BY <1>5, <5>3, NewMessage
        <5>. QED
          BY <4>2, <5>1, <5>2, <5>4
      <4>. QED
        BY <4>1, <4>2, <4>3, <4>4 DEF AllNew
    <3>2. New(client, history, [role |-> "user", blocks |-> said])
      BY <1>2, <1>5, <1>6, NewMessage
    <3>3. PICK rest : rest = IF said = <<>> THEN <<>> ELSE <<[role |-> "user", blocks |-> said]>>
      OBVIOUS
    <3>4. AllNew(client, history, rest)
      BY <3>2, <3>3, AllNewOne, AllNewNone
    <3>5. AllNew(client, history, Alone("tool", results) \o rest)
      BY <3>1, <3>4, AllNewBoth
    <3>. QED
      BY <2>2, <3>3, <3>5
  <2>. QED
    BY <2>1, <2>2
<1>9. AllNew(client, history, system \o all)
  BY <1>7, <1>8, AllNewBoth
<1>10. NewMessages(words, before) = system \o all
  BY <1>1, <1>3, <1>7, <1>8 DEF NewMessages
<1>. QED
  BY <1>9, <1>10

-----------------------------------------------------------------------------
\* The upstream's answer.
LEMMA CallsTyped ==
  ASSUME NEW body, SaysOfTools(body, sent.tools, sent.names), NEW c \in Callable
  PROVE  CallOf(c) \in Blocks /\ CallOf(c).kind = "call" /\ OwnName(CallOf(c))
<1>1. PICK tools \in Seq(Tools) : tools = sent.tools
  BY DEF SaysOfTools
<1>2. PICK names \in Seq(Names) : names = sent.names
  BY DEF SaysOfTools
<1>3. c \in DOMAIN tools /\ c \in DOMAIN names
  BY <1>1, <1>2 DEF SaysOfTools, Callable
<1>4. tools[c] \in Tools /\ names[c] \in Names
  BY <1>3
<1>5. PICK type \in ToolTypes : type = tools[c].type
  BY <1>4 DEF Tools
<1>6. PICK tool \in Names : tool = tools[c].name
  BY <1>4 DEF Tools
<1>7. PICK name \in Names : name = Restored(tools, names[c])
  BY <1>4, RestoredName
<1>8. PICK b \in Blocks : b = Block("call") /\ b.kind = "call"
  <2>1. "call" \in BlockKinds
    BY DEF BlockKinds
  <2>. QED
    BY <2>1, BlockOf
<1>9. PICK call : call = CallOf(c)
  OBVIOUS
<1>10. call = [b EXCEPT !.name = name, !.tool = tool, !.type = type]
  BY <1>1, <1>2, <1>5, <1>6, <1>7, <1>8, <1>9 DEF CallOf
<1>11. /\ call \in Blocks /\ call.kind = "call"
       /\ call.name = name /\ call.tool = tool /\ call.type = type
  BY <1>8, <1>10 DEF Blocks
<1>12. type = "function" => name = tool
  BY <1>1, <1>2, <1>3, <1>5, <1>6, <1>7 DEF SaysOfTools
<1>. QED
  BY <1>9, <1>11, <1>12 DEF OwnName

Answering == {<<>>, <<"text">>, <<"thought">>}

\* What the upstream answers is new: a call has a name that the client declared.
LEMMA AnswerNew ==
  ASSUME WellTold(client, history), NEW body, SaysOfTools(body, sent.tools, sent.names),
         NEW words \in Answering, words = <<"thought">> => client = "claude", NEW calls \in SeqOf(Callable, MaxCalls)
  PROVE  New(client, history, [role   |-> "assistant",
                               blocks |-> Saying(words) \o [k \in DOMAIN calls |-> CallOf(calls[k])]])
<1>1. /\ words \in Seq({"json", "text", "image", "thought"})
      /\ \A k \in DOMAIN words : words[k] \in {"text", "thought"} /\ (words[k] = "thought" => client = "claude")
  <2>1. CASE words = <<>>
    BY <2>1
  <2>2. CASE words = <<"text">>
    BY <2>2
  <2>3. CASE words = <<"thought">>
    BY <2>3
  <2>. QED
    BY <2>1, <2>2, <2>3 DEF Answering
<1>2. PICK said : said = Saying(words) /\ Spoken(words, said)
  BY <1>1, SayingWords
<1>3. /\ said \in Seq(Blocks)
      /\ \A k \in DOMAIN said : said[k].kind \in {"text", "thought"} /\ (said[k].kind = "thought" => client = "claude")
  BY <1>1, <1>2 DEF Spoken
<1>4. \A k \in DOMAIN said : NewBlock(client, history, "assistant", said[k])
  BY <1>3 DEF NewBlock, MaySay, OwnName
<1>5. PICK n \in Nat : calls \in [1..n -> Callable]
  BY TranslationAssumption DEF SeqOf
<1>6. PICK called : called = [k \in DOMAIN calls |-> CallOf(calls[k])]
  OBVIOUS
<1>7. /\ called = [k \in 1..n |-> called[k]] /\ DOMAIN called = 1..n
      /\ \A k \in 1..n : called[k] = CallOf(calls[k])
  BY <1>5, <1>6
<1>8. ASSUME NEW k \in 1..n
      PROVE  called[k] \in Blocks /\ NewBlock(client, history, "assistant", called[k])
  <2>1. called[k] \in Blocks /\ called[k].kind = "call" /\ OwnName(called[k])
    BY <1>5, <1>7, CallsTyped
  <2>. QED
    BY <2>1 DEF NewBlock, MaySay
<1>9. called \in Seq(Blocks)
  BY <1>8, <1>7
<1>10. PICK s : s = said \o called /\ s \in Seq(Blocks) /\ Elements(said, called, s)
  <2>1. said \o called \in Seq(Blocks)
    BY <1>3, <1>9
  <2>2. Elements(said, called, said \o called)
    BY <1>3, <1>9, EitherOf, Zenon
  <2>. QED
    BY <2>1, <2>2
<1>11. \A k \in DOMAIN s : NewBlock(client, history, "assistant", s[k])
  BY <1>4, <1>8, <1>10, <1>7 DEF Elements
<1>12. "assistant" \in Roles
  BY DEF Roles
<1>13. New(client, history, [role |-> "assistant", blocks |-> s])
  BY <1>10, <1>11, <1>12, NewMessage
<1>. QED
  BY <1>2, <1>6, <1>10, <1>13

-----------------------------------------------------------------------------
\* The inductive invariant: what is sent is the translation of what was told.
SentFrom(messages, told) ==
  told = Nothing \/ \E body \in Bodies : Declarable(body.tools) /\ told = Translate(messages, body)
TranslationInv == client \in Clients /\ WellTold(client, history) /\ SentFrom(history, sent)

\* It holds at first.
LEMMA TranslationInvInit == TranslationInit => TranslationInv
<1>. SUFFICES ASSUME TranslationInit PROVE TranslationInv
  OBVIOUS
<1>1. history = <<>> /\ <<>> \in Seq(Messages) /\ DOMAIN <<>> = {}
  BY DEF TranslationInit
<1>2. WellTold(client, history)
  BY <1>1 DEF WellTold, Marked
<1>. QED
  BY <1>2 DEF TranslationInit, TranslationInv, SentFrom

\* Every step keeps it.
LEMMA TranslationInvNext == TranslationInv /\ [TranslationNext]_translationVars => TranslationInv'
<1>. SUFFICES ASSUME TranslationInv, [TranslationNext]_translationVars PROVE TranslationInv'
  OBVIOUS
<1>1. client \in Clients /\ client \in {"chat", "claude", "responses"} /\ WellTold(client, history) /\ SentFrom(history, sent)
  BY TranslationAssumption DEF TranslationInv
<1>2. CASE Ask
  <2>1. PICK words \in Says, before \in BOOLEAN, body \in Bodies :
          /\ Declarable(body.tools)
          /\ Told(NewMessages(words, before))
          /\ sent' = Translate(history', body)
    BY <1>2 DEF Ask
  <2>2. client' = client
    BY <1>2 DEF Ask
  <2>3. PICK messages : messages = NewMessages(words, before) /\ AllNew(client, history, messages)
    BY <1>1, NewMessagesNew
  <2>4. WellTold(client, history \o Placed(messages, Len(history)))
    BY <1>1, <2>3, ToldOn DEF AllNew
  <2>5. WellTold(client', history')
    BY <2>1, <2>2, <2>3, <2>4 DEF Told
  <2>6. (Declarable(body.tools))' /\ (sent = Translate(history, body))'
    BY <2>1, <2>2 DEF Declarable, Translate, Converted
  <2>7. SentFrom(history, sent)'
    BY <2>6 DEF SentFrom
  <2>. QED
    BY <1>1, <2>2, <2>5, <2>7 DEF TranslationInv
<1>3. CASE Respond
  <2>1. PICK words \in Answering, calls \in SeqOf(Callable, MaxCalls) :
          /\ words = <<"thought">> => client = "claude"
          /\ Told(<<[role   |-> "assistant",
                     blocks |-> Saying(words) \o [k \in DOMAIN calls |-> CallOf(calls[k])]]>>)
    BY <1>3 DEF Respond, Answering
  <2>2. sent # Nothing /\ sent' = Nothing /\ client' = client
    BY <1>3 DEF Respond
  <2>3. PICK body \in Bodies : Declarable(body.tools) /\ sent = Translate(history, body)
    BY <1>1, <2>2 DEF SentFrom
  <2>4. SaysOfTools(body, sent.tools, sent.names)
    BY <1>1, <2>3, TranslatedTools
  <2>5. PICK m : /\ m = [role |-> "assistant", blocks |-> Saying(words) \o [k \in DOMAIN calls |-> CallOf(calls[k])]]
                 /\ New(client, history, m)
    BY <1>1, <2>1, <2>4, AnswerNew
  <2>6. AllNew(client, history, <<m>>)
    BY <2>5, AllNewOne
  <2>7. WellTold(client, history \o Placed(<<m>>, Len(history)))
    BY <1>1, <2>6, ToldOn DEF AllNew
  <2>8. WellTold(client', history')
    BY <2>1, <2>2, <2>5, <2>7 DEF Told
  <2>. QED
    BY <1>1, <2>2, <2>8 DEF TranslationInv, SentFrom
<1>4. CASE NewConversation
  <2>1. history' = <<>> /\ <<>> \in Seq(Messages) /\ DOMAIN <<>> = {} /\ client' = client /\ sent' = Nothing
    BY <1>4 DEF NewConversation
  <2>2. WellTold(client', history')
    BY <2>1 DEF WellTold, Marked
  <2>. QED
    BY <1>1, <2>1, <2>2 DEF TranslationInv, SentFrom
<1>5. CASE UNCHANGED translationVars
  <2>1. client' = client /\ history' = history /\ sent' = sent
    BY <1>5 DEF translationVars
  <2>2. SentFrom(history, sent)'
    <3>1. CASE sent = Nothing
      BY <2>1, <3>1 DEF SentFrom
    <3>2. CASE sent # Nothing
      <4>1. PICK body \in Bodies : Declarable(body.tools) /\ sent = Translate(history, body)
        BY <1>1, <3>2 DEF SentFrom
      <4>2. (Declarable(body.tools))' /\ (sent = Translate(history, body))'
        BY <2>1, <4>1 DEF Declarable, Translate, Converted
      <4>. QED
        BY <4>2 DEF SentFrom
    <3>. QED
      BY <3>1, <3>2
  <2>. QED
    BY <1>1, <2>1, <2>2 DEF TranslationInv
<1>. QED
  BY <1>2, <1>3, <1>4, <1>5 DEF TranslationNext

\* It always holds: however often a client changes its tools, each request is the
\* translation of a conversation as it should be.
THEOREM TranslationInvariance == TranslationSpec => []TranslationInv
<1>. QED
  BY TranslationInvInit, TranslationInvNext, PTL DEF TranslationSpec

-----------------------------------------------------------------------------
\* The items of a request, with what asks for JSON.
LEMMA AskingItem ==
  /\ Asking \in Items /\ Asking.kind = "message" /\ DOMAIN Asking.blocks = {1}
  /\ Asking.blocks[1].n = Nowhere /\ Asking.blocks[1].json
<1>1. PICK b \in Blocks : b = [Block("text") EXCEPT !.json = TRUE] /\ b.n = Nowhere /\ b.json
  BY JSONBlock
<1>2. PICK s \in Seq(Blocks) : s = <<b>> /\ DOMAIN s = {1} /\ s[1] = b
  <2>1. <<b>> \in Seq(Blocks) /\ DOMAIN <<b>> = {1} /\ <<b>>[1] = b
    OBVIOUS
  <2>. QED
    BY <2>1
<1>3. PICK a : a = Asking
  OBVIOUS
<1>4. a = [kind |-> "message", role |-> "developer", blocks |-> s]
  BY <1>1, <1>2, <1>3 DEF Asking, Item
<1>5. a \in Items
  BY <1>4 DEF Items
<1>6. a.kind = "message" /\ a.blocks = s
  BY <1>4
<1>. QED
  BY <1>1, <1>2, <1>3, <1>5, <1>6

\* Of the blocks of h all but the thoughts are there once and in their order.
OnceFor(h, to) ==
  \A p, x, i, k, j, l, c, d : On(h, p, x) /\ In(to, i, k, x, c) /\ In(to, j, l, x, d) => i = j /\ k = l
Arrives(h, to) == Goes(h, to) /\ OnceFor(h, to) /\ InOrder(h, to)

\* What asks for JSON moves the other items, and has the place of none.
LEMMA AskingApart ==
  ASSUME NEW h, Marked(h), h \in Seq(Messages), NEW c \in Seq(Items), Arrives(h, c), NEW u, u = <<Asking>> \o c
  PROVE  u \in Seq(Items) /\ Arrives(h, u) /\ Mentions(u)
<1>1. PICK a \in Seq(Items) : a = <<Asking>> /\ Len(a) = 1 /\ DOMAIN a = {1} /\ a[1] = Asking
  <2>1. Asking \in Items
    BY AskingItem
  <2>2. <<Asking>> \in Seq(Items) /\ Len(<<Asking>>) = 1 /\ DOMAIN <<Asking>> = {1} /\ <<Asking>>[1] = Asking
    BY <2>1
  <2>. QED
    BY <2>2
<1>2. Beside(a, c, 1, u)
  BY <1>1, InBeside
<1>3. u \in Seq(Items)
  BY <1>1
<1>4. 1 \in DOMAIN u /\ u[1] = Asking
  BY <1>1
<1>5. Mentions(u)
  BY <1>4, AskingItem DEF Mentions
<1>6. ASSUME NEW p, NEW x, On(h, p, x), NEW i, NEW k, NEW d, In(u, i, k, x, d)
      PROVE  \E j \in Nat : i = 1 + j /\ In(c, j, k, x, d)
  <2>1. CASE In(a, i, k, x, d)
    <3>1. x = Nowhere
      BY <1>1, <2>1, AskingItem DEF In
    <3>2. PICK q : q \in DOMAIN h /\ \E r \in DOMAIN h[q].blocks : x = <<q, r>>
      BY <1>6 DEF On, In, Marked
    <3>3. q # 0
      BY <3>2
    <3>. QED
      BY <3>1, <3>2, <3>3 DEF Nowhere
  <2>2. CASE \E j \in Nat : j > 0 /\ i = 1 + j /\ In(c, j, k, x, d)
    BY <2>2
  <2>. QED
    BY <1>2, <1>6, <2>1, <2>2 DEF Beside
<1>7. Goes(h, u)
  BY <1>2 DEF Arrives, Goes, Beside
<1>8. OnceFor(h, u)
  <2>. SUFFICES ASSUME NEW p, NEW x, NEW i, NEW k, NEW j, NEW l, NEW d, NEW e,
                       On(h, p, x), In(u, i, k, x, d), In(u, j, l, x, e)
                PROVE  i = j /\ k = l
    BY DEF OnceFor
  <2>1. PICK i1 \in Nat : i = 1 + i1 /\ In(c, i1, k, x, d)
    BY <1>6
  <2>2. PICK j1 \in Nat : j = 1 + j1 /\ In(c, j1, l, x, e)
    BY <1>6
  <2>3. i1 = j1 /\ k = l
    BY <2>1, <2>2 DEF Arrives, OnceFor
  <2>. QED
    BY <2>1, <2>2, <2>3
<1>9. InOrder(h, u)
  <2>. SUFFICES ASSUME NEW j, NEW l, NEW x, NEW y, NEW i, NEW k,
                       On(h, j, x), On(h, l, y), j < l, On(u, i, x), On(u, k, y)
                PROVE  i < k
    BY DEF InOrder
  <2>1. PICK i1 \in Nat : i = 1 + i1 /\ On(c, i1, x)
    BY <1>6 DEF On
  <2>2. PICK k1 \in Nat : k = 1 + k1 /\ On(c, k1, y)
    BY <1>6 DEF On
  <2>3. i1 < k1
    BY <2>1, <2>2 DEF Arrives, InOrder
  <2>. QED
    BY <2>1, <2>2, <2>3
<1>. QED
  BY <1>3, <1>5, <1>7, <1>8, <1>9 DEF Arrives

\* What comes of a conversation: its items, with their calls, and JSON where it is asked for.
Sends(h, tools, json, items) ==
  /\ items \in Seq(Items) /\ Arrives(h, items)
  /\ \A i \in DOMAIN items : CallOfOne(h, tools, items[i])
  /\ json => Mentions(items)

\* This comes of a translation.
LEMMA TranslationSends ==
  ASSUME client \in {"chat", "claude", "responses"}, NEW h, WellTold(client, h),
         NEW tools \in Seq(Tools), NEW json \in BOOLEAN
  PROVE  Sends(h, tools, json, WithJSON(Converted(h, tools), json))
<1>1. h \in Seq(Messages) /\ Marked(h) /\ \A i \in DOMAIN h : Shaped(client, h[i])
  BY DEF WellTold
<1>2. PICK c : c = Converted(h, tools) /\ Tells(h, tools, c)
  BY <1>1, ConvertedTells
<1>3. c \in Seq(Items) /\ Brings(h, c) /\ \A i \in DOMAIN c : CallOfOne(h, tools, c[i])
  BY <1>2 DEF Tells
<1>4. Arrives(h, c)
  <2>1. Goes(h, c) /\ Once(c) /\ InOrder(h, c)
    BY <1>3 DEF Brings
  <2>2. OnceFor(h, c)
    BY <2>1 DEF Once, OnceFor
  <2>. QED
    BY <2>1, <2>2 DEF Arrives
<1>5. PICK u : u = <<Asking>> \o c
  OBVIOUS
<1>6. u \in Seq(Items) /\ Arrives(h, u) /\ Mentions(u)
  BY <1>1, <1>3, <1>4, <1>5, AskingApart
<1>7. \A i \in DOMAIN u : CallOfOne(h, tools, u[i])
  <2>. TAKE i \in DOMAIN u
  <2>1. CASE i = 1
    <3>1. u[i] = Asking
      BY <1>3, <1>5, <2>1
    <3>2. Asking.kind = "message"
      BY AskingItem
    <3>. QED
      BY <3>1, <3>2 DEF CallOfOne
  <2>2. CASE i # 1
    <3>1. i - 1 \in DOMAIN c /\ u[i] = c[i - 1]
      BY <1>3, <1>5, <2>2
    <3>. QED
      BY <1>3, <3>1
  <2>. QED
    BY <2>1, <2>2
<1>8. PICK items : items = WithJSON(c, json) /\ (items = c \/ items = u) /\ (json /\ items = c => Mentions(c))
  BY <1>5 DEF WithJSON
<1>9. Sends(h, tools, json, items)
  BY <1>3, <1>4, <1>6, <1>7, <1>8 DEF Sends
<1>. QED
  BY <1>2, <1>8, <1>9

\* What is known of a request that has been sent.
SentWell(body) ==
  /\ body \in Bodies /\ sent.ask = body.ask
  /\ SaysOfTools(body, sent.tools, sent.names)
  /\ Sends(history, body.tools, body.ask.json, sent.items)

\* It is known of every request.
LEMMA SentIsWell ==
  ASSUME TranslationInv, sent # Nothing
  PROVE  \E body : SentWell(body)
<1>1. /\ client \in Clients /\ client \in {"chat", "claude", "responses"}
      /\ WellTold(client, history) /\ SentFrom(history, sent)
  BY TranslationAssumption DEF TranslationInv
<1>2. PICK body \in Bodies : Declarable(body.tools) /\ sent = Translate(history, body)
  BY <1>1 DEF SentFrom
<1>3. body.tools \in Seq(Tools) /\ body.ask.json \in BOOLEAN
  BY BodyTools
<1>4. SaysOfTools(body, sent.tools, sent.names)
  BY <1>1, <1>2, TranslatedTools
<1>5. Sends(history, body.tools, body.ask.json, WithJSON(Converted(history, body.tools), body.ask.json))
  BY <1>1, <1>3, TranslationSends
<1>6. sent.items = WithJSON(Converted(history, body.tools), body.ask.json) /\ sent.ask = body.ask
  BY <1>2 DEF Translate
<1>. QED
  BY <1>4, <1>5, <1>6 DEF SentWell

-----------------------------------------------------------------------------
\* Names.
LEMMA NamesRestoredInv == TranslationInv => NamesRestored
<1>. SUFFICES ASSUME TranslationInv,
                     NEW i \in DOMAIN history, NEW k \in DOMAIN history[i].blocks,
                     history[i].blocks[k].kind = "call" /\ history[i].blocks[k].type = "function"
              PROVE  history[i].blocks[k].name = history[i].blocks[k].tool
  BY DEF NamesRestored
<1>. QED
  BY DEF TranslationInv, WellTold, OwnName

\* A call has the short name, among the tools of now, of the function it called; another
\* function has another.
LEMMA HistoryNamesInv == TranslationInv => HistoryNames
<1>. SUFFICES ASSUME TranslationInv, NEW i \in DOMAIN sent.items, NEW b, b = sent.items[i].blocks[1],
                     sent.items[i].kind = "call", b.type = "function",
                     NEW m \in DOMAIN sent.tools, sent.tools[m].type = "function", sent.tools[m].name = b.tool,
                     NEW k \in DOMAIN sent.tools, sent.tools[k].type = "function"
              PROVE  sent.names[k] = b.name <=> sent.tools[k].name = b.tool
  BY DEF HistoryNames
<1>1. sent # Nothing
  <2>1. DOMAIN <<>> = {}
    OBVIOUS
  <2>. QED
    BY <2>1 DEF Nothing
<1>2. PICK body : SentWell(body)
  BY <1>1, SentIsWell
<1>3. body.tools \in Seq(Tools)
  BY <1>2, BodyTools DEF SentWell
<1>4. \A j \in DOMAIN sent.tools : sent.tools[j].type = "function" =>
        /\ Declares(body.tools, sent.tools[j].name)
        /\ sent.names[j] = NameSent(body.tools, sent.tools[j].name)
  BY <1>2 DEF SentWell, SaysOfTools, NameSent
<1>5. CallOfOne(history, body.tools, sent.items[i])
  BY <1>2 DEF SentWell, Sends
<1>6. PICK p \in DOMAIN history : \E l \in DOMAIN history[p].blocks :
        /\ history[p].blocks[l].kind = "call"
        /\ Renamed(NameSent(body.tools, history[p].blocks[l].name), history[p].blocks[l], b)
  BY <1>5 DEF CallOfOne
<1>7. PICK l \in DOMAIN history[p].blocks :
        /\ history[p].blocks[l].kind = "call"
        /\ Renamed(NameSent(body.tools, history[p].blocks[l].name), history[p].blocks[l], b)
  BY <1>6
<1>8. OwnName(history[p].blocks[l])
  BY DEF TranslationInv, WellTold
<1>9. b.name = NameSent(body.tools, b.tool)
  BY <1>7, <1>8 DEF Renamed, OwnName
<1>10. Declares(body.tools, b.tool) /\ Declares(body.tools, sent.tools[k].name)
  BY <1>4
<1>11. NameSent(body.tools, sent.tools[k].name) = NameSent(body.tools, b.tool) <=> sent.tools[k].name = b.tool
  BY <1>3, <1>10, ShortInjective DEF NameSent
<1>. QED
  BY <1>4, <1>9, <1>11

-----------------------------------------------------------------------------
\* Places.
LEMMA SpotIs ==
  ASSUME NEW parts, NEW p
  PROVE  p \in Spots(parts) <=> \E i \in DOMAIN parts : \E k \in DOMAIN parts[i].blocks : p = <<i, k>>
BY DEF Spots

\* The blocks with a number.
LEMMA WhereIs ==
  ASSUME NEW parts, NEW x, NEW q
  PROVE  q \in Where(parts, x) <=> \E i, k, c : q = <<i, k>> /\ In(parts, i, k, x, c)
<1>1. ASSUME q \in Where(parts, x) PROVE \E i, k, c : q = <<i, k>> /\ In(parts, i, k, x, c)
  <2>1. q \in Spots(parts) /\ Held(parts, q).n = x
    BY <1>1 DEF Where
  <2>2. PICK i \in DOMAIN parts : \E k \in DOMAIN parts[i].blocks : q = <<i, k>>
    BY <2>1, SpotIs
  <2>3. PICK k \in DOMAIN parts[i].blocks : q = <<i, k>>
    BY <2>2
  <2>4. In(parts, i, k, x, parts[i].blocks[k].kind)
    BY <2>1, <2>3 DEF Held, In
  <2>. QED
    BY <2>3, <2>4
<1>2. ASSUME NEW i, NEW k, NEW c, q = <<i, k>>, In(parts, i, k, x, c) PROVE q \in Where(parts, x)
  <2>1. q \in Spots(parts)
    BY <1>2, SpotIs DEF In
  <2>2. Held(parts, q).n = x
    BY <1>2 DEF Held, In
  <2>. QED
    BY <2>1, <2>2 DEF Where
<1>. QED
  BY <1>1, <1>2

Arrived(h, items, p) ==
  LET b == Held(h, p)
  IN b.kind # "thought" =>
       \E q \in Spots(items) :
         /\ Where(items, b.n) = {q} /\ Held(items, q).kind = b.kind
         /\ \A o \in Spots(h) : o[1] < p[1] => \A r \in Where(items, Held(h, o).n) : r[1] < q[1]
         /\ b.kind = "result" => \E r \in Where(items, b.of) : r[1] < q[1] /\ Held(items, r).kind = "call"

\* All blocks arrive.
LEMMA AllArrived ==
  ASSUME NEW api, NEW h, WellTold(api, h), NEW items, Arrives(h, items), NEW p \in Spots(h)
  PROVE  Arrived(h, items, p)
<1>1. PICK i \in DOMAIN h : \E k \in DOMAIN h[i].blocks : p = <<i, k>>
  BY SpotIs
<1>2. PICK k \in DOMAIN h[i].blocks : p = <<i, k>>
  BY <1>1
<1>3. PICK b : b = h[i].blocks[k] /\ b = Held(h, p) /\ p[1] = i
  BY <1>2 DEF Held
<1>4. b.n = <<i, k>> /\ AnswersCall(h, i, b)
  BY <1>3 DEF WellTold, Marked
<1>. SUFFICES ASSUME b.kind # "thought"
              PROVE  \E q \in Spots(items) :
                       /\ Where(items, b.n) = {q} /\ Held(items, q).kind = b.kind
                       /\ \A o \in Spots(h) : o[1] < i => \A r \in Where(items, Held(h, o).n) : r[1] < q[1]
                       /\ b.kind = "result" => \E r \in Where(items, b.of) : r[1] < q[1] /\ Held(items, r).kind = "call"
  BY <1>3 DEF Arrived
<1>5. In(h, i, k, b.n, b.kind) /\ On(h, i, b.n)
  BY <1>3 DEF In, On
<1>6. PICK j, l : In(items, j, l, b.n, b.kind)
  BY <1>5 DEF Arrives, Goes
<1>7. PICK q : q = <<j, l>> /\ q[1] = j /\ q[2] = l
  <2>1. <<j, l>>[1] = j /\ <<j, l>>[2] = l
    OBVIOUS
  <2>. QED
    BY <2>1
<1>8. q \in Spots(items) /\ Held(items, q).kind = b.kind
  BY <1>6, <1>7, SpotIs DEF In, Held
<1>9. Where(items, b.n) = {q}
  <2>1. q \in Where(items, b.n)
    BY <1>6, <1>7, WhereIs
  <2>2. ASSUME NEW r \in Where(items, b.n) PROVE r = q
    <3>1. PICK j1, l1, c1 : r = <<j1, l1>> /\ In(items, j1, l1, b.n, c1)
      BY <2>2, WhereIs
    <3>2. j1 = j /\ l1 = l
      BY <1>5, <1>6, <3>1 DEF Arrives, OnceFor
    <3>. QED
      BY <1>7, <3>1, <3>2
  <2>. QED
    BY <2>1, <2>2
<1>10. On(items, j, b.n)
  BY <1>6 DEF On
<1>11. ASSUME NEW o \in Spots(h), o[1] < i, NEW r \in Where(items, Held(h, o).n) PROVE r[1] < q[1]
  <2>1. PICK i2 \in DOMAIN h : \E k2 \in DOMAIN h[i2].blocks : o = <<i2, k2>>
    BY SpotIs
  <2>2. PICK k2 \in DOMAIN h[i2].blocks : o = <<i2, k2>>
    BY <2>1
  <2>3. PICK x : x = Held(h, o).n /\ On(h, i2, x) /\ i2 < i
    BY <1>11, <2>2 DEF Held, On, In
  <2>4. PICK j2, l2, c2 : r = <<j2, l2>> /\ In(items, j2, l2, x, c2)
    BY <1>11, <2>3, WhereIs
  <2>5. On(items, j2, x) /\ r[1] = j2
    BY <2>4 DEF On
  <2>6. j2 < j
    BY <1>5, <1>10, <2>3, <2>5 DEF Arrives, InOrder
  <2>. QED
    BY <1>7, <2>5, <2>6
<1>12. ASSUME b.kind = "result" PROVE \E r \in Where(items, b.of) : r[1] < q[1] /\ Held(items, r).kind = "call"
  <2>1. PICK i2 \in DOMAIN h : i2 < i /\ \E k2 \in DOMAIN h[i2].blocks : b.of = <<i2, k2>> /\ h[i2].blocks[k2].kind = "call"
    BY <1>4, <1>12 DEF AnswersCall
  <2>2. PICK k2 \in DOMAIN h[i2].blocks : b.of = <<i2, k2>> /\ h[i2].blocks[k2].kind = "call"
    BY <2>1
  <2>3. In(h, i2, k2, b.of, "call") /\ On(h, i2, b.of)
    <3>1. h[i2].blocks[k2].n = b.of
      BY <2>2 DEF WellTold, Marked
    <3>. QED
      BY <2>2, <3>1 DEF In, On
  <2>4. PICK j2, l2 : In(items, j2, l2, b.of, "call")
    BY <2>3 DEF Arrives, Goes
  <2>5. PICK r : r = <<j2, l2>> /\ r[1] = j2 /\ r[2] = l2
    <3>1. <<j2, l2>>[1] = j2 /\ <<j2, l2>>[2] = l2
      OBVIOUS
    <3>. QED
      BY <3>1
  <2>6. r \in Where(items, b.of)
    BY <2>4, <2>5, WhereIs
  <2>7. Held(items, r).kind = "call"
    BY <2>4, <2>5 DEF Held, In
  <2>8. On(items, j2, b.of)
    BY <2>4 DEF On
  <2>9. j2 < j
    BY <1>5, <1>10, <2>1, <2>3, <2>8 DEF Arrives, InOrder
  <2>. QED
    BY <1>7, <2>5, <2>6, <2>7, <2>9
<1>. QED
  BY <1>8, <1>9, <1>11, <1>12

\* Nothing is lost on the way.
LEMMA CarriedInv == TranslationInv => Carried
<1>. SUFFICES ASSUME TranslationInv, sent # Nothing
              PROVE  /\ \A p \in Spots(history) : Arrived(history, sent.items, p)
                     /\ \A i \in DOMAIN sent.items : sent.items[i].role # "system"
                     /\ sent.ask.json => Mentions(sent.items)
  BY DEF Carried, Arrived
<1>1. PICK body : SentWell(body)
  BY SentIsWell
<1>2. /\ sent.items \in Seq(Items) /\ Arrives(history, sent.items)
      /\ sent.ask.json => Mentions(sent.items)
  BY <1>1 DEF SentWell, Sends
<1>3. \A p \in Spots(history) : Arrived(history, sent.items, p)
  BY <1>2, AllArrived DEF TranslationInv
<1>4. ASSUME NEW i \in DOMAIN sent.items PROVE sent.items[i].role # "system"
  <2>1. sent.items[i] \in Items
    BY <1>2
  <2>. QED
    BY <2>1 DEF Items
<1>. QED
  BY <1>2, <1>3, <1>4

\* request.go:437, 572: for any tools, a client of the chat API or of Claude is told of
\* each call of a function by the name that it declared.
THEOREM NamesAreRestored == TranslationSpec => []NamesRestored
<1>. QED
  BY TranslationInvariance, NamesRestoredInv, PTL

\* request.go:197, 268, 290, 325: for any tools of then and of now, a call of an earlier turn
\* has the name that the upstream is told now for the function it called then, and
\* that of no other.
THEOREM HistoryNamed == TranslationSpec => []HistoryNames
<1>. QED
  BY TranslationInvariance, HistoryNamesInv, PTL

\* claude.go:112, request.go:123: for conversations of any length, each text, image, call
\* and result comes to the upstream once, later messages later, results after their
\* calls.
THEOREM ConversationCarried == TranslationSpec => []Carried
<1>. QED
  BY TranslationInvariance, CarriedInv, PTL

=================================================================================
