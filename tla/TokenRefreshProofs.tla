-------------------------- MODULE TokenRefreshProofs --------------------------
(***************************************************************************)
(* Proofs about TokenRefresh: its types, that recoveries of a credential   *)
(* never run side by side, and that no refresh token is spent twice while  *)
(* only calls that take the flag refresh and no answer is lost.  The       *)
(* argument: who is between taking and giving back the flag of an account  *)
(* is the one the flag names, so only that goroutine moves the account and *)
(* the server apart, and it brings them together before it lets go.  From  *)
(* the same invariant: the recoveries of a credential share their flight,  *)
(* and an account of the pool never goes back to an older token.           *)
(***************************************************************************)
EXTENDS TokenRefresh, TLAPS

\* The premise of SpendsLive.
Calm == world.faults \subseteq {"revoked"} /\ "quota" \notin world.kinds

\* From taking the flag to giving it back.
Held == {"claim", "asked", "failed", "refused", "dead", "answered", "granted", "release"}

\* A record with the call that its place belongs to.
Fit(r) ==
  /\ r \in Calls
  /\ r.at \in {"join", "joined", "landing"} => r.kind = "recover"
  /\ r.at = "wait" => r.kind \in {"inline", "recover"}
  /\ r.at = "race" => r.kind # "quota"

Holds(r) == r.at \in Held /\ r.kind # "quota"
Leads(r) == r.kind = "recover" /\ r.at \notin {"idle", "join", "joined", "back", "done"}

\* How the token t of the account and the server's token s stand while a
\* goroutine with record r holds the flag.
InStep(r, t, s) ==
  /\ r.at \in {"claim", "refused", "dead", "granted", "release"} => t = s
  /\ r.at \in {"asked", "failed"} => r.token = s /\ t = s
  /\ r.at = "answered" => r.issued = s

\* What a goroutine may do in the worlds that SpendsLive is about.
Quiet(r) == r.kind # "quota" /\ r.acc = "first"

CalmInv ==
  /\ index \in {"first", NoAcct}
  /\ refreshing["first"] = Nobody => acct["first"].token = server
  /\ \A p \in Procs : Quiet(call[p]) /\ InStep(call[p], acct["first"].token, server)

Inv ==
  /\ TypeOK
  /\ \A p \in Procs :
       /\ Fit(call[p])
       /\ Holds(call[p]) => refreshing[call[p].acc] = p
       /\ Leads(call[p]) => flight = p
  /\ Calm => CalmInv

\* The variables but for the calls have their types.
Typed(s, a, i, f, l) ==
  /\ s \in 0..MaxToken
  /\ a \in [Accts -> [token : 0..MaxToken, disabled : BOOLEAN]]
  /\ i \in Accts \cup {NoAcct}
  /\ f \in [Accts -> Procs \cup {Nobody}]
  /\ l \in Procs \cup {Nobody}

-----------------------------------------------------------------------------
LEMMA Given ==
  ASSUME Inv, NEW p \in Procs
  PROVE  /\ call[p] \in Calls /\ Fit(call[p])
         /\ Typed(server, acct, index, refreshing, flight)
         /\ Holds(call[p]) => refreshing[call[p].acc] = p
         /\ Leads(call[p]) => flight = p
BY DEF Inv, TypeOK, Typed, Fit

\* The invariant survives a step of goroutine p to record r, if p moves only a
\* flag and a flight that are free or its own, and the tokens only while it
\* holds the flag.
LEMMA Turn ==
  ASSUME Inv, NEW p \in Procs, NEW r, Fit(r),
         call' = [call EXCEPT ![p] = r], world' = world,
         Typed(server', acct', index', refreshing', flight'),
         Holds(r) => refreshing'[r.acc] = p,
         Leads(r) => flight' = p,
         \A k \in Accts : refreshing'[k] = refreshing[k] \/ refreshing[k] \in {Nobody, p},
         flight' = flight \/ flight \in {Nobody, p},
         Calm => /\ index' \in {"first", NoAcct}
                 /\ refreshing'["first"] = Nobody => acct'["first"].token = server'
                 /\ Quiet(r) /\ InStep(r, acct'["first"].token, server')
                 /\ \/ acct'["first"].token = acct["first"].token /\ server' = server
                    \/ Holds(call[p])
  PROVE  Inv'
<1>1. \A q \in Procs : call'[q] = IF q = p THEN r ELSE call[q]
  BY DEF Inv, TypeOK
<1>2. TypeOK'
  BY DEF Inv, TypeOK, Typed, Fit
<1>3. Nobody \notin Procs
  BY RefreshAssumption DEF Nobody
<1>4. ASSUME NEW q \in Procs
      PROVE  /\ Fit(call'[q])
             /\ Holds(call'[q]) => refreshing'[call'[q].acc] = q
             /\ Leads(call'[q]) => flight' = q
  <2>1. CASE q = p
    BY <1>1, <2>1
  <2>2. CASE q # p
    <3>1. call'[q] = call[q] /\ call[q].acc \in Accts
      BY <1>1, <2>2, Given DEF Calls
    <3>2. Fit(call[q]) /\ (Holds(call[q]) => refreshing[call[q].acc] = q) /\ (Leads(call[q]) => flight = q)
      BY Given
    <3> QED BY <1>3, <2>2, <3>1, <3>2
  <2> QED BY <2>1, <2>2
<1>5. ASSUME Calm PROVE CalmInv'
  <2>1. CalmInv
    BY <1>5 DEF Inv
  <2>2. ASSUME NEW q \in Procs
        PROVE  Quiet(call'[q]) /\ InStep(call'[q], acct'["first"].token, server')
    <3>1. CASE q = p
      BY <1>1, <1>5, <3>1
    <3>2. CASE q # p /\ acct'["first"].token = acct["first"].token /\ server' = server
      BY <1>1, <2>1, <3>2 DEF CalmInv
    <3>3. CASE q # p /\ Holds(call[p])
      <4>1. refreshing["first"] = p /\ Quiet(call[q])
        BY <2>1, <3>3, Given DEF CalmInv, Quiet
      <4>2. ~Holds(call[q])
        BY <3>3, <4>1, Given DEF Quiet
      <4>3. call[q].at \notin Held
        BY <4>1, <4>2 DEF Holds, Quiet
      <4> QED BY <1>1, <3>3, <4>1, <4>3 DEF InStep, Held
    <3> QED BY <1>5, <3>1, <3>2, <3>3
  <2>3. CalmInv' = /\ index' \in {"first", NoAcct}
                   /\ refreshing'["first"] = Nobody => acct'["first"].token = server'
                   /\ \A q \in Procs : Quiet(call'[q]) /\ InStep(call'[q], acct'["first"].token, server')
    BY DEF CalmInv, Quiet, InStep
  <2> QED BY <1>5, <2>2, <2>3
<1>6. Calm' <=> Calm
  BY DEF Calm
<1>7. \A q \in Procs : /\ Fit(call[q])'
                       /\ Holds(call[q])' => (refreshing[call[q].acc] = q)'
                       /\ Leads(call[q])' => (flight = q)'
  BY <1>4 DEF Fit, Holds, Leads
<1> QED BY <1>2, <1>5, <1>6, <1>7 DEF Inv

\* The same for a step that changes nothing but the goroutine's record.
LEMMA Moves ==
  ASSUME Inv, NEW p \in Procs, NEW r, Fit(r),
         call' = [call EXCEPT ![p] = r],
         UNCHANGED << world, server, acct, refreshing, flight >>,
         index' \in {index, NoAcct},
         Holds(r) => Holds(call[p]) /\ r.acc = call[p].acc,
         Leads(r) => Leads(call[p]),
         Calm => Quiet(r) /\ InStep(r, acct["first"].token, server)
  PROVE  Inv'
<1>1. Typed(server', acct', index', refreshing', flight')
  BY Given DEF Typed
<1>2. Calm => CalmInv
  BY DEF Inv
<1>3. (Holds(r) => refreshing'[r.acc] = p) /\ (Leads(r) => flight' = p)
  BY Given
<1>4. Calm => /\ index' \in {"first", NoAcct}
              /\ refreshing'["first"] = Nobody => acct'["first"].token = server'
              /\ Quiet(r) /\ InStep(r, acct'["first"].token, server')
  BY <1>2 DEF CalmInv
<1> QED BY <1>1, <1>3, <1>4, Turn

LEMMA IdleIsFit == Fit(Idle) /\ ~Holds(Idle) /\ ~Leads(Idle) /\ Quiet(Idle)
                   /\ \A t, s : InStep(Idle, t, s)
BY RefreshAssumption DEF Fit, Calls, Idle, Places, Kinds, Accts, Rounds, Outcomes, Holds, Held, Leads, Quiet, InStep

\* Records that differ from r in the named places only.
At(r, s) == [r EXCEPT !.at = s]
AtWith(r, s, o) == [r EXCEPT !.at = s, !.outcome = o]

LEMMA AtIs ==
  ASSUME NEW r \in Calls, NEW s \in Places
  PROVE  /\ At(r, s) \in Calls /\ At(r, s).at = s
         /\ At(r, s).kind = r.kind /\ At(r, s).acc = r.acc
         /\ At(r, s).token = r.token /\ At(r, s).issued = r.issued
BY DEF At, Calls

LEMMA AtWithIs ==
  ASSUME NEW r \in Calls, NEW s \in Places, NEW o \in Outcomes
  PROVE  /\ AtWith(r, s, o) \in Calls /\ AtWith(r, s, o).at = s
         /\ AtWith(r, s, o).kind = r.kind /\ AtWith(r, s, o).acc = r.acc
         /\ AtWith(r, s, o).token = r.token /\ AtWith(r, s, o).issued = r.issued
BY DEF AtWith, Calls

\* Places that a goroutine may go to from any place in the flag's hold where the
\* account and the server are in step.
LEMMA HeldMoves ==
  ASSUME Inv, NEW p \in Procs, NEW r \in Calls,
         r.kind = call[p].kind, r.acc = call[p].acc,
         call[p].at \in {"claim", "refused", "dead", "granted", "release"},
         r.at \in {"claim", "refused", "dead", "granted", "release"},
         call' = [call EXCEPT ![p] = r],
         UNCHANGED << world, server, acct, refreshing, flight >>,
         index' \in {index, NoAcct}
  PROVE  Inv'
<1>1. Fit(r) /\ Holds(r) = Holds(call[p]) /\ Leads(r) = Leads(call[p])
  BY DEF Fit, Holds, Held, Leads
<1>2. Calm => Quiet(r) /\ InStep(r, acct["first"].token, server)
  BY DEF Inv, CalmInv, Quiet, InStep
<1> QED BY <1>1, <1>2, Moves

-----------------------------------------------------------------------------
LEMMA BeginKeeps ==
  ASSUME Inv, NEW p \in Procs, NEW kind \in world.kinds, NEW k \in Accts, Begin(p, kind, k)
  PROVE  Inv'
<1> DEFINE s == CASE kind = "recover" -> "join" [] kind = "quota" -> "claim" [] OTHER -> "race"
           r == [Idle EXCEPT !.kind = kind, !.acc = k, !.at = s]
<1>1. call' = [call EXCEPT ![p] = r]
  BY DEF Begin
<1>2. kind \in Kinds
  BY RefreshAssumption DEF Inv, TypeOK
<1>3. /\ s \in {"join", "claim", "race"}
      /\ s = "join" => kind = "recover"
      /\ s = "claim" => kind = "quota"
      /\ s = "race" => kind \notin {"recover", "quota"}
  OBVIOUS
<1> HIDE DEF s
<1>4. r \in Calls /\ r.kind = kind /\ r.acc = k /\ r.at = s
  <2>1. Idle \in Calls /\ s \in Places
    BY <1>3, IdleIsFit DEF Fit, Places
  <2> QED BY <1>2, <2>1 DEF Calls
<1> HIDE DEF r
<1>5. Fit(r) /\ ~Holds(r) /\ ~Leads(r)
  BY <1>3, <1>4 DEF Fit, Holds, Held, Leads
<1>6. ASSUME Calm PROVE Quiet(r) /\ InStep(r, acct["first"].token, server)
  <2>1. kind # "quota" /\ s # "claim"
    BY <1>3, <1>6 DEF Calm
  <2>2. index \in {"first", NoAcct}
    BY <1>6 DEF Inv, CalmInv
  <2>3. k = "first"
    BY <1>2, <2>1, <2>2 DEF Begin, Accts, NoAcct, Kinds
  <2> QED BY <1>3, <1>4, <2>1, <2>3 DEF Quiet, InStep
<1>7. UNCHANGED << world, server, acct, index, refreshing, flight >>
  BY DEF Begin
<1> QED BY <1>1, <1>5, <1>6, <1>7, Moves

LEMMA JoinKeeps ==
  ASSUME Inv, NEW p \in Procs, Join(p)
  PROVE  Inv'
<1>1. call[p] \in Calls /\ Fit(call[p]) /\ Typed(server, acct, index, refreshing, flight)
  BY Given
<1>2. call[p].at = "join" /\ call[p].kind = "recover" /\ UNCHANGED << world, server, acct, index, refreshing >>
  BY <1>1 DEF Join, Fit
<1>3. {"race", "landing", "joined"} \subseteq Places /\ "busy" \in Outcomes
  BY DEF Places, Outcomes
<1>4. \/ /\ flight = Nobody /\ flight' = p
         /\ \E r \in {At(call[p], "race"), AtWith(call[p], "landing", "busy")} : call' = [call EXCEPT ![p] = r]
      \/ /\ flight' = flight
         /\ call' = [call EXCEPT ![p] = At(call[p], "joined")]
  BY DEF Join, Lead, Goto, Ends, At, AtWith
<1>5. ASSUME NEW r, r \in {At(call[p], "race"), AtWith(call[p], "landing", "busy")},
             call' = [call EXCEPT ![p] = r], flight = Nobody, flight' = p
      PROVE  Inv'
  <2>1. r \in Calls /\ r.kind = "recover" /\ r.acc = call[p].acc /\ r.at \in {"race", "landing"}
    <3>1. CASE r = At(call[p], "race")
      BY <1>1, <1>2, <1>3, <3>1, AtIs
    <3>2. CASE r = AtWith(call[p], "landing", "busy")
      BY <1>1, <1>2, <1>3, <3>2, AtWithIs
    <3> QED BY <1>5, <3>1, <3>2
  <2>2. Fit(r) /\ ~Holds(r)
    BY <2>1 DEF Fit, Holds, Held
  <2>3. Typed(server', acct', index', refreshing', flight')
    BY <1>1, <1>2, <1>5 DEF Typed
  <2>4. Calm => CalmInv /\ Quiet(call[p])
    BY DEF Inv, CalmInv
  <2>5. Calm => /\ index' \in {"first", NoAcct}
                /\ refreshing'["first"] = Nobody => acct'["first"].token = server'
                /\ Quiet(r) /\ InStep(r, acct'["first"].token, server')
    BY <1>2, <2>1, <2>4 DEF CalmInv, Quiet, InStep
  <2>6. \A k \in Accts : refreshing'[k] = refreshing[k]
    BY <1>2
  <2>7. UNCHANGED << world, server, acct >> /\ flight \in {Nobody, p}
    BY <1>2, <1>5
  <2> QED BY <1>5, <2>2, <2>3, <2>5, <2>6, <2>7, Turn
<1>6. CASE flight' = flight /\ call' = [call EXCEPT ![p] = At(call[p], "joined")]
  <2> DEFINE r == At(call[p], "joined")
  <2>1. r \in Calls /\ r.kind = "recover" /\ r.acc = call[p].acc /\ r.at = "joined"
    BY <1>1, <1>2, <1>3, AtIs
  <2>2. call' = [call EXCEPT ![p] = r]
    BY <1>6
  <2> HIDE DEF r
  <2>3. Fit(r) /\ ~Holds(r) /\ ~Leads(r)
    BY <2>1 DEF Fit, Holds, Held, Leads
  <2>4. Calm => Quiet(r) /\ InStep(r, acct["first"].token, server)
    BY <2>1 DEF Inv, CalmInv, Quiet, InStep
  <2> QED BY <1>2, <1>6, <2>2, <2>3, <2>4, Moves
<1> QED BY <1>4, <1>5, <1>6

LEMMA RaceKeeps ==
  ASSUME Inv, NEW p \in Procs, Race(p)
  PROVE  Inv'
<1>1. /\ call[p] \in Calls /\ Fit(call[p]) /\ Typed(server, acct, index, refreshing, flight)
      /\ Leads(call[p]) => flight = p
  BY Given
<1>2. call[p].at = "race" /\ UNCHANGED << world, server, acct, index, flight >>
  BY DEF Race
<1>3. {"claim", "wait"} \subseteq Places /\ call[p].kind \in Kinds /\ call[p].acc \in Accts
  BY <1>1 DEF Places, Calls
<1>4. CASE /\ refreshing[call[p].acc] = Nobody
           /\ refreshing' = [refreshing EXCEPT ![call[p].acc] = p]
           /\ Goto(p, "claim")
  <2> DEFINE r == At(call[p], "claim")
  <2>1. r \in Calls /\ r.kind = call[p].kind /\ r.acc = call[p].acc /\ r.at = "claim"
    BY <1>1, <1>3, AtIs
  <2>2. call' = [call EXCEPT ![p] = r]
    BY <1>4 DEF Goto, At
  <2> HIDE DEF r
  <2>3. Fit(r) /\ (Leads(r) => Leads(call[p]))
    BY <1>2, <2>1 DEF Fit, Leads
  <2>4. /\ Typed(server', acct', index', refreshing', flight')
        /\ refreshing'[r.acc] = p
        /\ \A k \in Accts : refreshing'[k] = refreshing[k] \/ refreshing[k] \in {Nobody, p}
    BY <1>1, <1>2, <1>3, <1>4, <2>1 DEF Typed
  <2>5. ASSUME Calm
        PROVE  /\ index' \in {"first", NoAcct}
               /\ refreshing'["first"] = Nobody => acct'["first"].token = server'
               /\ Quiet(r) /\ InStep(r, acct'["first"].token, server')
    <3>1. CalmInv /\ Quiet(call[p])
      BY <2>5 DEF Inv, CalmInv
    <3>2. refreshing["first"] = Nobody
      BY <1>4, <3>1 DEF Quiet
    <3> QED BY <1>2, <2>1, <3>1, <3>2 DEF CalmInv, Quiet, InStep
  <2> QED BY <1>1, <1>2, <2>2, <2>3, <2>4, <2>5, Turn
<1>5. CASE UNCHANGED refreshing /\ call[p].kind = "refresh" /\ call' = [call EXCEPT ![p] = Idle]
  BY <1>2, <1>5, IdleIsFit, Moves
<1>6. CASE UNCHANGED refreshing /\ call[p].kind # "refresh" /\ call[p].kind # "quota" /\ Goto(p, "wait")
  <2> DEFINE r == At(call[p], "wait")
  <2>1. r \in Calls /\ r.kind = call[p].kind /\ r.acc = call[p].acc /\ r.at = "wait"
    BY <1>1, <1>3, AtIs
  <2>2. call' = [call EXCEPT ![p] = r]
    BY <1>6 DEF Goto, At
  <2> HIDE DEF r
  <2>3. Fit(r) /\ ~Holds(r) /\ (Leads(r) => Leads(call[p]))
    BY <1>2, <1>3, <1>6, <2>1 DEF Fit, Holds, Held, Leads, Kinds
  <2>4. Calm => Quiet(r) /\ InStep(r, acct["first"].token, server)
    BY <2>1 DEF Inv, CalmInv, Quiet, InStep
  <2> QED BY <1>2, <1>6, <2>2, <2>3, <2>4, Moves
<1> QED BY <1>1, <1>2, <1>4, <1>5, <1>6 DEF Race, Fit


LEMMA WaitKeeps ==
  ASSUME Inv, NEW p \in Procs, Wait(p)
  PROVE  Inv'
<1>1. call[p] \in Calls /\ Fit(call[p])
  BY Given
<1>2. call[p].at = "wait" /\ UNCHANGED << world, server, acct, index, refreshing, flight >>
  BY DEF Wait
<1>3. CASE call' = [call EXCEPT ![p] = Idle]
  BY <1>2, <1>3, IdleIsFit, Moves
<1>4. CASE call[p].kind # "inline" /\ \E o \in {"busy", "waited"} : Ends(p, "landing", o)
  <2>1. PICK o \in {"busy", "waited"} : Ends(p, "landing", o)
    BY <1>4
  <2> DEFINE r == AtWith(call[p], "landing", o)
  <2>2. "landing" \in Places /\ o \in Outcomes
    BY DEF Places, Outcomes
  <2>3. r \in Calls /\ r.kind = call[p].kind /\ r.acc = call[p].acc /\ r.at = "landing"
    BY <1>1, <2>2, AtWithIs
  <2>4. call' = [call EXCEPT ![p] = r]
    BY <2>1 DEF Ends, AtWith
  <2> HIDE DEF r
  <2>5. Fit(r) /\ ~Holds(r) /\ (Leads(r) => Leads(call[p]))
    BY <1>1, <1>2, <1>4, <2>3 DEF Fit, Holds, Held, Leads
  <2>6. Calm => Quiet(r) /\ InStep(r, acct["first"].token, server)
    BY <2>3 DEF Inv, CalmInv, Quiet, InStep
  <2> QED BY <1>2, <2>4, <2>5, <2>6, Moves
<1> QED BY <1>3, <1>4 DEF Wait

LEMMA ClaimKeeps ==
  ASSUME Inv, NEW p \in Procs, Claim(p)
  PROVE  Inv'
<1>1. call[p] \in Calls /\ Fit(call[p]) /\ Typed(server, acct, index, refreshing, flight)
  BY Given
<1>2. call[p].at = "claim" /\ UNCHANGED << world, server, acct, index, refreshing, flight >>
  BY DEF Claim
<1>3. CASE Ends(p, "release", "busy")
  <2> DEFINE r == AtWith(call[p], "release", "busy")
  <2>1. "release" \in Places /\ "busy" \in Outcomes
    BY DEF Places, Outcomes
  <2>2. r \in Calls /\ r.kind = call[p].kind /\ r.acc = call[p].acc /\ r.at = "release"
    BY <1>1, <2>1, AtWithIs
  <2>3. call' = [call EXCEPT ![p] = r]
    BY <1>3 DEF Ends, AtWith
  <2> HIDE DEF r
  <2> QED BY <1>2, <2>2, <2>3, HeldMoves
<1>4. CASE \E n \in 0..Retries :
             call' = [call EXCEPT ![p].at = "asked", ![p].token = acct[call[p].acc].token, ![p].tries = n]
  <2>1. PICK n \in 0..Retries :
             call' = [call EXCEPT ![p].at = "asked", ![p].token = acct[call[p].acc].token, ![p].tries = n]
    BY <1>4
  <2> DEFINE t == acct[call[p].acc].token
             a == [call[p] EXCEPT !.at = "asked", !.token = t]
             r == [a EXCEPT !.tries = n]
  <2>2. t \in 0..MaxToken /\ "asked" \in Places
    BY <1>1 DEF Typed, Calls, Places
  <2>3. call' = [call EXCEPT ![p] = r]
    BY <2>1
  <2>4. Calm => t = server
    BY <1>2 DEF Inv, CalmInv, Quiet, InStep
  <2>5. Calm => acct["first"].token = server /\ Quiet(call[p])
    BY <1>2 DEF Inv, CalmInv, InStep
  <2> HIDE DEF t
  <2>6. a \in Calls /\ a.kind = call[p].kind /\ a.acc = call[p].acc /\ a.at = "asked" /\ a.token = t
    BY <1>1, <2>2 DEF Calls
  <2> HIDE DEF a
  <2>7. r \in Calls /\ r.kind = call[p].kind /\ r.acc = call[p].acc /\ r.at = "asked" /\ r.token = t
    BY <2>6 DEF Calls
  <2> HIDE DEF r
  <2>8. Fit(r) /\ Holds(r) = Holds(call[p]) /\ Leads(r) = Leads(call[p])
    BY <1>2, <2>7 DEF Fit, Holds, Held, Leads
  <2>9. Calm => Quiet(r) /\ InStep(r, acct["first"].token, server)
    BY <2>4, <2>5, <2>7 DEF Quiet, InStep
  <2> QED BY <1>2, <2>3, <2>7, <2>8, <2>9, Moves
<1>5. 1 \in 0..Retries /\ Retries \in 0..Retries
  BY RefreshAssumption
<1> QED BY <1>3, <1>4, <1>5 DEF Claim

LEMMA ServeKeeps ==
  ASSUME Inv, NEW p \in Procs, Serve(p)
  PROVE  Inv'
<1>1. /\ call[p] \in Calls /\ Fit(call[p]) /\ Typed(server, acct, index, refreshing, flight)
      /\ Holds(call[p]) => refreshing[call[p].acc] = p
      /\ Leads(call[p]) => flight = p
  BY Given
<1>2. call[p].at = "asked" /\ UNCHANGED << world, acct, index, refreshing, flight >>
  BY DEF Serve
<1>3. {"answered", "failed", "dead"} \subseteq Places
  BY DEF Places
<1>4. Calm => CalmInv /\ Quiet(call[p]) /\ call[p].token = server /\ acct["first"].token = server
  BY <1>2 DEF Inv, CalmInv, InStep
\* In a calm world the flag of the account is p's.
<1>5. Calm => Holds(call[p]) /\ refreshing["first"] = p
  BY <1>1, <1>2, <1>4 DEF Holds, Held, Quiet
<1>6. Nobody \notin Procs
  BY RefreshAssumption DEF Nobody
<1>7. CASE server < MaxToken /\ server' = server + 1
           /\ call' = [call EXCEPT ![p].at = "answered", ![p].issued = server + 1]
  <2> DEFINE r == [call[p] EXCEPT !.at = "answered", !.issued = server + 1]
  <2>1. server + 1 \in 0..MaxToken
    BY <1>1, <1>7, RefreshAssumption DEF Typed
  <2>2. call' = [call EXCEPT ![p] = r]
    BY <1>7
  <2>3. r \in Calls /\ r.kind = call[p].kind /\ r.acc = call[p].acc /\ r.at = "answered" /\ r.issued = server + 1
    BY <1>1, <1>3, <2>1 DEF Calls
  <2> HIDE DEF r
  <2>4. Fit(r) /\ Holds(r) = Holds(call[p]) /\ Leads(r) = Leads(call[p])
    BY <1>2, <2>3 DEF Fit, Holds, Held, Leads
  <2>5. Typed(server', acct', index', refreshing', flight')
    BY <1>1, <1>2, <1>7, <2>1 DEF Typed
  <2>6. (Holds(r) => refreshing'[r.acc] = p) /\ (Leads(r) => flight' = p)
    BY <1>1, <1>2, <2>3, <2>4
  <2>7. Calm => /\ index' \in {"first", NoAcct}
                /\ refreshing'["first"] # Nobody
                /\ Quiet(r) /\ InStep(r, acct'["first"].token, server')
                /\ Holds(call[p])
    BY <1>2, <1>4, <1>5, <1>6, <1>7, <2>3 DEF CalmInv, Quiet, InStep
  <2> QED BY <1>2, <2>2, <2>4, <2>5, <2>6, <2>7, Turn
<1>8. CASE ~Calm /\ server' \in 0..MaxToken /\ Goto(p, "failed")
  <2> DEFINE r == At(call[p], "failed")
  <2>1. r \in Calls /\ r.kind = call[p].kind /\ r.acc = call[p].acc /\ r.at = "failed"
    BY <1>1, <1>3, AtIs
  <2>2. call' = [call EXCEPT ![p] = r]
    BY <1>8 DEF Goto, At
  <2> HIDE DEF r
  <2>3. Fit(r) /\ Holds(r) = Holds(call[p]) /\ Leads(r) = Leads(call[p])
    BY <1>2, <2>1 DEF Fit, Holds, Held, Leads
  <2>4. Typed(server', acct', index', refreshing', flight')
    BY <1>1, <1>2, <1>8 DEF Typed
  <2>5. (Holds(r) => refreshing'[r.acc] = p) /\ (Leads(r) => flight' = p)
    BY <1>1, <1>2, <2>1, <2>3
  <2> QED BY <1>2, <1>8, <2>2, <2>3, <2>4, <2>5, Turn
<1>9. CASE UNCHANGED server /\ \E s \in {"dead", "failed"} : Goto(p, s)
  <2>1. PICK s \in {"dead", "failed"} : Goto(p, s)
    BY <1>9
  <2> DEFINE r == At(call[p], s)
  <2>2. r \in Calls /\ r.kind = call[p].kind /\ r.acc = call[p].acc /\ r.at = s /\ r.token = call[p].token
    BY <1>1, <1>3, AtIs
  <2>3. call' = [call EXCEPT ![p] = r]
    BY <2>1 DEF Goto, At
  <2> HIDE DEF r
  <2>4. Fit(r) /\ Holds(r) = Holds(call[p]) /\ Leads(r) = Leads(call[p])
    BY <1>2, <2>2 DEF Fit, Holds, Held, Leads
  <2>5. Calm => Quiet(r) /\ InStep(r, acct["first"].token, server)
    BY <1>4, <2>2 DEF Quiet, InStep
  <2> QED BY <1>2, <1>9, <2>2, <2>3, <2>4, <2>5, Moves
<1>10. "lost" \in world.faults => ~Calm
  BY DEF Calm
<1>11. server < MaxToken => server + 1 \in 0..MaxToken
  BY <1>1, RefreshAssumption DEF Typed
<1> QED BY <1>7, <1>8, <1>9, <1>10, <1>11 DEF Serve

LEMMA FailedKeeps ==
  ASSUME Inv, NEW p \in Procs, Failed(p)
  PROVE  Inv'
<1>1. call[p] \in Calls /\ Fit(call[p])
  BY Given
<1>2. call[p].at = "failed" /\ UNCHANGED << world, server, acct, index, refreshing, flight >>
  BY DEF Failed
<1>3. Calm => Quiet(call[p]) /\ call[p].token = server /\ acct["first"].token = server
  BY <1>2 DEF Inv, CalmInv, InStep
<1>4. ASSUME NEW r \in Calls, call' = [call EXCEPT ![p] = r],
             r.kind = call[p].kind, r.acc = call[p].acc, r.at \in {"asked", "refused"}, r.token = call[p].token
      PROVE  Inv'
  <2>1. Fit(r) /\ Holds(r) = Holds(call[p]) /\ Leads(r) = Leads(call[p])
    BY <1>2, <1>4 DEF Fit, Holds, Held, Leads
  <2>2. Calm => Quiet(r) /\ InStep(r, acct["first"].token, server)
    BY <1>3, <1>4 DEF Quiet, InStep
  <2> QED BY <1>2, <1>4, <2>1, <2>2, Moves
<1>5. {"asked", "refused"} \subseteq Places
  BY DEF Places
<1>6. CASE call[p].tries > 1 /\ call' = [call EXCEPT ![p].at = "asked", ![p].tries = @ - 1]
  <2> DEFINE n == call[p].tries - 1
             r == [call[p] EXCEPT !.at = "asked", !.tries = n]
  <2>1. n \in 0..Retries
    BY <1>1, <1>6, RefreshAssumption DEF Calls
  <2>2. call' = [call EXCEPT ![p] = r]
    BY <1>6
  <2> HIDE DEF n
  <2>3. r \in Calls /\ r.kind = call[p].kind /\ r.acc = call[p].acc /\ r.at = "asked" /\ r.token = call[p].token
    BY <1>1, <1>5, <2>1 DEF Calls
  <2> HIDE DEF r
  <2> QED BY <1>4, <2>2, <2>3
<1>7. CASE Goto(p, "refused")
  <2>1. call' = [call EXCEPT ![p] = At(call[p], "refused")]
    BY <1>7 DEF Goto, At
  <2> QED BY <1>1, <1>4, <1>5, <2>1, AtIs
<1> QED BY <1>6, <1>7 DEF Failed


\* What Fails and Again make of a record that holds the flag.
LEMMA FailsKeeps ==
  ASSUME Inv, NEW p \in Procs, Fails(p), call[p].at \in {"refused", "dead"},
         UNCHANGED << world, server, acct, refreshing, flight >>, index' \in {index, NoAcct}
  PROVE  Inv'
<1> DEFINE o == IF call[p].outcome = "refreshed" THEN "refreshed" ELSE "lost"
           r == AtWith(call[p], "release", o)
<1>1. call[p] \in Calls /\ "release" \in Places /\ o \in Outcomes
  BY Given DEF Places, Outcomes
<1>2. call' = [call EXCEPT ![p] = r]
  BY DEF Fails, Ends, AtWith
<1> HIDE DEF o
<1>3. r \in Calls /\ r.kind = call[p].kind /\ r.acc = call[p].acc /\ r.at = "release"
  BY <1>1, AtWithIs
<1> HIDE DEF r
<1> QED BY <1>2, <1>3, HeldMoves

LEMMA AgainKeeps ==
  ASSUME Inv, NEW p \in Procs, NEW round \in Rounds, Again(p, round),
         call[p].at \in {"refused", "granted"},
         UNCHANGED << world, server, acct, index, refreshing, flight >>
  PROVE  Inv'
<1> DEFINE r == [call[p] EXCEPT !.at = "claim", !.again = round]
<1>1. call[p] \in Calls /\ "claim" \in Places
  BY Given DEF Places
<1>2. call' = [call EXCEPT ![p] = r]
  BY DEF Again
<1>3. r \in Calls /\ r.kind = call[p].kind /\ r.acc = call[p].acc /\ r.at = "claim"
  BY <1>1 DEF Calls
<1> HIDE DEF r
<1> QED BY <1>2, <1>3, HeldMoves

LEMMA RefusedKeeps ==
  ASSUME Inv, NEW p \in Procs, Refused(p)
  PROVE  Inv'
<1>1. "policy" \in Rounds
  BY DEF Rounds
<1>2. /\ call[p].at = "refused" /\ UNCHANGED << world, server, acct, refreshing, flight >>
      /\ \/ Fails(p) /\ index' \in {index, NoAcct}
         \/ Again(p, "policy") /\ index' = index
  BY DEF Refused
<1> QED BY <1>1, <1>2, FailsKeeps, AgainKeeps

LEMMA DeadKeeps ==
  ASSUME Inv, NEW p \in Procs, Dead(p)
  PROVE  Inv'
<1>1. call[p] \in Calls /\ Fit(call[p]) /\ Typed(server, acct, index, refreshing, flight)
  BY Given
<1>2. call[p].at = "dead" /\ Fails(p) /\ UNCHANGED << world, server, refreshing, flight >>
  BY DEF Dead
<1>3. CASE UNCHANGED acct /\ index' \in {index, NoAcct}
  BY <1>2, <1>3, FailsKeeps
<1>4. CASE acct' = [acct EXCEPT ![call[p].acc].disabled = TRUE] /\ UNCHANGED index
  <2> DEFINE o == IF call[p].outcome = "refreshed" THEN "refreshed" ELSE "lost"
             r == AtWith(call[p], "release", o)
  <2>1. "release" \in Places /\ o \in Outcomes
    BY DEF Places, Outcomes
  <2>2. call' = [call EXCEPT ![p] = r]
    BY <1>2 DEF Fails, Ends, AtWith
  <2> HIDE DEF o
  <2>3. r \in Calls /\ r.kind = call[p].kind /\ r.acc = call[p].acc /\ r.at = "release"
    BY <1>1, <2>1, AtWithIs
  <2> HIDE DEF r
  <2>4. Fit(r) /\ Holds(r) = Holds(call[p]) /\ Leads(r) = Leads(call[p])
    BY <1>2, <2>3 DEF Fit, Holds, Held, Leads
  <2>5. acct' \in [Accts -> [token : 0..MaxToken, disabled : BOOLEAN]] /\ acct'["first"].token = acct["first"].token
    BY <1>1, <1>4 DEF Typed, Accts, Calls
  <2>6. Typed(server', acct', index', refreshing', flight')
    BY <1>1, <1>2, <1>4, <2>5 DEF Typed
  <2>7. (Holds(r) => refreshing'[r.acc] = p) /\ (Leads(r) => flight' = p)
    BY <1>2, <2>3, <2>4, Given
  <2>8. Calm => /\ index' \in {"first", NoAcct}
                /\ refreshing'["first"] = Nobody => acct'["first"].token = server'
                /\ Quiet(r) /\ InStep(r, acct'["first"].token, server')
    BY <1>2, <1>4, <2>3, <2>5 DEF Inv, CalmInv, Quiet, InStep
  <2> QED BY <1>2, <2>2, <2>4, <2>5, <2>6, <2>7, <2>8, Turn
<1> QED BY <1>3, <1>4 DEF Dead

LEMMA UpdateKeeps ==
  ASSUME Inv, NEW p \in Procs, Update(p)
  PROVE  Inv'
<1>1. call[p] \in Calls /\ Fit(call[p]) /\ Typed(server, acct, index, refreshing, flight)
  BY Given
<1>2. /\ call[p].at = "answered" /\ UNCHANGED << world, server, index, refreshing, flight >>
      /\ acct' = [acct EXCEPT ![call[p].acc] = [token |-> call[p].issued, disabled |-> FALSE]]
  BY DEF Update
<1> DEFINE r == AtWith(call[p], "granted", "refreshed")
<1>3. "granted" \in Places /\ "refreshed" \in Outcomes
  BY DEF Places, Outcomes
<1>4. call' = [call EXCEPT ![p] = r]
  BY DEF Update, Ends, AtWith
<1>5. r \in Calls /\ r.kind = call[p].kind /\ r.acc = call[p].acc /\ r.at = "granted"
  BY <1>1, <1>3, AtWithIs
<1> HIDE DEF r
<1>6. Fit(r) /\ Holds(r) = Holds(call[p]) /\ Leads(r) = Leads(call[p])
  BY <1>2, <1>5 DEF Fit, Holds, Held, Leads
<1>7. acct' \in [Accts -> [token : 0..MaxToken, disabled : BOOLEAN]]
  BY <1>1, <1>2 DEF Typed, Calls
<1>8. Typed(server', acct', index', refreshing', flight')
  BY <1>1, <1>2, <1>7 DEF Typed
<1>9. (Holds(r) => refreshing'[r.acc] = p) /\ (Leads(r) => flight' = p)
  BY <1>2, <1>5, <1>6, Given
<1>10. ASSUME Calm
       PROVE  /\ index' \in {"first", NoAcct} /\ Holds(call[p])
              /\ acct'["first"].token = server'
              /\ Quiet(r) /\ InStep(r, acct'["first"].token, server')
  <2>1. CalmInv /\ Quiet(call[p]) /\ call[p].issued = server
    BY <1>2, <1>10 DEF Inv, CalmInv, InStep
  <2>2. acct'["first"].token = server
    BY <1>1, <1>2, <2>1 DEF Typed, Quiet, Accts
  <2> QED BY <1>2, <1>5, <2>1, <2>2 DEF CalmInv, Quiet, InStep, Holds, Held
<1> QED BY <1>2, <1>4, <1>6, <1>8, <1>9, <1>10, Turn

LEMMA GrantedKeeps ==
  ASSUME Inv, NEW p \in Procs, Granted(p)
  PROVE  Inv'
<1>1. call[p] \in Calls /\ "release" \in Places /\ "lost" \in Outcomes /\ "check" \in Rounds
  BY Given DEF Places, Outcomes, Rounds
<1>2. call[p].at = "granted" /\ UNCHANGED << world, server, acct, refreshing, flight >>
  BY DEF Granted
<1>3. CASE index' \in {index, NoAcct} /\ Goto(p, "release")
  <2>1. call' = [call EXCEPT ![p] = At(call[p], "release")]
    BY <1>3 DEF Goto, At
  <2> QED BY <1>1, <1>2, <1>3, <2>1, AtIs, HeldMoves
<1>4. CASE index' \in {index, NoAcct} /\ Ends(p, "release", "lost")
  <2> DEFINE r == AtWith(call[p], "release", "lost")
  <2>1. call' = [call EXCEPT ![p] = r]
    BY <1>4 DEF Ends, AtWith
  <2>2. r \in Calls /\ r.kind = call[p].kind /\ r.acc = call[p].acc /\ r.at = "release"
    BY <1>1, AtWithIs
  <2> HIDE DEF r
  <2> QED BY <1>2, <1>4, <2>1, <2>2, HeldMoves
<1>5. CASE Again(p, "check") /\ UNCHANGED index
  BY <1>1, <1>2, <1>5, AgainKeeps
<1> QED BY <1>3, <1>4, <1>5 DEF Granted

LEMMA ReleaseKeeps ==
  ASSUME Inv, NEW p \in Procs, Release(p)
  PROVE  Inv'
<1>1. /\ call[p] \in Calls /\ Fit(call[p]) /\ Typed(server, acct, index, refreshing, flight)
      /\ Holds(call[p]) => refreshing[call[p].acc] = p
      /\ Leads(call[p]) => flight = p
  BY Given
<1>2. call[p].at = "release" /\ UNCHANGED << world, server, acct, index, flight >>
  BY DEF Release
<1>3. \A k \in Accts : refreshing'[k] = refreshing[k] \/ refreshing[k] = p
  BY <1>1, <1>2 DEF Release, Holds, Held, Typed
<1>4. Typed(server', acct', index', refreshing', flight')
  BY <1>1, <1>2 DEF Typed, Release
<1>5. ASSUME NEW r, Fit(r), ~Holds(r), Leads(r) => Leads(call[p]), Quiet(call[p]) => Quiet(r),
             r.at \in {"idle", "landing"}, call' = [call EXCEPT ![p] = r]
      PROVE  Inv'
  <2>1. Calm => CalmInv /\ Quiet(call[p]) /\ acct["first"].token = server
    BY <1>2 DEF Inv, CalmInv, InStep
  <2>2. Calm => /\ index' \in {"first", NoAcct}
                /\ acct'["first"].token = server'
                /\ Quiet(r) /\ InStep(r, acct'["first"].token, server')
    BY <1>2, <1>5, <2>1 DEF CalmInv, InStep
  <2>3. Leads(r) => flight' = p
    BY <1>1, <1>2, <1>5
  <2> QED BY <1>2, <1>3, <1>4, <1>5, <2>2, <2>3, Turn
<1>6. CASE call[p].kind = "recover" /\ Goto(p, "landing")
  <2> DEFINE r == At(call[p], "landing")
  <2>1. "landing" \in Places
    BY DEF Places
  <2>2. r \in Calls /\ r.kind = call[p].kind /\ r.acc = call[p].acc /\ r.at = "landing"
    BY <1>1, <2>1, AtIs
  <2>3. call' = [call EXCEPT ![p] = r]
    BY <1>6 DEF Goto, At
  <2> HIDE DEF r
  <2>4. Fit(r) /\ ~Holds(r) /\ Leads(call[p]) /\ (Quiet(call[p]) => Quiet(r))
    BY <1>2, <1>6, <2>2 DEF Fit, Holds, Held, Leads, Quiet
  <2> QED BY <1>5, <2>2, <2>3, <2>4
<1>7. CASE call' = [call EXCEPT ![p] = Idle]
  <2>1. Idle.at = "idle"
    BY DEF Idle
  <2> QED BY <1>5, <1>7, <2>1, IdleIsFit
<1> QED BY <1>6, <1>7 DEF Release


\* When the flight lands nobody leads: it was its leader's.
LEMMA LandKeeps ==
  ASSUME Inv, NEW p \in Procs, Land(p)
  PROVE  Inv'
<1> DEFINE R(q) == [Idle EXCEPT !.at = "back", !.kind = "recover", !.acc = call[q].acc, !.lead = call[p].acc,
                                !.issued = call[p].issued, !.outcome = call[p].outcome]
           lands(q) == q = p \/ call[q].at = "joined"
<1>1. /\ UNCHANGED << world, server, acct, index, refreshing >>
      /\ flight' = Nobody /\ call[p].at = "landing"
  BY DEF Land
<1>2. \A q \in Procs : call[q] \in Calls
  BY Given
<1>3. Idle \in Calls /\ "back" \in Places /\ "recover" \in Kinds
  BY IdleIsFit DEF Fit, Places, Kinds
<1>4. ASSUME NEW q \in Procs
      PROVE  R(q) \in Calls /\ R(q).at = "back" /\ R(q).kind = "recover" /\ R(q).acc = call[q].acc
  <2> DEFINE a == [Idle EXCEPT !.at = "back", !.kind = "recover", !.acc = call[q].acc]
  <2>1. a \in Calls /\ a.at = "back" /\ a.kind = "recover" /\ a.acc = call[q].acc
    BY <1>2, <1>3 DEF Calls
  <2>2. R(q) = [a EXCEPT !.lead = call[p].acc, !.issued = call[p].issued, !.outcome = call[p].outcome]
    OBVIOUS
  <2> HIDE DEF a, R
  <2> QED BY <1>2, <2>1, <2>2 DEF Calls
<1>5. call' = [q \in Procs |-> IF lands(q) THEN R(q) ELSE call[q]]
  BY DEF Land
<1> HIDE DEF R
<1>6. \A q \in Procs : Leads(call[q]) => q = p
  <2>1. Leads(call[p])
    BY <1>1, Given DEF Fit, Leads
  <2> QED BY <2>1, Given
<1>7. ASSUME NEW q \in Procs
      PROVE  Fit(call'[q]) /\ ~Leads(call'[q]) /\ (Holds(call'[q]) => refreshing'[call'[q].acc] = q)
  <2>1. CASE lands(q)
    BY <1>4, <1>5, <2>1 DEF Fit, Leads, Holds, Held
  <2>2. CASE ~lands(q)
    BY <1>1, <1>5, <1>6, <2>2, Given
  <2> QED BY <2>1, <2>2
<1>8. TypeOK'
  <2>1. call' \in [Procs -> Calls]
    BY <1>5, <1>7 DEF Fit
  <2> QED BY <1>1, <2>1 DEF Inv, TypeOK
<1>9. ASSUME Calm PROVE CalmInv'
  <2>1. CalmInv
    BY <1>9 DEF Inv
  <2>2. ASSUME NEW q \in Procs
        PROVE  Quiet(call'[q]) /\ InStep(call'[q], acct["first"].token, server)
    <3>1. CASE lands(q)
      BY <1>4, <1>5, <2>1, <3>1 DEF CalmInv, Quiet, InStep
    <3>2. CASE ~lands(q)
      BY <1>5, <2>1, <3>2 DEF CalmInv
    <3> QED BY <3>1, <3>2
  <2> QED BY <1>1, <2>1, <2>2 DEF CalmInv, Quiet, InStep
<1>10. Calm' <=> Calm
  BY <1>1 DEF Calm
<1>11. \A q \in Procs : /\ Fit(call[q])'
                        /\ Holds(call[q])' => (refreshing[call[q].acc] = q)'
                        /\ Leads(call[q])' => (flight = q)'
  BY <1>7 DEF Fit, Holds, Leads
<1> QED BY <1>8, <1>9, <1>10, <1>11 DEF Inv

LEMMA BackKeeps ==
  ASSUME Inv, NEW p \in Procs, Back(p)
  PROVE  Inv'
<1>1. call[p] \in Calls /\ Fit(call[p]) /\ Typed(server, acct, index, refreshing, flight)
  BY Given
<1>2. call[p].at = "back" /\ UNCHANGED << world, server, index, refreshing, flight >>
  BY DEF Back
<1> DEFINE r == At(call[p], "done")
<1>3. "done" \in Places
  BY DEF Places
<1>4. r \in Calls /\ r.kind = call[p].kind /\ r.acc = call[p].acc /\ r.at = "done"
  BY <1>1, <1>3, AtIs
<1>5. call' = [call EXCEPT ![p] = r]
  BY DEF Back, Goto, At
<1> HIDE DEF r
<1>6. Fit(r) /\ ~Holds(r) /\ ~Leads(r)
  BY <1>4 DEF Fit, Holds, Held, Leads
<1>7. acct' \in [Accts -> [token : 0..MaxToken, disabled : BOOLEAN]]
  <2>1. CASE acct' = acct
    BY <1>1, <2>1 DEF Typed
  <2>2. CASE /\ index # NoAcct
             /\ acct' = [acct EXCEPT ![call[p].acc] = [token |-> acct[index].token, disabled |-> FALSE]]
    <3>1. acct[index].token \in 0..MaxToken
      BY <1>1, <2>2 DEF Typed
    <3> DEFINE x == [token |-> acct[index].token, disabled |-> FALSE]
    <3>2. x \in [token : 0..MaxToken, disabled : BOOLEAN]
      BY <3>1
    <3> HIDE DEF x
    <3> QED BY <1>1, <2>2, <3>2 DEF Typed, x
  <2> QED BY <2>1, <2>2 DEF Back
<1>8. Typed(server', acct', index', refreshing', flight')
  BY <1>1, <1>2, <1>7 DEF Typed
\* In a calm world the pool holds no other object to copy from.
<1>9. ASSUME Calm
      PROVE  /\ index' \in {"first", NoAcct}
             /\ refreshing'["first"] = Nobody => acct'["first"].token = server'
             /\ Quiet(r) /\ InStep(r, acct'["first"].token, server')
             /\ acct' = acct
  <2>1. CalmInv /\ Quiet(call[p])
    BY <1>9 DEF Inv, CalmInv
  <2>2. acct' = acct
    BY <2>1 DEF Back, CalmInv, Quiet
  <2> QED BY <1>2, <1>4, <2>1, <2>2 DEF CalmInv, Quiet, InStep
<1> QED BY <1>2, <1>5, <1>6, <1>8, <1>9, Turn

LEMMA DoneKeeps ==
  ASSUME Inv, NEW p \in Procs, Done(p)
  PROVE  Inv'
BY IdleIsFit, Moves DEF Done

LEMMA ReplaceKeeps ==
  ASSUME Inv, Replace
  PROVE  Inv'
<1>1. ~Calm /\ ~Calm'
  BY DEF Replace, Calm
<1>2. acct' \in [Accts -> [token : 0..MaxToken, disabled : BOOLEAN]]
  <2>1. acct["first"].token \in 0..MaxToken
    BY DEF Inv, TypeOK, Accts
  <2> QED BY <2>1 DEF Inv, TypeOK, Replace
<1>3. TypeOK'
  BY <1>2 DEF Inv, TypeOK, Replace, Accts
<1>4. \A q \in Procs : /\ Fit(call[q])'
                       /\ Holds(call[q])' => (refreshing[call[q].acc] = q)'
                       /\ Leads(call[q])' => (flight = q)'
  BY DEF Inv, Replace, Fit, Holds, Leads
<1> QED BY <1>1, <1>3, <1>4 DEF Inv

LEMMA StutterKeeps ==
  ASSUME Inv, UNCHANGED vars
  PROVE  Inv'
BY DEF Inv, vars, TypeOK, Fit, Holds, Leads, Calm, CalmInv, Quiet, InStep

-----------------------------------------------------------------------------
(***************************************************************************)
(* What a recovery shares.  The server issues tokens in order, and there   *)
(* is one answer under way at most, newer than what any account holds or   *)
(* any request sends: so no account gets a token older than its own.       *)
(* Therefore the account of the pool still has what a recovery led with it *)
(* was issued when those who joined come back and copy it.                 *)
(***************************************************************************)
Sends(r)  == r.at \in {"asked", "failed"}
Gains(r)  == r.outcome = "refreshed" /\ r.at \notin {"answered", "back", "done"}
Brings(r) == r.outcome = "refreshed" /\ r.at \in {"back", "done"}

Issuing ==
  /\ \A k \in Accts : acct[k].token <= server
  /\ \A p \in Procs : Sends(call[p]) => call[p].token <= server
  /\ \A p \in Procs : call[p].at = "answered" =>
       /\ call[p].issued = server
       /\ \A k \in Accts : acct[k].token < server
       /\ \A q \in Procs : Sends(call[q]) => call[q].token < server
       /\ \A q \in Procs : call[q].at = "answered" => q = p

\* Before the credential is replaced there is one account object.
Sharing ==
  /\ index = "first" => \A p \in Procs : call[p].acc = "first" /\ call[p].lead = "first"
  /\ \A p \in Procs : Gains(call[p]) /\ call[p].acc = index => acct[index].token >= call[p].issued
  /\ \A p \in Procs : Brings(call[p]) /\ call[p].lead = index =>
       /\ acct[index].token >= call[p].issued
       /\ call[p].at = "done" => acct[call[p].acc].token >= call[p].issued

\* Both survive a step of goroutine p to record r that moves no token, but may
\* set out to send one that an account holds.
LEMMA Plainly ==
  ASSUME TypeOK, Issuing, Sharing, NEW p \in Procs, NEW r \in Calls,
         call' = [call EXCEPT ![p] = r], server' = server,
         \A k \in Accts : acct'[k].token = acct[k].token,
         index' \in {index, NoAcct},
         r.at # "answered", ~Brings(r),
         \/ ~Sends(r)
         \/ Sends(call[p]) /\ r.token = call[p].token
         \/ r.token = acct[r.acc].token,
         r.acc = call[p].acc \/ r.acc \in {"first", index},
         r.lead \in {call[p].lead, "first"},
         Gains(r) => Gains(call[p]) /\ r.acc = call[p].acc /\ r.issued = call[p].issued
  PROVE  Issuing' /\ Sharing'
<1>1. \A q \in Procs : call'[q] = IF q = p THEN r ELSE call[q]
  BY DEF TypeOK
<1>2. \A q \in Procs : call[q].acc \in Accts /\ call[q].lead \in Accts
  BY DEF TypeOK, Calls
<1>3. r.acc \in Accts /\ NoAcct \notin Accts /\ "first" \in Accts
  BY DEF Calls, Accts, NoAcct
<1>4. \A q \in Procs : Sends(call'[q]) => \/ Sends(call[q]) /\ call'[q].token = call[q].token
                                          \/ \E k \in Accts : call'[q].token = acct[k].token
  BY <1>1, <1>3
<1>5. \A q \in Procs : call'[q].at = "answered" => call'[q] = call[q]
  BY <1>1
<1>6. Issuing'
  <2>1. \A k \in Accts : acct'[k].token <= server'
    BY DEF Issuing
  <2>2. \A q \in Procs : Sends(call'[q]) => call'[q].token <= server'
    BY <1>4 DEF Issuing
  <2>3. ASSUME NEW q \in Procs, call'[q].at = "answered"
        PROVE  /\ call'[q].issued = server'
               /\ \A k \in Accts : acct'[k].token < server'
               /\ \A o \in Procs : Sends(call'[o]) => call'[o].token < server'
               /\ \A o \in Procs : call'[o].at = "answered" => o = q
    <3>1. call[q].at = "answered" /\ call'[q].issued = call[q].issued
      BY <1>5, <2>3
    <3> QED BY <1>4, <1>5, <3>1 DEF Issuing
  <2> QED BY <2>1, <2>2, <2>3 DEF Issuing, Sends
<1>7. index' = "first" => \A q \in Procs : call'[q].acc = "first" /\ call'[q].lead = "first"
  BY <1>1, <1>3 DEF Sharing
<1>8. \A q \in Procs : Gains(call'[q]) =>
        Gains(call[q]) /\ call'[q].acc = call[q].acc /\ call'[q].issued = call[q].issued
  BY <1>1
<1>9. \A q \in Procs : Brings(call'[q]) => call'[q] = call[q]
  BY <1>1
<1>10. ASSUME NEW q \in Procs, Gains(call'[q]), call'[q].acc = index'
       PROVE  acct'[index'].token >= call'[q].issued
  BY <1>2, <1>3, <1>8, <1>10 DEF Sharing
<1>11. ASSUME NEW q \in Procs, Brings(call'[q]), call'[q].lead = index'
       PROVE  /\ acct'[index'].token >= call'[q].issued
              /\ call'[q].at = "done" => acct'[call'[q].acc].token >= call'[q].issued
  BY <1>2, <1>3, <1>9, <1>11 DEF Sharing
<1> QED BY <1>6, <1>7, <1>10, <1>11 DEF Sharing, Gains, Brings

\* The records that a goroutine moves to keep what they are about.
LEMMA AtAlike ==
  ASSUME NEW r \in Calls, NEW s \in Places
  PROVE  /\ At(r, s) \in Calls /\ At(r, s).at = s /\ At(r, s).acc = r.acc /\ At(r, s).lead = r.lead
         /\ At(r, s).token = r.token /\ At(r, s).issued = r.issued /\ At(r, s).outcome = r.outcome
BY DEF At, Calls

LEMMA AtWithAlike ==
  ASSUME NEW r \in Calls, NEW s \in Places, NEW o \in Outcomes
  PROVE  /\ AtWith(r, s, o) \in Calls /\ AtWith(r, s, o).at = s /\ AtWith(r, s, o).acc = r.acc
         /\ AtWith(r, s, o).lead = r.lead /\ AtWith(r, s, o).token = r.token
         /\ AtWith(r, s, o).issued = r.issued /\ AtWith(r, s, o).outcome = o
BY DEF AtWith, Calls

\* Going to place s leaves tokens alone, unless the goroutine sends or is
\* answered there.
LEMMA GotoShares ==
  ASSUME TypeOK, Issuing, Sharing, NEW p \in Procs, NEW s \in Places, Goto(p, s),
         s \notin {"answered", "back", "done"}, Sends(call[p]) \/ s \notin {"asked", "failed"},
         call[p].at \notin {"answered", "back", "done"}, server' = server,
         \A k \in Accts : acct'[k].token = acct[k].token, index' \in {index, NoAcct}
  PROVE  Issuing' /\ Sharing'
<1> DEFINE r == At(call[p], s)
<1>1. /\ r \in Calls /\ r.at = s /\ r.acc = call[p].acc /\ r.lead = call[p].lead
      /\ r.token = call[p].token /\ r.issued = call[p].issued /\ r.outcome = call[p].outcome
  BY AtAlike DEF TypeOK
<1>2. call' = [call EXCEPT ![p] = r]
  BY DEF Goto, At
<1> HIDE DEF r
<1>3. ~Brings(r) /\ (Sends(r) => Sends(call[p])) /\ (Gains(r) => Gains(call[p]))
  BY <1>1 DEF Brings, Sends, Gains
<1> QED BY <1>1, <1>2, <1>3, Plainly

LEMMA EndsShares ==
  ASSUME TypeOK, Issuing, Sharing, NEW p \in Procs, NEW s \in {"landing", "release"}, NEW o \in Outcomes,
         Ends(p, s, o), o = "refreshed" => call[p].outcome = "refreshed",
         call[p].at \notin {"answered", "back", "done"}, server' = server,
         \A k \in Accts : acct'[k].token = acct[k].token, index' \in {index, NoAcct}
  PROVE  Issuing' /\ Sharing'
<1> DEFINE r == AtWith(call[p], s, o)
<1>1. s \in Places
  BY DEF Places
<1>2. /\ r \in Calls /\ r.at = s /\ r.acc = call[p].acc /\ r.lead = call[p].lead
      /\ r.token = call[p].token /\ r.issued = call[p].issued /\ r.outcome = o
  BY <1>1, AtWithAlike DEF TypeOK
<1>3. call' = [call EXCEPT ![p] = r]
  BY DEF Ends, AtWith
<1> HIDE DEF r
<1>4. ~Brings(r) /\ ~Sends(r) /\ (Gains(r) => Gains(call[p]))
  BY <1>2 DEF Brings, Sends, Gains
<1> QED BY <1>2, <1>3, <1>4, Plainly

LEMMA IdleShares ==
  ASSUME TypeOK, Issuing, Sharing, NEW p \in Procs, call' = [call EXCEPT ![p] = Idle], server' = server,
         \A k \in Accts : acct'[k].token = acct[k].token, index' \in {index, NoAcct}
  PROVE  Issuing' /\ Sharing'
<1>1. Idle \in Calls
  BY IdleIsFit DEF Fit
<1>2. ~Brings(Idle) /\ ~Sends(Idle) /\ ~Gains(Idle) /\ Idle.at = "idle" /\ Idle.acc = "first" /\ Idle.lead = "first"
  BY DEF Idle, Brings, Sends, Gains
<1> QED BY <1>1, <1>2, Plainly

LEMMA BeginShares ==
  ASSUME Inv, Issuing, Sharing, NEW p \in Procs, NEW kind \in world.kinds, NEW k \in Accts, Begin(p, kind, k)
  PROVE  Issuing' /\ Sharing'
<1> DEFINE s == CASE kind = "recover" -> "join" [] kind = "quota" -> "claim" [] OTHER -> "race"
           r == [Idle EXCEPT !.kind = kind, !.acc = k, !.at = s]
<1>1. call' = [call EXCEPT ![p] = r] /\ UNCHANGED << server, acct, index >>
  BY DEF Begin
<1>2. kind \in Kinds /\ TypeOK
  BY RefreshAssumption DEF Inv, TypeOK
<1>3. s \in {"join", "claim", "race"}
  OBVIOUS
<1> HIDE DEF s
<1>4. /\ r \in Calls /\ r.acc = k /\ r.at = s /\ r.lead = "first" /\ r.outcome = "none"
  <2>1. Idle \in Calls /\ Idle.lead = "first" /\ Idle.outcome = "none" /\ s \in Places
    BY <1>3, IdleIsFit DEF Fit, Places, Idle
  <2> QED BY <1>2, <2>1 DEF Calls
<1> HIDE DEF r
<1>5. ~Brings(r) /\ ~Sends(r) /\ ~Gains(r) /\ r.at # "answered"
  BY <1>3, <1>4 DEF Brings, Sends, Gains
<1>6. k \in {"first", index}
  BY <1>2 DEF Begin, Kinds
<1> QED BY <1>1, <1>2, <1>4, <1>5, <1>6, Plainly

LEMMA JoinShares ==
  ASSUME Inv, Issuing, Sharing, NEW p \in Procs, Join(p)
  PROVE  Issuing' /\ Sharing'
<1>1. TypeOK /\ {"race", "landing", "joined"} \subseteq Places /\ "busy" \in Outcomes
  BY DEF Inv, Places, Outcomes
<1>2. call[p].at = "join" /\ UNCHANGED << server, acct, index >>
  BY DEF Join
<1>3. Goto(p, "race") \/ Goto(p, "joined") \/ Ends(p, "landing", "busy")
  BY DEF Join, Lead
<1> QED BY <1>1, <1>2, <1>3, GotoShares, EndsShares

LEMMA RaceShares ==
  ASSUME Inv, Issuing, Sharing, NEW p \in Procs, Race(p)
  PROVE  Issuing' /\ Sharing'
<1>1. TypeOK /\ {"claim", "wait"} \subseteq Places
  BY DEF Inv, Places
<1>2. call[p].at = "race" /\ UNCHANGED << server, acct, index >>
  BY DEF Race
<1>3. Goto(p, "claim") \/ Goto(p, "wait") \/ call' = [call EXCEPT ![p] = Idle]
  BY DEF Race
<1> QED BY <1>1, <1>2, <1>3, GotoShares, IdleShares

LEMMA WaitShares ==
  ASSUME Inv, Issuing, Sharing, NEW p \in Procs, Wait(p)
  PROVE  Issuing' /\ Sharing'
<1>1. TypeOK /\ {"busy", "waited"} \subseteq Outcomes
  BY DEF Inv, Outcomes
<1>2. call[p].at = "wait" /\ UNCHANGED << server, acct, index >>
  BY DEF Wait
<1>3. Ends(p, "landing", "busy") \/ Ends(p, "landing", "waited") \/ call' = [call EXCEPT ![p] = Idle]
  BY DEF Wait
<1> QED BY <1>1, <1>2, <1>3, EndsShares, IdleShares

LEMMA ClaimShares ==
  ASSUME Inv, Issuing, Sharing, NEW p \in Procs, Claim(p)
  PROVE  Issuing' /\ Sharing'
<1>1. call[p] \in Calls /\ TypeOK /\ "busy" \in Outcomes
  BY Given DEF Inv, Outcomes
<1>2. call[p].at = "claim" /\ UNCHANGED << server, acct, index >>
  BY DEF Claim
<1>3. CASE Ends(p, "release", "busy")
  BY <1>1, <1>2, <1>3, EndsShares
<1>4. CASE \E n \in 0..Retries :
             call' = [call EXCEPT ![p].at = "asked", ![p].token = acct[call[p].acc].token, ![p].tries = n]
  <2>1. PICK n \in 0..Retries :
             call' = [call EXCEPT ![p].at = "asked", ![p].token = acct[call[p].acc].token, ![p].tries = n]
    BY <1>4
  <2> DEFINE t == acct[call[p].acc].token
             r == [[At(call[p], "asked") EXCEPT !.token = t] EXCEPT !.tries = n]
  <2>2. t \in 0..MaxToken /\ "asked" \in Places
    BY <1>1 DEF TypeOK, Calls, Places
  <2>3. call' = [call EXCEPT ![p] = r]
    BY <2>1 DEF At
  <2>4. t = acct[call[p].acc].token
    OBVIOUS
  <2> HIDE DEF t
  <2>5. /\ r \in Calls /\ r.at = "asked" /\ r.acc = call[p].acc /\ r.lead = call[p].lead
        /\ r.token = t /\ r.issued = call[p].issued /\ r.outcome = call[p].outcome
    <3> DEFINE a == At(call[p], "asked")
    <3>1. /\ a \in Calls /\ a.at = "asked" /\ a.acc = call[p].acc /\ a.lead = call[p].lead
          /\ a.issued = call[p].issued /\ a.outcome = call[p].outcome
      BY <1>1, <2>2, AtAlike
    <3> HIDE DEF a
    <3>2. r = [[a EXCEPT !.token = t] EXCEPT !.tries = n]
      BY DEF a
    <3> QED BY <2>2, <3>1, <3>2 DEF Calls
  <2> HIDE DEF r
  <2>6. ~Brings(r) /\ (Gains(r) => Gains(call[p])) /\ r.token = acct[r.acc].token
    BY <1>2, <2>4, <2>5 DEF Brings, Gains
  <2> QED BY <1>1, <1>2, <2>3, <2>5, <2>6, Plainly
<1>5. 1 \in 0..Retries /\ Retries \in 0..Retries
  BY RefreshAssumption
<1> QED BY <1>3, <1>4, <1>5 DEF Claim

\* The server issues a token newer than every other: a second answer would be
\* to a request with the token the first one spent.
LEMMA ServeShares ==
  ASSUME Inv, Issuing, Sharing, NEW p \in Procs, Serve(p)
  PROVE  Issuing' /\ Sharing'
<1>1. call[p] \in Calls /\ TypeOK /\ {"answered", "failed", "dead"} \subseteq Places
  BY Given DEF Inv, Places
<1>2. call[p].at = "asked" /\ UNCHANGED << acct, index >>
  BY DEF Serve
<1>3. CASE UNCHANGED server /\ (Goto(p, "dead") \/ Goto(p, "failed"))
  <2>1. Sends(call[p])
    BY <1>2 DEF Sends
  <2> QED BY <1>1, <1>2, <1>3, <2>1, GotoShares
<1>4. ASSUME NEW r \in Calls, call' = [call EXCEPT ![p] = r],
             call[p].token = server, server < MaxToken, server' = server + 1,
             r.acc = call[p].acc, r.lead = call[p].lead,
             \/ r.at = "answered" /\ r.issued = server + 1
             \/ r.at = "failed" /\ r.token = server /\ r.issued = call[p].issued /\ r.outcome = call[p].outcome
      PROVE  Issuing' /\ Sharing'
  <2>1. \A q \in Procs : call'[q] = IF q = p THEN r ELSE call[q]
    BY <1>1, <1>4 DEF TypeOK
  <2>2. server \in Nat /\ (\A k \in Accts : acct[k].token \in Nat) /\ (\A q \in Procs : call[q].token \in Nat)
    BY <1>1, RefreshAssumption DEF TypeOK, Calls
  <2>3. \A q \in Procs : call[q].at # "answered"
    <3>1. Sends(call[p])
      BY <1>2 DEF Sends
    <3> QED BY <1>4, <2>2, <3>1 DEF Issuing
  <2>4. /\ \A k \in Accts : acct'[k].token < server'
        /\ \A q \in Procs : Sends(call'[q]) => call'[q].token < server'
    <3>1. \A k \in Accts : acct[k].token < server + 1
      BY <2>2 DEF Issuing
    <3>2. \A q \in Procs : Sends(call[q]) => call[q].token < server + 1
      BY <2>2 DEF Issuing
    <3>3. Sends(r) => r.token < server + 1
      BY <1>4, <2>2 DEF Sends
    <3> QED BY <1>2, <1>4, <2>1, <3>1, <3>2, <3>3
  <2>5. \A q \in Procs : call'[q].at = "answered" => q = p /\ call'[q].issued = server'
    BY <1>4, <2>1, <2>3
  <2>6. Issuing'
    <3>1. \A k \in Accts : acct'[k].token <= server'
      BY <1>2, <1>4, <2>2, <2>4
    <3>2. \A q \in Procs : Sends(call'[q]) => call'[q].token <= server'
      <4>1. \A q \in Procs : call'[q].token \in Nat
        BY <2>1, <2>2, <1>4, RefreshAssumption DEF Calls
      <4> QED BY <2>2, <2>4, <1>4, <4>1
    <3> QED BY <2>4, <2>5, <3>1, <3>2 DEF Issuing, Sends
  <2>7. /\ ~Brings(r)
        /\ Gains(r) => Gains(call[p]) /\ r.issued = call[p].issued
    BY <1>2, <1>4 DEF Brings, Gains
  <2>8. \A q \in Procs : Gains(call'[q]) => Gains(call[q]) /\ call'[q].issued = call[q].issued
    BY <2>1, <2>7
  <2>9. \A q \in Procs : Brings(call'[q]) => call'[q] = call[q]
    BY <2>1, <2>7
  <2>10. \A q \in Procs : call'[q].acc = call[q].acc /\ call'[q].lead = call[q].lead
    BY <1>4, <2>1
  <2>11. Sharing'
    <3>1. index' = "first" => \A q \in Procs : call'[q].acc = "first" /\ call'[q].lead = "first"
      BY <1>2, <2>10 DEF Sharing
    <3>2. \A q \in Procs : Gains(call'[q]) /\ call'[q].acc = index' => acct'[index'].token >= call'[q].issued
      BY <1>2, <2>8, <2>10 DEF Sharing
    <3>3. \A q \in Procs : Brings(call'[q]) /\ call'[q].lead = index' =>
            /\ acct'[index'].token >= call'[q].issued
            /\ call'[q].at = "done" => acct'[call'[q].acc].token >= call'[q].issued
      BY <1>2, <2>9 DEF Sharing
    <3> QED BY <3>1, <3>2, <3>3 DEF Sharing, Gains, Brings
  <2> QED BY <2>6, <2>11
<1>5. CASE /\ call[p].token = server /\ server < MaxToken /\ server' = server + 1
           /\ call' = [call EXCEPT ![p].at = "answered", ![p].issued = server + 1]
  <2> DEFINE r == [At(call[p], "answered") EXCEPT !.issued = server + 1]
  <2>1. call' = [call EXCEPT ![p] = r]
    BY <1>5 DEF At
  <2>2. r \in Calls /\ r.at = "answered" /\ r.issued = server + 1 /\ r.acc = call[p].acc /\ r.lead = call[p].lead
    <3> DEFINE a == At(call[p], "answered")
    <3>1. a \in Calls /\ a.at = "answered" /\ a.acc = call[p].acc /\ a.lead = call[p].lead
      BY <1>1, AtAlike
    <3>2. server + 1 \in 0..MaxToken
      BY <1>1, <1>5, RefreshAssumption DEF TypeOK
    <3> HIDE DEF a
    <3>3. r = [a EXCEPT !.issued = server + 1]
      BY DEF a
    <3> QED BY <3>1, <3>2, <3>3 DEF Calls
  <2> HIDE DEF r
  <2> QED BY <1>4, <1>5, <2>1, <2>2
<1>6. CASE call[p].token = server /\ server < MaxToken /\ server' = server + 1 /\ Goto(p, "failed")
  <2> DEFINE r == At(call[p], "failed")
  <2>1. call' = [call EXCEPT ![p] = r]
    BY <1>6 DEF Goto, At
  <2>2. /\ r \in Calls /\ r.at = "failed" /\ r.acc = call[p].acc /\ r.lead = call[p].lead
        /\ r.token = call[p].token /\ r.issued = call[p].issued /\ r.outcome = call[p].outcome
    BY <1>1, AtAlike
  <2> HIDE DEF r
  <2> QED BY <1>4, <1>6, <2>1, <2>2
<1> QED BY <1>3, <1>5, <1>6 DEF Serve

LEMMA FailedShares ==
  ASSUME Inv, Issuing, Sharing, NEW p \in Procs, Failed(p)
  PROVE  Issuing' /\ Sharing'
<1>1. call[p] \in Calls /\ TypeOK /\ {"asked", "refused"} \subseteq Places
  BY Given DEF Inv, Places
<1>2. call[p].at = "failed" /\ UNCHANGED << server, acct, index >> /\ Sends(call[p])
  BY DEF Failed, Sends
<1>3. CASE Goto(p, "refused")
  BY <1>1, <1>2, <1>3, GotoShares
<1>4. CASE call[p].tries > 1 /\ call' = [call EXCEPT ![p].at = "asked", ![p].tries = @ - 1]
  <2> DEFINE n == call[p].tries - 1
             a == At(call[p], "asked")
             r == [a EXCEPT !.tries = n]
  <2>1. n \in 0..Retries
    BY <1>1, <1>4, RefreshAssumption DEF Calls
  <2>2. call' = [call EXCEPT ![p] = r]
    BY <1>4 DEF At
  <2> HIDE DEF n
  <2>3. /\ a \in Calls /\ a.at = "asked" /\ a.acc = call[p].acc /\ a.lead = call[p].lead
        /\ a.token = call[p].token /\ a.issued = call[p].issued /\ a.outcome = call[p].outcome
    BY <1>1, AtAlike
  <2> HIDE DEF a
  <2>4. /\ r \in Calls /\ r.at = "asked" /\ r.acc = call[p].acc /\ r.lead = call[p].lead
        /\ r.token = call[p].token /\ r.issued = call[p].issued /\ r.outcome = call[p].outcome
    BY <2>1, <2>3 DEF Calls
  <2> HIDE DEF r
  <2>5. ~Brings(r) /\ (Gains(r) => Gains(call[p]))
    BY <1>2, <2>4 DEF Brings, Gains
  <2> QED BY <1>1, <1>2, <2>2, <2>4, <2>5, Plainly
<1> QED BY <1>3, <1>4 DEF Failed

\* Fails and Again move no token.
LEMMA FailsShares ==
  ASSUME TypeOK, Issuing, Sharing, NEW p \in Procs, Fails(p), call[p].at \in {"refused", "dead"},
         server' = server, \A k \in Accts : acct'[k].token = acct[k].token, index' \in {index, NoAcct}
  PROVE  Issuing' /\ Sharing'
<1> DEFINE o == IF call[p].outcome = "refreshed" THEN "refreshed" ELSE "lost"
<1>1. Ends(p, "release", o) /\ o \in Outcomes /\ (o = "refreshed" => call[p].outcome = "refreshed")
  BY DEF Fails, Outcomes
<1> HIDE DEF o
<1> QED BY <1>1, EndsShares

LEMMA AgainShares ==
  ASSUME TypeOK, Issuing, Sharing, NEW p \in Procs, NEW round \in Rounds, Again(p, round),
         call[p].at \in {"refused", "granted"}, UNCHANGED << server, acct, index >>
  PROVE  Issuing' /\ Sharing'
<1> DEFINE a == At(call[p], "claim")
           r == [a EXCEPT !.again = round]
<1>1. call' = [call EXCEPT ![p] = r]
  BY DEF Again, At
<1>2. /\ a \in Calls /\ a.at = "claim" /\ a.acc = call[p].acc /\ a.lead = call[p].lead
      /\ a.issued = call[p].issued /\ a.outcome = call[p].outcome
  <2>1. call[p] \in Calls /\ "claim" \in Places
    BY DEF TypeOK, Places
  <2> QED BY <2>1, AtAlike
<1> HIDE DEF a
<1>3. /\ r \in Calls /\ r.at = "claim" /\ r.acc = call[p].acc /\ r.lead = call[p].lead
      /\ r.issued = call[p].issued /\ r.outcome = call[p].outcome
  BY <1>2 DEF Calls
<1> HIDE DEF r
<1>4. ~Brings(r) /\ ~Sends(r) /\ (Gains(r) => Gains(call[p]))
  BY <1>3 DEF Brings, Sends, Gains
<1> QED BY <1>1, <1>3, <1>4, Plainly

LEMMA RefusedShares ==
  ASSUME Inv, Issuing, Sharing, NEW p \in Procs, Refused(p)
  PROVE  Issuing' /\ Sharing'
<1>1. TypeOK /\ "policy" \in Rounds
  BY DEF Inv, Rounds
<1>2. /\ call[p].at = "refused" /\ UNCHANGED << server, acct >>
      /\ \/ Fails(p) /\ index' \in {index, NoAcct}
         \/ Again(p, "policy") /\ index' = index
  BY DEF Refused
<1> QED BY <1>1, <1>2, FailsShares, AgainShares

LEMMA DeadShares ==
  ASSUME Inv, Issuing, Sharing, NEW p \in Procs, Dead(p)
  PROVE  Issuing' /\ Sharing'
<1>1. TypeOK /\ call[p].at = "dead" /\ Fails(p) /\ server' = server
  BY DEF Inv, Dead
<1>2. index' \in {index, NoAcct} /\ \A k \in Accts : acct'[k].token = acct[k].token
  BY <1>1 DEF Dead, TypeOK
<1> QED BY <1>1, <1>2, FailsShares

\* What is answered is newer than what any account holds.
LEMMA UpdateShares ==
  ASSUME Inv, Issuing, Sharing, NEW p \in Procs, Update(p)
  PROVE  Issuing' /\ Sharing'
<1> DEFINE k == call[p].acc
           r == AtWith(call[p], "granted", "refreshed")
<1>1. call[p] \in Calls /\ TypeOK /\ "granted" \in Places /\ "refreshed" \in Outcomes
  BY Given DEF Inv, Places, Outcomes
<1>2. /\ call[p].at = "answered" /\ UNCHANGED << server, index >>
      /\ acct' = [acct EXCEPT ![k] = [token |-> call[p].issued, disabled |-> FALSE]]
      /\ call' = [call EXCEPT ![p] = r]
  BY DEF Update, Ends, AtWith
<1>3. /\ r \in Calls /\ r.at = "granted" /\ r.acc = call[p].acc /\ r.lead = call[p].lead
      /\ r.issued = call[p].issued
  BY <1>1, AtWithAlike
<1> HIDE DEF r
<1>4. k \in Accts /\ NoAcct \notin Accts /\ call[p].issued = server
  BY <1>1, <1>2 DEF Calls, Accts, NoAcct, Issuing
<1>5. \A j \in Accts : acct'[j].token = IF j = k THEN server ELSE acct[j].token
  BY <1>1, <1>2, <1>4 DEF TypeOK
<1>6. \A q \in Procs : call'[q] = IF q = p THEN r ELSE call[q]
  BY <1>1, <1>2 DEF TypeOK
<1>7. server \in Nat /\ \A j \in Accts : acct[j].token \in Nat /\ acct[j].token <= server
  BY <1>1, RefreshAssumption DEF TypeOK, Issuing
<1>8. \A j \in Accts : acct'[j].token >= acct[j].token /\ acct'[j].token <= server
  BY <1>5, <1>7
<1>9. \A q \in Procs : call'[q].at # "answered" /\ (Sends(call'[q]) => Sends(call[q]) /\ call'[q].token = call[q].token)
  BY <1>2, <1>3, <1>6 DEF Issuing, Sends
<1>10. Issuing'
  BY <1>2, <1>8, <1>9 DEF Issuing, Sends
<1>11. \A q \in Procs : call'[q].acc = call[q].acc /\ call'[q].lead = call[q].lead /\ call'[q].issued = call[q].issued
  BY <1>3, <1>6
<1>12. \A q \in Procs : call[q].issued \in Nat /\ call[q].acc \in Accts
  BY <1>1, RefreshAssumption DEF TypeOK, Calls
<1>13. ASSUME NEW q \in Procs, Gains(call'[q]), call'[q].acc = index'
       PROVE  acct'[index'].token >= call'[q].issued
  <2>1. CASE q = p
    BY <1>2, <1>3, <1>4, <1>5, <1>6, <1>7, <1>13, <2>1
  <2>2. CASE q # p
    <3>1. Gains(call[q]) /\ index = call[q].acc /\ acct[index].token >= call[q].issued
      BY <1>2, <1>6, <1>13, <2>2 DEF Sharing
    <3> QED BY <1>2, <1>5, <1>7, <1>8, <1>11, <1>12, <3>1
  <2> QED BY <2>1, <2>2
<1>14. ASSUME NEW q \in Procs, Brings(call'[q]), call'[q].lead = index'
       PROVE  /\ acct'[index'].token >= call'[q].issued
              /\ call'[q].at = "done" => acct'[call'[q].acc].token >= call'[q].issued
  <2>1. q # p
    BY <1>3, <1>6, <1>14 DEF Brings
  <2>2. call'[q] = call[q] /\ Brings(call[q]) /\ call[q].lead = index
    BY <1>2, <1>6, <1>14, <2>1
  <2>3. index \in Accts
    BY <1>1, <2>2 DEF TypeOK, Calls
  <2>4. /\ acct[index].token >= call[q].issued
        /\ call[q].at = "done" => acct[call[q].acc].token >= call[q].issued
    BY <2>2 DEF Sharing
  <2> QED BY <1>2, <1>5, <1>7, <1>8, <1>12, <2>2, <2>3, <2>4
<1>15. index' = "first" => \A q \in Procs : call'[q].acc = "first" /\ call'[q].lead = "first"
  BY <1>2, <1>11 DEF Sharing
<1> QED BY <1>10, <1>13, <1>14, <1>15 DEF Sharing, Gains, Brings

LEMMA GrantedShares ==
  ASSUME Inv, Issuing, Sharing, NEW p \in Procs, Granted(p)
  PROVE  Issuing' /\ Sharing'
<1>1. TypeOK /\ "release" \in Places /\ "lost" \in Outcomes /\ "check" \in Rounds
  BY DEF Inv, Places, Outcomes, Rounds
<1>2. /\ call[p].at = "granted" /\ UNCHANGED << server, acct >>
      /\ \/ index' \in {index, NoAcct} /\ (Goto(p, "release") \/ Ends(p, "release", "lost"))
         \/ index' = index /\ Again(p, "check")
  BY DEF Granted
<1> QED BY <1>1, <1>2, GotoShares, EndsShares, AgainShares

LEMMA ReleaseShares ==
  ASSUME Inv, Issuing, Sharing, NEW p \in Procs, Release(p)
  PROVE  Issuing' /\ Sharing'
<1>1. TypeOK /\ "landing" \in Places
  BY DEF Inv, Places
<1>2. /\ call[p].at = "release" /\ UNCHANGED << server, acct, index >>
      /\ Goto(p, "landing") \/ call' = [call EXCEPT ![p] = Idle]
  BY DEF Release
<1> QED BY <1>1, <1>2, GotoShares, IdleShares

\* Who joined has what the leader was issued, and the leader's account.
LEMMA LandShares ==
  ASSUME Inv, Issuing, Sharing, NEW p \in Procs, Land(p)
  PROVE  Issuing' /\ Sharing'
<1> DEFINE R(q) == [Idle EXCEPT !.at = "back", !.kind = "recover", !.acc = call[q].acc, !.lead = call[p].acc,
                                !.issued = call[p].issued, !.outcome = call[p].outcome]
           lands(q) == q = p \/ call[q].at = "joined"
<1>1. TypeOK /\ call[p].at = "landing" /\ UNCHANGED << server, acct, index >>
  BY DEF Inv, Land
<1>2. \A q \in Procs : call'[q] = IF lands(q) THEN R(q) ELSE call[q]
  BY DEF Land
<1>3. \A q \in Procs : /\ R(q).at = "back" /\ R(q).acc = call[q].acc /\ R(q).lead = call[p].acc
                       /\ R(q).issued = call[p].issued /\ R(q).outcome = call[p].outcome
  BY DEF Idle
<1> HIDE DEF R
<1>4. \A q \in Procs : ~Sends(R(q)) /\ ~Gains(R(q))
  BY <1>3 DEF Sends, Gains
<1>5. \A q \in Procs : \/ call'[q] = call[q]
                       \/ /\ ~Sends(call'[q]) /\ ~Gains(call'[q]) /\ call'[q].at = "back" /\ call'[q].acc = call[q].acc
                          /\ call'[q].lead = call[p].acc /\ call'[q].issued = call[p].issued
                          /\ call'[q].outcome = call[p].outcome
  BY <1>2, <1>3, <1>4
<1> HIDE DEF lands
<1>6. Issuing'
  <2>1. \A q \in Procs : Sends(call'[q]) => Sends(call[q]) /\ call'[q].token = call[q].token
    BY <1>5
  <2>2. \A q \in Procs : call'[q].at = "answered" => call[q].at = "answered" /\ call'[q].issued = call[q].issued
    BY <1>5
  <2> QED BY <1>1, <2>1, <2>2 DEF Issuing, Sends
<1>7. index' = "first" => \A q \in Procs : call'[q].acc = "first" /\ call'[q].lead = "first"
  BY <1>1, <1>5 DEF Sharing
<1>8. \A q \in Procs : Gains(call'[q]) /\ call'[q].acc = index' => acct'[index'].token >= call'[q].issued
  BY <1>1, <1>5 DEF Sharing
<1>9. ASSUME NEW q \in Procs, Brings(call'[q]), call'[q].lead = index'
      PROVE  /\ acct'[index'].token >= call'[q].issued
             /\ call'[q].at = "done" => acct'[call'[q].acc].token >= call'[q].issued
  <2>1. CASE call'[q] = call[q]
    BY <1>1, <1>9, <2>1 DEF Sharing
  <2>2. CASE /\ call'[q].at = "back" /\ call'[q].lead = call[p].acc
             /\ call'[q].issued = call[p].issued /\ call'[q].outcome = call[p].outcome
    <3>1. Gains(call[p])
      BY <1>1, <1>9, <2>2 DEF Gains, Brings
    <3> QED BY <1>1, <1>9, <2>2, <3>1 DEF Sharing
  <2> QED BY <1>5, <2>1, <2>2
<1> QED BY <1>6, <1>7, <1>8, <1>9 DEF Sharing, Gains, Brings

\* Who comes back copies the token of the pool's account, and it is the newest
\* of what was shared.
LEMMA BackShares ==
  ASSUME Inv, Issuing, Sharing, NEW p \in Procs, Back(p)
  PROVE  Issuing' /\ Sharing'
<1> DEFINE k == call[p].acc
           r == At(call[p], "done")
           copies == call[p].outcome \in {"refreshed", "waited"} /\ index \notin {NoAcct, k}
<1>1. call[p] \in Calls /\ TypeOK /\ "done" \in Places
  BY Given DEF Inv, Places
<1>2. call[p].at = "back" /\ UNCHANGED << server, index >> /\ call' = [call EXCEPT ![p] = r]
  BY DEF Back, Goto, At
<1>3. /\ r.at = "done" /\ r.acc = k /\ r.lead = call[p].lead
      /\ r.issued = call[p].issued /\ r.outcome = call[p].outcome
  BY <1>1, AtAlike
<1> HIDE DEF r
<1>4. k \in Accts /\ NoAcct \notin Accts /\ index \in Accts \cup {NoAcct}
  BY <1>1 DEF Calls, TypeOK, Accts, NoAcct
<1>5. \A j \in Accts : acct'[j].token = IF copies /\ j = k THEN acct[index].token ELSE acct[j].token
  BY <1>1, <1>4 DEF Back, TypeOK
<1>6. \A q \in Procs : call'[q] = IF q = p THEN r ELSE call[q]
  BY <1>1, <1>2 DEF TypeOK
<1>7. \A q \in Procs : /\ call'[q].acc = call[q].acc /\ call'[q].lead = call[q].lead
                       /\ call'[q].issued = call[q].issued /\ call'[q].outcome = call[q].outcome
                       /\ call'[q].at = IF q = p THEN "done" ELSE call[q].at
                       /\ call'[q].token = call[q].token \/ ~Sends(call'[q])
  BY <1>3, <1>6 DEF Sends
<1>8. copies => index \in Accts /\ index # k /\ acct'[index].token = acct[index].token
  BY <1>4, <1>5
<1>9. Issuing'
  <2>1. \A j \in Accts : \E i \in Accts : acct'[j].token = acct[i].token
    BY <1>5, <1>8
  <2>2. \A q \in Procs : /\ Sends(call'[q]) => Sends(call[q]) /\ call'[q].token = call[q].token
                         /\ call'[q].at = "answered" => call[q].at = "answered" /\ call'[q].issued = call[q].issued
    BY <1>7 DEF Sends
  <2> QED BY <1>2, <2>1, <2>2 DEF Issuing, Sends
<1>10. index' = "first" => \A q \in Procs : call'[q].acc = "first" /\ call'[q].lead = "first"
  BY <1>2, <1>7 DEF Sharing
<1>11. index \in Accts => acct'[index].token = acct[index].token
  BY <1>5, <1>8
<1>12. ASSUME NEW q \in Procs, Gains(call'[q]), call'[q].acc = index'
       PROVE  acct'[index'].token >= call'[q].issued
  <2>1. Gains(call[q]) /\ call[q].acc = index /\ index \in Accts
    BY <1>1, <1>2, <1>4, <1>7, <1>12 DEF Gains, TypeOK, Calls
  <2> QED BY <1>2, <1>7, <1>11, <2>1 DEF Sharing
<1>13. ASSUME NEW q \in Procs, Brings(call'[q]), call'[q].lead = index'
       PROVE  /\ acct'[index'].token >= call'[q].issued
              /\ call'[q].at = "done" => acct'[call'[q].acc].token >= call'[q].issued
  <2>1. Brings(call[q]) /\ call[q].lead = index /\ index \in Accts /\ call[q].acc \in Accts
    BY <1>1, <1>2, <1>4, <1>7, <1>13 DEF Brings, TypeOK, Calls
  <2>2. acct[index].token >= call[q].issued /\ (call[q].at = "done" => acct[call[q].acc].token >= call[q].issued)
    BY <2>1 DEF Sharing
  <2>3. call'[q].at = "done" => acct'[call'[q].acc].token >= call'[q].issued
    <3>1. CASE q = p
      <4>1. copies \/ index = k
        BY <1>4, <2>1, <3>1, <1>2 DEF Brings
      <4> QED BY <1>5, <1>7, <2>1, <2>2, <3>1, <4>1
    <3>2. CASE q # p
      BY <1>5, <1>7, <2>1, <2>2, <3>2
    <3> QED BY <3>1, <3>2
  <2> QED BY <1>2, <1>7, <1>11, <2>1, <2>2, <2>3
<1> QED BY <1>9, <1>10, <1>12, <1>13 DEF Sharing, Gains, Brings

LEMMA DoneShares ==
  ASSUME Inv, Issuing, Sharing, NEW p \in Procs, Done(p)
  PROVE  Issuing' /\ Sharing'
BY IdleShares DEF Done, Inv

\* The new object starts with the token of the old one, and nobody has recovered
\* with it.
LEMMA ReplaceShares ==
  ASSUME Inv, Issuing, Sharing, Replace
  PROVE  Issuing' /\ Sharing'
<1>1. /\ UNCHANGED << server, call >> /\ index = "first" /\ index' = "restored"
      /\ \A k \in Accts : acct'[k].token = acct["first"].token
  BY DEF Replace, Inv, TypeOK, Accts
<1>2. "first" \in Accts
  BY DEF Accts
<1>3. Issuing'
  BY <1>1, <1>2 DEF Issuing, Sends
<1>4. Sharing'
  BY <1>1 DEF Sharing
<1> QED BY <1>3, <1>4

LEMMA StutterShares ==
  ASSUME Issuing, Sharing, UNCHANGED vars
  PROVE  Issuing' /\ Sharing'
BY DEF vars, Issuing, Sharing, Sends, Gains, Brings

-----------------------------------------------------------------------------
LEMMA InitHolds == Init => Inv
<1> SUFFICES ASSUME Init PROVE Inv
  OBVIOUS
<1>1. Idle \in Calls
  BY IdleIsFit DEF Fit
<1>2. TypeOK
  BY <1>1, RefreshAssumption DEF Init, TypeOK, Accts
<1>3. CalmInv
  BY IdleIsFit DEF Init, CalmInv, Accts
<1> QED BY <1>2, <1>3, IdleIsFit DEF Inv, Init

LEMMA NextKeeps == Inv /\ [Next]_vars => Inv'
<1> SUFFICES ASSUME Inv, [Next]_vars PROVE Inv'
  OBVIOUS
<1>1. ASSUME NEW p \in Procs, NEW kind \in world.kinds, NEW k \in Accts, Begin(p, kind, k) PROVE Inv'
  BY <1>1, BeginKeeps
<1>2. ASSUME NEW p \in Procs, Proceed(p) PROVE Inv'
  BY <1>2, JoinKeeps, RaceKeeps, WaitKeeps, ClaimKeeps, ServeKeeps, FailedKeeps, RefusedKeeps, DeadKeeps,
     UpdateKeeps, GrantedKeeps, ReleaseKeeps, LandKeeps, BackKeeps, DoneKeeps DEF Proceed
<1>3. CASE \E k \in Accts : Skip(k)
  BY <1>3, StutterKeeps DEF Skip
<1> QED BY <1>1, <1>2, <1>3, ReplaceKeeps, StutterKeeps DEF Next

\* Who holds the flag of an account, and who leads the recovery, is one
\* goroutine each, and the account is in step with the server when nobody
\* refreshes (manager.go:245-293, 2588-2615, 2734-2890, 3094-3141).
THEOREM InvHolds == Spec => []Inv
BY InitHolds, NextKeeps, PTL DEF Spec

\* The variables of the refresh keep their types.
THEOREM TypeCorrect == Spec => []TypeOK
<1>1. Inv => TypeOK
  BY DEF Inv
<1> QED BY <1>1, InvHolds, PTL

\* Recoveries of one credential never run side by side (manager.go:104).
THEOREM RecoveriesShareAFlight == Spec => []OneRecovery
<1>1. Inv => OneRecovery
  BY DEF Inv, OneRecovery, InFlight, Leads
<1> QED BY <1>1, InvHolds, PTL

\* Every refresh token that is sent is the one the server accepts, as long as
\* only calls that take the flag refresh, no answer is lost and no credential is
\* replaced (manager.go:2593).
THEOREM TokensSpentOnce == Spec => []SpendsLive
<1>1. Inv => SpendsLive
  BY DEF Inv, SpendsLive, Calm, CalmInv, InStep
<1> QED BY <1>1, InvHolds, PTL

LEMMA InitShares == Init => Issuing /\ Sharing
<1> SUFFICES ASSUME Init PROVE Issuing /\ Sharing
  OBVIOUS
<1>1. /\ server = 0 /\ \A k \in Accts : acct[k].token = 0
      /\ index = "first" /\ \A p \in Procs : call[p] = Idle
  BY DEF Init
<1>2. Idle.at = "idle" /\ Idle.acc = "first" /\ Idle.lead = "first" /\ Idle.outcome = "none"
  BY DEF Idle
<1> QED BY <1>1, <1>2 DEF Issuing, Sharing, Sends, Gains, Brings

LEMMA NextShares == Inv /\ Issuing /\ Sharing /\ [Next]_vars => Issuing' /\ Sharing'
<1> SUFFICES ASSUME Inv, Issuing, Sharing, [Next]_vars PROVE Issuing' /\ Sharing'
  OBVIOUS
<1>1. ASSUME NEW p \in Procs, NEW kind \in world.kinds, NEW k \in Accts, Begin(p, kind, k)
      PROVE  Issuing' /\ Sharing'
  BY <1>1, BeginShares
<1>2. ASSUME NEW p \in Procs, Proceed(p) PROVE Issuing' /\ Sharing'
  BY <1>2, JoinShares, RaceShares, WaitShares, ClaimShares, ServeShares, FailedShares, RefusedShares,
     DeadShares, UpdateShares, GrantedShares, ReleaseShares, LandShares, BackShares, DoneShares DEF Proceed
<1>3. CASE \E k \in Accts : Skip(k)
  BY <1>3, StutterShares DEF Skip
<1> QED BY <1>1, <1>2, <1>3, ReplaceShares, StutterShares DEF Next

\* One answer is under way at most, and what the server issued last is newer than
\* what any account holds or any request sends (refresh.go:124-176).
THEOREM SharesHold == Spec => [](Issuing /\ Sharing)
BY InvHolds, InitShares, NextShares, PTL DEF Spec

\* A recovery led with the account of the pool gives its token to all who joined
\* it, whatever account objects they hold (manager.go:2752, 2761-2774).
THEOREM RecoveryIsShared == Spec => []FlightShared
<1>1. Inv /\ Issuing /\ Sharing => FlightShared
  BY DEF Sharing, FlightShared, Recovered, Brings
<1> QED BY <1>1, InvHolds, SharesHold, PTL

\* What the pool's account holds is never overwritten with an older token: an
\* answer is newer than it, and who comes back from a recovery copies from it
\* (manager.go:2774, 2841).
THEOREM PoolKeepsNewest == Spec => PoolNeverOlder
<1>1. ASSUME Inv, Inv', Issuing, [Next]_vars PROVE [NeverOlder]_vars
  <2>1. TypeOK /\ TypeOK' /\ NoAcct \notin Accts
    BY <1>1 DEF Inv, Accts, NoAcct
  <2>2. \A k \in Accts : acct[k].token \in Nat /\ acct[k].token <= server /\ server \in Nat
    BY <1>1, <2>1, RefreshAssumption DEF TypeOK, Issuing
  <2> SUFFICES ASSUME Next, index' = index, index \in Accts
               PROVE  acct'[index].token >= acct[index].token
    BY <1>1, <2>1, <2>2 DEF NeverOlder, vars, TypeOK
  <2>3. CASE acct' = acct
    BY <2>2, <2>3
  <2>4. ASSUME NEW p \in Procs, Update(p) PROVE acct'[index].token >= acct[index].token
    <3>1. /\ acct' = [acct EXCEPT ![call[p].acc] = [token |-> call[p].issued, disabled |-> FALSE]]
          /\ call[p].at = "answered"
      BY <2>4 DEF Update
    <3>2. call[p].acc \in Accts /\ acct[index].token < call[p].issued /\ call[p].issued \in Nat
      BY <1>1, <2>1, <3>1, RefreshAssumption DEF Issuing, TypeOK, Calls
    <3>3. acct'[index].token \in {acct[index].token, call[p].issued}
      BY <2>1, <3>1, <3>2 DEF TypeOK
    <3> QED BY <2>2, <3>2, <3>3
  <2>5. ASSUME NEW p \in Procs, Back(p) PROVE acct'[index].token >= acct[index].token
    <3>1. acct'[index] = acct[index]
      BY <2>1, <2>5 DEF Back, TypeOK, Calls
    <3> QED BY <2>2, <3>1
  <2>6. ASSUME NEW p \in Procs, Dead(p) PROVE acct'[index].token >= acct[index].token
    <3>1. acct'[index].token = acct[index].token
      BY <2>1, <2>6 DEF Dead, TypeOK, Calls
    <3> QED BY <2>2, <3>1
  <2>7. CASE Replace
    BY <2>7 DEF Replace
  <2>8. ASSUME NEW p \in Procs, Proceed(p), acct' # acct PROVE Update(p) \/ Back(p) \/ Dead(p)
    BY <2>8 DEF Proceed, Join, Race, Wait, Claim, Serve, Failed, Refused, Granted, Release, Land, Done
  <2>9. acct' = acct \/ Replace \/ \E p \in Procs : Update(p) \/ Back(p) \/ Dead(p)
    BY <2>8 DEF Next, Begin, Skip, vars
  <2> QED BY <2>3, <2>4, <2>5, <2>6, <2>7, <2>9
<1> QED BY <1>1, InvHolds, SharesHold, PTL DEF Spec, PoolNeverOlder

=============================================================================
