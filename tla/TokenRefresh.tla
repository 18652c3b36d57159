----------------------------- MODULE TokenRefresh -----------------------------
(***************************************************************************)
(* Refreshing the OAuth tokens of one credential (internal/auth/manager.go *)
(* and refresh.go).  A refresh token may be spent once: the authorization  *)
(* server answers it with the next one and refuses it from then on.  Many  *)
(* goroutines refresh the same account: the background loops, the request  *)
(* that finds its token about to expire, the recovery of a request that    *)
(* was answered 401, the quota check.  All but the last take the account's *)
(* flag `refreshing` first; recoveries of one credential share a flight.   *)
(*                                                                         *)
(* Refresh tokens are numbered in the order the server issues them.        *)
(***************************************************************************)
EXTENDS Integers

CONSTANTS
  Procs,    \* goroutines
  Worlds,   \* who refreshes, and what goes wrong
  Retries,  \* attempts of RefreshTokenWithRetry
  MaxToken  \* bound: the server issues no more tokens than this

Kinds  == {"refresh", "inline", "recover", "quota"}
Faults == {"lost", "revoked", "replaced"}

ASSUME RefreshAssumption ==
  /\ Worlds \subseteq [kinds : SUBSET Kinds, faults : SUBSET Faults]
  /\ "nobody" \notin Procs
  /\ Retries \in Nat \ {0}
  /\ MaxToken \in Nat

VARIABLES
  world,       \* fixed: what this behaviour is about
  server,      \* the refresh token the server accepts
  acct,        \* per account object: its refresh token, RefreshDisabled
  index,       \* accountIndex: the account object in the pool
  refreshing,  \* per account object: the goroutine that took the flag
  flight,      \* auth401SF: the goroutine that leads the recovery
  call         \* per goroutine: what it is doing

vars == << world, server, acct, index, refreshing, flight, call >>

Nobody == "nobody"
NoAcct == "none"
\* The account object loaded first, and the one that takes its place when the
\* credential is disabled and restored.
Accts == {"first", "restored"}

Places == {"idle", "join", "joined", "race", "wait", "claim", "asked", "failed", "refused",
           "dead", "answered", "granted", "release", "landing", "back", "done"}
\* Whether the refresh is the first of the call, one that a status policy asks
\* for, or one that the quota check asks for.
Rounds == {"no", "policy", "check"}
Outcomes == {"none", "refreshed", "waited", "busy", "lost"}

Calls == [at : Places, kind : Kinds, acc : Accts, token : 0..MaxToken, tries : 0..Retries,
          again : Rounds, issued : 0..MaxToken, outcome : Outcomes, lead : Accts]
Idle  == [at |-> "idle", kind |-> "refresh", acc |-> "first", token |-> 0, tries |-> 0,
          again |-> "no", issued |-> 0, outcome |-> "none", lead |-> "first"]

TypeOK ==
  /\ world \in Worlds
  /\ server \in 0..MaxToken
  /\ acct \in [Accts -> [token : 0..MaxToken, disabled : BOOLEAN]]
  /\ index \in Accts \cup {NoAcct}
  /\ refreshing \in [Accts -> Procs \cup {Nobody}]
  /\ flight \in Procs \cup {Nobody}
  /\ call \in [Procs -> Calls]

Init ==
  /\ world \in Worlds
  /\ server = 0
  /\ acct = [k \in Accts |-> [token |-> 0, disabled |-> FALSE]]
  /\ index = "first"
  /\ refreshing = [k \in Accts |-> Nobody]
  /\ flight = Nobody
  /\ call = [p \in Procs |-> Idle]

Goto(p, s) == call' = [call EXCEPT ![p].at = s]
Ends(p, s, o) == call' = [call EXCEPT ![p].at = s, ![p].outcome = o]

-----------------------------------------------------------------------------
\* Goroutine p sets out to refresh account k, unless k is marked as not to be
\* refreshed.  The loops refresh what the pool holds, a request the account it
\* once picked.
Begin(p, kind, k) ==
  /\ call[p].at = "idle"
  /\ kind \in {"refresh", "quota"} => k = index
  /\ kind \in {"inline", "recover"} => k \in {"first", index}
  /\ ~acct[k].disabled
  /\ call' = [call EXCEPT ![p] = [Idle EXCEPT !.kind = kind, !.acc = k,
               !.at = CASE kind = "recover" -> "join" [] kind = "quota" -> "claim" [] OTHER -> "race"]]
  /\ UNCHANGED << world, server, acct, index, refreshing, flight >>

Skip(k) == acct[k].disabled /\ UNCHANGED vars

\* recoverAuth401Once: who leads looks again whether k may be refreshed.
Lead(p) ==
  /\ flight' = p
  /\ IF acct[call[p].acc].disabled THEN Ends(p, "landing", "busy") ELSE Goto(p, "race")

\* (bug) a flight is shared by those who recover the same object.
JoinOwn(p) ==
  /\ call[p].at = "join"
  /\ LET own == flight # Nobody /\ call[flight].acc = call[p].acc
     IN \/ ~own /\ Lead(p)
        \/ own /\ Goto(p, "joined") /\ UNCHANGED flight
  /\ UNCHANGED << world, server, acct, index, refreshing >>

\* singleflight: the first recovery of the credential leads, others join it.
Join(p) ==
  /\ call[p].at = "join"
  /\ \/ flight = Nobody /\ Lead(p)
     \/ flight # Nobody /\ Goto(p, "joined") /\ UNCHANGED flight
  /\ UNCHANGED << world, server, acct, index, refreshing >>

\* (bug) the flag is read and then set.
RaceUnchecked(p) ==
  /\ call[p].at = "race"
  /\ refreshing' = [refreshing EXCEPT ![call[p].acc] = p]
  /\ Goto(p, "claim")
  /\ UNCHANGED << world, server, acct, index, flight >>

\* CompareAndSwap on the flag.  Who loses goes home or waits for the winner.
Race(p) ==
  /\ call[p].at = "race"
  /\ LET k == call[p].acc
     IN \/ /\ refreshing[k] = Nobody
           /\ refreshing' = [refreshing EXCEPT ![k] = p]
           /\ Goto(p, "claim")
        \/ /\ refreshing[k] # Nobody
           /\ IF call[p].kind = "refresh" THEN call' = [call EXCEPT ![p] = Idle] ELSE Goto(p, "wait")
           /\ UNCHANGED refreshing
  /\ UNCHANGED << world, server, acct, index, flight >>

\* waitAccountRefreshIdle: until the winner is done, or the caller's time is up.
Wait(p) ==
  /\ call[p].at = "wait"
  /\ IF call[p].kind = "inline"
     THEN call' = [call EXCEPT ![p] = Idle]
     ELSE \/ Ends(p, "landing", "busy")
          \/ refreshing[call[p].acc] = Nobody /\ Ends(p, "landing", "waited")
  /\ UNCHANGED << world, server, acct, index, refreshing, flight >>

\* The refresh token is read and sent.  A recovery may find too many others
\* under way.
Claim(p) ==
  /\ call[p].at = "claim"
  /\ \/ call' = [call EXCEPT ![p].at = "asked", ![p].token = acct[call[p].acc].token,
                             ![p].tries = IF call[p].again # "no" \/ call[p].kind = "quota" THEN 1 ELSE Retries]
     \/ call[p].kind = "recover" /\ call[p].again = "no" /\ Ends(p, "release", "busy")
  /\ UNCHANGED << world, server, acct, index, refreshing, flight >>

\* The authorization server handles the request of p.
Serve(p) ==
  /\ call[p].at = "asked"
  /\ \/ /\ call[p].token = server /\ server < MaxToken
        /\ server' = server + 1
        /\ \/ call' = [call EXCEPT ![p].at = "answered", ![p].issued = server + 1]
           \/ "lost" \in world.faults /\ Goto(p, "failed")
     \/ /\ call[p].token # server \/ "revoked" \in world.faults
        /\ Goto(p, "dead")
        /\ UNCHANGED server
     \/ Goto(p, "failed") /\ UNCHANGED server
  /\ UNCHANGED << world, acct, index, refreshing, flight >>

\* RefreshTokenWithRetry sends the same token again, but after a 429 not.
Failed(p) ==
  /\ call[p].at = "failed"
  /\ \/ call[p].tries > 1 /\ call' = [call EXCEPT ![p].at = "asked", ![p].tries = @ - 1]
     \/ Goto(p, "refused")
  /\ UNCHANGED << world, server, acct, index, refreshing, flight >>

\* A refresh that fails after one that succeeded leaves that outcome.
Fails(p) == Ends(p, "release", IF call[p].outcome = "refreshed" THEN "refreshed" ELSE "lost")

\* Another refresh, with the token that the account holds then.
Again(p, round) == call' = [call EXCEPT ![p].at = "claim", ![p].again = round]

\* handleRefreshHTTPError: the account is kept, cooled down, removed, disabled,
\* or refreshed once more, as the policy of the status says.  An inline refresh
\* keeps it; a quota check, and a second refresh, do not ask for another.
Refused(p) ==
  /\ call[p].at = "refused"
  /\ \/ Fails(p) /\ UNCHANGED index
     \/ call[p].kind # "inline" /\ index' = NoAcct /\ Fails(p)
     \/ /\ call[p].kind \in {"refresh", "recover"} /\ call[p].again = "no"
        /\ Again(p, "policy")
        /\ UNCHANGED index
  /\ UNCHANGED << world, server, acct, refreshing, flight >>

\* A permanent failure: an account whose access token still works is marked as
\* not to be refreshed, another is removed.  After a second refresh, or in a
\* quota check, it is removed, kept or cooled down.
Dead(p) ==
  /\ call[p].at = "dead"
  /\ Fails(p)
  /\ LET first == call[p].again = "no" /\ call[p].kind # "quota"
     IN \/ /\ first
           /\ acct' = [acct EXCEPT ![call[p].acc].disabled = TRUE]
           /\ UNCHANGED index
        \/ index' = NoAcct /\ UNCHANGED acct
        \/ ~first /\ UNCHANGED << acct, index >>
  /\ UNCHANGED << world, server, refreshing, flight >>

\* UpdateToken.
Update(p) ==
  /\ call[p].at = "answered"
  /\ acct' = [acct EXCEPT ![call[p].acc] = [token |-> call[p].issued, disabled |-> FALSE]]
  /\ Ends(p, "granted", "refreshed")
  /\ UNCHANGED << world, server, index, refreshing, flight >>

\* afterRefreshValidateQuota: the quota check finds the account fit, cools it
\* down, removes it or refreshes it once more.  A removal that a status policy
\* asks for counts as a success.  The loops do not check after a policy's
\* refresh.
Granted(p) ==
  /\ call[p].at = "granted"
  /\ \/ Goto(p, "release") /\ UNCHANGED index
     \/ /\ call[p].kind # "inline"
        /\ index' = NoAcct
        /\ Goto(p, "release") \/ Ends(p, "release", "lost")
     \/ /\ \/ call[p].kind = "recover" /\ call[p].again # "check"
           \/ call[p].kind = "refresh" /\ call[p].again = "no"
        /\ Again(p, "check")
        /\ UNCHANGED index
  /\ UNCHANGED << world, server, acct, refreshing, flight >>

\* (bug) the flag of an account that was removed is not given back.
ReleasePooled(p) ==
  /\ call[p].at = "release"
  /\ refreshing' = IF call[p].kind = "quota" \/ index = NoAcct THEN refreshing
                   ELSE [refreshing EXCEPT ![call[p].acc] = Nobody]
  /\ IF call[p].kind = "recover" THEN Goto(p, "landing") ELSE call' = [call EXCEPT ![p] = Idle]
  /\ UNCHANGED << world, server, acct, index, flight >>

\* The flag is given back by who took it.
Release(p) ==
  /\ call[p].at = "release"
  /\ refreshing' = IF call[p].kind = "quota" THEN refreshing
                   ELSE [refreshing EXCEPT ![call[p].acc] = Nobody]
  /\ IF call[p].kind = "recover" THEN Goto(p, "landing") ELSE call' = [call EXCEPT ![p] = Idle]
  /\ UNCHANGED << world, server, acct, index, flight >>

\* The flight ends: its leader and all who joined have the outcome.
Land(p) ==
  /\ call[p].at = "landing"
  /\ flight' = Nobody
  /\ call' = [q \in Procs |->
       IF q = p \/ call[q].at = "joined"
       THEN [Idle EXCEPT !.at = "back", !.kind = "recover", !.acc = call[q].acc, !.lead = call[p].acc,
                         !.issued = call[p].issued, !.outcome = call[p].outcome]
       ELSE call[q]]
  /\ UNCHANGED << world, server, acct, index, refreshing >>

\* (bug) who joined keeps the token of its own object.
BackUnsynced(p) ==
  /\ call[p].at = "back"
  /\ Goto(p, "done")
  /\ UNCHANGED << world, server, acct, index, refreshing, flight >>

\* syncAccountTokenAfter401Flight.
Back(p) ==
  /\ call[p].at = "back"
  /\ LET k == call[p].acc
     IN IF call[p].outcome \in {"refreshed", "waited"} /\ index \notin {NoAcct, k}
        THEN acct' = [acct EXCEPT ![k] = [token |-> acct[index].token, disabled |-> FALSE]]
        ELSE UNCHANGED acct
  /\ Goto(p, "done")
  /\ UNCHANGED << world, server, index, refreshing, flight >>

\* The request goes on.
Done(p) ==
  /\ call[p].at = "done"
  /\ call' = [call EXCEPT ![p] = Idle]
  /\ UNCHANGED << world, server, acct, index, refreshing, flight >>

\* The credential is disabled and restored: a new object takes its place.
Replace ==
  /\ "replaced" \in world.faults /\ index = "first"
  /\ index' = "restored"
  /\ acct' = [acct EXCEPT !["restored"] = [token |-> acct["first"].token, disabled |-> FALSE]]
  /\ UNCHANGED << world, server, refreshing, flight, call >>

Proceed(p) ==
  \/ Join(p) \/ Race(p) \/ Wait(p) \/ Claim(p) \/ Serve(p) \/ Failed(p) \/ Refused(p) \/ Dead(p)
  \/ Update(p) \/ Granted(p) \/ Release(p) \/ Land(p) \/ Back(p) \/ Done(p)

Next ==
  \/ \E p \in Procs, kind \in world.kinds, k \in Accts : Begin(p, kind, k)
  \/ \E p \in Procs : Proceed(p)
  \/ \E k \in Accts : Skip(k)
  \/ Replace

Spec == Init /\ [][Next]_vars

\* Every step of a refresh ends: refreshRequestContext bounds what waits for the
\* network.
FairSpec == Spec /\ \A p \in Procs : WF_vars(Proceed(p))

-----------------------------------------------------------------------------
\* manager.go:2593, refresh.go:200: as long as no answer is lost, no credential
\* replaced and no quota check refreshes, every refresh token that is sent is the
\* one the server accepts; no account is lost to a token spent twice.
SpendsLive ==
  world.faults \subseteq {"revoked"} /\ "quota" \notin world.kinds =>
    \A p \in Procs : call[p].at = "asked" => call[p].token = server

InFlight(p) ==
  call[p].kind = "recover" /\ call[p].at \notin {"idle", "join", "joined", "back", "done"}

\* manager.go:104: recoveries of one credential never run side by side, whatever
\* account objects their requests hold.
OneRecovery ==
  \A p, q \in Procs : InFlight(p) /\ InFlight(q) => p = q

Recovered(p) == call[p].at = "done" /\ call[p].outcome = "refreshed"

\* manager.go:2752: a recovery led with the account of the pool gives its token
\* to all who joined it, whatever account objects they hold.
FlightShared ==
  \A p \in Procs :
    Recovered(p) /\ call[p].lead = index => acct[call[p].acc].token >= call[p].issued

\* manager.go:2774, 2841: the account of the pool never gets an older
\* token than it has, neither by a late answer nor by those who copy tokens when
\* they come back from a recovery.
NeverOlder ==
  index' = index /\ index # NoAcct => acct'[index].token >= acct[index].token
PoolNeverOlder == [][NeverOlder]_vars

\* manager.go:2752: who comes back from a recovery that refreshed has its token.
RecoveredIsNew ==
  \A p \in Procs : Recovered(p) => acct[call[p].acc].token >= call[p].issued

\* manager.go:2803: the flag of an account is given back, however its refresh
\* ends.
FlagFreed == \A k \in Accts : []<>(refreshing[k] = Nobody)

=============================================================================
