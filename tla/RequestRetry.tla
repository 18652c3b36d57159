----------------------------- MODULE RequestRetry -----------------------------
(***************************************************************************)
(* One request on its way to an upstream that answers it                   *)
(* (internal/executor/codex.go sendWithRetry and concurrentRetryAfter429,  *)
(* with the retry configuration of internal/handler/proxy.go).  The        *)
(* request tries account after account; after an answer that says a quota  *)
(* is used up it may send to several accounts at once and take the first   *)
(* answer that is good; at last it may try the account that succeeded most *)
(* recently once more.  Cooldowns begin and end at any time, so which      *)
(* accounts are up is open at every pick (AccountStatus has the setters    *)
(* that a failed attempt calls).                                           *)
(***************************************************************************)
EXTENDS Integers, FiniteSets

CONSTANTS
  Accounts,
  Worlds,     \* the configuration and what is known of the accounts
  MaxRetry,   \* max-retry
  MaxLooks,   \* maxQuotaReselects
  FanOut      \* fanOut

ASSUME RetryAssumption ==
  /\ Worlds \subseteq [healthy : BOOLEAN, precheck : BOOLEAN, fan : BOOLEAN,
                       stale : BOOLEAN, recent : SUBSET Accounts]
  /\ "none" \notin Accounts
  /\ MaxRetry \in Nat
  /\ MaxLooks \in Nat \ {0}
  /\ FanOut \in Nat \ {0}

VARIABLES
  world,     \* fixed: enable-healthy-retry, quota precheck, concurrent-retry-429,
             \* whether the selector's cached list is another caller's, and the
             \* accounts that have succeeded
  req,       \* the request: sendWithRetry's local variables
  excluded,  \* excluded
  team,      \* the fan-out's goroutines: the account of each, and how far it is
  cut,       \* is the context of the fan-out cancelled?
  spent,     \* history: requests sent to the upstream
  tried,     \* history: the accounts that the rounds sent it to
  outcome    \* what the caller has

vars == << world, req, excluded, team, cut, spent, tried, outcome >>

NoAcct == "none"
Places == {"pick", "check", "fresh", "send", "asked", "after", "gather", "regather",
           "fly", "fall", "lastSend", "lastAsked", "done"}
Errors == {"none", "retry", "refused"}
\* An account answers with a stream, says that a quota is used up (429, or 400 and
\* 403 with such a body), refuses the request (400, 403), or fails in a way that
\* another account may not (another status, or the connection).
Answers == {"ok", "quota", "refused", "other"}
Flights == {"none", "ready", "asked", "read"} \cup Answers
Slots == 1..FanOut
Budget == MaxRetry + 1 + FanOut + 1

Empty == [i \in Slots |-> [acc |-> NoAcct, is |-> "none"]]
Begin == [at |-> "pick", attempt |-> 0, looks |-> 0, acc |-> NoAcct, err |-> "none",
          quota |-> FALSE, turn |-> 0, skip |-> {}]

TypeOK ==
  /\ world \in Worlds
  /\ req \in [at : Places, attempt : 0..(MaxRetry + 1), looks : 0..MaxLooks,
              acc : Accounts \cup {NoAcct}, err : Errors, quota : BOOLEAN,
              turn : 0..FanOut, skip : SUBSET Accounts]
  /\ excluded \in SUBSET Accounts
  /\ team \in [Slots -> [acc : Accounts \cup {NoAcct}, is : Flights]]
  /\ cut \in BOOLEAN
  /\ spent \in 0..Budget
  /\ tried \in SUBSET Accounts
  /\ outcome \in [kind : {"open", "answered", "refused", "failed"}, slot : 0..FanOut]

Open == [kind |-> "open", slot |-> 0]

Init ==
  /\ world \in Worlds
  /\ req = Begin
  /\ excluded = {}
  /\ team = Empty
  /\ cut = FALSE
  /\ spent = 0
  /\ tried = {}
  /\ outcome = Open

fanVars  == << team, cut >>
pastVars == << spent, tried >>

Goto(s) == req' = [req EXCEPT !.at = s]
Ends(k, i) ==
  /\ outcome' = [kind |-> k, slot |-> i]
  /\ Goto("done")

\* (bug) the loop runs once more.
NextAttemptLate(r) ==
  [r EXCEPT !.attempt = @ + 1, !.looks = 0, !.acc = NoAcct,
            !.at = IF r.attempt <= MaxRetry THEN "pick" ELSE "after"]

\* The next round of the loop, or what comes after it.
NextAttempt(r) ==
  [r EXCEPT !.attempt = @ + 1, !.looks = 0, !.acc = NoAcct,
            !.at = IF r.attempt < MaxRetry THEN "pick" ELSE "after"]

-----------------------------------------------------------------------------
\* PickExcluding, while the accounts up are up: any that is not excluded.  The list
\* that the selector has cached may be another caller's, with what this one
\* excludes, or with nothing.
Regular(excl, up) ==
  IF Accounts \subseteq excl THEN {NoAcct}
  ELSE IF world.stale THEN up \cup {NoAcct}
  ELSE IF up \ excl = {} THEN {NoAcct} ELSE up \ excl

\* PickRecentlySuccessful: the exclusions count only among the accounts that have
\* succeeded, and only if they leave one.
Recent(excl, up) ==
  LET best == world.recent \cap up
  IN IF best = {} THEN (IF up = {} THEN {NoAcct} ELSE up)
     ELSE IF best \ excl = {} THEN best ELSE best \ excl

\* PickIgnoringCooldown, while the accounts on are not disabled.
Cooling(excl, on) == IF on \ excl = {} THEN {NoAcct} ELSE on \ excl

\* pickForAttempt, with the functions of buildRetryConfigOnce: the last rounds
\* ask for a recently successful account first.
Late == world.healthy /\ (req.attempt = MaxRetry \/ (MaxRetry >= 2 /\ req.attempt >= MaxRetry - 1))

PickForAttempt(up) == IF Late /\ up # {} THEN Recent(excluded, up) ELSE Regular(excluded, up)

\* The pick of a round.  Without an account the first round fails the request,
\* later ones end the loop.
Pick ==
  /\ req.at = "pick"
  /\ \E up \in SUBSET Accounts : \E a \in PickForAttempt(up) :
       \/ /\ a # NoAcct
          /\ req' = [req EXCEPT !.acc = a, !.at = IF world.precheck THEN "check" ELSE "fresh"]
          /\ UNCHANGED outcome
       \/ a = NoAcct /\ req.attempt = 0 /\ Ends("failed", 0)
       \/ a = NoAcct /\ req.attempt > 0 /\ Goto("after") /\ UNCHANGED outcome
  /\ UNCHANGED << world, excluded, fanVars, pastVars >>

\* (bug) an account that the quota check turns down is not counted.
CheckUncounted ==
  /\ req.at = "check"
  /\ \/ Goto("fresh") /\ UNCHANGED excluded
     \/ /\ excluded' = excluded \cup {req.acc}
        /\ Goto("pick")
  /\ UNCHANGED << world, fanVars, pastVars, outcome >>

\* QuotaCheckFn.  An account that it turns down is excluded; the round
\* picks again, so many times.
Check ==
  /\ req.at = "check"
  /\ \/ Goto("fresh") /\ UNCHANGED excluded
     \/ /\ excluded' = excluded \cup {req.acc}
        /\ req' = [req EXCEPT !.acc = NoAcct, !.looks = @ + 1,
                              !.at = IF req.looks + 1 < MaxLooks THEN "pick" ELSE "after"]
  /\ UNCHANGED << world, fanVars, pastVars, outcome >>

\* EnsureTokenFreshFn.  An account whose token cannot be refreshed uses up the
\* round.
Fresh ==
  /\ req.at = "fresh"
  /\ \/ Goto("send") /\ UNCHANGED excluded
     \/ excluded' = excluded \cup {req.acc} /\ req' = NextAttempt(req)
  /\ UNCHANGED << world, fanVars, pastVars, outcome >>

\* trySend: the request goes out, or cannot be built.
Send ==
  /\ req.at \in {"send", "lastSend"}
  /\ \/ /\ Goto(IF req.at = "send" THEN "asked" ELSE "lastAsked")
        /\ spent' = spent + 1
        /\ tried' = IF req.at = "send" THEN tried \cup {req.acc} ELSE tried
        /\ UNCHANGED outcome
     \/ Ends("failed", 0) /\ UNCHANGED pastVars
  /\ UNCHANGED << world, excluded, fanVars >>

ErrorOf(ans) == IF ans = "refused" THEN "refused" ELSE "retry"

\* (bug) the account that failed is not excluded.
AnswerKept(ans) ==
  /\ req.at = "asked"
  /\ \/ ans = "ok" /\ Ends("answered", 0)
     \/ /\ ans = "refused"
        /\ Ends("refused", 0)
     \/ /\ ans \notin {"ok", "refused"}
        /\ req' = NextAttempt([req EXCEPT !.err = "retry", !.quota = (ans = "quota")])
        /\ UNCHANGED outcome
  /\ UNCHANGED << world, excluded, fanVars, pastVars >>

\* The answer of a round (trySend, handleSendErr): the caller has it, the request
\* is refused for good, or the next account is tried.
Answer(ans) ==
  /\ req.at = "asked"
  /\ \/ ans = "ok" /\ Ends("answered", 0) /\ UNCHANGED excluded
     \/ /\ ans = "refused"
        /\ excluded' = excluded \cup {req.acc}
        /\ Ends("refused", 0)
     \/ /\ ans \notin {"ok", "refused"}
        /\ excluded' = excluded \cup {req.acc}
        /\ req' = NextAttempt([req EXCEPT !.err = "retry", !.quota = (ans = "quota")])
        /\ UNCHANGED outcome
  /\ UNCHANGED << world, fanVars, pastVars >>

-----------------------------------------------------------------------------
\* The loop is over: the last failure decides what is left to try.
After ==
  /\ req.at = "after"
  /\ req' = [req EXCEPT !.at = IF req.quota /\ world.fan THEN "gather" ELSE "fall",
                        !.skip = excluded]
  /\ UNCHANGED << world, excluded, fanVars, pastVars, outcome >>

Members == {i \in Slots : team[i].is # "none"}
Squad == {team[i].acc : i \in Members}

\* One turn of a loop that gathers accounts for the fan-out from the answers of a
\* pick: an account whose token is stale is skipped.
Turn(answers) ==
  \E a \in answers \ {NoAcct} :
    /\ req' = [req EXCEPT !.turn = @ + 1, !.skip = @ \cup {a}]
    /\ \/ UNCHANGED team
       \/ team' = [team EXCEPT ![Cardinality(Members) + 1] = [acc |-> a, is |-> "ready"]]

\* The first loop picks as always.
Gather ==
  /\ req.at = "gather"
  /\ \/ req.turn < FanOut /\ \E up \in SUBSET Accounts : Turn(Regular(req.skip, up))
     \/ /\ req.turn = FanOut \/ \E up \in SUBSET Accounts : NoAcct \in Regular(req.skip, up)
        /\ req' = [req EXCEPT !.at = "regather", !.turn = Cardinality(Members), !.skip = Squad]
        /\ UNCHANGED team
  /\ UNCHANGED << world, excluded, cut, pastVars, outcome >>

\* The fan-out has failed: its error is the request's.
FanFails(e) == req' = [req EXCEPT !.at = "fall", !.err = e]

\* The second loop takes accounts that cool down, too, with only those gathered
\* excluded.  Then the goroutines start, if there is an account.
Regather ==
  /\ req.at = "regather"
  /\ \/ req.turn < FanOut /\ \E on \in SUBSET Accounts : Turn(Cooling(req.skip, on))
     \/ /\ req.turn = FanOut \/ \E on \in SUBSET Accounts : NoAcct \in Cooling(req.skip, on)
        /\ IF Members = {} THEN FanFails("retry") ELSE Goto("fly")
        /\ UNCHANGED team
  /\ UNCHANGED << world, excluded, cut, pastVars, outcome >>

Flies(i, f) == team' = [team EXCEPT ![i].is = f]

\* A goroutine of the fan-out sends its request, unless the context is cancelled.
FanSend(i) ==
  /\ req.at \in {"fly", "fall", "lastSend", "lastAsked", "done"}
  /\ team[i].is = "ready"
  /\ IF cut THEN Flies(i, "other") /\ UNCHANGED spent ELSE Flies(i, "asked") /\ spent' = spent + 1
  /\ UNCHANGED << world, req, excluded, cut, tried, outcome >>

\* Its answer: accounts are not punished a second time.
FanAnswer(i, ans) ==
  /\ team[i].is = "asked"
  /\ Flies(i, ans)
  /\ UNCHANGED << world, req, excluded, cut, pastVars, outcome >>

\* A cancelled request returns at once.
FanCut(i) ==
  /\ cut /\ team[i].is = "asked"
  /\ Flies(i, "other")
  /\ UNCHANGED << world, req, excluded, cut, pastVars, outcome >>

\* (bug) the others are not cancelled when one has succeeded.
FanReadSlack(i) ==
  /\ req.at = "fly" /\ team[i].is \in Answers
  /\ \/ /\ team[i].is = "ok"
        /\ Ends("answered", i)
        /\ UNCHANGED fanVars
     \/ /\ team[i].is # "ok"
        /\ Flies(i, "read")
        /\ IF \A j \in Members \ {i} : team[j].is = "read"
           THEN cut' = TRUE /\ FanFails(ErrorOf(team[i].is))
           ELSE req' = [req EXCEPT !.err = ErrorOf(team[i].is)] /\ UNCHANGED cut
        /\ UNCHANGED outcome
  /\ UNCHANGED << world, excluded, pastVars >>

\* The request reads a result: the first that is good wins, and the context is
\* cancelled when the function returns.
FanRead(i) ==
  /\ req.at = "fly" /\ team[i].is \in Answers
  /\ \/ /\ team[i].is = "ok"
        /\ cut' = TRUE
        /\ Ends("answered", i)
        /\ UNCHANGED team
     \/ /\ team[i].is # "ok"
        /\ Flies(i, "read")
        /\ IF \A j \in Members \ {i} : team[j].is = "read"
           THEN cut' = TRUE /\ FanFails(ErrorOf(team[i].is))
           ELSE req' = [req EXCEPT !.err = ErrorOf(team[i].is)] /\ UNCHANGED cut
        /\ UNCHANGED outcome
  /\ UNCHANGED << world, excluded, pastVars >>

\* Its time is up: the last error that was read, or the timeout itself.
FanTimeout ==
  /\ req.at = "fly"
  /\ cut' = TRUE
  /\ FanFails(req.err)
  /\ UNCHANGED << world, excluded, team, pastVars, outcome >>

-----------------------------------------------------------------------------
\* The last resort: the account that succeeded most recently, excluded or not,
\* once more; not after a refusal.
Fall ==
  /\ req.at = "fall"
  /\ \E up \in SUBSET Accounts :
       \/ /\ world.healthy /\ req.err = "retry"
          /\ \E a \in Recent(excluded, up) \ {NoAcct} : req' = [req EXCEPT !.at = "lastSend", !.acc = a]
          /\ UNCHANGED outcome
       \/ /\ ~world.healthy \/ req.err # "retry" \/ up = {}
          /\ Ends(IF req.err = "refused" THEN "refused" ELSE "failed", 0)
  /\ UNCHANGED << world, excluded, fanVars, pastVars >>

LastAnswer(ans) ==
  /\ req.at = "lastAsked"
  /\ \/ ans = "ok" /\ Ends("answered", 0)
     \/ /\ ans # "ok"
        /\ Ends(IF ans = "refused" THEN "refused" ELSE "failed", 0)
  /\ UNCHANGED << world, excluded, fanVars, pastVars >>

\* The next request, when the goroutines of this one are gone.
Again ==
  /\ req.at = "done"
  /\ \A i \in Slots : team[i].is \notin {"ready", "asked"}
  /\ req' = Begin /\ excluded' = {} /\ team' = Empty /\ cut' = FALSE
  /\ spent' = 0 /\ tried' = {} /\ outcome' = Open
  /\ UNCHANGED world

\* What the program does on its own.
Proceed ==
  \/ Pick \/ Check \/ Fresh \/ Send \/ After \/ Gather \/ Regather \/ Fall \/ FanTimeout
  \/ \E i \in Slots : FanSend(i) \/ FanRead(i) \/ FanCut(i)

\* What the upstream does.
Reply ==
  \E ans \in Answers :
    \/ Answer(ans) \/ LastAnswer(ans)
    \/ \E i \in Slots : FanAnswer(i, ans)

Next == Proceed \/ Reply \/ Again

Spec == Init /\ [][Next]_vars

\* The program's own steps are taken; whether the upstream answers is not up to it.
FairSpec == Spec /\ WF_vars(Proceed)

-----------------------------------------------------------------------------
\* The caller's view of the request.
Bound == INSTANCE AttemptBudget WITH Budget <- Budget, outcome <- outcome.kind

\* codex.go:390, 714: a request spends no more attempts at the upstream than the
\* rounds, the fan-out and the last resort, whatever the quota checks, the token
\* refreshes and the picks do, and its outcome is final; nothing is sent for it
\* afterwards.
WithinBudget == Bound!Spec

\* codex.go:596: in the rounds that pick as always, with a list of its own, the
\* request goes to no account twice.
NoneTwice ==
  [][~world.healthy /\ ~world.stale /\ req.at = "send" /\ spent' # spent => req.acc \notin tried]_vars

\* codex.go:725: when the request is over, every good answer is the caller's, or
\* the context it came with is cancelled, so that its connection is let go.
NoneLeaks ==
  req.at = "done" =>
    \A i \in Members : team[i].is = "ok" => cut \/ outcome.slot = i

\* codex.go:642: the answer that wins is the caller's to read: its context is not
\* cancelled.
WinnerReadable ==
  outcome.kind = "answered" /\ outcome.slot # 0 => ~cut

\* codex.go:551: the request gets to its end, or waits for the upstream; it never
\* goes on picking for ever.
GetsOn == []<>(req.at \in {"asked", "lastAsked", "done"})

=============================================================================
