------------------------------ MODULE QuotaWatch ------------------------------
(***************************************************************************)
(* Watching over the quota and the health of an account (auth/quota.go,    *)
(* quota_window.go, health.go and the quota handlers of auth/manager.go).  *)
(* Goroutines of eight kinds ask the upstream what is left of the quota of *)
(* an account, store the answer in it, and decide from what is stored      *)
(* whether it cools down; the health check visits the pool batch by batch. *)
(*                                                                         *)
(* The account is one of a pool.  Its status is the one under its mutex    *)
(* (AccountStatus says what the atomics beside it do), its token is not    *)
(* looked at (TokenRefresh), a time is over or still to come.              *)
(***************************************************************************)
EXTENDS Naturals, FiniteSets

CONSTANTS
  Checkers,  \* goroutines that ask for the quota
  Loop,      \* the goroutine of StartQuotaCooldownRecheckLoop
  Watches,   \* which goroutines are at work, and how the pool is configured
  Windows,   \* the valid answers: what the two windows of the quota say
  Rounds,    \* the backoffs of a recovery: three
  MaxFails,  \* maxConsecutiveFailures of the health check
  Batch,     \* batchSize of the health check
  MaxPool,   \* bound: accounts in the pool
  Cycle      \* bound: the cursor matters up to a common multiple of the pool's sizes

Kinds    == {"failure", "recovery", "recheck", "sweep", "precheck", "refresh", "auth401", "probe"}
Refusals == {"401", "403"}
Limits   == Refusals \cup {"429"}
Policies == [phase : {"legacy", "none", "refresh", "wait"}, final : {"cooldown", "remove"}]
WindowSays == {"none", "fine", "low", "lowForever"}

ASSUME WatchAssumption ==
  /\ Loop \notin Checkers
  /\ Watches \subseteq [crew : SUBSET Checkers, kinds : SUBSET (Kinds \ {"recheck"}), health : BOOLEAN,
                        policy : [Limits -> Policies]]
  /\ Windows \subseteq [weekly : WindowSays, hours : WindowSays]
  /\ Rounds \in Nat /\ MaxFails \in Nat \ {0} /\ Batch \in Nat \ {0} /\ MaxPool \in Nat \ {0}
  /\ Cycle \in Nat \ {0} /\ \A n \in 1..MaxPool : Cycle % n = 0

VARIABLES
  watch,
  watched,  \* the status of the account
  info,     \* QuotaInfo: the answer that was stored last
  proc,     \* the goroutines
  round,    \* the health check, and where the account is in the pool
  calm,     \* from now on the account has quota, its requests succeed, and the
            \* administrator leaves it alone
  decided,  \* what the last stored answer says of the account, unless something
            \* else has set its status since
  overtaken \* the goroutines that are about to set what an older answer said

watchVars == << watch, watched, info, proc, round, calm, decided, overtaken >>

Threads == Checkers \cup {Loop}

\* QuotaInfo: the code of an answer, and its windows if it is valid.
Nothing(code) == [code |-> code, weekly |-> "none", hours |-> "none"]
Valid      == {[code |-> "200", weekly |-> w.weekly, hours |-> w.hours] : w \in Windows}
Answers    == Valid \cup {Nothing(code) : code \in Limits \cup {"5xx", "lost"}}
Resting    == [kind |-> "recheck", at |-> "idle", got |-> Nothing("lost"), first |-> "none", round |-> 0]
AsLoaded   == [status |-> "active", manual |-> FALSE, quota |-> FALSE, over |-> TRUE,
               fails |-> 0, pooled |-> TRUE]
RoundStart == [n |-> 1, pos |-> 0, cursor |-> 0, missed |-> 0, at |-> "idle"]

WatchInit ==
  /\ watch \in Watches
  /\ watched = AsLoaded /\ info = Nothing("none")
  /\ proc = [p \in Threads |-> Resting]
  /\ round = RoundStart
  /\ calm = FALSE /\ decided = "none" /\ overtaken = {}

WatchTypeOK ==
  /\ watch \in Watches
  /\ watched \in [status : {"active", "cooldown", "disabled"}, manual : BOOLEAN, quota : BOOLEAN,
                  over : BOOLEAN, fails : 0..MaxFails, pooled : BOOLEAN]
  /\ info \in Answers \cup {Nothing("none")}
  /\ proc \in [Threads -> [kind : Kinds, got : Answers, first : Limits \cup {"none"},
                           at : {"idle", "asked", "restore", "active", "judge", "cool", "clear",
                                 "policy", "final", "legacy", "remove", "wait"},
                           round : 0..Rounds + 1]]
  /\ round \in [n : 1..MaxPool, pos : 0..MaxPool, cursor : Nat, missed : Nat,
                at : {"idle", "visits", "passes"}]
  /\ calm \in BOOLEAN /\ decided \in {"none", "good", "low"} /\ overtaken \subseteq Threads

-----------------------------------------------------------------------------
\* quotaCooldownForInfo: less than the limit is left in a window that says when it
\* begins anew; the weekly window is looked at first.
Low(i) == i.weekly = "low" \/ i.hours = "low"

\* checkAccount.
Verdict(a) ==
  CASE a.code = "200" -> "valid" [] a.code = "429" -> "limited"
    [] a.code \in Refusals -> "refused" [] OTHER -> "unclear"

Manual      == watched.status = "disabled" /\ watched.manual
Exhausted   == watched.status = "cooldown" /\ watched.quota
PickableNow == watched.status = "active" \/ (watched.status = "cooldown" /\ watched.over)

\* The setters (types.go).
Cooled(a)  == [a EXCEPT !.status = "cooldown", !.over = FALSE]
Exhaust(a) == [Cooled(a) EXCEPT !.quota = TRUE]
Cleared(a) ==
  IF a.status = "cooldown" /\ a.quota
  THEN [a EXCEPT !.status = "active", !.manual = FALSE, !.quota = FALSE, !.fails = 0] ELSE a
Active(a)  == [a EXCEPT !.status = "active", !.manual = FALSE, !.quota = FALSE, !.over = TRUE, !.fails = 0]
Renewed(a) ==
  IF a.status = "disabled" /\ a.manual THEN a ELSE [a EXCEPT !.status = "active", !.manual = FALSE]

Becomes(a) == watched' = a /\ decided' = "none"

-----------------------------------------------------------------------------
\* The goroutine asks; the upstream answers by what the quota is then.
Asking(q) ==
  {[q EXCEPT !.at = "asked", !.got = a] :
     a \in IF calm THEN {v \in Valid : ~Low(v)} ELSE Answers}

Busy(kind) == \E p \in Threads : proc[p].at # "idle" /\ proc[p].kind = kind

\* A request has failed: the check and the recoveries that it starts run once for the
\* account.  The others start with a sweep of the pool, before a request, after a
\* refresh, and when a disabled credential has been put back and nobody has asked yet.
MayBegin(kind) ==
  CASE kind = "failure"  -> watched.pooled /\ ~Manual /\ ~Busy("failure") /\ ~calm
    [] kind = "recovery" -> ~Busy("recovery") /\ ~calm
    [] kind = "precheck" -> watched.pooled /\ PickableNow
    [] kind = "sweep"    -> watched.pooled
    [] kind = "refresh"  -> watched.pooled
    [] kind = "auth401"  -> watched.pooled /\ ~Busy("auth401") /\ ~calm
    [] kind = "probe"    -> watched.pooled /\ info.code = "none"

\* What is left to do when an errand's answer has been dealt with: recoverAuth401Once
\* and ProbeRestoredAccount make the account active whatever the quota was.
Lastly(q) ==
  CASE q.kind = "auth401" -> "restore" [] q.kind = "probe" -> "active" [] OTHER -> "idle"

\* The token is new where a refresh comes first (TokenRefresh says what a refresh that
\* fails does); those who end with making the account active do without the question
\* if the check is switched off.
Begin(p, kind) ==
  /\ proc[p] = Resting /\ MayBegin(kind)
  /\ LET errand == [Resting EXCEPT !.kind = kind]
         asked  == Asking(errand)
     IN \E q \in IF Lastly(errand) = "idle" THEN asked
                 ELSE asked \cup {[errand EXCEPT !.at = Lastly(errand)]} :
          proc' = [proc EXCEPT ![p] = q]
  /\ CASE kind \in {"refresh", "auth401"} -> Becomes(Renewed(watched))
       [] kind = "probe"                  -> Becomes(Active(watched))
       [] OTHER                           -> UNCHANGED << watched, decided >>
  /\ UNCHANGED << watch, info, round, calm, overtaken >>

\* CheckAccountResult before a request: an answer that is young enough is used again.
Cached(p) ==
  /\ "precheck" \in watch.kinds
  /\ proc[p] = Resting /\ MayBegin("precheck") /\ info.code = "200"
  /\ proc' = [proc EXCEPT ![p] = [Resting EXCEPT !.kind = "precheck", !.at = "judge"]]
  /\ UNCHANGED << watch, watched, info, round, calm, decided, overtaken >>

\* (bug) an account whose cooldown has ended by the clock is left out.
ShouldRecheckRunning == Exhausted /\ ~watched.manual /\ ~watched.over

\* Not one that was disabled by hand before something cooled it down.
ShouldRecheck == Exhausted /\ ~watched.manual

\* A round of the loop takes the accounts of the pool that cool down for quota.
Recheck ==
  /\ proc[Loop] = Resting /\ watched.pooled /\ ShouldRecheck
  /\ \E q \in Asking(Resting) : proc' = [proc EXCEPT ![Loop] = q]
  /\ UNCHANGED << watch, watched, info, round, calm, decided, overtaken >>

RecheckNothing ==
  /\ proc[Loop] = Resting /\ ~(watched.pooled /\ ShouldRecheck)
  /\ UNCHANGED watchVars

\* What an answer leads its goroutine to.
LeadsTo(q) ==
  LET v == Verdict(q.got)
  IN CASE q.first # "none" -> (CASE v = "valid" -> "judge" [] q.got.code = q.first -> "final"
                                 [] v = "unclear" -> Lastly(q) [] OTHER -> "legacy")
       [] q.first = "none" /\ v = "valid" -> IF q.kind # "recovery" \/ q.round = 0 THEN "judge"
                                       ELSE IF q.round <= Rounds THEN "restore" ELSE "idle"
       [] q.first = "none" /\ v = "unclear" ->
            IF q.kind = "recovery" /\ q.round <= Rounds THEN "wait" ELSE Lastly(q)
       [] OTHER -> CASE q.kind \in {"failure", "recheck", "precheck"}                  -> "idle"
                     [] q.kind \in {"refresh", "auth401", "probe"} /\ v = "refused" -> "remove"
                     [] OTHER                                                       -> "policy"

Goes(p, place) ==
  proc' = [proc EXCEPT ![p] =
    IF place = "idle" THEN Resting
    ELSE [proc[p] EXCEPT !.at = place, !.got = IF place \in {"wait", "cool", "clear", "restore", "active"}
                                           THEN Nothing("lost") ELSE @]]

Ends(p) == Goes(p, Lastly(proc[p]))

\* The goroutines between the look and the setter of ApplyQuotaThreshold.
Between == {p \in Threads : proc[p].at \in {"cool", "clear"}}

\* The answer is stored, whatever the status of the account; an answer that is lost is not.
Store(p) ==
  /\ proc[p].at = "asked"
  /\ LET got == proc[p].got
         to  == LeadsTo(proc[p])
     IN /\ info' = IF got.code = "lost" THEN info ELSE got
        /\ overtaken' = IF got.code = "lost" THEN overtaken ELSE Between
        /\ decided' = CASE got.code = "lost"                              -> decided
                        [] got.code = "200" /\ to # "idle" /\ Low(got)  -> "low"
                        [] got.code = "200" /\ to # "idle" /\ ~Low(got) -> "good"
                        [] OTHER                                     -> "none"
        /\ Goes(p, to)
  /\ UNCHANGED << watch, watched, round, calm >>

-----------------------------------------------------------------------------
\* (bug) the goroutine decides from its own answer.
ThresholdOfOwn(p) ==
  IF ~watched.pooled \/ watched.status = "disabled" \/ proc[p].got.code # "200"
  THEN "none" ELSE IF Low(proc[p].got) THEN "cool" ELSE "clear"

\* ApplyQuotaThreshold decides from the answer that is stored when it looks.
Threshold(p) ==
  IF ~watched.pooled \/ watched.status = "disabled" \/ info.code # "200"
  THEN "none" ELSE IF Low(info) THEN "cool" ELSE "clear"

\* It unlocks the account before the setter locks it: another answer may be stored, and
\* another setter may come, in between.
Judge(p) ==
  /\ proc[p].at = "judge"
  /\ IF Threshold(p) = "none" THEN Ends(p) ELSE Goes(p, Threshold(p))
  /\ UNCHANGED << watch, watched, info, round, calm, decided, overtaken >>

Decide(p) ==
  /\ p \in Between
  /\ watched' = IF proc[p].at = "cool" THEN Exhaust(watched) ELSE Cleared(watched)
  /\ decided' = IF p \in overtaken THEN "none" ELSE decided
  /\ overtaken' = overtaken \ {p}
  /\ Ends(p)
  /\ UNCHANGED << watch, info, round, calm >>

\* A recovery from a 429 that has waited makes the account active before it looks, one
\* from a 401 after that, unless the administrator has disabled it by then: they ask
\* first and set later.
Restore(p) ==
  /\ proc[p].at = "restore"
  /\ IF ~Manual THEN Goes(p, "active") ELSE Goes(p, IF proc[p].kind = "recovery" THEN "judge" ELSE "idle")
  /\ UNCHANGED << watch, watched, info, round, calm, decided, overtaken >>

Reactivate(p) ==
  /\ proc[p].at = "active"
  /\ IF proc[p].kind = "recovery"
     THEN watched' = Active(watched) /\ UNCHANGED decided /\ Goes(p, "judge")
     ELSE Becomes(Active(watched)) /\ Goes(p, "idle")
  /\ UNCHANGED << watch, info, round, calm, overtaken >>

\* ApplyQuotaUsageHTTPOutcome: a status without a policy is dealt with at once, one
\* with a policy at once or after a second question, with a new token or later unless
\* the caller's context ends first.
Policy(p) ==
  /\ proc[p].at = "policy"
  /\ LET phase == watch.policy[proc[p].got.code].phase
     IN \/ /\ phase = "legacy" /\ Goes(p, "legacy") /\ UNCHANGED << watched, decided >>
        \/ /\ phase = "none" /\ Goes(p, "final") /\ UNCHANGED << watched, decided >>
        \/ /\ phase \in {"refresh", "wait"}
           /\ \E q \in Asking(proc[p]) :
                proc' = [proc EXCEPT ![p] = [q EXCEPT !.first = proc[p].got.code]]
           /\ \/ UNCHANGED << watched, decided >>
              \/ phase = "refresh" /\ Becomes(Renewed(watched))
        \/ /\ phase = "wait" /\ proc[p].kind # "recovery"
           /\ Ends(p) /\ UNCHANGED << watched, decided >>
  /\ UNCHANGED << watch, info, round, calm, overtaken >>

\* applyFinalHTTPQuota, by the policy of the status (to rename the file takes the
\* account out of the pool as its removal does).
Final(p) ==
  /\ proc[p].at = "final"
  /\ Becomes(CASE watch.policy[proc[p].got.code].final = "remove" -> [watched EXCEPT !.pooled = FALSE]
               [] proc[p].got.code = "429"                        -> Exhaust(watched)
               [] OTHER                                      -> Cooled(watched))
  /\ Ends(p)
  /\ UNCHANGED << watch, info, round, calm, overtaken >>

\* applyQuotaUsageHTTPLegacy.
Legacy(p) ==
  /\ proc[p].at = "legacy"
  /\ Becomes(IF proc[p].got.code = "429" THEN Exhaust(watched) ELSE [watched EXCEPT !.pooled = FALSE])
  /\ Ends(p)
  /\ UNCHANGED << watch, info, round, calm, overtaken >>

\* The token is new and its quota cannot be asked for.
Remove(p) ==
  /\ proc[p].at = "remove"
  /\ Becomes([watched EXCEPT !.pooled = FALSE])
  /\ Goes(p, "idle")
  /\ UNCHANGED << watch, info, round, calm, overtaken >>

\* A recovery has waited: unless the account has left the pool it refreshes the token
\* (or somebody else does, or that fails and costs the account its place, its refresh
\* token, or a cooldown) and asks again.  After the last round it asks once more.
NextRound(p) ==
  /\ proc[p].at = "wait"
  /\ LET q == [proc[p] EXCEPT !.round = @ + 1]
     IN \/ /\ ~watched.pooled /\ Goes(p, "idle") /\ UNCHANGED << watched, decided >>
        \/ /\ watched.pooled /\ q.round <= Rounds
           /\ \/ Becomes(Renewed(watched)) \/ Becomes(Cooled(watched)) \/ UNCHANGED << watched, decided >>
           /\ \E r \in Asking(q) : proc' = [proc EXCEPT ![p] = r]
        \/ /\ watched.pooled /\ q.round <= Rounds
           /\ Becomes([watched EXCEPT !.pooled = FALSE]) /\ Goes(p, "idle")
        \/ /\ q.round > Rounds /\ UNCHANGED << watched, decided >>
           /\ \E r \in Asking(q) : proc' = [proc EXCEPT ![p] = r]
  /\ UNCHANGED << watch, info, round, calm, overtaken >>

-----------------------------------------------------------------------------
\* (bug) the next batch begins one account further.
AdvanceByOne(r) == r.cursor + 1

\* pickBatch: the cursor only grows; a batch as large as the pool leaves it alone.
Advance(r) == r.cursor + Batch

InBatch(r) == Batch >= r.n \/ (r.n + r.pos - (r.cursor % r.n)) % r.n < Batch

\* checkAll begins a round: the batch is taken from the pool as it is.
HealthRound ==
  /\ watch.health /\ watched.pooled /\ round.at = "idle"
  /\ round' = [round EXCEPT !.cursor = IF Batch >= round.n THEN @ ELSE Advance(round) % Cycle,
                            !.at = IF InBatch(round) THEN "visits" ELSE "passes",
                            !.missed = IF InBatch(round) THEN 0 ELSE @ + 1]
  /\ UNCHANGED << watch, watched, info, proc, calm, decided, overtaken >>

\* HealthChecker.checkAccount: 401, 403, 429, 2xx, and what it makes nothing of.
HealthChecked(a) ==
  {[a EXCEPT !.fails = 0], a}
    \cup (IF calm THEN {}
          ELSE {Cooled(a), Exhaust(a),
                IF a.fails + 1 >= MaxFails THEN [a EXCEPT !.pooled = FALSE, !.fails = MaxFails]
                ELSE [a EXCEPT !.fails = @ + 1]})

\* The round ends.
HealthAnswer ==
  /\ round.at # "idle"
  /\ IF round.at = "visits" THEN \E a \in HealthChecked(watched) : Becomes(a)
     ELSE UNCHANGED << watched, decided >>
  /\ round' = [round EXCEPT !.at = "idle"]
  /\ UNCHANGED << watch, info, proc, calm, overtaken >>

\* The administrator's check visits the whole pool (RunOnceWithProgress).
HealthOnce ==
  /\ watch.health /\ watched.pooled
  /\ \E a \in HealthChecked(watched) : Becomes(a)
  /\ UNCHANGED << watch, info, proc, round, calm, overtaken >>

\* Another account is loaded at the end of the pool, or leaves it: the last one takes
\* its place (RemoveAccount).
PoolGrows ==
  /\ watch.health /\ watched.pooled /\ round.n < MaxPool
  /\ round' = [round EXCEPT !.n = @ + 1, !.missed = 0]
  /\ UNCHANGED << watch, watched, info, proc, calm, decided, overtaken >>

PoolShrinks ==
  /\ watch.health /\ watched.pooled /\ round.n > 1
  /\ \E hole \in (0..round.n - 1) \ {round.pos} :
       round' = [round EXCEPT !.n = @ - 1, !.missed = 0,
                              !.pos = IF @ = round.n - 1 THEN hole ELSE @]
  /\ UNCHANGED << watch, watched, info, proc, calm, decided, overtaken >>

-----------------------------------------------------------------------------
\* A request fails (handleAccountError): a cooldown for quota or another.
RequestFails ==
  /\ ~calm /\ watched.pooled /\ watched.status # "disabled" /\ ~watch.health
  /\ \E a \in {Cooled(watched), Exhaust(watched)} : Becomes(a)
  /\ UNCHANGED << watch, info, proc, round, calm, overtaken >>

\* The administrator.
Disable ==
  /\ ~calm /\ watched.pooled /\ watched.status # "disabled"
  /\ Becomes([watched EXCEPT !.status = "disabled", !.manual = TRUE, !.quota = FALSE, !.over = TRUE])
  /\ UNCHANGED << watch, info, proc, round, calm, overtaken >>

Enable ==
  /\ watched.pooled /\ Manual /\ Becomes(Active(watched))
  /\ UNCHANGED << watch, info, proc, round, calm, overtaken >>

CooldownEnds ==
  /\ watched.status = "cooldown" /\ ~watched.over
  /\ watched' = [watched EXCEPT !.over = TRUE]
  /\ UNCHANGED << watch, info, proc, round, calm, decided, overtaken >>

Calms ==
  /\ ~calm /\ calm' = TRUE
  /\ UNCHANGED << watch, watched, info, proc, round, decided, overtaken >>

\* The file of the account is put back when nobody holds on to the old one.
Loaded ==
  /\ ~watched.pooled /\ round.at = "idle" /\ \A p \in Threads : proc[p] = Resting
  /\ watched' = AsLoaded /\ info' = Nothing("none") /\ round' = RoundStart /\ decided' = "none"
  /\ UNCHANGED << watch, proc, calm, overtaken >>

GoesOn(p) ==
  \/ Store(p) \/ Judge(p) \/ Decide(p) \/ Restore(p) \/ Reactivate(p) \/ Policy(p) \/ Final(p) \/ Legacy(p)
  \/ Remove(p) \/ NextRound(p)

WatchNext ==
  \/ \E p \in watch.crew, kind \in watch.kinds : Begin(p, kind)
  \/ \E p \in watch.crew : Cached(p)
  \/ \E p \in Threads : GoesOn(p)
  \/ Recheck \/ RecheckNothing
  \/ HealthRound \/ HealthAnswer \/ HealthOnce \/ PoolGrows \/ PoolShrinks
  \/ RequestFails \/ Disable \/ Enable \/ CooldownEnds \/ Calms \/ Loaded

WatchSpec == WatchInit /\ [][WatchNext]_watchVars

\* The ticker of the loop ticks on, and a question has a timeout.
FairWatch ==
  /\ WatchSpec
  /\ WF_watchVars(Recheck)
  /\ \A p \in Threads : WF_watchVars(GoesOn(p))

-----------------------------------------------------------------------------
\* manager.go:2084, 2102: once an account has quota again and its requests succeed, it
\* does not stay in a cooldown for quota, whichever late answers, policies, refreshes
\* and recoveries are still under way; unless that cooldown has overwritten a disable by
\* hand, when only the clock ends it.
QuotaReturns == (<>[]calm) => (<>[](watched.pooled => ~Exhausted \/ watched.manual))

\* manager.go:1954: when every goroutine is done, the account cools down if the answer
\* that was stored last says so, and not if it does not, in whatever order the answers
\* of the goroutines came and were looked at.  Not decided is what happened when another
\* setter has come since, or a goroutine that had looked at an older answer: it unlocks
\* before it sets, and the account is then as the older answer says.
AnswerDecides ==
  (\A p \in Threads : proc[p] = Resting) /\ watched.pooled /\ watched.status # "disabled" =>
    /\ decided = "low" => Exhausted
    /\ decided = "good" => ~Exhausted

\* health.go:203: an account that stays in a pool that does not change is visited in
\* every series of rounds that is as long as the pool has batches.
Covered == round.missed * Batch < round.n

=============================================================================
