------------------------------- MODULE PickCache -------------------------------
(***************************************************************************)
(* The round-robin selector (internal/auth/selector.go) and the picks of   *)
(* the manager that go through it (internal/auth/manager.go).  The         *)
(* selector has no lock: it keeps a list of pickable accounts behind an    *)
(* atomic pointer, one goroutine at a time rebuilds it, and an atomic      *)
(* cursor hands out the turns.  Every caller brings candidates of its own, *)
(* but all share the one list.                                             *)
(*                                                                         *)
(* Times are what is left of the list's life, so they need no bound.       *)
(***************************************************************************)
EXTENDS Integers, Sequences, FiniteSets

CONSTANTS
  Procs,     \* goroutines that pick
  Accts,     \* accounts
  Worlds,    \* the accounts loaded, those that stay pickable, what callers exclude
  TTL,       \* ticks that a list lives
  ProbeMax,  \* maxPickProbePerPass
  Turns      \* bound: the cursor wraps at this value

Passes == 2  \* maxRebuildPasses

ASSUME CacheAssumption ==
  /\ Worlds \subseteq [loaded : SUBSET Accts, steady : SUBSET Accts, excluded : SUBSET SUBSET Accts]
  /\ \A w \in Worlds : w.steady \subseteq w.loaded
  /\ IsFiniteSet(Accts)
  /\ TTL \in Nat \ {0}
  /\ ProbeMax \in Nat \ {0}
  /\ Turns \in Nat \ {0}

VARIABLES
  world,       \* fixed: what this behaviour is about
  pool,        \* the accounts of the published snapshot
  up,          \* the accounts that accountPickableAt accepts
  cache,       \* cachePtr: a list, what is left of its life and, as history,
               \* what the caller that built it had excluded
  cursor,
  refreshing,  \* the goroutine that rebuilds the list, or Nobody
  pick         \* per goroutine: its Pick

vars == << world, pool, up, cache, cursor, refreshing, pick >>

Nobody == "nobody"
NoCache == [list |-> << >>, left |-> -1, from |-> {}]
NoTurn  == -1

Places == {"idle", "look", "race", "spin", "build", "store", "release",
           "probe", "take", "last", "found", "failed"}

\* The candidates of a pick, the list it works on, what the builder of that list
\* had excluded and the life it was built with, its pass, the turn it wants or
\* got, and the account.
Picks == [at : Places, among : SUBSET Accts, without : SUBSET Accts, list : Seq(Accts),
          from : SUBSET Accts, left : Int, pass : 1..Passes, turn : Int, got : SUBSET Accts]
Lists == [list : Seq(Accts), left : Int, from : SUBSET Accts]
Idle  == [at |-> "idle", among |-> {}, without |-> {}, list |-> << >>, from |-> {},
          left |-> 0, pass |-> 1, turn |-> NoTurn, got |-> {}]

TypeOK ==
  /\ world \in Worlds
  /\ pool \subseteq Accts
  /\ up \subseteq Accts
  /\ cache \in Lists
  /\ cursor \in 0..(Turns - 1)
  /\ refreshing \in Procs \cup {Nobody}
  /\ pick \in [Procs -> Picks]

Init ==
  /\ world \in Worlds
  /\ pool = world.loaded
  /\ up \in {u \in SUBSET pool : world.steady \subseteq u}
  /\ cache = NoCache
  /\ cursor = 0
  /\ refreshing = Nobody
  /\ pick = [p \in Procs |-> Idle]

Members(s) == {s[i] : i \in 1..Len(s)}

\* sortByUsedPercent: the figures are data, any order may come out.
Orders(S) == {s \in [1..Cardinality(S) -> S] : Members(s) = S}

\* Goroutine p goes on at place s; p returns nothing, for want of an account
\* outside x.
Goto(p, s) == pick' = [pick EXCEPT ![p].at = s]
Fail(p, x) == pick' = [pick EXCEPT ![p] = [Idle EXCEPT !.at = "failed", !.from = x,
                                                       !.without = pick[p].without]]

\* Account a is the answer.
Found(p, a) ==
  pick' = [pick EXCEPT ![p] = [Idle EXCEPT !.at = "found", !.without = pick[p].without, !.got = {a}]]

\* The list to work on is l, from a builder that had excluded x.
Take(p, l, x) == pick' = [pick EXCEPT ![p].at = "probe", ![p].list = l, ![p].from = x,
                                      ![p].left = 0, ![p].turn = NoTurn]

-----------------------------------------------------------------------------
\* PickExcluding: among the accounts that are not excluded those that are
\* pickable, or all of them if none is.
Pick(p, without) ==
  /\ pick[p].at = "idle"
  /\ LET filtered   == pool \ without
         activeOnly == filtered \cap up
         among      == IF without # {} /\ activeOnly # {} THEN activeOnly ELSE filtered
         empty      == without # {} /\ filtered = {}
     IN pick' = [pick EXCEPT ![p] = [Idle EXCEPT !.at = IF empty THEN "failed" ELSE "look",
                                                 !.among = among, !.without = without,
                                                 !.from = IF empty THEN without ELSE {}]]
  /\ UNCHANGED << world, pool, up, cache, cursor, refreshing >>

\* (bug) a list never gets too old.
FreshForever == cache # NoCache

\* The cache holds a list that is younger than availableCacheTTLMs.
Fresh == cache # NoCache /\ cache.left > 0

\* getOrRefreshCache reads the clock and the list.
Look(p) ==
  /\ pick[p].at = "look"
  /\ \/ Fresh /\ Take(p, cache.list, cache.from)
     \/ /\ ~Fresh
        /\ pick' = [pick EXCEPT ![p].at = "race", ![p].left = TTL,
                                ![p].list = cache.list, ![p].from = cache.from,
                                ![p].turn = IF cache = NoCache THEN NoTurn ELSE 0]
  /\ UNCHANGED << world, pool, up, cache, cursor, refreshing >>

\* (bug) who loses takes the list it saw, even if it saw none.
RaceBlindly(p) ==
  /\ pick[p].at = "race"
  /\ \/ refreshing = Nobody /\ refreshing' = p /\ Goto(p, "build")
     \/ refreshing # Nobody /\ Take(p, pick[p].list, pick[p].from) /\ UNCHANGED refreshing
  /\ UNCHANGED << world, pool, up, cache, cursor >>

\* CompareAndSwap on refreshing.  Who loses takes the old list it saw, or waits
\* if it saw none.
Race(p) ==
  /\ pick[p].at = "race"
  /\ \/ refreshing = Nobody /\ refreshing' = p /\ Goto(p, "build")
     \/ /\ refreshing # Nobody
        /\ IF pick[p].turn = NoTurn THEN Goto(p, "spin") ELSE Take(p, pick[p].list, pick[p].from)
        /\ UNCHANGED refreshing
  /\ UNCHANGED << world, pool, up, cache, cursor >>

\* The wait ends with a list, or when nobody rebuilds or it took too long with a
\* filter over the candidates.
Spin(p) ==
  /\ pick[p].at = "spin"
  /\ \/ cache # NoCache /\ Take(p, cache.list, cache.from)
     \/ cache = NoCache /\ \E l \in Orders(pick[p].among \cap up) : Take(p, l, pick[p].without)
  /\ UNCHANGED << world, pool, up, cache, cursor, refreshing >>

\* filterAvailable and the sort.
Build(p) ==
  /\ pick[p].at = "build"
  /\ \E l \in Orders(pick[p].among \cap up) :
       pick' = [pick EXCEPT ![p].at = "store", ![p].list = l,
                                ![p].from = pick[p].without]
  /\ UNCHANGED << world, pool, up, cache, cursor, refreshing >>

\* The list is as old as the clock that was read before it was built.
Store(p) ==
  /\ pick[p].at = "store"
  /\ cache' = [list |-> pick[p].list, left |-> pick[p].left, from |-> pick[p].from]
  /\ Goto(p, "release")
  /\ UNCHANGED << world, pool, up, cursor, refreshing >>

Release(p) ==
  /\ pick[p].at = "release"
  /\ refreshing' = Nobody
  /\ Take(p, pick[p].list, pick[p].from)
  /\ UNCHANGED << world, pool, up, cache, cursor >>

-----------------------------------------------------------------------------
\* The places of a list that are looked at from a cursor on, nearest first.
At(l, n)   == l[(n % Len(l)) + 1]
Probed(l)  == 0..((IF Len(l) < ProbeMax THEN Len(l) ELSE ProbeMax) - 1)
Hits(l, c) == {i \in Probed(l) : At(l, c + 1 + i) \in up}

\* Goroutine p goes on at place s of pass n, with its candidates only.
Restart(p, s, n) ==
  pick' = [pick EXCEPT ![p] = [Idle EXCEPT !.at = s, !.pass = n, !.among = pick[p].among,
                                           !.without = pick[p].without]]

\* The list is given up; a second pass rebuilds it, then the candidates are
\* filtered without it.
GiveUp(p) ==
  /\ cache' = NoCache
  /\ IF pick[p].pass < Passes
     THEN Restart(p, "look", pick[p].pass + 1)
     ELSE Restart(p, "last", Passes)

\* The cursor is read and the nearest account found that is pickable.
Probe(p) ==
  /\ pick[p].at = "probe"
  /\ LET l == pick[p].list
     IN \/ l = << >> /\ Fail(p, pick[p].from) /\ UNCHANGED cache
        \/ l # << >> /\ Hits(l, cursor) = {} /\ GiveUp(p)
        \/ \E i \in Hits(l, cursor) :
             /\ \A j \in Hits(l, cursor) : i <= j
             /\ pick' = [pick EXCEPT ![p].at = "take", ![p].turn = cursor, ![p].left = i]
             /\ UNCHANGED cache
  /\ UNCHANGED << world, pool, up, cursor, refreshing >>

\* CompareAndSwap on the cursor.  After a lost race the goroutine probes again,
\* or has lost too often.
Grab(p) ==
  /\ pick[p].at = "take"
  /\ \/ /\ cursor = pick[p].turn
        /\ cursor' = (cursor + 1 + pick[p].left) % Turns
        /\ Found(p, At(pick[p].list, cursor + 1 + pick[p].left))
        /\ UNCHANGED cache
     \/ /\ cursor # pick[p].turn
        /\ UNCHANGED cursor
        /\ \/ Take(p, pick[p].list, pick[p].from) /\ UNCHANGED cache
           \/ GiveUp(p)
  /\ UNCHANGED << world, pool, up, refreshing >>

\* Every pass failed: any candidate that is pickable now.  The one that was
\* there may be gone after the cursor was moved.
Last(p) ==
  /\ pick[p].at = "last"
  /\ \/ /\ cursor' = (cursor + 1) % Turns
        /\ \E a \in pick[p].among \cap up : Found(p, a)
     \/ /\ cursor' \in {cursor, (cursor + 1) % Turns}
        /\ pick[p].among \cap up = {}
        /\ Fail(p, pick[p].without)
  /\ UNCHANGED << world, pool, up, cache, refreshing >>

\* The caller has its answer.
Return(p) ==
  /\ pick[p].at \in {"found", "failed"}
  /\ pick' = [pick EXCEPT ![p] = Idle]
  /\ UNCHANGED << world, pool, up, cache, cursor, refreshing >>

-----------------------------------------------------------------------------
\* A setter, a cooldown that ends or a token about to expire.
Flip(a) ==
  /\ a \in pool \ world.steady
  /\ up' = IF a \in up THEN up \ {a} ELSE up \cup {a}
  /\ UNCHANGED << world, pool, cache, cursor, refreshing, pick >>

\* InvalidateAvailableCache, some time after a change.
Invalidate ==
  /\ cache # NoCache
  /\ cache' = NoCache
  /\ UNCHANGED << world, pool, up, cursor, refreshing, pick >>

\* RemoveAccount publishes a snapshot without the account.
Remove(a) ==
  /\ a \in pool \ world.steady
  /\ pool' = pool \ {a}
  /\ UNCHANGED << world, up, cache, cursor, refreshing, pick >>

Aging(p) == pick[p].at \in {"race", "build", "store"} /\ pick[p].left > 0

Tick ==
  /\ cache.left > 0 \/ \E p \in Procs : Aging(p)
  /\ cache' = IF cache.left > 0 THEN [cache EXCEPT !.left = @ - 1] ELSE cache
  /\ pick' = [p \in Procs |-> IF Aging(p) THEN [pick[p] EXCEPT !.left = @ - 1] ELSE pick[p]]
  /\ UNCHANGED << world, pool, up, cursor, refreshing >>

Proceed(p) ==
  \/ Look(p) \/ Race(p) \/ Spin(p) \/ Build(p) \/ Store(p) \/ Release(p)
  \/ Probe(p) \/ Grab(p) \/ Last(p) \/ Return(p)

Next ==
  \/ \E p \in Procs, x \in world.excluded : Pick(p, x)
  \/ \E p \in Procs : Proceed(p)
  \/ \E a \in Accts : Flip(a)
  \/ \E a \in Accts : Remove(a)
  \/ Invalidate
  \/ Tick

Spec == Init /\ [][Next]_vars

\* A pick runs on, and time passes.
FairSpec ==
  /\ Spec
  /\ \A p \in Procs : WF_vars(Proceed(p))
  /\ WF_vars(Tick)

-----------------------------------------------------------------------------
\* selector.go:155: a pick comes back empty-handed while accounts stay pickable
\* only if the list it worked on, its own or one it found, lost or waited for, was
\* built for a caller that had excluded all of these.  A pick without exclusions
\* may so fail for what a retry excluded (manager.go:1239 hands the selector what
\* the retry left, selector.go:181 stores it for all), and for nothing else.
SteadyIsFound ==
  \A p \in Procs : pick[p].at = "failed" => world.steady \subseteq pick[p].from

\* selector.go:17: an account that was removed is picked no more, once the lists
\* that held it are gone.
RemovedFadesOut ==
  \A a \in Accts : (<>[](a \notin pool)) => (<>[](\A p \in Procs : a \notin pick[p].got))

\* manager.go:1205 "excluding the accounts already used".
ExclusionHonoured == \A p \in Procs : pick[p].got \cap pick[p].without = {}

=============================================================================
