---------------------------- MODULE PickCacheProofs ----------------------------
(***************************************************************************)
(* Proofs about PickCache: its types, and what a pick that comes back       *)
(* empty-handed means.  The argument is local: every list that is stored,   *)
(* shared or in a goroutine's hands holds the accounts that stay pickable,  *)
(* all but those that the caller who built it had excluded.                 *)
(***************************************************************************)
EXTENDS PickCache, FiniteSetTheorems, TLAPS

\* The accounts that stay pickable are there.
Steadfast == world.steady \subseteq pool /\ world.steady \subseteq up

\* A list that is taken from is not empty.
Able(r) == r.at = "take" => r.list # << >>

\* List l, built without x, holds the accounts that stay pickable.
Holds(l, x) == world.steady \ x \subseteq Members(l)

\* The candidates and the list of a pick hold the accounts that stay pickable.
Carries(r) ==
  /\ r.at = "failed" => world.steady \subseteq r.from
  /\ r.at \notin {"idle", "found", "failed"} => world.steady \ r.without \subseteq r.among
  /\ r.at \in {"store", "release", "probe", "take"} => Holds(r.list, r.from)
  /\ r.at = "race" /\ r.turn # NoTurn => Holds(r.list, r.from)

CacheCarries == cache # NoCache => Holds(cache.list, cache.from)

Inv ==
  /\ TypeOK
  /\ Steadfast
  /\ \A p \in Procs : Able(pick[p])
  /\ CacheCarries
  /\ \A p \in Procs : Carries(pick[p])

\* The share of Inv of a pick that is at r.
Good(r) ==
  /\ r \in Picks
  /\ Able(r)
  /\ Carries(r)

\* The share of Inv of a cache.
GoodCache(c) ==
  /\ c \in Lists
  /\ c # NoCache => Holds(c.list, c.from)

-----------------------------------------------------------------------------
\* A goroutine has a good record and the cache a good list.
LEMMA Given ==
  ASSUME Inv, NEW p \in Procs
  PROVE  pick[p] \in Picks /\ Good(pick[p]) /\ GoodCache(cache)
BY DEF Inv, TypeOK, Good, GoodCache, CacheCarries

\* The invariant survives a step in which one goroutine takes a good record and
\* the cache stays good.
LEMMA Turn ==
  ASSUME Inv, NEW p \in Procs, NEW r, Good(r),
         pick' = [pick EXCEPT ![p] = r],
         world' = world, pool' = pool, up' = up,
         GoodCache(cache'),
         cursor' \in 0..(Turns - 1),
         refreshing' \in Procs \cup {Nobody}
  PROVE  Inv'
<1>1. pick' \in [Procs -> Picks]
  BY DEF Inv, TypeOK, Good
<1>2. TypeOK'
  BY <1>1 DEF Inv, TypeOK, GoodCache
<1>3. \A q \in Procs : pick'[q] = IF q = p THEN r ELSE pick[q]
  BY DEF Inv, TypeOK
<1>4. \A q \in Procs : Able(pick'[q])
  BY <1>3 DEF Inv, Good
<1>5. Steadfast'
  BY DEF Inv, Steadfast
<1>6. CacheCarries'
  BY DEF GoodCache, CacheCarries, Holds
<1>7. \A q \in Procs : Carries(pick'[q])
  BY <1>3 DEF Inv, Good
<1>8. \A q \in Procs : Carries(pick[q])'
  BY <1>7 DEF Carries, Holds
<1> QED BY <1>2, <1>4, <1>5, <1>6, <1>8 DEF Inv, Able

\* A list in some order of a set of accounts is a list, of just these accounts.
LEMMA OrdersAreLists ==
  ASSUME CacheAssumption, NEW S \in SUBSET Accts, NEW l \in Orders(S)
  PROVE  l \in Seq(Accts) /\ Members(l) = S
<1>1. Cardinality(S) \in Nat
  BY FS_Subset, FS_CardinalityType DEF CacheAssumption
<1>2. l \in [1..Cardinality(S) -> Accts]
  BY DEF Orders
<1> QED BY <1>1, <1>2 DEF Orders

\* What is at a place of a list that is not empty is an account.
LEMMA AtIsAcct ==
  ASSUME NEW l \in Seq(Accts), l # << >>, NEW n \in Int
  PROVE  At(l, n) \in Accts
<1>1. Len(l) \in Nat \ {0}
  OBVIOUS
<1>2. (n % Len(l)) + 1 \in 1..Len(l)
  BY <1>1
<1> QED BY <1>2 DEF At

\* The idle record is good.
LEMMA IdleIsGood == Good(Idle)
BY DEF Good, Able, Carries, Idle, Picks, Places, NoTurn, Passes

LEMMA TakenIsPick ==
  ASSUME NEW q \in Picks, NEW l \in Seq(Accts), NEW x \in SUBSET Accts
  PROVE  [q EXCEPT !.at = "probe", !.list = l, !.from = x, !.left = 0, !.turn = NoTurn] \in Picks
<1>1. "probe" \in Places /\ NoTurn \in Int
  BY DEF Places, NoTurn
<1> DEFINE a == [q EXCEPT !.at = "probe", !.list = l, !.from = x]
<1>2. a \in Picks
  BY <1>1 DEF Picks
<1>3. [q EXCEPT !.at = "probe", !.list = l, !.from = x, !.left = 0, !.turn = NoTurn]
        = [a EXCEPT !.left = 0, !.turn = NoTurn]
  BY DEF Picks
<1> HIDE DEF a
<1>4. ASSUME NEW b \in Picks, NEW n \in Int
      PROVE  [b EXCEPT !.left = n] \in Picks /\ [b EXCEPT !.turn = n] \in Picks
  BY <1>4, Zenon DEF Picks
<1>5. [a EXCEPT !.left = 0, !.turn = NoTurn] = [[a EXCEPT !.left = 0] EXCEPT !.turn = NoTurn]
  OBVIOUS
<1>6. 0 \in Int
  OBVIOUS
<1> QED BY <1>1, <1>2, <1>3, <1>4, <1>5, <1>6

LEMMA TakeKeeps ==
  ASSUME Inv, NEW p \in Procs, NEW l \in Seq(Accts), NEW x \in SUBSET Accts, Take(p, l, x),
         pick[p].at \notin {"idle", "found", "failed"},
         Holds(l, x),
         UNCHANGED << world, pool, up, cache >>,
         cursor' \in 0..(Turns - 1),
         refreshing' \in Procs \cup {Nobody}
  PROVE  Inv'
<1> DEFINE r == [pick[p] EXCEPT !.at = "probe", !.list = l, !.from = x, !.left = 0, !.turn = NoTurn]
<1>1. pick[p] \in Picks /\ Good(pick[p]) /\ GoodCache(cache)
  BY Given
<1>2. pick' = [pick EXCEPT ![p] = r]
  BY DEF Take
<1>3. r \in Picks
  BY <1>1, TakenIsPick
<1>4. /\ r.at = "probe" /\ r.list = l /\ r.from = x
      /\ r.among = pick[p].among /\ r.without = pick[p].without
  BY <1>1 DEF Picks
<1> HIDE DEF r
<1>5. Good(r)
  BY <1>1, <1>3, <1>4 DEF Good, Able, Carries
<1> QED BY <1>1, <1>2, <1>5, Turn

LEMMA GotoKeeps ==
  ASSUME Inv, NEW p \in Procs, NEW s \in Places, Goto(p, s),
         pick[p].at \notin {"idle", "found", "failed"},
         s \notin {"take", "failed", "race"},
         s \in {"store", "release", "probe"} => pick[p].at \in {"store", "release", "probe", "take"},
         UNCHANGED << world, pool, up >>,
         GoodCache(cache'),
         cursor' \in 0..(Turns - 1),
         refreshing' \in Procs \cup {Nobody}
  PROVE  Inv'
<1> DEFINE r == [pick[p] EXCEPT !.at = s]
<1>1. pick[p] \in Picks /\ Good(pick[p]) /\ GoodCache(cache)
  BY Given
<1>2. pick' = [pick EXCEPT ![p] = r]
  BY DEF Goto
<1>3. r \in Picks
  BY <1>1 DEF Picks
<1>4. /\ r.at = s /\ r.list = pick[p].list /\ r.from = pick[p].from
      /\ r.among = pick[p].among /\ r.without = pick[p].without
  BY <1>1 DEF Picks
<1> HIDE DEF r
<1>5. Good(r)
  BY <1>1, <1>3, <1>4 DEF Good, Able, Carries
<1> QED BY <1>1, <1>2, <1>5, Turn

\* A goroutine that gives up its list keeps its candidates.
LEMMA GiveUpKeeps ==
  ASSUME Inv, NEW p \in Procs, GiveUp(p),
         pick[p].at \in {"probe", "take"},
         UNCHANGED << world, pool, up, cursor, refreshing >>
  PROVE  Inv'
<1> DEFINE R(s, n) == [Idle EXCEPT !.at = s, !.pass = n, !.among = pick[p].among,
                                   !.without = pick[p].without]
<1>1. pick[p] \in Picks /\ Good(pick[p]) /\ GoodCache(cache)
  BY Given
<1>2. GoodCache(cache')
  BY DEF GiveUp, GoodCache, NoCache, Lists
<1>3. \A s \in {"look", "last"}, n \in 1..Passes : Good(R(s, n))
  <2> TAKE s \in {"look", "last"}, n \in 1..Passes
  <2>1. R(s, n) \in Picks
    <3>1. s \in Places /\ Idle \in Picks
      BY IdleIsGood DEF Good, Places
    <3> QED BY <1>1, <3>1 DEF Picks
  <2>2. /\ R(s, n).at = s /\ R(s, n).among = pick[p].among
        /\ R(s, n).without = pick[p].without
    BY DEF Idle
  <2> HIDE DEF R
  <2> QED BY <1>1, <2>1, <2>2 DEF Good, Able, Carries
<1>4. PICK s \in {"look", "last"}, n \in 1..Passes : pick' = [pick EXCEPT ![p] = R(s, n)]
  <2>1. CASE pick[p].pass < Passes
    <3>1. pick[p].pass + 1 \in 1..Passes
      BY <1>1, <2>1 DEF Picks, Passes
    <3>2. pick' = [pick EXCEPT ![p] = R("look", pick[p].pass + 1)]
      BY <2>1 DEF GiveUp, Restart
    <3> HIDE DEF R
    <3> QED BY <3>1, <3>2
  <2>2. CASE ~(pick[p].pass < Passes)
    <3>1. Passes \in 1..Passes
      BY DEF Passes
    <3>2. pick' = [pick EXCEPT ![p] = R("last", Passes)]
      BY <2>2 DEF GiveUp, Restart
    <3> HIDE DEF R
    <3> QED BY <3>1, <3>2
  <2> QED BY <2>1, <2>2
<1>5. cursor' \in 0..(Turns - 1) /\ refreshing' \in Procs \cup {Nobody}
  BY DEF Inv, TypeOK
<1> HIDE DEF R
<1> QED BY <1>2, <1>3, <1>4, <1>5, Turn

-----------------------------------------------------------------------------

LEMMA FoundKeeps ==
  ASSUME Inv, NEW p \in Procs, NEW a \in Accts, Found(p, a),
         UNCHANGED << world, pool, up, cache >>,
         cursor' \in 0..(Turns - 1),
         UNCHANGED refreshing
  PROVE  Inv'
<1> DEFINE r == [Idle EXCEPT !.at = "found", !.without = pick[p].without, !.got = {a}]
<1>1. pick[p] \in Picks /\ Good(pick[p]) /\ GoodCache(cache)
  BY Given
<1>2. pick' = [pick EXCEPT ![p] = r]
  BY DEF Found
<1>3. r \in Picks
  <2>1. "found" \in Places /\ Idle \in Picks
    BY IdleIsGood DEF Good, Places
  <2> QED BY <1>1, <2>1 DEF Picks
<1>4. r.at = "found"
  BY DEF Idle
<1>5. refreshing \in Procs \cup {Nobody}
  BY DEF Inv, TypeOK
<1> HIDE DEF r
<1>6. Good(r)
  BY <1>3, <1>4 DEF Good, Able, Carries
<1> QED BY <1>1, <1>2, <1>5, <1>6, Turn

\* Who fails for want of an account outside x has all that work in x.
LEMMA FailKeeps ==
  ASSUME Inv, NEW p \in Procs, NEW x \in SUBSET Accts, Fail(p, x),
         world.steady \subseteq x,
         UNCHANGED << world, pool, up, cache >>,
         cursor' \in 0..(Turns - 1),
         UNCHANGED refreshing
  PROVE  Inv'
<1> DEFINE r == [Idle EXCEPT !.at = "failed", !.from = x, !.without = pick[p].without]
<1>1. pick[p] \in Picks /\ Good(pick[p]) /\ GoodCache(cache)
  BY Given
<1>2. pick' = [pick EXCEPT ![p] = r]
  BY DEF Fail
<1>3. r \in Picks
  <2>1. "failed" \in Places /\ Idle \in Picks
    BY IdleIsGood DEF Good, Places
  <2> QED BY <1>1, <2>1 DEF Picks
<1>4. r.at = "failed" /\ r.from = x
  BY DEF Idle
<1>5. refreshing \in Procs \cup {Nobody}
  BY DEF Inv, TypeOK
<1> HIDE DEF r
<1>6. Good(r)
  BY <1>3, <1>4 DEF Good, Able, Carries
<1> QED BY <1>1, <1>2, <1>5, <1>6, Turn

\* The invariant survives what happens around the picks.
LEMMA AroundKeeps ==
  ASSUME Inv, UNCHANGED << world, cursor, refreshing, pick >>,
         pool' \subseteq Accts, up' \subseteq Accts, Steadfast', GoodCache(cache')
  PROVE  Inv'
<1>1. TypeOK'
  BY DEF Inv, TypeOK, GoodCache
<1>2. CacheCarries' /\ \A q \in Procs : Carries(pick[q])'
  BY DEF Inv, GoodCache, CacheCarries, Carries, Holds
<1> QED BY <1>1, <1>2 DEF Inv, Able

-----------------------------------------------------------------------------
LEMMA PickKeeps ==
  ASSUME Inv, NEW p \in Procs, NEW without \in world.excluded, Pick(p, without)
  PROVE  Inv'
<1> DEFINE filtered == pool \ without
           active == filtered \cap up
           among == IF without # {} /\ active # {} THEN active ELSE filtered
           empty == without # {} /\ filtered = {}
           s == IF empty THEN "failed" ELSE "look"
           x == IF empty THEN without ELSE {}
           r == [Idle EXCEPT !.at = s, !.among = among, !.without = without, !.from = x]
<1>1. pick[p] \in Picks /\ Good(pick[p]) /\ GoodCache(cache)
  BY Given
<1>2. pick' = [pick EXCEPT ![p] = r]
  BY DEF Pick
<1>3. among \subseteq Accts /\ without \subseteq Accts /\ x \subseteq Accts /\ s \in Places
  BY CacheAssumption DEF Inv, TypeOK, Places
<1>4. /\ s = "failed" => world.steady \subseteq x
      /\ s = "look" => world.steady \ without \subseteq among
  BY DEF Inv, Steadfast
<1>5. r \in Picks /\ r.at = s /\ r.among = among /\ r.without = without /\ r.from = x
  <2>1. Idle \in Picks
    BY IdleIsGood DEF Good
  <2> HIDE DEF among, s, x
  <2> QED BY <1>3, <2>1 DEF Picks
<1>6. s \in {"look", "failed"}
  OBVIOUS
<1>7. UNCHANGED << world, pool, up, cache, cursor, refreshing >>
  BY DEF Pick
<1>8. cursor \in 0..(Turns - 1) /\ refreshing \in Procs \cup {Nobody}
  BY DEF Inv, TypeOK
<1> HIDE DEF r, s, x, among
<1>9. Good(r)
  BY <1>4, <1>5, <1>6 DEF Good, Able, Carries
<1> QED BY <1>1, <1>2, <1>7, <1>8, <1>9, Turn

LEMMA LookKeeps ==
  ASSUME Inv, NEW p \in Procs, Look(p)
  PROVE  Inv'
<1>1. pick[p] \in Picks /\ Good(pick[p]) /\ GoodCache(cache)
  BY Given
<1>2. UNCHANGED << world, pool, up, cache, cursor, refreshing >> /\ pick[p].at = "look"
  BY DEF Look
<1>3. cursor \in 0..(Turns - 1) /\ refreshing \in Procs \cup {Nobody}
  BY DEF Inv, TypeOK
<1>4. cache.list \in Seq(Accts) /\ cache.from \in SUBSET Accts
  BY <1>1 DEF GoodCache, Lists
<1>5. CASE Fresh /\ Take(p, cache.list, cache.from)
  <2>1. Holds(cache.list, cache.from)
    BY <1>1, <1>5 DEF GoodCache, Fresh
  <2> QED BY <1>2, <1>3, <1>4, <1>5, <2>1, TakeKeeps
<1>6. CASE ~(Fresh /\ Take(p, cache.list, cache.from))
  <2> DEFINE n == IF cache = NoCache THEN NoTurn ELSE 0
             a == [pick[p] EXCEPT !.at = "race", !.left = TTL]
             r == [a EXCEPT !.list = cache.list, !.from = cache.from, !.turn = n]
  <2>1. pick' = [pick EXCEPT ![p] = r]
    BY <1>1, <1>6 DEF Look, Picks
  <2>2. "race" \in Places /\ TTL \in Int /\ n \in Int /\ (n # NoTurn => cache # NoCache)
    BY CacheAssumption DEF Places, NoTurn
  <2> HIDE DEF n
  <2>3. a \in Picks /\ a.at = "race" /\ a.among = pick[p].among /\ a.without = pick[p].without
    BY <1>1, <2>2 DEF Picks
  <2> HIDE DEF a
  <2>4. /\ r \in Picks /\ r.at = "race" /\ r.among = a.among /\ r.without = a.without
        /\ r.list = cache.list /\ r.from = cache.from /\ r.turn = n
    BY <1>4, <2>2, <2>3 DEF Picks
  <2> HIDE DEF r
  <2>5. Good(r)
    BY <1>1, <1>2, <2>2, <2>3, <2>4 DEF Good, Able, Carries, GoodCache
  <2> QED BY <1>1, <1>2, <1>3, <2>1, <2>5, Turn
<1> QED BY <1>5, <1>6

LEMMA RaceKeeps ==
  ASSUME Inv, NEW p \in Procs, Race(p)
  PROVE  Inv'
<1>1. pick[p] \in Picks /\ Good(pick[p]) /\ GoodCache(cache)
  BY Given
<1>2. UNCHANGED << world, pool, up, cache, cursor >> /\ pick[p].at = "race"
  BY DEF Race
<1>3. cursor \in 0..(Turns - 1) /\ refreshing' \in Procs \cup {Nobody}
  BY DEF Inv, TypeOK, Race
<1>4. "build" \in Places /\ "spin" \in Places
  BY DEF Places
<1>5. CASE Goto(p, "build")
  BY <1>1, <1>2, <1>3, <1>4, <1>5, GotoKeeps
<1>6. CASE Goto(p, "spin")
  BY <1>1, <1>2, <1>3, <1>4, <1>6, GotoKeeps
<1>7. CASE pick[p].turn # NoTurn /\ Take(p, pick[p].list, pick[p].from)
  <2>1. pick[p].list \in Seq(Accts) /\ pick[p].from \in SUBSET Accts
    BY <1>1 DEF Picks
  <2>2. Holds(pick[p].list, pick[p].from)
    BY <1>1, <1>2, <1>7 DEF Good, Carries
  <2> QED BY <1>2, <1>3, <1>7, <2>1, <2>2, TakeKeeps
<1> QED BY <1>5, <1>6, <1>7 DEF Race

\* A filter over the candidates holds the accounts that stay pickable.
LEMMA FilterHolds ==
  ASSUME Inv, NEW p \in Procs, pick[p].at \notin {"idle", "found", "failed"},
         NEW l \in Orders(pick[p].among \cap up)
  PROVE  l \in Seq(Accts) /\ Holds(l, pick[p].without) /\ pick[p].without \in SUBSET Accts
<1>1. pick[p] \in Picks /\ Good(pick[p])
  BY Given
<1>2. (pick[p].among \cap up) \subseteq Accts
  BY <1>1 DEF Picks
<1>3. l \in Seq(Accts) /\ Members(l) = pick[p].among \cap up
  BY <1>2, CacheAssumption, OrdersAreLists
<1>4. world.steady \ pick[p].without \subseteq pick[p].among \cap up
  BY <1>1 DEF Good, Carries, Inv, Steadfast
<1> QED BY <1>1, <1>3, <1>4 DEF Holds, Picks

LEMMA SpinKeeps ==
  ASSUME Inv, NEW p \in Procs, Spin(p)
  PROVE  Inv'
<1>1. pick[p] \in Picks /\ Good(pick[p]) /\ GoodCache(cache)
  BY Given
<1>2. UNCHANGED << world, pool, up, cache, cursor, refreshing >> /\ pick[p].at = "spin"
  BY DEF Spin
<1>3. cursor \in 0..(Turns - 1) /\ refreshing \in Procs \cup {Nobody}
  BY DEF Inv, TypeOK
<1>4. CASE cache # NoCache /\ Take(p, cache.list, cache.from)
  <2>1. /\ cache.list \in Seq(Accts) /\ cache.from \in SUBSET Accts
        /\ Holds(cache.list, cache.from)
    BY <1>1, <1>4 DEF GoodCache, Lists
  <2> QED BY <1>2, <1>3, <1>4, <2>1, TakeKeeps
<1>5. CASE \E l \in Orders(pick[p].among \cap up) : Take(p, l, pick[p].without)
  <2>1. PICK l \in Orders(pick[p].among \cap up) : Take(p, l, pick[p].without)
    BY <1>5
  <2>2. l \in Seq(Accts) /\ Holds(l, pick[p].without) /\ pick[p].without \in SUBSET Accts
    BY <1>2, FilterHolds
  <2> QED BY <1>2, <1>3, <2>1, <2>2, TakeKeeps
<1> QED BY <1>4, <1>5 DEF Spin


LEMMA BuildKeeps ==
  ASSUME Inv, NEW p \in Procs, Build(p)
  PROVE  Inv'
<1>1. pick[p] \in Picks /\ Good(pick[p]) /\ GoodCache(cache)
  BY Given
<1>2. UNCHANGED << world, pool, up, cache, cursor, refreshing >> /\ pick[p].at = "build"
  BY DEF Build
<1>3. cursor \in 0..(Turns - 1) /\ refreshing \in Procs \cup {Nobody}
  BY DEF Inv, TypeOK
<1>4. PICK l \in Orders(pick[p].among \cap up) :
        pick' = [pick EXCEPT ![p].at = "store", ![p].list = l, ![p].from = pick[p].without]
  BY DEF Build
<1>5. l \in Seq(Accts) /\ Holds(l, pick[p].without) /\ pick[p].without \in SUBSET Accts
  BY <1>2, FilterHolds
<1> DEFINE r == [pick[p] EXCEPT !.at = "store", !.list = l, !.from = pick[p].without]
<1>6. pick' = [pick EXCEPT ![p] = r]
  BY <1>4
<1>7. "store" \in Places
  BY DEF Places
<1>8. /\ r \in Picks /\ r.at = "store" /\ r.list = l /\ r.from = pick[p].without
      /\ r.among = pick[p].among /\ r.without = pick[p].without
  BY <1>1, <1>5, <1>7 DEF Picks
<1> HIDE DEF r
<1>9. Good(r)
  BY <1>1, <1>2, <1>5, <1>8 DEF Good, Able, Carries
<1> QED BY <1>1, <1>2, <1>3, <1>6, <1>9, Turn

LEMMA StoreKeeps ==
  ASSUME Inv, NEW p \in Procs, Store(p)
  PROVE  Inv'
<1>1. pick[p] \in Picks /\ Good(pick[p])
  BY Given
<1>2. UNCHANGED << world, pool, up, cursor, refreshing >> /\ pick[p].at = "store"
  BY DEF Store
<1>3. cursor \in 0..(Turns - 1) /\ refreshing \in Procs \cup {Nobody}
  BY DEF Inv, TypeOK
<1>4. GoodCache(cache')
  BY <1>1, <1>2 DEF Store, Picks, Lists, GoodCache, Good, Carries
<1>5. "release" \in Places /\ Goto(p, "release")
  BY DEF Places, Store
<1> QED BY <1>2, <1>3, <1>4, <1>5, GotoKeeps

LEMMA ReleaseKeeps ==
  ASSUME Inv, NEW p \in Procs, Release(p)
  PROVE  Inv'
<1>1. pick[p] \in Picks /\ Good(pick[p])
  BY Given
<1>2. UNCHANGED << world, pool, up, cache, cursor >> /\ pick[p].at = "release" /\ refreshing' = Nobody
  BY DEF Release
<1>3. /\ pick[p].list \in Seq(Accts) /\ pick[p].from \in SUBSET Accts
      /\ Holds(pick[p].list, pick[p].from)
  BY <1>1, <1>2 DEF Picks, Good, Carries
<1>4. cursor \in 0..(Turns - 1) /\ Take(p, pick[p].list, pick[p].from)
  BY DEF Inv, TypeOK, Release
<1> QED BY <1>2, <1>3, <1>4, TakeKeeps

LEMMA ProbeKeeps ==
  ASSUME Inv, NEW p \in Procs, Probe(p)
  PROVE  Inv'
<1>1. pick[p] \in Picks /\ Good(pick[p]) /\ GoodCache(cache)
  BY Given
<1>2. UNCHANGED << world, pool, up, cursor, refreshing >> /\ pick[p].at = "probe"
  BY DEF Probe
<1>3. cursor \in 0..(Turns - 1) /\ refreshing \in Procs \cup {Nobody}
  BY DEF Inv, TypeOK
<1>4. CASE pick[p].list = << >> /\ Fail(p, pick[p].from) /\ UNCHANGED cache
  <2>1. Members(pick[p].list) = {}
    BY <1>4 DEF Members
  <2>2. world.steady \subseteq pick[p].from /\ pick[p].from \in SUBSET Accts
    BY <1>1, <1>2, <2>1 DEF Good, Carries, Holds, Picks
  <2> QED BY <1>2, <1>3, <1>4, <2>2, FailKeeps
<1>5. CASE GiveUp(p)
  BY <1>2, <1>5, GiveUpKeeps
<1>6. CASE /\ pick[p].list # << >>
           /\ UNCHANGED cache
           /\ \E i \in Nat : pick' = [pick EXCEPT ![p].at = "take", ![p].turn = cursor, ![p].left = i]
  <2>1. PICK i \in Nat : pick' = [pick EXCEPT ![p].at = "take", ![p].turn = cursor, ![p].left = i]
    BY <1>6
  <2> DEFINE a == [pick[p] EXCEPT !.at = "take", !.turn = cursor]
             r == [a EXCEPT !.left = i]
  <2>2. pick' = [pick EXCEPT ![p] = r]
    BY <2>1
  <2>3. "take" \in Places /\ cursor \in Int /\ i \in Int
    BY <1>3, CacheAssumption DEF Places
  <2>4. /\ a \in Picks /\ a.at = "take" /\ a.list = pick[p].list /\ a.from = pick[p].from
        /\ a.among = pick[p].among /\ a.without = pick[p].without
    BY <1>1, <2>3 DEF Picks
  <2> HIDE DEF a
  <2>5. /\ r \in Picks /\ r.at = "take" /\ r.list = pick[p].list /\ r.from = pick[p].from
        /\ r.among = pick[p].among /\ r.without = pick[p].without
    BY <2>3, <2>4 DEF Picks
  <2> HIDE DEF r
  <2>6. Good(r)
    BY <1>1, <1>2, <1>6, <2>5 DEF Good, Able, Carries
  <2> QED BY <1>1, <1>2, <1>3, <1>6, <2>2, <2>6, Turn
<1>7. \/ pick[p].list = << >> /\ Fail(p, pick[p].from) /\ UNCHANGED cache
      \/ GiveUp(p)
      \/ /\ pick[p].list # << >>
         /\ UNCHANGED cache
         /\ \E i \in Nat : pick' = [pick EXCEPT ![p].at = "take", ![p].turn = cursor, ![p].left = i]
  <2> DEFINE l == pick[p].list
  <2>1. CASE \E i \in Hits(l, cursor) :
               /\ pick' = [pick EXCEPT ![p].at = "take", ![p].turn = cursor, ![p].left = i]
               /\ UNCHANGED cache
    <3>1. PICK i \in Hits(l, cursor) :
               /\ pick' = [pick EXCEPT ![p].at = "take", ![p].turn = cursor, ![p].left = i]
               /\ UNCHANGED cache
      BY <2>1
    <3>2. i \in Probed(l)
      BY DEF Hits
    <3>3. l \in Seq(Accts)
      BY <1>1 DEF Picks
    <3>4. i \in Nat /\ l # << >>
      BY <3>2, <3>3, CacheAssumption DEF Probed
    <3> QED BY <3>1, <3>4
  <2> QED BY <2>1 DEF Probe
<1> QED BY <1>4, <1>5, <1>6, <1>7

LEMMA GrabKeeps ==
  ASSUME Inv, NEW p \in Procs, Grab(p)
  PROVE  Inv'
<1>1. pick[p] \in Picks /\ Good(pick[p])
  BY Given
<1>2. UNCHANGED << world, pool, up, refreshing >> /\ pick[p].at = "take"
  BY DEF Grab
<1>3. cursor \in 0..(Turns - 1) /\ refreshing \in Procs \cup {Nobody}
  BY DEF Inv, TypeOK
<1>4. pick[p].list \in Seq(Accts) /\ pick[p].list # << >> /\ pick[p].left \in Int
      /\ pick[p].from \in SUBSET Accts /\ Holds(pick[p].list, pick[p].from)
  BY <1>1, <1>2 DEF Picks, Good, Able, Carries
<1> DEFINE n == cursor + 1 + pick[p].left
<1>5. CASE Found(p, At(pick[p].list, n)) /\ cursor' = n % Turns /\ UNCHANGED cache
  <2>1. n \in Int
    BY <1>3, <1>4, CacheAssumption
  <2> HIDE DEF n
  <2>2. cursor' \in 0..(Turns - 1)
    BY <1>5, <2>1, CacheAssumption
  <2>3. At(pick[p].list, n) \in Accts
    BY <1>4, <2>1, AtIsAcct
  <2> QED BY <1>2, <1>5, <2>2, <2>3, FoundKeeps
<1>6. CASE UNCHANGED << cursor, cache >> /\ Take(p, pick[p].list, pick[p].from)
  BY <1>2, <1>3, <1>4, <1>6, TakeKeeps
<1>7. CASE UNCHANGED cursor /\ GiveUp(p)
  BY <1>2, <1>7, GiveUpKeeps
<1> QED BY <1>5, <1>6, <1>7 DEF Grab

LEMMA LastKeeps ==
  ASSUME Inv, NEW p \in Procs, Last(p)
  PROVE  Inv'
<1>1. pick[p] \in Picks /\ Good(pick[p])
  BY Given
<1>2. UNCHANGED << world, pool, up, cache, refreshing >> /\ pick[p].at = "last"
  BY DEF Last
<1>3. cursor' \in 0..(Turns - 1)
  BY CacheAssumption DEF Inv, TypeOK, Last
<1>4. CASE \E a \in pick[p].among \cap up : Found(p, a)
  <2>1. PICK a \in pick[p].among \cap up : Found(p, a)
    BY <1>4
  <2>2. a \in Accts
    BY <1>1 DEF Picks
  <2> QED BY <1>2, <1>3, <2>1, <2>2, FoundKeeps
<1>5. CASE pick[p].among \cap up = {} /\ Fail(p, pick[p].without)
  <2>1. world.steady \subseteq pick[p].without /\ pick[p].without \in SUBSET Accts
    BY <1>1, <1>2, <1>5 DEF Good, Carries, Picks, Inv, Steadfast
  <2> QED BY <1>2, <1>3, <1>5, <2>1, FailKeeps
<1> QED BY <1>4, <1>5 DEF Last

LEMMA ReturnKeeps ==
  ASSUME Inv, NEW p \in Procs, Return(p)
  PROVE  Inv'
<1>1. GoodCache(cache)
  BY Given
<1>2. UNCHANGED << world, pool, up, cache, cursor, refreshing >> /\ pick' = [pick EXCEPT ![p] = Idle]
  BY DEF Return
<1>3. cursor \in 0..(Turns - 1) /\ refreshing \in Procs \cup {Nobody}
  BY DEF Inv, TypeOK
<1> QED BY <1>1, <1>2, <1>3, IdleIsGood, Turn

\* Time only makes lists older.
LEMMA TickKeeps ==
  ASSUME Inv, Tick
  PROVE  Inv'
<1>1. UNCHANGED << world, pool, up, cursor, refreshing >>
  BY DEF Tick
<1>2. \A p \in Procs : /\ pick'[p] \in Picks
                       /\ pick'[p].at = pick[p].at
                       /\ pick'[p].list = pick[p].list
                       /\ pick'[p].from = pick[p].from
                       /\ pick'[p].without = pick[p].without
                       /\ pick'[p].among = pick[p].among
                       /\ pick'[p].turn = pick[p].turn
  <2> TAKE p \in Procs
  <2>1. pick[p] \in Picks
    BY Given
  <2>2. pick'[p] = IF Aging(p) THEN [pick[p] EXCEPT !.left = @ - 1] ELSE pick[p]
    BY DEF Tick
  <2> QED BY <2>1, <2>2 DEF Picks
<1>3. pick' \in [Procs -> Picks]
  BY <1>2 DEF Tick
<1>4. /\ cache' \in Lists
      /\ cache'.list = cache.list /\ cache'.from = cache.from
      /\ cache' # NoCache => cache # NoCache
  <2>1. cache \in Lists
    BY DEF Inv, TypeOK
  <2>2. CASE cache.left > 0
    <3>1. cache' = [cache EXCEPT !.left = @ - 1]
      BY <2>2 DEF Tick
    <3>. QED
      BY <2>1, <2>2, <3>1 DEF Lists, NoCache
  <2>3. CASE ~(cache.left > 0)
    BY <2>1, <2>3 DEF Tick
  <2>. QED
    BY <2>2, <2>3
<1>5. TypeOK'
  BY <1>1, <1>3, <1>4 DEF Inv, TypeOK
<1>6. \A p \in Procs : Able(pick'[p])
  BY <1>2 DEF Inv, Able
<1>7. Steadfast'
  BY <1>1 DEF Inv, Steadfast
<1>8. (CacheCarries /\ \A p \in Procs : Carries(pick[p]))'
  BY <1>1, <1>2, <1>4 DEF Inv, CacheCarries, Carries, Holds
<1> QED BY <1>1, <1>5, <1>6, <1>7, <1>8 DEF Inv, Able

-----------------------------------------------------------------------------
LEMMA InitHolds == Init => Inv
<1> SUFFICES ASSUME Init PROVE Inv
  OBVIOUS
<1>1. TypeOK /\ Steadfast
  BY IdleIsGood, CacheAssumption DEF Init, TypeOK, Steadfast, Good, NoCache, Lists
<1>2. \A p \in Procs : Good(pick[p])
  BY IdleIsGood DEF Init
<1>3. CacheCarries
  BY DEF Init, CacheCarries
<1> QED BY <1>1, <1>2, <1>3 DEF Inv, Good

LEMMA NextKeeps == Inv /\ [Next]_vars => Inv'
<1> SUFFICES ASSUME Inv, [Next]_vars PROVE Inv'
  OBVIOUS
<1>1. ASSUME NEW p \in Procs, NEW x \in world.excluded, Pick(p, x) PROVE Inv'
  BY <1>1, PickKeeps
<1>2. ASSUME NEW p \in Procs, Proceed(p) PROVE Inv'
  BY <1>2, LookKeeps, RaceKeeps, SpinKeeps, BuildKeeps, StoreKeeps, ReleaseKeeps,
     ProbeKeeps, GrabKeeps, LastKeeps, ReturnKeeps DEF Proceed
<1>3. ASSUME NEW a \in Accts, Flip(a) PROVE Inv'
  BY <1>3, AroundKeeps DEF Flip, Inv, TypeOK, Steadfast, GoodCache, CacheCarries
<1>4. ASSUME NEW a \in Accts, Remove(a) PROVE Inv'
  BY <1>4, AroundKeeps DEF Remove, Inv, TypeOK, Steadfast, GoodCache, CacheCarries
<1>5. CASE Invalidate
  <2>1. GoodCache(cache')
    BY <1>5 DEF Invalidate, GoodCache, NoCache, Lists
  <2> QED BY <1>5, <2>1, AroundKeeps DEF Invalidate, Inv, TypeOK, Steadfast
<1>6. CASE Tick
  BY <1>6, TickKeeps
<1>7. CASE UNCHANGED vars
  <2>1. GoodCache(cache') /\ pool' \subseteq Accts /\ up' \subseteq Accts /\ Steadfast'
    BY <1>7 DEF vars, Inv, TypeOK, Steadfast, GoodCache, CacheCarries
  <2> QED BY <1>7, <2>1, AroundKeeps DEF vars
<1> QED BY <1>1, <1>2, <1>3, <1>4, <1>5, <1>6, <1>7 DEF Next

\* Every list that picks share or hold keeps the accounts that stay pickable, but
\* for those its builder had excluded (getOrRefreshCache and Pick,
\* selector.go:83-187).
THEOREM ListsCarrySteady == Spec => []Inv
BY InitHolds, NextKeeps, PTL DEF Spec

\* The variables of the selector keep their types.
THEOREM TypeCorrect == Spec => []TypeOK
<1>1. Inv => TypeOK
  BY DEF Inv
<1> QED BY <1>1, ListsCarrySteady, PTL

\* Whatever races the rebuild of a list, and whatever callers exclude: a pick that
\* fails while accounts stay pickable worked on a list whose builder had excluded
\* every one of them (selector.go:83-187).
THEOREM SteadyFound == Spec => []SteadyIsFound
<1>1. Inv => SteadyIsFound
  BY DEF Inv, SteadyIsFound, Carries
<1> QED BY <1>1, ListsCarrySteady, PTL

=============================================================================
