------------------------- MODULE MCStandbyController -------------------------
(* Worlds for the StandbyController runs. *)
EXTENDS StandbyController, TLC

CONSTANTS p1, p2, l1, l2

Procs2 == {p1, p2}
Lives1 == {l1}
Lives2 == {l1, l2}
BothLoops   == {"refresh", "recheck"}
RefreshLoop == {"refresh"}

\* Two calls at once.
Race == [procs |-> {p1, p2}, ops |-> {"pick", "primaryOnly", "standbyOnly"}, spent |-> {{}},
         primary |-> {"up", "none"}, standby |-> {"none", "up"},
         auto |-> FALSE, moves |-> {}, notes |-> 0, restarts |-> 0]

\* One call at a time, of every variant.
Variants == [procs |-> {p1}, ops |-> Ops, spent |-> {{}},
             primary |-> PoolStates, standby |-> PoolStates \cup {"empty"},
             auto |-> FALSE, moves |-> {}, notes |-> 0, restarts |-> 0]

\* The NewAPI switch and all that interferes with it.
Switch == [procs |-> {p1}, ops |-> {"pick", "sync", "standbyCooling"}, spent |-> {{}},
           primary |-> {"up", "cooling"}, standby |-> {"up"},
           auto |-> TRUE, moves |-> Moves, notes |-> 1, restarts |-> 1]

\* Calls that have excluded every account of the primary pool, or of both.
Spent == [procs |-> {p1}, ops |-> Ops, spent |-> {{}, {"primary"}, {"primary", "standby"}},
          primary |-> {"up"}, standby |-> {"up"},
          auto |-> TRUE, moves |-> {}, notes |-> 1, restarts |-> 0]

AllWorlds   == {Race, Variants, Switch, Spent}
RaceWorld   == {Race}
SpentWorld  == {Spent}

=============================================================================
