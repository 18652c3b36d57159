----------------------------- MODULE MCAccountPool -----------------------------
(* Worlds for the AccountPool runs. *)
EXTENDS AccountPool, TLC

CONSTANTS p1, p2, p3

Procs2 == {p1, p2}
Procs3 == {p1, p2, p3}

W(o, s, q, f) == [ops |-> o, savers |-> s, queue |-> q, faults |-> f]

\* Everything with one save worker and failures; removals against two save
\* workers; and tokens on their way to the file.
AllWorlds == {W(Ops, 1, 1, TRUE),
              W(Removers, 1, 1, TRUE),
              W(Removers, 2, 2, FALSE),
              W(Removers, 1, 3, FALSE),
              W({"refresh", "upload"}, 1, 3, FALSE)}

\* Two save workers, as in the default configuration four.
SharedTmp == {W({"refresh"}, 2, 2, TRUE)}

\* Removal and the scan for new files.
Rescanned == {W({"remove", "scan"}, 1, 1, FALSE)}

=============================================================================
