--------------------------- MODULE MCAccountStatus ---------------------------
(* Worlds for the AccountStatus runs. *)
EXTENDS AccountStatus, TLC

CONSTANTS p1, p2

Procs2 == {p1, p2}
Alike  == Permutations(Procs2)

\* Every call site but two (a last-resort pick does all that a request does, a
\* refresh policy all that a probe does), over credential files and a database.
Crowded == [callers : {AllCallers \ {"request", "probe"}}, db : BOOLEAN]

\* The administrator and the health check.
Probed == {[callers |-> {"disable", "enable", "probe"}, db |-> FALSE]}

=============================================================================
