------------------------------ MODULE MCPickCache ------------------------------
(* Worlds for the PickCache runs. *)
EXTENDS PickCache, TLC

CONSTANTS p1, p2, a1, a2

Procs2 == {p1, p2}
Accts2 == {a1, a2}

\* Picks without exclusions from one account that comes and goes; picks that
\* exclude nothing beside retries that exclude the one of two accounts that
\* always works.
AllWorlds == {[loaded |-> {a1}, steady |-> {}, excluded |-> {{}}],
              [loaded |-> {a1, a2}, steady |-> {a1}, excluded |-> {{}, {a1}}]}

\* Retries that exclude one of two accounts that work.
Retries == {[loaded |-> {a1, a2}, steady |-> {a1, a2}, excluded |-> {{}, {a1}}]}

=============================================================================
