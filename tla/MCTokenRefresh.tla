---------------------------- MODULE MCTokenRefresh ----------------------------
(* Worlds for the TokenRefresh runs. *)
EXTENDS TokenRefresh, TLC

CONSTANTS p1, p2

Procs2 == {p1, p2}

\* The loops, requests and recoveries of an account that stays; everybody, with
\* answers that are lost; and requests that hold an object that was replaced.
AllWorlds == {[kinds |-> {"refresh", "inline", "recover"}, faults |-> {"revoked"}],
              [kinds |-> Kinds, faults |-> {"lost"}],
              [kinds |-> {"refresh", "recover"}, faults |-> {"replaced"}]}

Replaced == {w \in AllWorlds : w.faults = {"replaced"}}

=============================================================================
