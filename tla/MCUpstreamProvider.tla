-------------------------- MODULE MCUpstreamProvider --------------------------
(* The upstream provider: two administrators who save and fetch at the same
   time, and one with two requests. *)
EXTENDS UpstreamProvider, TLC

CONSTANTS a1, a2, r1, r2, u1, u2, k1, k2

MCAdmins == {a1, a2}
MCRequests == {r1, r2}
MCWorlds == { [admins |-> MCAdmins, requests |-> {}], [admins |-> {a1}, requests |-> MCRequests] }
MCUrls == {u1, u2}
MCKeys == {k1, k2}

\* Switched on with a key, another server with the key that is saved, and switched
\* off with another key.
MCInputs ==
  { [auto |-> TRUE,  target |-> [url |-> u1, key |-> k1]],
    [auto |-> TRUE,  target |-> [url |-> u2, key |-> None]],
    [auto |-> FALSE, target |-> [url |-> u1, key |-> k2]] }
=============================================================================
