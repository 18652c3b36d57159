---------------------------- MODULE MCEventStreams ----------------------------
(* EventStreams on small responses: the runs give its bounds. *)
EXTENDS EventStreams, TLC

=============================================================================
