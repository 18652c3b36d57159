---------------------------- MODULE MCRequestRetry ----------------------------
(* Worlds for the RequestRetry runs. *)
EXTENDS RequestRetry, TLC

CONSTANTS a1, a2, a3

Accounts3 == {a1, a2, a3}

W(h, p, f, s, r) == [healthy |-> h, precheck |-> p, fan |-> f, stale |-> s, recent |-> r]

AllWorlds == {W(FALSE, FALSE, TRUE, FALSE, {}), W(TRUE, TRUE, FALSE, FALSE, {a1}),
              W(TRUE, FALSE, TRUE, FALSE, {a1, a2}), W(FALSE, TRUE, FALSE, TRUE, {}),
              W(TRUE, TRUE, FALSE, TRUE, {})}

FanWorld == {W(FALSE, FALSE, TRUE, FALSE, {})}

=============================================================================
