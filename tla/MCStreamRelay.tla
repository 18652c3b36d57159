---------------------------- MODULE MCStreamRelay ----------------------------
(* Worlds for the StreamRelay run. *)
EXTENDS StreamRelay, TLC

W(m, p, s, f) == [mode |-> m, provider |-> p, standby |-> s, fan |-> f]

AllWorlds == {W("chat", TRUE, TRUE, FALSE), W("chat", FALSE, TRUE, TRUE), W("raw", TRUE, TRUE, TRUE),
              W("filtered", FALSE, TRUE, FALSE), W("claude", TRUE, TRUE, TRUE),
              W("collect", FALSE, TRUE, TRUE), W("claudeCollect", TRUE, FALSE, FALSE)}

=============================================================================
