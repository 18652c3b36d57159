----------------------------- MODULE MCQuotaWatch -----------------------------
(* Worlds for the QuotaWatch run. *)
EXTENDS QuotaWatch, TLC

CONSTANTS c1, c2, loop

Checkers2 == {c1, c2}

Fine == [weekly |-> "none", hours |-> "fine"]
Spent == [weekly |-> "lowForever", hours |-> "low"]
Windows2 == {Fine, Spent}

Configured(limit, unauthorized, forbidden) ==
  "429" :> limit @@ "401" :> unauthorized @@ "403" :> forbidden
Unset == [phase |-> "legacy", final |-> "cooldown"]
Watch(crew, kinds, policy) == [crew |-> crew, kinds |-> kinds, health |-> FALSE, policy |-> policy]
Plain(crew, kinds) == Watch(crew, kinds, Configured(Unset, Unset, Unset))

\* A goroutine of any kind beside the loop, without and with policies; two requests that
\* ask before they pick; and the health check.
Watched ==
  { Plain({c1}, Kinds \ {"recheck"}),
    Watch({c1}, {"recovery", "sweep"},
          Configured([phase |-> "wait", final |-> "cooldown"],
                     [phase |-> "refresh", final |-> "remove"], Unset)),
    Watch({c1}, {"refresh", "auth401", "sweep"},
          Configured([phase |-> "refresh", final |-> "remove"],
                     [phase |-> "wait", final |-> "remove"],
                     [phase |-> "none", final |-> "cooldown"])),
    Plain({c1, c2}, {"precheck"}),
    [Plain({}, {}) EXCEPT !.health = TRUE] }

=============================================================================
