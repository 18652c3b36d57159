------------------------- MODULE MCRequestTranslation -------------------------
(* Tools and requests for the RequestTranslation run: names that are cut to   *)
(* the same name, and names that are what others are cut or numbered to.      *)
(* Letters are the numbers below -2.                                          *)
EXTENDS RequestTranslation

F(name) == [type |-> "function", name |-> name]

MailA  == F(<<Mcp, -3, Bar, -10>>)
MailB  == F(<<Mcp, -4, Bar, -10>>)
Mail   == F(<<Mcp, -10>>)
MailN  == F(<<Mcp, -10, 1>>)
Long   == F(<<-6, -7, -8, -9>>)
Custom == [type |-> "custom", name |-> <<-6, -7>>]
Image  == [type |-> "image_generation", name |-> <<>>]

Toolsets ==
  {<<>>, <<MailA>>, <<MailB>>, <<MailB, MailA>>, <<Mail, MailA>>, <<MailA, MailB, MailN>>,
   <<Mail, MailN>>, <<Long, Custom>>, <<MailA, MailA>>, <<MailB, Mail, Image>>}

A(model, fields, json, choice) == [model |-> model, fields |-> fields, json |-> json, choice |-> choice]
Unsaid == <<"absent", "absent", "absent">>

\* The last function.
ChosenOf(tools) == Max({0} \cup {k \in DOMAIN tools : tools[k].type = "function"})

MCBodies ==
  {[tools |-> tools, ask |-> A(<<"gpt">>, Unsaid, FALSE, ChosenOf(tools))] : tools \in Toolsets}
  \cup {[tools |-> <<>>, ask |-> A(model, fields, FALSE, 0)] :
          model \in {<<"gpt">>, <<"gpt", "high">>, <<"gpt", "9000", "1m", "fast">>, <<"gpt", "image">>},
          fields \in {<<"low", "high", "absent">>, <<"empty", "low", "high">>, <<"absent", "empty", "none">>}}
  \cup {[tools |-> <<Mail>>, ask |-> A(<<"codex", "max">>, Unsaid, TRUE, 1)]}

=============================================================================
