-------------------------- MODULE RequestTranslation --------------------------
(***************************************************************************)
(* Translating a conversation for the upstream (internal/translator/       *)
(* request.go and claude.go, internal/thinking).  The upstream keeps       *)
(* nothing: each request of a client carries the whole conversation, with  *)
(* the calls and results of earlier turns, and the tools that the client   *)
(* has now, which it may have changed.  A name of a tool that is too long  *)
(* is cut for the upstream, and restored in what the client is told.       *)
(*                                                                         *)
(* A name is a sequence of symbols, which are integers: "mcp__" and "__"   *)
(* are one each, and so is the number that is put behind a name ("_1" is   *)
(* 1).  Of a block of a message only its place in the conversation is      *)
(* told.                                                                   *)
(***************************************************************************)
EXTENDS Integers, Sequences, SequencesExt, FiniteSetsExt

CONSTANTS
  Clients,   \* the APIs that clients use: "chat", "claude", "responses"
  Bodies,    \* what a request may ask for beside the conversation: [tools, ask]
  Limit,     \* the longest name that the upstream takes (64)
  MaxTurns,  \* bound: requests of a conversation
  MaxCalls   \* bound: calls of an answer

\* "other" stands for the tools that the upstream has of its own, as drawing is one.
ToolTypes == {"function", "custom", "image_generation", "other"}

ASSUME TranslationAssumption ==
  /\ Clients \subseteq {"chat", "claude", "responses"}
  /\ \A body \in Bodies :
       /\ body.tools \in Seq([type : ToolTypes, name : Seq(Int)])
       /\ body.ask.json \in BOOLEAN
       /\ \/ body.ask.choice = 0
          \/ body.ask.choice \in DOMAIN body.tools /\ body.tools[body.ask.choice].type = "function"
  /\ Limit \in Nat \ {0, 1}
  /\ MaxTurns \in Nat /\ MaxCalls \in Nat

VARIABLES
  client,
  history,   \* the client's messages
  sent,      \* what the upstream has been sent, or Nothing
  turns

translationVars == << client, history, sent, turns >>

Nothing == [items |-> <<>>, tools |-> <<>>, names |-> <<>>, choice |-> <<>>, mode |-> "none",
            ask |-> <<>>, effort |-> "absent", tier |-> FALSE, base |-> <<>>]

TranslationInit ==
  /\ client \in Clients
  /\ history = <<>> /\ sent = Nothing /\ turns = 0

-----------------------------------------------------------------------------
\* Names of tools: the symbols "mcp__" and "__".
Mcp == -1
Bar == -2

\* shortenNameIfNeeded: of a long name what is behind the last "__", if it is a name
\* of MCP.
Cut(name, n) == SubSeq(name, 1, Min({n, Len(name)}))
Marks(name) == {i \in DOMAIN name : name[i] \in {Mcp, Bar}}
Shortened(name) ==
  IF Len(name) <= Limit THEN name
  ELSE IF name[1] = Mcp
       THEN Cut(<<Mcp>> \o SubSeq(name, Max(Marks(name)) + 1, Len(name)), Limit)
       ELSE Cut(name, Limit)

\* (bug) a number is not tried against the names that are taken.
UniqueOnce(name, used) ==
  IF name \notin used THEN name ELSE Append(Cut(name, Limit - 1), 1)

\* makeUnique: the first number that makes a new name of it.
Unique(name, used) ==
  LET numbered(i) == Append(Cut(name, Limit - 1), i)
      free == {i \in 1..(Cardinality(used) + 1) : numbered(i) \notin used}
  IN IF name \notin used THEN name ELSE numbered(Min(free))

\* buildShortNameMap: the names of the tools of type function, in their order.
Functional(tools) ==
  LET some[i \in 0..Len(tools)] ==
        IF i = 0 THEN <<>>
        ELSE IF tools[i].type = "function" THEN Append(some[i - 1], tools[i]) ELSE some[i - 1]
  IN some[Len(tools)]
ShortOf(shorts, name) == Unique(Shortened(name), Range(shorts))
Shorts(functions) ==
  LET shorts[i \in 0..Len(functions)] ==
        IF i = 0 THEN <<>> ELSE Append(shorts[i - 1], ShortOf(shorts[i - 1], functions[i].name))
  IN shorts[Len(functions)]

\* buildToolNameMap, and what is sent for a name that it does not have.  Of a name
\* that is declared twice the last one counts.
DeclaredAt(functions, name) == {i \in DOMAIN functions : functions[i].name = name}
Short(tools, name) ==
  LET functions == Functional(tools)
      places == DeclaredAt(functions, name)
  IN IF places = {} THEN Shortened(name) ELSE Shorts(functions)[Max(places)]

\* BuildReverseToolNameMap, for a client of the chat API.  The others are told the
\* name as it comes.
Restored(tools, name) ==
  LET of == {t \in Range(Functional(tools)) : Short(tools, t.name) = name}
  IN IF client # "chat" \/ of = {} THEN name ELSE (CHOOSE t \in of : TRUE).name

-----------------------------------------------------------------------------
\* The name of the model says how to think and which tier to use; a name is a
\* sequence of words.  ParseModelSuffix reads them from the end.
Levels == {"minimal", "low", "high"}
Thoughts == Levels \cup {"none", "auto", "9000"}
Ambiguous == {<<"codex", "max">>}

ParseModelSuffix(model) ==
  LET drop(m, words) == IF Len(m) > 1 /\ Last(m) \in words THEN Front(m) ELSE m
      slow  == drop(model, {"fast"})
      plain == drop(slow, {"image"})
      small == drop(plain, {"1m"})
      base  == IF small \in Ambiguous THEN small ELSE drop(small, Thoughts)
  IN IF plain # slow THEN [base |-> plain, fast |-> slow # model, image |-> TRUE, suffix |-> "absent"]
     ELSE [base |-> base, fast |-> slow # model, image |-> FALSE,
           suffix |-> IF base = small THEN "absent" ELSE Last(small)]

\* ParseSuffixToConfig and applyCodexThinking: a number stands for a level
\* (budgetToLevel).
EffortOf(suffix) ==
  IF suffix = "auto" THEN "medium" ELSE IF suffix = "9000" THEN "high" ELSE suffix

\* The first field that says something else than void.  extractConfigFromBody
\* overlooks empty fields.
Void == {"absent", "empty"}
First(fields, void) ==
  LET found == {i \in DOMAIN fields : fields[i] \notin void}
  IN IF found = {} THEN "absent" ELSE fields[Min(found)]

\* ApplyThinking: the fields reasoning.effort, reasoning_effort and variant.
ApplyThinking(ask) ==
  LET parsed == ParseModelSuffix(ask.model)
      config == IF parsed.suffix # "absent" THEN EffortOf(parsed.suffix) ELSE First(ask.fields, Void)
  IN IF parsed.image \/ config = "absent" THEN ask.fields
     ELSE IF parsed.suffix # "absent" THEN <<config, "absent", "absent">>
     ELSE <<config, ask.fields[2], ask.fields[3]>>

\* What ConvertOpenAIRequestToCodex takes of them: the first that is there.
Effort(ask) == First(ApplyThinking(ask), {"absent"})

-----------------------------------------------------------------------------
\* A block of a message: a text, image, thought, call or result.  tool is the tool
\* that the upstream meant with a call, whatever the client was told.
\* n is its place in the conversation, of that of the call whose result it is.
Nowhere == <<0, 0>>
Block(kind) ==
  [kind |-> kind, n |-> Nowhere, of |-> Nowhere, name |-> <<>>, tool |-> <<>>, type |-> "none", json |-> FALSE]
Kinds(blocks, kinds) ==
  LET some[i \in 0..Len(blocks)] ==
        IF i = 0 THEN <<>>
        ELSE IF blocks[i].kind \in kinds THEN Append(some[i - 1], blocks[i]) ELSE some[i - 1]
  IN some[Len(blocks)]
Only(blocks, kinds) == \A k \in DOMAIN blocks : blocks[k].kind \in kinds
Alone(role, blocks) == [k \in DOMAIN blocks |-> [role |-> role, blocks |-> <<blocks[k]>>]]

\* (bug) a message without content is left out, whatever it calls.
FromClaudeCut(m) ==
  Alone("tool", Kinds(m.blocks, {"result"}))
    \o IF Only(m.blocks, {"result", "call"}) THEN <<>>
       ELSE <<[role |-> m.role, blocks |-> Kinds(m.blocks, {"text", "image", "call"})]>>

\* ConvertClaudeRequestToOpenAI: a result becomes a message of its own, before what
\* else its message says; a message of nothing but results is left out.
FromClaude(m) ==
  Alone("tool", Kinds(m.blocks, {"result"}))
    \o IF m.role = "user" /\ Only(m.blocks, {"result"}) THEN <<>>
       ELSE <<[role |-> m.role, blocks |-> Kinds(m.blocks, {"text", "image", "call"})]>>

\* (bug) the names of calls are only shortened.
NamesOfCallsAlone(tools, name) == Shortened(name)

\* The name in an item of a call.
NameOfCall(tools, name) == Short(tools, name)

\* An item of the upstream's input.
Item(kind, role, blocks) == [kind |-> kind, role |-> role, blocks |-> blocks]
RoleOf(role) == IF role = "system" THEN "developer" ELSE role
AsItems(kind, blocks) == [k \in DOMAIN blocks |-> Item(kind, "none", <<blocks[k]>>)]

\* ConvertOpenAIRequestToCodex, for a message.
FromChat(m, tools) ==
  LET calls == Kinds(m.blocks, {"call"})
      parts == Kinds(m.blocks, {"text"} \cup (IF m.role = "user" THEN {"image"} ELSE {}))
  IN IF m.role = "tool" THEN AsItems("output", m.blocks)
     ELSE <<Item("message", RoleOf(m.role), parts)>>
            \o IF m.role # "assistant" THEN <<>>
               ELSE AsItems("call", [k \in DOMAIN calls |->
                                       [calls[k] EXCEPT !.name = NameOfCall(tools, @)]])

\* A client of the Responses API sends items (convertSystemRoleToDeveloper).
FromResponses(m) ==
  [k \in DOMAIN m.blocks |->
    LET b == m.blocks[k]
    IN IF b.kind = "call" THEN Item("call", "none", <<b>>)
       ELSE IF b.kind = "result" THEN Item("output", "none", <<b>>)
       ELSE Item("message", RoleOf(m.role), <<b>>)]

Converted(messages, tools) ==
  LET asItems(plain) == FlattenSeq([k \in DOMAIN plain |-> FromChat(plain[k], tools)])
  IN IF client = "responses" THEN FlattenSeq([k \in DOMAIN messages |-> FromResponses(messages[k])])
     ELSE IF client = "chat" THEN asItems(messages)
     ELSE asItems(FlattenSeq([k \in DOMAIN messages |-> FromClaude(messages[k])]))

\* ensureInputContainsJSON.
Asking == Item("message", "developer", <<[Block("text") EXCEPT !.json = TRUE]>>)
Mentions(items) == \E i \in DOMAIN items :
  items[i].kind = "message" /\ \E k \in DOMAIN items[i].blocks : items[i].blocks[k].json
WithJSON(items, json) == IF json /\ ~Mentions(items) THEN <<Asking>> \o items ELSE items

\* injectImageGeneration.
Drawing == [type |-> "image_generation", name |-> <<>>]
WithDrawing(tools, image) ==
  IF image /\ \A k \in DOMAIN tools : tools[k].type # "image_generation" THEN Append(tools, Drawing) ELSE tools

\* The whole of a request.
Translate(messages, body) ==
  LET ask == body.ask
      parsed == ParseModelSuffix(ask.model)
      tools == WithDrawing(body.tools, parsed.image)
      nameOf(t) == IF client = "responses" \/ t.type \notin {"function", "custom"} THEN t.name
                   ELSE Short(body.tools, t.name)
  IN [items  |-> WithJSON(Converted(messages, body.tools), ask.json),
      tools  |-> tools,
      names  |-> [k \in DOMAIN tools |-> nameOf(tools[k])],
      choice |-> IF ask.choice = 0 THEN <<>> ELSE nameOf(body.tools[ask.choice]),
      mode   |-> IF tools # body.tools THEN "auto" ELSE IF ask.choice = 0 THEN "none" ELSE "function",
      ask    |-> ask,
      effort |-> Effort(ask), tier |-> parsed.fast, base |-> parsed.base]

-----------------------------------------------------------------------------
\* The client has the results of all the calls that it was told, and something to say.
Pending == IF history = <<>> THEN <<>> ELSE Kinds(Last(history).blocks, {"call"})
ResultsOf(calls) == [k \in DOMAIN calls |-> [Block("result") EXCEPT !.of = calls[k].n]]

Says == {<<>>, <<"json">>, <<"text", "image">>}
Saying(words) ==
  [k \in DOMAIN words |-> IF words[k] = "json" THEN [Block("text") EXCEPT !.json = TRUE] ELSE Block(words[k])]

\* A system message at first; results are messages of their own, or (Claude) blocks
\* of the user's.
NewMessages(words, before) ==
  LET results == ResultsOf(Pending)
      said == Saying(words)
      system == IF history = <<>> /\ before THEN <<[role |-> "system", blocks |-> <<Block("text")>>]>> ELSE <<>>
  IN system \o
     IF client = "claude"
     THEN <<[role |-> "user", blocks |-> IF before THEN results \o said ELSE said \o results]>>
     ELSE Alone("tool", results) \o IF said = <<>> THEN <<>> ELSE <<[role |-> "user", blocks |-> said]>>

\* Messages behind those of the history, with the places of their blocks.
Placed(messages, from) ==
  [i \in DOMAIN messages |->
    [role   |-> messages[i].role,
     blocks |-> [k \in DOMAIN messages[i].blocks |->
                  [messages[i].blocks[k] EXCEPT !.n = <<from + i, k>>]]]]
Told(messages) == history' = history \o Placed(messages, Len(history))

\* The tools that a client of Claude declares have short names (the API's own limit),
\* which are all different.
Declarable(tools) ==
  client = "claude" => /\ \A k \in DOMAIN tools : tools[k].type = "function" /\ Len(tools[k].name) <= Limit
                       /\ \A j, k \in DOMAIN tools : tools[j].name = tools[k].name => j = k

Ask ==
  /\ sent = Nothing /\ turns < MaxTurns
  /\ \E words \in Says, before \in BOOLEAN, body \in Bodies :
       /\ words # <<>> \/ Pending # <<>>
       /\ Declarable(body.tools)
       /\ Told(NewMessages(words, before))
       /\ sent' = Translate(history', body)
  /\ turns' = turns + 1
  /\ UNCHANGED client

\* The upstream answers with a thought (which only Claude's messages have), a text
\* and calls of the tools that it was told of.
Callable == {k \in DOMAIN sent.tools : sent.tools[k].type \in {"function", "custom"}}
CallOf(k) ==
  [Block("call") EXCEPT !.name = Restored(sent.tools, sent.names[k]),
                        !.tool = sent.tools[k].name, !.type = sent.tools[k].type]
Respond ==
  /\ sent # Nothing
  /\ \E words \in {<<>>, <<"text">>, <<"thought">>}, calls \in SeqOf(Callable, MaxCalls) :
       /\ words = <<"thought">> => client = "claude"
       /\ words # <<>> \/ calls # <<>>
       /\ Told(<<[role   |-> "assistant",
                  blocks |-> Saying(words) \o [k \in DOMAIN calls |-> CallOf(calls[k])]]>>)
  /\ sent' = Nothing
  /\ UNCHANGED << client, turns >>

NewConversation ==
  /\ sent = Nothing /\ turns = MaxTurns
  /\ history' = <<>> /\ turns' = 0
  /\ UNCHANGED << client, sent >>

TranslationNext == Ask \/ Respond \/ NewConversation

TranslationSpec == TranslationInit /\ [][TranslationNext]_translationVars

-----------------------------------------------------------------------------
\* request.go:437, 572: a client of the chat API (and one of Claude, whose names fit) is
\* told the name under which it declared the function that the upstream calls, however
\* its names were cut and numbered.
NamesRestored ==
  client # "responses" =>
    \A i \in DOMAIN history : \A k \in DOMAIN history[i].blocks :
      LET b == history[i].blocks[k] IN b.kind = "call" /\ b.type = "function" => b.name = b.tool

\* request.go:197, 268, 290, 325: the calls of earlier turns, told with the names that
\* the client knows, come to the upstream under the name of the function it called
\* then and of no other, if the client still has it, though the tools and with them
\* the cut names may have changed since.
HistoryNames ==
  \A i \in DOMAIN sent.items :
    LET b == sent.items[i].blocks[1]
        declared == {k \in DOMAIN sent.tools : sent.tools[k].type = "function"}
    IN sent.items[i].kind = "call" /\ b.type = "function" /\ (\E k \in declared : sent.tools[k].name = b.tool)
         => \A k \in declared : sent.names[k] = b.name <=> sent.tools[k].name = b.tool

\* claude.go:112, request.go:123: each text, image, call and result of the conversation
\* comes to the upstream once, those of a later message in a later item; a result
\* comes after its call; no message is the system's; and where JSON is asked for
\* something says so.
Spots(parts) == UNION {{<<i, k>> : k \in DOMAIN parts[i].blocks} : i \in DOMAIN parts}
Held(parts, p) == parts[p[1]].blocks[p[2]]
Where(parts, n) == {p \in Spots(parts) : Held(parts, p).n = n}
Carried ==
  sent # Nothing =>
    /\ \A p \in Spots(history) :
         LET b == Held(history, p)
         IN b.kind # "thought" =>
              \E q \in Spots(sent.items) :
                /\ Where(sent.items, b.n) = {q} /\ Held(sent.items, q).kind = b.kind
                /\ \A o \in Spots(history) : o[1] < p[1] =>
                     \A r \in Where(sent.items, Held(history, o).n) : r[1] < q[1]
                /\ b.kind = "result" =>
                     \E r \in Where(sent.items, b.of) : r[1] < q[1] /\ Held(sent.items, r).kind = "call"
    /\ \A i \in DOMAIN sent.items : sent.items[i].role # "system"
    /\ sent.ask.json => Mentions(sent.items)

=============================================================================
