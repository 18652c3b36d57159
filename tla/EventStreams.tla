----------------------------- MODULE EventStreams -----------------------------
(***************************************************************************)
(* Translating the upstream's events (internal/translator/response.go and  *)
(* claude.go).  One stream of the Responses API is read by two             *)
(* translators: ConvertStreamChunk tells a client of the chat API chunks   *)
(* that it adds up (as ConvertStreamSSEToNonStreamResponse does for a      *)
(* client that wants no stream), ConvertCodexStreamToClaudeEvents tells a  *)
(* Claude client blocks that are started, filled and stopped by index.     *)
(* Both carry what they know of the stream in flags and counters.          *)
(*                                                                         *)
(* Text, thoughts and arguments are counted in pieces; an item is known by  *)
(* its place in the response.  Of the upstream it is taken that it tells   *)
(* one item after another, text always in pieces, a thought as an item of  *)
(* its own, and the arguments of a call that it has announced before its   *)
(* end.  Everything else it is free to do: up.quirks notes what            *)
(* the translators are known not to tell on as it was meant.               *)
(***************************************************************************)
EXTENDS Integers, Sequences

CONSTANTS
  MaxItems,  \* bound: items of a response
  MaxPieces  \* bound: pieces of an item

ASSUME StreamAssumption == MaxItems \in Nat /\ MaxPieces \in Nat \ {0}

VARIABLES
  up,      \* the upstream: the item at hand, and how far it is
  out,     \* the items that are finished: response.output
  chat,    \* StreamState
  told,    \* what the chat client has added up
  claude   \* ClaudeStreamState, and the blocks that the Claude client has

eventVars == << up, out, chat, told, claude >>

Items == {"none", "thought", "text", "call"}
BeginUp ==
  [at |-> "before", item |-> "none", sent |-> 0, done |-> FALSE, part |-> 0,
   summary |-> FALSE, texted |-> FALSE, quirks |-> {}]

\* beside: a thought in a content part, and in deltas or a last event too;
\* summed, muted: a summary in deltas, and a later one in its last event alone;
\* unpieced: something for which no delta came; astray: a thought after a text, no
\* call announced between.
Quirks == {"beside", "summed", "muted", "unpieced", "astray"}

\* NewStreamState.
BeginChat ==
  [index |-> -1, text |-> FALSE, tool |-> FALSE, thought |-> FALSE, summary |-> FALSE,
   told |-> 0, args |-> FALSE, announced |-> FALSE, completed |-> FALSE]
BeginTold == [text |-> 0, thought |-> 0, calls |-> <<>>, finish |-> "none"]

\* NewClaudeStreamState.
BeginClaude ==
  [index |-> -1, started |-> FALSE, thinking |-> FALSE, has |-> FALSE, tool |-> FALSE,
   begun |-> 0, completed |-> FALSE, blocks |-> <<>>, odd |-> FALSE, stops |-> 0, reason |-> "none"]

EventsTypeOK ==
  /\ up \in [at : {"before", "on", "over", "failed"}, item : Items, sent : 0..MaxPieces,
             done : BOOLEAN, part : 0..MaxPieces, summary : BOOLEAN, texted : BOOLEAN,
             quirks : SUBSET Quirks]
  /\ out \in Seq([kind : {"thought", "text", "call", "image"}, n : Nat, id : Nat])
  /\ chat \in [index : Int, text : BOOLEAN, tool : BOOLEAN, thought : BOOLEAN, summary : BOOLEAN,
               told : Nat, args : BOOLEAN, announced : BOOLEAN, completed : BOOLEAN]
  /\ told \in [text : Nat, thought : Nat, calls : Seq([index : Int, id : Nat, n : Nat]),
               finish : {"none", "stop", "tool_calls"}]
  /\ claude \in [index : Int, started : BOOLEAN, thinking : BOOLEAN, has : BOOLEAN, tool : BOOLEAN,
                 begun : Nat, completed : BOOLEAN, blocks : Seq([kind : Items, n : Nat, open : BOOLEAN]),
                 odd : BOOLEAN, stops : Nat, reason : {"none", "end_turn", "tool_use"}]

EventsInit ==
  /\ up = BeginUp /\ out = <<>>
  /\ chat = BeginChat /\ told = BeginTold
  /\ claude = BeginClaude

-----------------------------------------------------------------------------
\* What the clients make of what they are told.  The chat client adds up the
\* chunks; a tool call is known by its index (ensureToolCall).
Known(calls, i) == \E k \in DOMAIN calls : calls[k].index = i
Merged(calls, i, id, n) ==
  IF Known(calls, i)
  THEN [k \in DOMAIN calls |-> IF calls[k].index = i
          THEN [calls[k] EXCEPT !.n = @ + n, !.id = IF id = 0 THEN @ ELSE id]
          ELSE calls[k]]
  ELSE Append(calls, [index |-> i, id |-> id, n |-> n])

TellText(n)     == told' = [told EXCEPT !.text = @ + n]
TellThought(n)  == told' = [told EXCEPT !.thought = @ + n]
TellCall(i, id, n) ==
  told' = [told EXCEPT !.calls = Merged(@, IF i < 0 THEN Len(told.calls) ELSE i, id, n)]

\* The Claude client: an event for the block at the index of the state.
Here(c) == c.index + 1
StopBlock(c) ==
  IF Here(c) \in DOMAIN c.blocks /\ c.blocks[Here(c)].open
  THEN [c EXCEPT !.blocks[c.index + 1].open = FALSE]
  ELSE [c EXCEPT !.odd = TRUE]
StartBlock(c, kind) ==
  [c EXCEPT !.index = @ + 1,
            !.blocks = Append(@, [kind |-> kind, n |-> 0, open |-> TRUE]),
            !.odd = @ \/ Len(c.blocks) # c.index + 1 \/ \E k \in DOMAIN c.blocks : c.blocks[k].open]
FillBlock(c, kind) ==
  IF Here(c) \in DOMAIN c.blocks /\ c.blocks[Here(c)].open /\ c.blocks[Here(c)].kind = kind
  THEN [c EXCEPT !.blocks[c.index + 1].n = @ + 1]
  ELSE [c EXCEPT !.odd = TRUE]

\* The blocks that a translator knows to be open.
StopThinking(c) == IF c.thinking THEN [StopBlock(c) EXCEPT !.thinking = FALSE] ELSE c
StopText(c)     == IF c.started THEN [StopBlock(c) EXCEPT !.started = FALSE] ELSE c

\* message_delta and message_stop.
StopMessage(c) ==
  [c EXCEPT !.stops = @ + 1, !.reason = IF c.tool THEN "tool_use" ELSE "end_turn"]

\* ConvertCodexStreamToClaudeEvents, event by event.
ClaudeCreated(c) == [c EXCEPT !.begun = @ + 1]

ClaudeThought(c) ==
  FillBlock(IF c.thinking THEN [c EXCEPT !.has = TRUE]
            ELSE [StartBlock(c, "thought") EXCEPT !.thinking = TRUE, !.has = TRUE],
            "thought")

\* (bug) a new block for every piece.
ClaudeTextRestarts(c) ==
  FillBlock([StartBlock(StopThinking(c), "text") EXCEPT !.started = TRUE, !.has = TRUE], "text")

ClaudeText(c) ==
  LET d == StopThinking(c)
  IN FillBlock(IF d.started THEN [d EXCEPT !.has = TRUE]
               ELSE [StartBlock(d, "text") EXCEPT !.started = TRUE, !.has = TRUE],
               "text")

ClaudeCalled(c) ==
  [StartBlock(StopText(StopThinking(c)), "call") EXCEPT !.has = TRUE, !.tool = TRUE]

\* (bug) the arguments are not passed on.
ClaudeArgsLate(c) == c

ClaudeArgs(c) == FillBlock(c, "call")

ClaudeArgsDone(c) == StopBlock(c)

ClaudeCompleted(c) ==
  LET d == StopThinking(c)
  IN StopMessage([IF d.started THEN StopBlock(d) ELSE d EXCEPT !.completed = TRUE])

\* GenerateClaudeCloseEvents, for a message that has begun.
ClaudeClosed(c) ==
  IF c.begun > 0 \/ c.has THEN StopMessage(StopText(StopThinking(c))) ELSE c

-----------------------------------------------------------------------------
\* The items at some places in order, those of some kinds, and their pieces.
Pick(items, places) ==
  LET some[i \in 0..Len(items)] ==
        IF i = 0 THEN << >>
        ELSE IF i \in places THEN Append(some[i - 1], items[i]) ELSE some[i - 1]
  IN some[Len(items)]
Of(items, kinds) == {i \in DOMAIN items : items[i].kind \in kinds}
Kind(items, kinds) == Pick(items, Of(items, kinds))
Count(items) ==
  LET sum[i \in 0..Len(items)] == IF i = 0 THEN 0 ELSE sum[i - 1] + items[i].n
  IN sum[Len(items)]

Ids == Len(out) + 1  \* of the item at hand
Room == Len(out) < MaxItems
At(item) == up.at = "on" /\ up.item = item
Between == At("none")
If(quirk, holds) == IF holds THEN {quirk} ELSE {}
Finished(kind, n, quirks) ==
  /\ up' = [up EXCEPT !.item = "none", !.sent = 0, !.done = FALSE, !.part = 0,
                      !.quirks = @ \cup quirks]
  /\ out' = Append(out, [kind |-> kind, n |-> n, id |-> Ids])

\* response.created.
Created ==
  /\ up.at = "before"
  /\ up' = [up EXCEPT !.at = "on"]
  /\ chat' = [chat EXCEPT !.thought = FALSE, !.summary = FALSE, !.told = 0]
  /\ claude' = ClaudeCreated(claude)
  /\ UNCHANGED << out, told >>

\* A piece of a thought: response.reasoning_summary_text.delta, or
\* response.reasoning_text.delta.
Thought ==
  /\ (Between /\ Room) \/ At("thought")
  /\ up.sent < (IF up.part > 0 THEN up.part ELSE MaxPieces)
  /\ \E summary \in (IF up.item = "thought" THEN {up.summary} ELSE BOOLEAN) :
       /\ up' = [up EXCEPT !.item = "thought", !.sent = @ + 1, !.summary = summary,
                 !.quirks = @ \cup If("summed", summary) \cup If("astray", up.texted)
                              \cup If("beside", up.part > 0)]
       /\ chat' = [chat EXCEPT !.thought = TRUE, !.summary = @ \/ summary,
                               !.told = IF summary THEN @ ELSE @ + 1]
  /\ TellThought(1)
  /\ claude' = ClaudeThought(claude)
  /\ UNCHANGED out

\* response.content_part.added with a reasoning_text: all of the thought, whatever
\* deltas came before or come after it.  The other translator does not know it.
PartAdded ==
  /\ (Between /\ Room) \/ (At("thought") /\ ~up.summary /\ up.part = 0)
  /\ \E n \in 1..MaxPieces :
       /\ up.sent <= n
       /\ up' = [up EXCEPT !.item = "thought", !.part = n, !.summary = FALSE,
                           !.quirks = @ \cup If("beside", up.sent > 0)]
       /\ TellThought(n)
  /\ chat' = [chat EXCEPT !.thought = TRUE]
  /\ UNCHANGED << out, claude >>

\* A thought has more than its deltas had, if it is a text, or none came; and what
\* its content part had.
ThoughtIs(summary, full) ==
  /\ full > 0
  /\ IF summary /\ up.sent > 0 THEN full = up.sent ELSE full >= up.sent
  /\ up.part > 0 => full = up.part

\* (bug) the last event of a thought tells all of it again.
ThoughtDoneAgain ==
  /\ (Between /\ Room) \/ At("thought")
  /\ \E summary \in (IF up.item = "thought" THEN {up.summary} ELSE BOOLEAN), full \in 1..MaxPieces :
       /\ ThoughtIs(summary, full)
       /\ chat' = [chat EXCEPT !.thought = TRUE, !.told = 0]
       /\ TellThought(full)
       /\ Finished("thought", full, If("unpieced", up.sent < full))
  /\ claude' = StopThinking(claude)

\* The last event of a thought has all of it.  A summary is told if no summary
\* came in pieces before, of a text what its deltas have not told.
ThoughtDone ==
  /\ (Between /\ Room) \/ At("thought")
  /\ \E summary \in (IF up.item = "thought" THEN {up.summary} ELSE BOOLEAN), full \in 1..MaxPieces :
       LET rest == IF ~summary THEN full - chat.told ELSE IF chat.summary THEN 0 ELSE full
       IN /\ ThoughtIs(summary, full)
          /\ chat' = [chat EXCEPT !.thought = @ \/ rest > 0, !.told = 0]
          /\ TellThought(rest)
          /\ Finished("thought", full,
               If("beside", up.part > 0) \cup If("unpieced", up.sent < full)
               \cup If("muted", summary /\ up.sent = 0 /\ "summed" \in up.quirks))
  /\ claude' = StopThinking(claude)

\* A thought without a last event ends with its item, of which neither is told; what
\* is known of it stays with that item.
ThoughtEnds ==
  /\ At("thought")
  /\ LET full == IF up.part > 0 THEN up.part ELSE up.sent
     IN Finished("thought", full, If("unpieced", up.sent < full))
  /\ chat' = [chat EXCEPT !.told = 0]
  /\ UNCHANGED << told, claude >>

\* response.output_text.delta.
Text ==
  /\ up.sent < MaxPieces
  /\ (Between /\ Room) \/ At("text")
  /\ up' = [up EXCEPT !.item = "text", !.sent = @ + 1, !.texted = TRUE]
  /\ chat' = [chat EXCEPT !.text = TRUE]
  /\ TellText(1)
  /\ claude' = ClaudeText(claude)
  /\ UNCHANGED out

\* Its end means nothing to either translator.
TextDone ==
  /\ At("text")
  /\ Finished("text", up.sent, {})
  /\ UNCHANGED << chat, told, claude >>

\* response.output_item.done with an image: text for the chat client, nothing for
\* the other.
Image ==
  /\ Between /\ Room
  /\ Finished("image", 1, {})
  /\ chat' = [chat EXCEPT !.text = TRUE]
  /\ TellText(1)
  /\ UNCHANGED claude

\* response.output_item.added with a function call.
Called ==
  /\ Between /\ Room
  /\ up' = [up EXCEPT !.item = "call", !.texted = FALSE]
  /\ chat' = [chat EXCEPT !.tool = TRUE, !.index = @ + 1, !.args = FALSE, !.announced = TRUE]
  /\ TellCall(chat.index + 1, Ids, 0)
  /\ claude' = ClaudeCalled(claude)
  /\ UNCHANGED out

\* response.function_call_arguments.delta.
Args ==
  /\ At("call") /\ ~up.done /\ up.sent < MaxPieces
  /\ up' = [up EXCEPT !.sent = @ + 1]
  /\ chat' = [chat EXCEPT !.tool = TRUE, !.args = TRUE]
  /\ TellCall(chat.index, 0, 1)
  /\ claude' = ClaudeArgs(claude)
  /\ UNCHANGED out

\* response.function_call_arguments.done has all of them.
ArgsDone ==
  /\ At("call") /\ ~up.done
  /\ \E all \in (IF up.sent > 0 THEN {up.sent} ELSE 1..MaxPieces) :
       /\ up' = [up EXCEPT !.sent = all, !.done = TRUE,
                           !.quirks = @ \cup If("unpieced", up.sent < all)]
       /\ IF chat.args THEN UNCHANGED told ELSE TellCall(chat.index, 0, all)
  /\ chat' = [chat EXCEPT !.tool = TRUE]
  /\ claude' = ClaudeArgsDone(claude)
  /\ UNCHANGED out

\* response.output_item.done with a function call: all of it, unless it was
\* announced.
CallDone ==
  /\ (Between /\ Room) \/ (At("call") /\ up.done)
  /\ \E n \in (IF up.item = "call" THEN {up.sent} ELSE 1..MaxPieces) :
       /\ Finished("call", n, If("unpieced", up.item # "call"))
       /\ \/ /\ chat.announced
             /\ chat' = [chat EXCEPT !.tool = TRUE, !.announced = FALSE]
             /\ UNCHANGED told
          \/ /\ ~chat.announced
             /\ chat' = [chat EXCEPT !.tool = TRUE, !.index = @ + 1]
             /\ TellCall(chat.index + 1, Ids, n)
  /\ UNCHANGED claude

-----------------------------------------------------------------------------
FinishReason == IF chat.index = -1 THEN "stop" ELSE "tool_calls"
ContentEmpty == ~chat.text /\ ~chat.tool /\ ~chat.thought

\* response.completed.  A response without content is told nothing of, so that
\* the pump may replace it.
Completed ==
  /\ Between
  /\ up' = [up EXCEPT !.at = "over"]
  /\ chat' = [chat EXCEPT !.completed = TRUE]
  /\ told' = IF ContentEmpty THEN told ELSE [told EXCEPT !.finish = FinishReason]
  /\ claude' = ClaudeCompleted(claude)
  /\ UNCHANGED out

\* The stream ends without it, after an error event or none: the pump makes an
\* end (GenerateClaudeCloseEvents), or reports an empty response.
BrokenOff ==
  /\ up.at \in {"before", "on"}
  /\ up' = [up EXCEPT !.at = "over"]
  /\ told' = IF ContentEmpty THEN told ELSE [told EXCEPT !.finish = FinishReason]
  /\ claude' = ClaudeClosed(claude)
  /\ UNCHANGED << out, chat >>

\* Reading the stream fails: the pumps return the error, and the client, if it has
\* been told anything, is told no more.
ReadFails ==
  /\ up.at \in {"before", "on"}
  /\ up' = [up EXCEPT !.at = "failed"]
  /\ UNCHANGED << out, chat, told, claude >>

\* The next response.
NextResponse ==
  /\ up.at \in {"over", "failed"}
  /\ up' = BeginUp /\ out' = <<>> /\ chat' = BeginChat /\ told' = BeginTold /\ claude' = BeginClaude

EventsNext ==
  \/ Created \/ Thought \/ PartAdded \/ ThoughtDone \/ ThoughtEnds \/ Text \/ TextDone \/ Image
  \/ Called \/ Args \/ ArgsDone \/ CallDone \/ Completed \/ BrokenOff \/ ReadFails \/ NextResponse

EventsSpec == EventsInit /\ [][EventsNext]_eventVars

-----------------------------------------------------------------------------
Calls == Kind(out, {"call"})

\* ConvertNonStreamResponse: what a client without a stream gets of the items of a
\* response.
NonStreamOf(items) ==
  [text |-> Count(Kind(items, {"text", "image"})), thought |-> Count(Kind(items, {"thought"})),
   calls |-> [k \in DOMAIN Kind(items, {"call"}) |->
                [index |-> k - 1, id |-> Kind(items, {"call"})[k].id, n |-> Kind(items, {"call"})[k].n]],
   finish |-> IF Kind(items, {"call"}) = <<>> THEN "stop" ELSE "tool_calls"]

HasOutput(answer) == answer.text > 0 \/ answer.thought > 0 \/ answer.calls # <<>>

\* ConvertCodexNonStreamToClaudeResponse: the thoughts are one block.  (The arguments
\* of a call become an element of their own: they are not counted.)
ClaudeNonStreamOf(items) ==
  [thought |-> Count(Kind(items, {"thought"})), text |-> Count(Kind(items, {"text"})),
   calls |-> Len(Kind(items, {"call"})),
   reason |-> IF Kind(items, {"call"}) = <<>> THEN "end_turn" ELSE "tool_use"]

\* NormalizeCompletedEventFromSSE: response.completed lists some of the items.  Each
\* image that it leaves out is added to it.
Images == Of(out, {"image"})

\* (bug) an image that is listed is added again.
WithImagesTwice(listed) == Pick(out, listed) \o Pick(out, Images)

WithImages(listed) == Pick(out, listed) \o Pick(out, Images \ listed)

Meaningful(items) == \E k \in DOMAIN items : items[k].kind = "call" \/ items[k].n > 0

\* If there is nothing in it then, it gets the items whose last event came, and all
\* the deltas of text, or of thoughts, if there is no such item among them.
FromDeltas(done, kind, n) ==
  IF n > 0 /\ Kind(done, {kind}) = <<>> THEN <<[kind |-> kind, n |-> n, id |-> 0]>> ELSE <<>>

Normalized(listed, ended) ==
  LET full == WithImages(listed)
      done == Pick(out, ended)
  IN IF Meaningful(full) THEN full
     ELSE full \o done \o FromDeltas(done, "text", Count(Kind(out, {"text"})))
                       \o FromDeltas(done, "thought", told.thought)

\* ExecuteNonStream: the chunks are added up if the completed response has nothing.
Answered(listed, ended) ==
  LET answer == NonStreamOf(Normalized(listed, ended))
  IN IF HasOutput(answer) THEN answer ELSE told

\* response.go:441, 482, 505: between two items, and at the end, the chat client has
\* each piece of text and of arguments once, each call once and under a number of its
\* own, and the reason that fits them if the stream was read to its end: the chunks add
\* up to what the finished response says, however the upstream tells its items.  It has
\* each piece of a thought once, too, but for two cases: a thought that comes in a content
\* part and in other events as well is told twice, and a summary that only its last
\* event has, after another that came in pieces, is not told.
ChatWhole ==
  LET whole == NonStreamOf(out)
  IN up.item = "none" =>
       /\ told.text = whole.text /\ told.calls = whole.calls
       /\ told.finish = (IF up.at = "over" /\ ~ContentEmpty THEN whole.finish ELSE "none")
       /\ "beside" \in up.quirks \/ told.thought <= whole.thought
       /\ "muted" \in up.quirks \/ told.thought >= whole.thought

\* codex.go:1020, 1079, 1200: whichever items a completed response lists, and whichever
\* of the texts and thoughts had a last event (calls and images always have), a client
\* of either API without a stream gets each listed item once, each image once, in the
\* order of the response, and nothing else: what such a list leaves out it does not
\* get.  If nothing is listed and there is no image, it gets each call and each text or
\* thought with a last event once; all of the text if no text had one, and the thoughts
\* as the chat client was told them if no thought had one.
CollectedWhole ==
  chat.completed =>
    \A listed, ended \in SUBSET DOMAIN out :
      Of(out, {"call", "image"}) \subseteq ended =>
        LET some == listed \cup Images
            kept == Pick(out, IF some = {} THEN ended ELSE some)
            ByDeltas(kind) == some = {} /\ Of(out, {kind}) \cap ended = {}
        IN /\ Answered(listed, ended) =
                [NonStreamOf(kept) EXCEPT
                   !.text    = IF ByDeltas("text") THEN told.text ELSE @,
                   !.thought = IF ByDeltas("thought") THEN told.thought ELSE @,
                   !.finish  = IF ContentEmpty THEN "none" ELSE @]
           /\ ClaudeNonStreamOf(Normalized(listed, ended)) =
                [ClaudeNonStreamOf(kept) EXCEPT
                   !.text    = IF ByDeltas("text") THEN told.text ELSE @,
                   !.thought = IF ByDeltas("thought") THEN told.thought ELSE @]

\* claude.go:10, handler/claude.go:57: a message of the Claude client that has begun is
\* stopped once, when the stream has been read to its end, with the reason that fits
\* its blocks, and not at all if reading fails.  The blocks are numbered from 0, one is
\* open at a time, it is filled with what it was started for, and stopped once, and at
\* the end none is open but that of a call the stream broke off in: unless a thought
\* has followed a text with no call announced between them.
BlocksPaired ==
  /\ claude.stops = (IF up.at = "over" /\ claude.begun > 0 THEN 1 ELSE 0)
  /\ claude.stops = 1 =>
       (claude.reason = "tool_use" <=> \E k \in DOMAIN claude.blocks : claude.blocks[k].kind = "call")
  /\ "astray" \notin up.quirks =>
       /\ ~claude.odd
       /\ up.at = "over" /\ (up.item = "call" => up.done) =>
            \A k \in DOMAIN claude.blocks : ~claude.blocks[k].open

\* claude.go:344, 447, 460: what is told in pieces is told on whole: between two items the
\* blocks of the Claude client have what a client without a stream will get, and each
\* call has its arguments in a block of its own, in order; unless something came without
\* deltas, or a thought followed a text with no call announced between them.
Filled(kind) == Kind(claude.blocks, {kind})
ClaudeWhole ==
  up.item = "none" /\ up.quirks \cap {"unpieced", "astray"} = {} =>
    LET whole == ClaudeNonStreamOf(out)
    IN /\ Count(Filled("text")) = whole.text
       /\ Count(Filled("thought")) = whole.thought
       /\ [k \in DOMAIN Filled("call") |-> Filled("call")[k].n] = [k \in DOMAIN Calls |-> Calls[k].n]
       /\ claude.stops = 1 => claude.reason = whole.reason

\* claude.go:489: a response that is completed leaves no block open.
CompletedCloses == claude.completed => \A k \in DOMAIN claude.blocks : ~claude.blocks[k].open

=============================================================================
