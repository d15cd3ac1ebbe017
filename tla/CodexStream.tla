---------------------------- MODULE CodexStream ----------------------------
(***************************************************************************)
(* codex-proxy's translators: the events of one upstream response of the   *)
(* Responses API, turned line by line into the chunks of the OpenAI API    *)
(* (ConvertStreamChunk, PumpChatCompletion) and into the events of the     *)
(* Anthropic API (ConvertCodexStreamToClaudeEvents, pumpClaudeCodexSSE),   *)
(* and, for clients that do not stream, the response in one piece          *)
(* (ConvertNonStreamResponse, ConvertCodexNonStreamToClaudeResponse).      *)
(*                                                                         *)
(* Every upstream event is an action; both translators see the same event. *)
(* A response is a list of items: reasoning with a summary, reasoning with *)
(* its text, messages, function calls.  Text is a sequence of tokens, a    *)
(* delta is one of them; <<i, p>> is the p-th token of item i.             *)
(***************************************************************************)
EXTENDS CodexInput, FiniteSets

CONSTANTS Requests,   \* [api, tools, choice, effort, json, history: what the client
                      \*  sends; items: bound on the response's items; again: it asks
                      \*  again; used: for CodexExchange]
          MaxTokens   \* bound: tokens of an item

\* The code's endings have no end (_1, _2, ...); here there are enough of them.
ASSUME RequestsAssumption ==
    /\ MaxTokens \in Nat
    /\ \A r \in Requests :
          /\ DOMAIN r = {"api", "tools", "choice", "effort", "json", "history", "items",
                         "again", "used"}
          /\ r.tools \in Seq(Seq(STRING)) /\ Len(r.tools) <= Len(Endings)

VARIABLES request, summaries,   \* does the upstream stream summaries, or send them whole?
          stage,    \* of the response and of the pumps that read it
          items,    \* items begun: kind, text, name, announced
          step,     \* what the upstream has sent of the last item
          sent,     \* deltas sent of it
          claude,   \* ClaudeStreamState, and what its client has put together
          chat      \* StreamState, and what its client has put together

vars == <<request, summaries, stage, items, step, sent, claude, chat>>

Separator == <<0, 0>>   \* the "\n\n" after a summary
Empty == <<>>

-----------------------------------------------------------------------------
(***************************************************************************)
(* The Anthropic client: content blocks by index, one at a time.           *)
(***************************************************************************)
SeeStart(c, index, kind, name) ==
    [c EXCEPT !.blocks = Append(@, [kind |-> kind, name |-> name, body |-> Empty, open |-> TRUE]),
              !.fault = IF @ # "none" THEN @
                        ELSE IF index # Len(c.blocks) THEN "bad index"
                        ELSE IF \E i \in DOMAIN c.blocks : c.blocks[i].open
                             THEN "started inside another" ELSE "none"]

\* An event about a block: does it fit the block?
Fits(c, index, kind) ==
    index + 1 \in DOMAIN c.blocks /\ c.blocks[index + 1].open
    /\ (kind = "any" \/ c.blocks[index + 1].kind = kind)

SeeDelta(c, index, kind, token) ==
    IF Fits(c, index, kind) THEN [c EXCEPT !.blocks[index + 1].body = Append(@, token)]
    ELSE [c EXCEPT !.fault = IF @ = "none" THEN "delta outside" ELSE @]

SeeStop(c, index) ==
    IF Fits(c, index, "any") THEN [c EXCEPT !.blocks[index + 1].open = FALSE]
    ELSE [c EXCEPT !.fault = IF @ = "none" THEN "stop outside" ELSE @]

(***************************************************************************)
(* ConvertCodexStreamToClaudeEvents, one operator per upstream event.      *)
(***************************************************************************)
NewClaude ==
    [index |-> -1, started |-> FALSE, inThinking |-> FALSE, hasText |-> FALSE,
     hasToolUse |-> FALSE, hasThinking |-> FALSE, completed |-> FALSE, begun |-> FALSE,
     outcome |-> "none",   \* what the pump reported
     client |-> [blocks |-> <<>>, fault |-> "none", stops |-> <<>>]]

StartBlock(s, kind, name) ==
    [s EXCEPT !.index = @ + 1, !.client = SeeStart(@, s.index + 1, kind, name)]
StopBlock(s) == [s EXCEPT !.client = SeeStop(@, s.index)]
DeltaOf(s, kind, token) == [s EXCEPT !.client = SeeDelta(@, s.index, kind, token)]

LeaveThinking(s) == IF s.inThinking THEN [StopBlock(s) EXCEPT !.inThinking = FALSE] ELSE s
LeaveText(s) == IF s.started THEN [StopBlock(s) EXCEPT !.started = FALSE] ELSE s

ClaudeReasoning(s, token) ==
    LET t == IF s.inThinking THEN s
             ELSE [StartBlock(s, "thinking", Empty) EXCEPT !.inThinking = TRUE]
    IN  DeltaOf([t EXCEPT !.hasThinking = TRUE], "thinking", token)

\* Mutant of ClaudeText: the thinking block is left open.
ClaudeTextInThinking(s, token) ==
    LET t == IF s.started THEN s
             ELSE [StartBlock(s, "text", Empty) EXCEPT !.started = TRUE]
    IN  DeltaOf([t EXCEPT !.hasText = TRUE], "text", token)

ClaudeText(s, token) ==
    LET t == LeaveThinking(s)
        u == IF t.started THEN t
             ELSE [StartBlock(t, "text", Empty) EXCEPT !.started = TRUE]
    IN  DeltaOf([u EXCEPT !.hasText = TRUE], "text", token)

\* Mutant of ClaudeCall: the call is not noted for the stop reason.
ClaudeCallUnnoted(s, short) == StartBlock(LeaveText(LeaveThinking(s)), "tool_use", short)

\* The name stays the short one.
ClaudeCall(s, short) ==
    [StartBlock(LeaveText(LeaveThinking(s)), "tool_use", short) EXCEPT !.hasToolUse = TRUE]

\* GenerateClaudeCloseEvents, and the end of response.completed
CloseEvents(s) ==
    [LeaveText(LeaveThinking(s)) EXCEPT
        !.client.stops = Append(@, IF s.hasToolUse THEN "tool_use" ELSE "end_turn")]

\* What pumpClaudeCodexSSE adds when the response is over.
ClaudeEnd(s) ==
    IF s.begun \/ s.completed \/ s.hasText \/ s.hasToolUse \/ s.hasThinking
    THEN [(IF s.completed THEN s ELSE CloseEvents(s)) EXCEPT !.outcome = "success"]
    ELSE [s EXCEPT !.outcome = "empty"]

-----------------------------------------------------------------------------
(***************************************************************************)
(* ConvertStreamChunk, one operator per upstream event.  Its client has    *)
(* put together the content, the reasoning, the calls by their index, and  *)
(* has counted chunks; finish is the list of finish reasons.               *)
(***************************************************************************)
NewChat ==
    [calls |-> 0,            \* FunctionCallIndex + 1
     hasText |-> FALSE, hasToolCall |-> FALSE, hasReasoning |-> FALSE, completed |-> FALSE,
     argsDelta |-> FALSE, announced |-> FALSE, summaryDelta |-> FALSE,
     byItem |-> <<>>,        \* reasoningDeltaByItem, of the item under way
     outcome |-> "none",     \* what the pump reported
     client |-> [content |-> <<>>, reasoning |-> <<>>, calls |-> <<>>, finish |-> <<>>,
                 chunks |-> 0]]

Chunk(s) == [s EXCEPT !.client.chunks = @ + 1]
AddReasoning(s, text) ==
    Chunk([s EXCEPT !.hasReasoning = TRUE, !.client.reasoning = @ \o text])

ChatSummaryDelta(s, token) == [AddReasoning(s, <<token>>) EXCEPT !.summaryDelta = TRUE]

ChatSummaryDone(s, text) ==
    IF text # Empty /\ ~s.summaryDelta THEN AddReasoning(s, text)
    ELSE Chunk([s EXCEPT !.client.reasoning = Append(@, Separator)])

ChatReasoningDelta(s, token) == [AddReasoning(s, <<token>>) EXCEPT !.byItem = Append(@, token)]

\* Mutant of ChatReasoningDone: the deltas already sent are sent again.
ChatReasoningDoneAgain(s, full) ==
    LET t == [s EXCEPT !.byItem = <<>>]
    IN  IF full \in {Empty, s.byItem} THEN t ELSE AddReasoning(t, full)

ChatReasoningDone(s, full) ==
    LET acc  == s.byItem
        rest == IF full = acc THEN Empty
                ELSE IF acc # Empty /\ IsPrefix(acc, full)
                     THEN SubSeq(full, Len(acc) + 1, Len(full)) ELSE full
        t    == [s EXCEPT !.byItem = <<>>]
    IN  IF full = Empty \/ rest = Empty THEN t ELSE AddReasoning(t, rest)

\* response.content_part.added: its text is empty, and the chunk goes out without.
ChatPartAdded(s) == Chunk(s)

ChatText(s, token) ==
    Chunk([s EXCEPT !.hasText = TRUE, !.client.content = Append(@, token)])

\* A call appears, with the arguments known so far.
NewCall(s, name, args) ==
    Chunk([s EXCEPT !.hasToolCall = TRUE, !.calls = @ + 1,
                    !.client.calls = Append(@, [name |-> name, args |-> args])])

ChatCall(s, name) == [NewCall(s, name, Empty) EXCEPT !.argsDelta = FALSE, !.announced = TRUE]

AddArgs(s, args) ==
    Chunk([s EXCEPT !.hasToolCall = TRUE, !.client.calls[s.calls].args = @ \o args])

ChatArgsDelta(s, token) == [AddArgs(s, <<token>>) EXCEPT !.argsDelta = TRUE]

ChatArgsDone(s, args) ==
    IF s.argsDelta THEN [s EXCEPT !.hasToolCall = TRUE] ELSE AddArgs(s, args)

ChatCallDone(s, name, args) ==
    IF s.announced THEN [s EXCEPT !.hasToolCall = TRUE, !.announced = FALSE]
    ELSE NewCall(s, name, args)

HasContent(s) == s.hasText \/ s.hasToolCall \/ s.hasReasoning

FinishChunk(s) ==
    Chunk([s EXCEPT !.client.finish = Append(@, IF s.calls # 0 THEN "tool_calls" ELSE "stop")])

ChatCompleted(s) ==
    LET t == [s EXCEPT !.completed = TRUE]
    IN  IF HasContent(s) THEN FinishChunk(t) ELSE t

\* What PumpChatCompletion adds when the response is over.
ChatEnd(s) ==
    IF ~HasContent(s) /\ s.client.chunks = 0 THEN [s EXCEPT !.outcome = "empty"]
    ELSE [(IF s.completed THEN s ELSE FinishChunk(s)) EXCEPT !.outcome = "success"]

-----------------------------------------------------------------------------
(***************************************************************************)
(* The response in one piece, for clients that do not stream.              *)
(***************************************************************************)
Concat(kinds) ==
    FlattenSeq([i \in DOMAIN items |-> IF items[i].kind \in kinds THEN items[i].text ELSE <<>>])

Calls == Those(items, {i \in DOMAIN items : items[i].kind = "call"})

\* ConvertNonStreamResponse
FinalChat ==
    [content   |-> Concat({"message"}),
     reasoning |-> Concat({"summary", "reasoning"}),
     calls     |-> [i \in DOMAIN Calls |->
                       [name |-> OriginalName(request.tools, Calls[i].name), args |-> Calls[i].text]]]

\* hasOutput of ConvertNonStreamResponse
HasOutput == FinalChat.content # Empty \/ FinalChat.reasoning # Empty \/ FinalChat.calls # <<>>

\* ConvertCodexNonStreamToClaudeResponse: one thinking block for all reasoning, first.
FinalClaude ==
    LET thinking == Concat({"summary", "reasoning"})
        shown == Those(items, {i \in DOMAIN items : items[i].kind \in {"message", "call"}})
    IN  (IF thinking = Empty THEN <<>> ELSE <<[kind |-> "thinking", body |-> thinking]>>)
        \o [i \in DOMAIN shown |->
               IF shown[i].kind = "message" THEN [kind |-> "text", body |-> shown[i].text]
               ELSE [kind |-> "tool_use", body |-> Empty]]   \* its input goes elsewhere

-----------------------------------------------------------------------------
Init ==
    /\ request \in Requests /\ summaries \in BOOLEAN
    /\ stage = "start" /\ items = <<>> /\ step = "none" /\ sent = 0
    /\ claude = NewClaude /\ chat = NewChat

Current == items[Len(items)]

Created ==
    /\ stage = "start"
    /\ stage' = "items"
    /\ claude' = [claude EXCEPT !.begun = TRUE]
    /\ chat' = [chat EXCEPT !.byItem = <<>>, !.hasReasoning = FALSE, !.summaryDelta = FALSE]
    /\ UNCHANGED <<request, summaries, items, step, sent>>

Begin(kind, len, name, announced) ==
    /\ stage = "items" /\ step = "none" /\ Len(items) < request.items
    /\ LET n == Len(items) + 1
       IN  items' = Append(items, [kind |-> kind, name |-> name, announced |-> announced,
                                   text |-> [p \in 1 .. len |-> <<n, p>>]])
    /\ step' = "body" /\ sent' = 0
    /\ UNCHANGED <<request, summaries, stage>>

\* The parts of messages and of reasoning texts are announced empty; nothing is
\* said of summaries that a translator listens to.
BeginText(kind, len) ==
    /\ kind \in {"summary", "reasoning", "message"}
    /\ Begin(kind, len, Empty, TRUE)
    /\ chat' = IF kind = "summary" THEN chat ELSE ChatPartAdded(chat)
    /\ UNCHANGED claude

\* A call that is not announced comes whole when it is done.
BeginCall(tool, len, announced) ==
    LET short == ShortName(request.tools, tool)
    IN  /\ Begin("call", len, short, announced)
        /\ claude' = IF announced THEN ClaudeCall(claude, short) ELSE claude
        /\ chat' = IF announced THEN ChatCall(chat, OriginalName(request.tools, short)) ELSE chat

Delta ==
    /\ stage = "items" /\ step = "body" /\ sent < Len(Current.text)
    /\ sent' = sent + 1
    /\ LET token == Current.text[sent + 1]
       IN  \/ /\ Current.kind = "summary" /\ summaries
              /\ claude' = ClaudeReasoning(claude, token)
              /\ chat' = ChatSummaryDelta(chat, token)
           \/ /\ Current.kind = "reasoning"
              /\ claude' = ClaudeReasoning(claude, token)
              /\ chat' = ChatReasoningDelta(chat, token)
           \/ /\ Current.kind = "message"
              /\ claude' = ClaudeText(claude, token)
              /\ chat' = ChatText(chat, token)
           \/ /\ Current.kind = "call" /\ Current.announced
              /\ claude' = DeltaOf(claude, "tool_use", token)
              /\ chat' = ChatArgsDelta(chat, token)
    /\ UNCHANGED <<request, summaries, stage, items, step>>

\* Deltas may be missing from a reasoning text; summaries and arguments come by
\* deltas or whole.  No translator listens to response.reasoning.done, the end of
\* the older form of reasoning, nor to the end of a message's text.
TextDone ==
    /\ stage = "items" /\ step = "body"
    /\ \/ /\ Current.kind = "summary" /\ (summaries => sent = Len(Current.text))
          /\ claude' = LeaveThinking(claude)
          /\ chat' = ChatSummaryDone(chat, Current.text)
       \/ /\ Current.kind = "reasoning"
          /\ claude' = LeaveThinking(claude)
          /\ chat' = ChatReasoningDone(chat, Current.text)
       \/ /\ Current.kind = "reasoning" /\ sent = Len(Current.text)   \* response.reasoning.done
          /\ chat' = [chat EXCEPT !.byItem = <<>>]   \* its key is not used again
          /\ UNCHANGED claude
       \/ Current.kind = "message" /\ sent = Len(Current.text) /\ UNCHANGED <<claude, chat>>
    /\ step' = "none"
    /\ UNCHANGED <<request, summaries, stage, items, sent>>

ArgsDone ==
    /\ stage = "items" /\ step = "body" /\ Current.kind = "call" /\ Current.announced
    /\ sent \in {0, Len(Current.text)}
    /\ claude' = StopBlock(claude)
    /\ chat' = ChatArgsDone(chat, Current.text)
    /\ step' = "args"
    /\ UNCHANGED <<request, summaries, stage, items, sent>>

CallDone ==
    /\ stage = "items" /\ step # "none" /\ Current.kind = "call"
    /\ step = IF Current.announced THEN "args" ELSE "body"
    /\ chat' = ChatCallDone(chat, OriginalName(request.tools, Current.name), Current.text)
    /\ step' = "none"
    /\ UNCHANGED <<request, summaries, stage, items, sent, claude>>

Completed ==
    /\ stage = "items" /\ step = "none"
    /\ stage' = "completed"
    /\ claude' = [CloseEvents(claude) EXCEPT !.completed = TRUE]
    /\ chat' = ChatCompleted(chat)
    /\ UNCHANGED <<request, summaries, items, step, sent>>

\* The body ends without response.completed, after response.failed or not.
EndOfBody ==
    /\ stage \in {"start", "items"}
    /\ stage' = "cut"
    /\ UNCHANGED <<request, summaries, items, step, sent, claude, chat>>

Finish ==
    /\ stage \in {"completed", "cut"}
    /\ stage' = "end"
    /\ claude' = ClaudeEnd(claude)
    /\ chat' = ChatEnd(chat)
    /\ UNCHANGED <<request, summaries, items, step, sent>>

\* The connection fails: both pumps report an error and add nothing.
ReadFails ==
    /\ stage \in {"start", "items"}
    /\ stage' = "end"
    /\ claude' = [claude EXCEPT !.outcome = "error"]
    /\ chat' = [chat EXCEPT !.outcome = "error"]
    /\ UNCHANGED <<request, summaries, items, step, sent>>

Next ==
    \/ Created
    \/ \E len \in 0 .. MaxTokens :
          \/ \E kind \in {"summary", "reasoning", "message"} : BeginText(kind, len)
          \/ /\ len > 0
             /\ \E tool \in ToSet(request.tools), announced \in BOOLEAN :
                    BeginCall(tool, len, announced)
    \/ Delta \/ TextDone \/ ArgsDone \/ CallDone
    \/ Completed \/ EndOfBody \/ ReadFails \/ Finish

Spec == Init /\ [][Next]_vars

-----------------------------------------------------------------------------
\* The bodies of the blocks of one kind, one after another.
Assembled(blocks, kind) ==
    FlattenSeq([i \in DOMAIN blocks |-> IF blocks[i].kind = kind THEN blocks[i].body ELSE <<>>])

ToolUses == {i \in DOMAIN claude.client.blocks : claude.client.blocks[i].kind = "tool_use"}

\* Reasoning began after text of another item: the case BlocksInOrder excepts.
ReasoningAfterText ==
    \E i, j \in DOMAIN items : i < j /\ items[i].kind = "message"
                                     /\ items[j].kind \in {"summary", "reasoning"}

\* What the flags of ClaudeStreamState are for: an Anthropic client gets blocks
\* one at a time, deltas and stops only for the open one, and after an answer
\* that was not broken off all blocks closed and one message_stop.  The one
\* exception the translator makes: reasoning that comes after text starts its
\* block inside the text block, which no event of the upstream closes.
BlocksInOrder ==
    LET c == claude.client
    IN  IF c.fault # "none" THEN ReasoningAfterText
        ELSE /\ claude.outcome = "success" =>
                    \A i \in DOMAIN c.blocks :
                        c.blocks[i].open => i = Len(c.blocks) /\ step = "body"
                                            /\ Current.kind = "call"
             /\ claude.outcome # "none" =>
                    Len(c.stops) = IF claude.outcome = "success" THEN 1 ELSE 0

\* A completed response is the same answer streamed and in one piece, for
\* OpenAI clients: every token of text, reasoning and arguments once and in
\* order, whichever of the delta, done and item events brought it, calls under
\* the index they were announced with, and one finish reason that is true.  It
\* counts as empty streamed exactly if it does in one piece.
ChatStreamIsFinal ==
    LET c == chat.client
        texts == {i \in DOMAIN c.reasoning : c.reasoning[i] # Separator}
    IN  chat.outcome # "none" /\ chat.completed =>
            /\ c.content = FinalChat.content
            /\ Those(c.reasoning, texts) = FinalChat.reasoning
            /\ c.calls = FinalChat.calls
            /\ HasContent(chat) = HasOutput
            /\ HasOutput =>
                  c.finish = <<IF FinalChat.calls # <<>> THEN "tool_calls" ELSE "stop">>

\* The same for Anthropic clients: the text of the stream is that of the whole
\* message, its thinking the whole message's as far as the upstream streamed it,
\* in order, and the stop reason is tool_use exactly if the client was sent a
\* tool_use block.
ClaudeStreamIsFinal ==
    LET c == claude.client
        thinking == Assembled(c.blocks, "thinking")
        whole == Assembled(FinalClaude, "thinking")
        streamed == {i \in DOMAIN whole : whole[i] \in ToSet(thinking)}
    IN  claude.outcome = "success" /\ c.fault = "none" =>
            /\ claude.completed =>
                  /\ Assembled(c.blocks, "text") = Assembled(FinalClaude, "text")
                  /\ thinking = Those(whole, streamed)
            /\ c.stops[1] = "tool_use" <=> ToolUses # {}
=============================================================================
