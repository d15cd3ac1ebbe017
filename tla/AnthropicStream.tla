-------------------------- MODULE AnthropicStream --------------------------
(***************************************************************************)
(* handler.handleAnthropicStream: one upstream SSE response turned into    *)
(* the events of the Anthropic streaming protocol (message_start, content  *)
(* blocks, message_delta, message_stop).  One goroutine does all the work, *)
(* so the interleaving is that of the upstream's frames with the handler's *)
(* four pieces of state: the open content block, the two text filters and  *)
(* the buffer in which tool calls written as text are looked for.          *)
(*                                                                         *)
(* A frame is one action.  What the handler does in a loop (the calls of a *)
(* frame, the blocks in promptToolBuffer) is one action per iteration.     *)
(***************************************************************************)
EXTENDS UpstreamFrames

VARIABLES
    thinking, refs,                \* the rest of ThinkingFilter; SearchRefFilter's buffer
    promptBuf,                     \* promptToolBuffer
    calls, resume,                 \* tool calls being emitted, where to go on
    hasToolCalls, outputLength,    \* hasToolCalls, totalContentOutputLength
    tail,                          \* clean text the final prompt-tool scan left
    blk,        \* contentBlockIndex and the three in...Block flags
    client,     \* what a reader of the events knows; out has the deltas: kind and token
    fed,        \* answer text that passed the citation filter
    stopReason

handlerVars == <<hasTools, pc, frames, lastPhase, rounds, thinking, known, refs, promptBuf,
                 calls, resume, hasToolCalls, outputLength, tail>>
vars == <<handlerVars, blk, client, out, fed, stopReason>>

Kinds == {"thinking", "text", "tool_use"}

-----------------------------------------------------------------------------
(***************************************************************************)
(* The reader of the events.  Content blocks come one at a time: start,    *)
(* deltas of the block's own kind, stop, and their indexes count up from 0.*)
(* fault keeps the first event that broke this, seen the kinds of block    *)
(* started so far.                                                         *)
(***************************************************************************)
Faults == {"none", "thinking started inside tool_use", "bad start", "bad delta", "bad stop"}

NewClient == [kind |-> "none", cur |-> 0, next |-> 0, fault |-> "none", seen |-> {}]

Note(c, broken, fault) == IF c.fault = "none" /\ broken THEN fault ELSE c.fault

SeeStart(c, index, kind) ==
    [kind  |-> kind, cur |-> index, next |-> index + 1, seen |-> c.seen \cup {kind},
     fault |-> IF c.fault = "none" /\ kind = "thinking" /\ c.kind = "tool_use"
               THEN "thinking started inside tool_use"
               ELSE Note(c, c.kind # "none" \/ index # c.next, "bad start")]

SeeDelta(c, index, kind) ==
    [c EXCEPT !.fault = Note(c, c.kind # kind \/ c.cur # index, "bad delta")]

SeeStop(c, index) ==
    [c EXCEPT !.kind  = "none",
              !.fault = Note(c, c.kind = "none" \/ c.cur # index, "bad stop")]

(***************************************************************************)
(* Events sent and the locals that go with them: s is [blk, client].       *)
(***************************************************************************)
NewBlocks == [index |-> 0, in |-> [k \in Kinds |-> FALSE]]

Close(s, kind) ==
    IF s.blk.in[kind]
    THEN [blk    |-> [index |-> s.blk.index + 1, in |-> [s.blk.in EXCEPT ![kind] = FALSE]],
          client |-> SeeStop(s.client, s.blk.index)]
    ELSE s

Open(s, kind) ==
    IF s.blk.in[kind] THEN s
    ELSE [blk    |-> [s.blk EXCEPT !.in = [@ EXCEPT ![kind] = TRUE]],
          client |-> SeeStart(s.client, s.blk.index, kind)]

Delta(s, kind) ==
    [blk |-> s.blk, client |-> SeeDelta(s.client, s.blk.index, kind)]

\* Both thinking branches close a text block, and nothing else, before they open
\* a thinking block.
ThinkingDelta(s) == Delta(Open(Close(s, "text"), "thinking"), "thinking")

\* Mutant of TextDelta: one of the two closes is missing.
TextDeltaInTool(s) == Delta(Open(Close(s, "thinking"), "text"), "text")

\* emitAnthropicTextDelta
TextDelta(s) == Delta(Open(Close(Close(s, "thinking"), "tool_use"), "text"), "text")

\* emitAnthropicToolUse starts a block of its own and leaves it open.
ToolUse(s) == Delta(Open(Close(s, "tool_use"), "tool_use"), "tool_use")

CloseForTools(s) == Close(Close(s, "thinking"), "text")

CloseAll(s) == Close(CloseForTools(s), "tool_use")

EmitThinking(text, s) == IF text = <<>> THEN s ELSE ThinkingDelta(s)
EmitText(text, s) == IF text = <<>> THEN s ELSE TextDelta(s)

Stream == [blk |-> blk, client |-> client]
SetStream(s) == blk' = s.blk /\ client' = s.client

Sent(kind, text) == [i \in DOMAIN text |-> [kind |-> kind, tok |-> text[i]]]

-----------------------------------------------------------------------------
Init ==
    /\ hasTools \in Declared
    /\ pc = "frame" /\ frames = 0
    /\ lastPhase = "" /\ rounds = 0 /\ thinking = NewThinkingFilter
    /\ known = FALSE /\ refs = <<>>
    /\ promptBuf = <<>> /\ calls = <<>> /\ resume = "frame" /\ tail = <<>>
    /\ hasToolCalls = FALSE /\ outputLength = 0
    /\ blk = NewBlocks /\ client = NewClient   \* message_start has been sent
    /\ out = <<>> /\ fed = <<>> /\ stopReason = "none"

ReadFrame ==
    /\ pc = "frame" /\ frames < MaxFrames[hasTools]
    /\ frames' = frames + 1
    /\ UNCHANGED <<hasTools, resume, tail, stopReason>>

ThinkingFrame(delta) ==
    /\ ReadFrame
    /\ lastPhase' = "thinking"
    /\ LET newRound == lastPhase \notin {"", "thinking"}
           t == ProcessThinking(IF newRound THEN ResetForNewRound(thinking) ELSE thinking,
                                Text(delta, "thinking"))
           break == IF newRound /\ rounds >= 1 /\ t.out # <<>>
                    THEN <<[sym |-> "break", src |-> "thinking", at |-> frames + 1, pos |-> 0]>>
                    ELSE <<>>
           r == ProcessRefs(refs, break \o t.out, known)
       IN  /\ rounds' = IF newRound THEN rounds + 1 ELSE rounds
           /\ thinking' = t.filter
           /\ refs' = r.buffer
           /\ SetStream(EmitThinking(r.out, Stream))
           /\ out' = out \o Sent("thinking", r.out)
    /\ UNCHANGED <<pc, known, promptBuf, calls, hasToolCalls, outputLength, fed>>

\* Any frame that is not reasoning text sets LastPhase, if it names a phase.
OtherFrame(phase) ==
    /\ ReadFrame
    /\ lastPhase' = IF phase = "" THEN lastPhase ELSE phase
    /\ UNCHANGED rounds

SearchResultFrame(phase) ==
    /\ OtherFrame(phase)
    /\ known' = TRUE
    /\ UNCHANGED <<pc, thinking, refs, promptBuf, calls, hasToolCalls, outputLength,
                   blk, client, out, fed>>

\* A search tool call, or a block without text before it, or results that do not
\* parse: the frame is skipped before the thinking filter is flushed.
SkippedFrame(phase) ==
    /\ OtherFrame(phase)
    /\ UNCHANGED <<pc, thinking, known, refs, promptBuf, calls, hasToolCalls, outputLength,
                   blk, client, out, fed>>

\* The text before a search_image or mcp block goes straight out, past promptBuf.
BlockFrame(before, phase) ==
    /\ OtherFrame(phase)
    /\ LET r == ProcessRefs(refs, Text(before, "block"), known)
       IN  /\ refs' = r.buffer
           /\ SetStream(EmitText(r.out, Stream))
           /\ out' = out \o Sent("text", r.out)
    /\ UNCHANGED <<pc, thinking, known, promptBuf, calls, hasToolCalls, outputLength, fed>>

FunctionCallFrame(n) ==
    /\ hasTools
    /\ OtherFrame("tool_call")
    /\ calls' = Text([i \in 1 .. n |-> "call"], "tool_call")
    /\ hasToolCalls' = TRUE
    /\ SetStream(CloseForTools(Stream))
    /\ pc' = "calls"
    /\ UNCHANGED <<thinking, known, refs, promptBuf, outputLength, out, fed>>

\* What a content frame adds to the answer, and the new totalContentOutputLength.
\* An edit of the answer phase counts from </details> on; edits of the phases
\* other and tool_call repeat the text so far.
Extracted(via, text) ==
    CASE via = "delta" -> [content |-> text, length |-> outputLength]
      [] via = "edit" -> [content |-> text, length |-> Len(text)]
      [] via = "repeat" /\ Len(text) > outputLength ->
            [content |-> SubSeq(text, outputLength + 1, Len(text)), length |-> Len(text)]
      [] via = "repeat" /\ Len(text) <= outputLength ->
            [content |-> text, length |-> outputLength]

PhaseOf(via) == IF via = "repeat" THEN "other" ELSE "answer"

\* Without text the frame still flushes the thinking filter.
ContentFrame(via, phase, syms) ==
    /\ OtherFrame(phase)
    /\ LET t  == FlushThinking(thinking)
           r1 == ProcessRefs(refs, t.out, known)
           x  == Extracted(via, Text(syms, "answer"))
           r2 == ProcessRefs(r1.buffer, x.content, known)
           s1 == EmitThinking(r1.out, Stream)
       IN  /\ thinking' = t.filter
           /\ refs' = r2.buffer
           /\ outputLength' = x.length + (IF via = "delta" THEN Len(r2.out) ELSE 0)
           /\ fed' = fed \o r2.out
           /\ IF hasTools /\ r2.out # <<>>
              THEN /\ promptBuf' = promptBuf \o r2.out
                   /\ pc' = "drain"
                   /\ SetStream(s1)
                   /\ out' = out \o Sent("thinking", r1.out)
              ELSE /\ SetStream(EmitText(r2.out, s1))
                   /\ out' = out \o Sent("thinking", r1.out) \o Sent("text", r2.out)
                   /\ UNCHANGED <<pc, promptBuf>>
    /\ UNCHANGED <<known, calls, hasToolCalls>>

-----------------------------------------------------------------------------
(***************************************************************************)
(* The loop over promptToolBuffer, and the loop over the calls found.      *)
(***************************************************************************)
FirstOpen == CHOOSE i \in Positions(promptBuf, {"open"}) :
                \A j \in Positions(promptBuf, {"open"}) : i <= j

AtTag == promptBuf # <<>> /\ promptBuf[1].sym = "open"

DrainUnchanged == UNCHANGED <<hasTools, frames, lastPhase, rounds, thinking, known, refs, outputLength,
                              tail, fed, stopReason>>

DrainText ==
    /\ pc = "drain" /\ Positions(promptBuf, {"open"}) # {} /\ FirstOpen > 1
    /\ LET safe == SubSeq(promptBuf, 1, FirstOpen - 1)
       IN  /\ SetStream(EmitText(safe, Stream))
           /\ out' = out \o Sent("text", safe)
    /\ promptBuf' = SubSeq(promptBuf, FirstOpen, Len(promptBuf))
    /\ UNCHANGED <<pc, calls, resume, hasToolCalls>> /\ DrainUnchanged

\* A block in which no call is found is dropped.
DrainBlock ==
    /\ pc = "drain" /\ AtTag /\ BlockEnd(promptBuf) # 0
    /\ LET end   == BlockEnd(promptBuf)
           found == ExtractPromptToolCalls(SubSeq(promptBuf, 1, end)).calls
       IN  /\ promptBuf' = SubSeq(promptBuf, end + 1, Len(promptBuf))
           /\ calls' = found
           /\ IF found = <<>>
              THEN UNCHANGED <<pc, resume, hasToolCalls, blk, client>>
              ELSE /\ pc' = "calls" /\ resume' = "drain"
                   /\ hasToolCalls' = TRUE
                   /\ SetStream(CloseForTools(Stream))
    /\ UNCHANGED out /\ DrainUnchanged

\* Mutants of DrainDone: the incomplete block is thrown away, or the loop has
\* no exit for it.
DrainDoneDropsRest ==
    /\ pc = "drain"
    /\ \/ Positions(promptBuf, {"open"}) = {}
       \/ AtTag /\ BlockEnd(promptBuf) = 0
    /\ pc' = "frame" /\ resume' = "frame" /\ promptBuf' = <<>>
    /\ UNCHANGED <<calls, hasToolCalls, blk, client, out>> /\ DrainUnchanged

DrainDoneNoExit ==
    /\ pc = "drain" /\ Positions(promptBuf, {"open"}) = {}
    /\ pc' = "frame" /\ resume' = "frame"
    /\ UNCHANGED <<promptBuf, calls, hasToolCalls, blk, client, out>> /\ DrainUnchanged

DrainDone ==
    /\ pc = "drain"
    /\ \/ Positions(promptBuf, {"open"}) = {}
       \/ AtTag /\ BlockEnd(promptBuf) = 0
    /\ pc' = "frame" /\ resume' = "frame"
    /\ UNCHANGED <<promptBuf, calls, hasToolCalls, blk, client, out>> /\ DrainUnchanged

EmitCall ==
    /\ pc = "calls"
    /\ SetStream(ToolUse(Stream))
    /\ out' = Append(out, [kind |-> "tool_use", tok |-> Head(calls)])
    /\ calls' = Tail(calls)
    /\ pc' = IF Tail(calls) = <<>> THEN resume ELSE "calls"
    /\ UNCHANGED <<promptBuf, resume, hasToolCalls>> /\ DrainUnchanged

-----------------------------------------------------------------------------
(***************************************************************************)
(* After the last frame: [DONE], phase done, end of the body or a read     *)
(* error, which is only logged.                                            *)
(***************************************************************************)
EndUnchanged == UNCHANGED <<hasTools, frames, lastPhase, rounds, thinking, known, outputLength>>

EndOfBody ==
    /\ pc = "frame"
    /\ pc' = "flush"
    /\ UNCHANGED <<refs, promptBuf, calls, resume, hasToolCalls, tail, blk, client, out, fed,
                   stopReason>>
    /\ EndUnchanged

\* Mutant of FlushPrompt: calls found by the final scan leave hasToolCalls alone.
FlushPromptForgets ==
    /\ pc = "flush"
    /\ LET x == ExtractPromptToolCalls(promptBuf)
       IN  /\ calls' = x.calls /\ tail' = x.clean
           /\ IF x.calls = <<>>
              THEN pc' = "tail" /\ UNCHANGED <<resume, blk, client>>
              ELSE pc' = "calls" /\ resume' = "tail" /\ SetStream(CloseForTools(Stream))
    /\ promptBuf' = <<>>
    /\ UNCHANGED <<hasToolCalls, refs, out, fed, stopReason>> /\ EndUnchanged

FlushPrompt ==
    /\ pc = "flush"
    /\ LET x == ExtractPromptToolCalls(promptBuf)
       IN  /\ calls' = x.calls /\ tail' = x.clean
           /\ IF x.calls = <<>>
              THEN pc' = "tail" /\ UNCHANGED <<resume, hasToolCalls, blk, client>>
              ELSE /\ pc' = "calls" /\ resume' = "tail"
                   /\ hasToolCalls' = TRUE
                   /\ SetStream(CloseForTools(Stream))
    /\ promptBuf' = <<>>
    /\ UNCHANGED <<refs, out, fed, stopReason>> /\ EndUnchanged

FlushTail ==
    /\ pc = "tail"
    /\ LET rest == FlushRefs(refs, known).out
       IN  /\ SetStream(EmitText(rest, EmitText(tail, Stream)))
           /\ out' = out \o Sent("text", tail) \o Sent("text", rest)
           /\ fed' = fed \o rest
    /\ tail' = <<>> /\ refs' = <<>> /\ pc' = "close"
    /\ UNCHANGED <<promptBuf, calls, resume, hasToolCalls, stopReason>> /\ EndUnchanged

Finish ==
    /\ pc = "close"
    /\ SetStream(CloseAll(Stream))
    /\ stopReason' = IF hasToolCalls THEN "tool_use" ELSE "end_turn"
    /\ pc' = "end"
    /\ UNCHANGED <<refs, promptBuf, calls, resume, hasToolCalls, tail, out, fed>> /\ EndUnchanged

Phases == {"", "thinking", "answer", "other"}

Frame ==
    \/ \E delta \in ThinkingTexts[hasTools] : ThinkingFrame(delta)
    \/ \E phase \in Phases : SearchResultFrame(phase) \/ SkippedFrame(phase)
    \/ \E before \in AnswerTexts[hasTools], phase \in Phases : BlockFrame(before, phase)
    \/ \E n \in 1 .. MaxCalls : FunctionCallFrame(n)
    \/ \E via \in {"delta", "edit", "repeat"}, text \in AnswerTexts[hasTools] :
            ContentFrame(via, PhaseOf(via), text)
    \/ \E phase \in Phases : ContentFrame("delta", phase, <<>>)

Local ==
    \/ DrainText \/ DrainBlock \/ DrainDone \/ EmitCall
    \/ FlushPrompt \/ FlushTail \/ Finish

Next == Frame \/ EndOfBody \/ Local

\* The handler's own steps are never held up; the upstream may stall forever.
Spec == Init /\ [][Next]_vars /\ WF_vars(Local)

-----------------------------------------------------------------------------
StreamTypeOK ==
    /\ pc \in {"frame", "calls", "drain", "flush", "tail", "close", "end"}
    /\ hasToolCalls \in BOOLEAN
    /\ blk \in [index : Nat, in : [Kinds -> BOOLEAN]]
    /\ client \in [kind : Kinds \cup {"none"}, cur : Nat, next : Nat, fault : Faults,
                    seen : SUBSET Kinds]
    /\ stopReason \in {"none", "tool_use", "end_turn"}

TypeOK ==
    /\ StreamTypeOK
    /\ hasTools \in Declared
    /\ frames \in 0 .. MaxFrames[hasTools] /\ rounds \in 0 .. MaxFrames[hasTools]
    /\ lastPhase \in Phases \cup {"tool_call"}
    /\ resume \in {"frame", "drain", "tail"}
    /\ known \in BOOLEAN /\ Len(refs) <= 2 /\ Len(thinking.buffer) <= 2
    /\ outputLength \in Nat
    /\ {out[i].kind : i \in DOMAIN out} \subseteq Kinds

SentAs(kinds, sources) ==
    LET Wanted(o) == o.kind \in kinds /\ o.tok.src \in sources
        s == SelectSeq(out, Wanted)
    IN  [i \in DOMAIN s |-> s[i].tok]

Plain(text) ==
    LET Other(t) == t.sym \notin {"bra", "ref", "ket", "link"}
    IN  SelectSeq(text, Other)

\* Every tag is followed by the JSON of a call and a closing tag, and none of
\* these stands elsewhere.
WellFormed(text) ==
    /\ Positions(text, {"bad"}) = {}
    /\ Positions(text, {"call"}) = {i + 1 : i \in Positions(text, {"open"})}
    /\ Positions(text, {"close", "think"}) = {i + 2 : i \in Positions(text, {"open"})}

\* The block protocol a client relies on: blocks one at a time, deltas only in
\* an open block of their kind, indexes counting up, everything closed before
\* message_stop.  The handler keeps it as long as no reasoning follows a tool
\* call: the first event that breaks it is always a thinking block started while
\* a tool_use block is open (handleAnthropicStream, emitAnthropicTextDelta,
\* emitAnthropicToolUse).
BlockProtocol ==
    /\ client.fault \in {"none", "thinking started inside tool_use"}
    /\ pc = "end" /\ client.fault = "none" => client.kind = "none"

\* The stop reason the client acts on agrees with what it received: tool_use
\* exactly when at least one tool_use block was sent, whichever of the three
\* places (frame, prompt block, final scan) the call came from.
StopReasonTruthful ==
    pc = "end" => (stopReason = "tool_use" <=> "tool_use" \in client.seen)

\* Tool calls written into the answer text are sent exactly once and in order,
\* and the text around them arrives exactly once and in order, however the
\* upstream cut the text into deltas and whatever other frames came between:
\* the incremental scan gives what ExtractPromptToolCalls gives on the whole text.
PromptToolsChunkFree ==
    LET whole == ExtractPromptToolCalls(fed)
    IN  pc = "end" /\ hasTools /\ WellFormed(fed) =>
            /\ SentAs({"tool_use"}, {"answer"}) = whole.calls
            /\ Plain(SentAs({"text"}, {"answer"})) = Plain(whole.clean)

\* Both texts share one citation filter, whose buffer outlives a phase.  All
\* that can cross from one kind of block to the other is such a held-back
\* beginning of a citation: reasoning never shows up as answer text or the
\* other way round.
OnlyCitationsCross ==
    \A i \in DOMAIN out :
        LET o == out[i]
        IN  (o.kind = "text" /\ o.tok.src = "thinking")
            \/ (o.kind = "thinking" /\ o.tok.src # "thinking")
            => o.tok.sym \in {"bra", "ref", "link"}

\* The scan of promptToolBuffer and the call loop always come to an end: the
\* handler gets back to reading frames, or finishes the message.
HandlerReturns == (pc # "frame") ~> (pc \in {"frame", "end"})
=============================================================================
