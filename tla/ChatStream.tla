----------------------------- MODULE ChatStream -----------------------------
(***************************************************************************)
(* The two readers of an upstream response in the OpenAI API of zai-proxy: *)
(* handleStreamResponse, which sends chunks while it reads, and            *)
(* collectAssistantTurn (handleNonStreamResponse is the same but for the   *)
(* writing), which joins the texts and filters them at the end.  Both are  *)
(* given the same frames here, so that what they tell their clients can be *)
(* compared.                                                               *)
(*                                                                         *)
(* A frame is one action, the loop over promptToolBuffer included.         *)
(***************************************************************************)
EXTENDS UpstreamFrames

CONSTANT EditThinking   \* the reasoning an edit repeats, without its quoting

ASSUME EditThinkingAssumption ==
    \A tools \in Declared : EditThinking[tools] \subseteq Seq(STRING)

VARIABLES
    sources, images,     \* pendingSourcesMarkdown, pendingImageSearchMarkdown of both
    edits,      \* kinds of edit that came
    stream,     \* the locals of handleStreamResponse; out has the chunks it sent
    finish,     \* the finish_reason it sent
    turn,       \* the locals of collectAssistantTurn
    result      \* the assistantTurn it returned

sharedVars == <<lastPhase, rounds, known, sources, images>>
chatVars == <<hasTools, pc, frames, sharedVars, edits, stream, out, finish, turn, result>>

Mark(sym, src) == <<[sym |-> sym, src |-> src, at |-> frames + 1, pos |-> 0]>>
When(cond, text) == IF cond THEN text ELSE <<>>

\* One chunk: reasoning_content, content, or tool_calls with the index of each.
SentReasoning(text) == [i \in DOMAIN text |-> [kind |-> "reasoning", tok |-> text[i]]]
SentContent(text) == [i \in DOMAIN text |-> [kind |-> "content", tok |-> text[i]]]
SentCalls(text) == [i \in DOMAIN text |-> [kind |-> "call", tok |-> text[i], index |-> i - 1]]

ChatInit ==
    /\ hasTools \in Declared
    /\ pc = "frame" /\ frames = 0
    /\ lastPhase = "" /\ rounds = 0 /\ known = FALSE
    /\ sources = FALSE /\ images = FALSE /\ edits = {}
    /\ stream = [thinking |-> NewThinkingFilter, last |-> <<>>, refs |-> <<>>,
                 buffer |-> <<>>, calls |-> <<>>, length |-> 0]
    /\ out = <<>> /\ finish = "none"
    /\ turn = [thinking |-> NewThinkingFilter, last |-> <<>>, hasThinking |-> FALSE,
               chunks |-> <<>>, reasoning |-> <<>>, calls |-> <<>>]
    /\ result = [content |-> <<>>, reasoning |-> <<>>, calls |-> <<>>]

ChatReadFrame ==
    /\ pc = "frame" /\ frames < MaxFrames[hasTools]
    /\ frames' = frames + 1
    /\ UNCHANGED <<hasTools, pc, finish, result>>

-----------------------------------------------------------------------------
\* A new round drops what ProcessThinking remembers of the last chunk.  The stream
\* puts line breaks before the round's first text, the turn puts them anyway.
NewRound == lastPhase \notin {"", "thinking"}
Break == When(NewRound /\ rounds >= 1, Mark("break", "thinking"))
Process(f, delta) ==
    ProcessThinking(IF NewRound THEN ResetForNewRound(f) ELSE f, Text(delta, "thinking"))
LastOutputChunk(last, text) ==
    IF text # <<>> THEN text ELSE IF NewRound THEN <<>> ELSE last

StreamThinks(delta) ==
    LET p == Process(stream.thinking, delta)
        text == When(p.out # <<>>, Break \o p.out)
        r == ProcessRefs(stream.refs, text, known)
    IN  /\ stream' = [stream EXCEPT !.thinking = p.filter, !.refs = r.buffer,
                                    !.last = LastOutputChunk(@, text)]
        /\ out' = out \o SentReasoning(r.out)

TurnThinks(delta) ==
    LET p == Process(turn.thinking, delta)
    IN  turn' = [turn EXCEPT !.thinking = p.filter, !.hasThinking = TRUE,
                             !.last = LastOutputChunk(@, p.out),
                             !.reasoning = @ \o Break \o p.out]

ChatThinkingFrame(delta) ==
    /\ ChatReadFrame
    /\ lastPhase' = "thinking"
    /\ rounds' = IF NewRound THEN rounds + 1 ELSE rounds
    /\ StreamThinks(delta) /\ TurnThinks(delta)
    /\ UNCHANGED <<known, sources, images, edits>>

ChatOtherFrame(phase) ==
    /\ ChatReadFrame
    /\ lastPhase' = IF phase = "" THEN lastPhase ELSE phase
    /\ UNCHANGED rounds

ChatSearchResultFrame(phase) ==
    /\ ChatOtherFrame(phase)
    /\ known' = TRUE /\ sources' = TRUE
    /\ UNCHANGED <<images, edits, stream, out, turn>>

ChatSkippedFrame(phase) ==
    /\ ChatOtherFrame(phase)
    /\ UNCHANGED <<known, sources, images, edits, stream, out, turn>>

\* The text before a search_image or mcp block goes straight out.
ChatBlockFrame(before, image, phase) ==
    /\ ChatOtherFrame(phase)
    /\ images' = (images \/ image)
    /\ LET r == ProcessRefs(stream.refs, Text(before, "block"), known)
       IN  /\ stream' = [stream EXCEPT !.refs = r.buffer]
           /\ out' = out \o SentContent(r.out)
    /\ turn' = [turn EXCEPT !.chunks = @ \o Text(before, "block")]
    /\ UNCHANGED <<known, sources, edits>>

\* The calls of a frame take the place of those collected so far.
ChatFunctionCallFrame(n) ==
    /\ hasTools
    /\ ChatOtherFrame("tool_call")
    /\ LET calls == Text([i \in 1 .. n |-> "call"], "tool_call")
       IN  /\ stream' = [stream EXCEPT !.calls = calls]
           /\ out' = out \o SentCalls(calls)
           /\ turn' = [turn EXCEPT !.calls = calls]
    /\ UNCHANGED <<known, sources, images, edits>>

-----------------------------------------------------------------------------
\* Mutant of DrainBuffer: the text sent before a tag stays in the buffer.
DrainBufferUncut(buffer) ==
    LET from[n \in 0 .. Len(buffer)] ==    \* n tokens are done with
          LET b    == SubSeq(buffer, n + 1, Len(buffer))
              tags == Positions(b, {"open"})
              tag  == CHOOSE i \in tags : \A j \in tags : i <= j
              rest == SubSeq(b, tag, Len(b))
              end  == BlockEnd(rest)
              next == from[n + tag - 1 + end]
              found == ExtractPromptToolCalls(SubSeq(rest, 1, end)).calls
          IN  IF tags = {} THEN [out |-> <<>>, calls |-> <<>>, rest |-> b]
              ELSE IF end = 0
              THEN [out |-> SentContent(SubSeq(b, 1, tag - 1)), calls |-> <<>>, rest |-> b]
              ELSE [out |-> SentContent(SubSeq(b, 1, tag - 1)) \o SentCalls(found) \o next.out,
                    calls |-> found \o next.calls, rest |-> next.rest]
    IN  from[0]

\* The loop over promptToolBuffer: text before a tag is sent, then the calls of
\* the block, as long as there is a whole block.  Text without a tag stays.
DrainBuffer(buffer) ==
    LET from[n \in 0 .. Len(buffer)] ==    \* n tokens are done with
          LET b    == SubSeq(buffer, n + 1, Len(buffer))
              tags == Positions(b, {"open"})
              tag  == CHOOSE i \in tags : \A j \in tags : i <= j
              rest == SubSeq(b, tag, Len(b))
              end  == BlockEnd(rest)
              next == from[n + tag - 1 + end]
              found == ExtractPromptToolCalls(SubSeq(rest, 1, end)).calls
          IN  IF tags = {} THEN [out |-> <<>>, calls |-> <<>>, rest |-> b]
              ELSE IF end = 0
              THEN [out |-> SentContent(SubSeq(b, 1, tag - 1)), calls |-> <<>>, rest |-> rest]
              ELSE [out |-> SentContent(SubSeq(b, 1, tag - 1)) \o SentCalls(found) \o next.out,
                    calls |-> found \o next.calls, rest |-> next.rest]
    IN  from[0]

\* ExtractIncrementalThinking: what follows the first place where the last chunk
\* stands in the reasoning, or all of it.
IncrementalThinking(whole, last) ==
    LET at == {i \in 0 .. Len(whole) - Len(last) :
                  Syms(SubSeq(whole, i + 1, i + Len(last))) = Syms(last)}
        i  == CHOOSE i \in at : \A j \in at : i <= j
    IN  IF last = <<>> \/ at = {} THEN whole
        ELSE SubSeq(whole, i + Len(last) + 1, Len(whole))

\* What a content frame brings to the answer of the stream, and the new
\* totalContentOutputLength: an edit of the answer phase has it after </details>,
\* one of the phases other and tool_call repeats the text so far.
ChatExtracted(via, text) ==
    IF via = "delta" THEN [content |-> text, length |-> stream.length]
    ELSE IF via = "edit" THEN [content |-> text, length |-> Len(text)]
    ELSE IF Len(text) > stream.length
    THEN [content |-> SubSeq(text, stream.length + 1, Len(text)), length |-> Len(text)]
    ELSE [content |-> text, length |-> stream.length]

\* Any other frame; without text it still sends what is pending.
StreamContent(via, whole, text) ==
    LET f  == FlushThinking(stream.thinking)
        last == IF f.out # <<>> THEN f.out ELSE stream.last
        more == When(via = "edit", IncrementalThinking(whole, last))
        r1 == ProcessRefs(stream.refs, f.out, known)
        r2 == ProcessRefs(r1.buffer, more, known)
        said == When(more # <<>>, r2.out \o FlushRefs(r2.buffer, known).out)
        x  == ChatExtracted(via, text)
        r3 == ProcessRefs(When(more = <<>>, r1.buffer), x.content, known)
        d  == DrainBuffer(stream.buffer \o r3.out)
        answer == hasTools /\ r3.out # <<>>
    IN  /\ stream' = [stream EXCEPT
              !.thinking = f.filter, !.last = last, !.refs = r3.buffer,
              !.length = x.length + (IF via = "delta" THEN Len(r3.out) ELSE 0),
              !.buffer = IF answer THEN d.rest ELSE @,
              !.calls = IF answer THEN @ \o d.calls ELSE @]
        /\ out' = out \o SentContent(When(sources, Mark("sources", "pending")))
                      \o SentContent(When(images, Mark("images", "pending")))
                      \o SentReasoning(r1.out) \o SentReasoning(said)
                      \o (IF answer THEN d.out ELSE SentContent(r3.out))

TurnContent(via, whole, text) ==
    LET found == When(sources, Mark("sources", "pending"))
        more  == When(via = "edit", IncrementalThinking(whole, turn.last))
    IN  turn' = [turn EXCEPT
            !.reasoning = @ \o When(turn.hasThinking, found) \o more,
            !.chunks = @ \o When(~turn.hasThinking, found)
                         \o When(images, Mark("images", "pending")) \o text]

ChatContentFrame(via, phase, repeated, syms) ==
    /\ ChatOtherFrame(phase)
    /\ StreamContent(via, Text(repeated, "thinking"), Text(syms, "answer"))
    /\ TurnContent(via, Text(repeated, "thinking"), Text(syms, "answer"))
    /\ sources' = FALSE /\ images' = FALSE
    /\ edits' = edits \cup (IF via = "repeat" THEN {"repeat"}
                           ELSE IF repeated # <<>> THEN {"reasoning"} ELSE {})
    /\ UNCHANGED known

-----------------------------------------------------------------------------
\* Mutant of StreamEnds: the calls of the final scan do not count.
StreamEndsUncounted ==
    LET x == ExtractPromptToolCalls(stream.buffer)
    IN  /\ out' = out \o SentCalls(x.calls) \o SentContent(x.clean)
                      \o SentContent(FlushRefs(stream.refs, known).out)
        /\ finish' = IF stream.calls # <<>> THEN "tool_calls" ELSE "stop"
        /\ stream' = [stream EXCEPT !.buffer = <<>>, !.refs = <<>>]

\* The thinking filter is not flushed, and what is pending is not sent.
StreamEnds ==
    LET x == ExtractPromptToolCalls(stream.buffer)
        calls == stream.calls \o x.calls
    IN  /\ out' = out \o SentCalls(x.calls) \o SentContent(x.clean)
                      \o SentContent(FlushRefs(stream.refs, known).out)
        /\ finish' = IF calls # <<>> THEN "tool_calls" ELSE "stop"
        /\ stream' = [stream EXCEPT !.calls = calls, !.buffer = <<>>, !.refs = <<>>]

TurnEnds ==
    LET content == ResolveCitations(turn.chunks, known)
        prompt == ExtractPromptToolCalls(content)
        found == hasTools /\ turn.calls = <<>> /\ prompt.calls # <<>>
    IN  result' = [content   |-> IF found THEN prompt.clean ELSE content,
                   reasoning |-> ResolveCitations(turn.reasoning, known),
                   calls     |-> IF found THEN prompt.calls ELSE turn.calls]

\* [DONE], phase done, the end of the body; for the stream a read error as well.
ChatEndOfBody ==
    /\ pc = "frame" /\ pc' = "end"
    /\ StreamEnds /\ TurnEnds
    /\ UNCHANGED <<hasTools, frames, sharedVars, edits, turn>>

ChatPhases == {"", "thinking", "answer"}

ChatNext ==
    \/ \E delta \in ThinkingTexts[hasTools] : ChatThinkingFrame(delta)
    \/ \E phase \in ChatPhases : ChatSearchResultFrame(phase) \/ ChatSkippedFrame(phase)
    \/ \E before \in AnswerTexts[hasTools], image \in BOOLEAN, phase \in ChatPhases :
            ChatBlockFrame(before, image, phase)
    \/ \E n \in 1 .. MaxCalls : ChatFunctionCallFrame(n)
    \/ \E text \in AnswerTexts[hasTools] :
            \/ ChatContentFrame("delta", "answer", <<>>, text)
            \/ ChatContentFrame("repeat", "other", <<>>, text)
            \/ \E whole \in EditThinking[hasTools] : ChatContentFrame("edit", "answer", whole, text)
    \/ \E phase \in ChatPhases : ChatContentFrame("delta", phase, <<>>, <<>>)
    \/ ChatEndOfBody

ChatSpec == ChatInit /\ [][ChatNext]_chatVars

-----------------------------------------------------------------------------
ChatSent(kind, sources_) ==
    LET Wanted(o) == o.kind = kind /\ o.tok.src \in sources_
    IN  SelectSeq(out, Wanted)
TokensOf(chunks) == [i \in DOMAIN chunks |-> chunks[i].tok]

\* Text that is not part of a citation: those may be resolved differently, since
\* the stream knows only the results that came before them.
ChatPlain(text, src) ==
    LET Wanted(t) == t.src = src /\ t.sym \notin {"bra", "ref", "ket", "link"}
    IN  SelectSeq(text, Wanted)

\* The elements of s that are in T.
Those(s, T) ==
    LET from[i \in Nat] ==
          IF i > Len(s) THEN <<>>
          ELSE (IF s[i] \in T THEN <<s[i]>> ELSE <<>>) \o from[i + 1]
    IN  from[1]

ThinkingWords == [sym : {"word"}, src : {"thinking"}, at : Nat, pos : Nat]

ChatWellFormed(text) ==
    /\ \A i \in DOMAIN text :
            text[i].src # "answer" => text[i].sym \notin {"open", "call", "close", "think", "bad"}
    /\ Positions(text, {"bad"}) = {}
    /\ Positions(text, {"call"}) = {i + 1 : i \in Positions(text, {"open"})}
    /\ Positions(text, {"close", "think"}) = {i + 2 : i \in Positions(text, {"open"})}

\* With "stream" or without it a client is told the same answer: every token of
\* the answer's text once and in order, and the same calls, however the upstream
\* cut the text and whatever came between.  The readers differ when an edit of the
\* phases other and tool_call repeats text (the stream alone leaves out what it has
\* sent) and when calls come in frames as well (the turn takes no others then).
ModesAgree ==
    LET whole == ResolveCitations(turn.chunks, known)
        clean == IF hasTools THEN ExtractPromptToolCalls(whole).clean ELSE whole
    IN  pc = "end" /\ "repeat" \notin edits /\ (hasTools => ChatWellFormed(whole)) =>
            /\ ChatPlain(TokensOf(ChatSent("content", {"answer"})), "answer")
                 = ChatPlain(clean, "answer")
            /\ turn.calls = <<>> => TokensOf(ChatSent("call", {"answer"})) = result.calls

\* So is the reasoning, round after round, unless an edit tells it again.
ReasoningAgrees ==
    pc = "end" /\ "reasoning" \notin edits =>
        TokensOf(Those(out, [kind : {"reasoning"}, tok : ThinkingWords]))
            = Those(result.reasoning, ThinkingWords)

\* finish_reason is tool_calls exactly if the client was sent a call, from a frame,
\* a block or the final scan.
FinishTruthful ==
    pc = "end" =>
        (finish = "tool_calls" <=> \E i \in DOMAIN out : out[i].kind = "call")

\* "expected sequential indices" (prompttool_test.go): the calls found in the text
\* of a response are numbered from 0 up; a client puts the pieces of a call
\* together by that number.
CallsSequential ==
    pc = "end" => LET calls == ChatSent("call", {"answer"})
                  IN  \A i \in DOMAIN calls : calls[i].index = i - 1
=============================================================================
