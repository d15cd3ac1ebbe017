----------------------- MODULE AnthropicStreamProofs -----------------------
(***************************************************************************)
(* Proofs about the content blocks of AnthropicStream, for every set of    *)
(* deltas, every number of frames and calls, with and without tools.       *)
(*                                                                         *)
(* In the first part the text plays no part: what the filters and the scan *)
(* return only decides whether an event is sent.  The argument is about    *)
(* the pair [blk, client] and the operators that change it: as long as     *)
(* nothing has gone wrong, the handler's flags and the client agree on the *)
(* open block and on the next index (Agree).                               *)
(*                                                                         *)
(* In the second part nothing but the text matters: which tokens each      *)
(* buffer can hold (TInv), and what the recursive text functions of the    *)
(* filters make of texts over a set of tokens.  Their recursion is         *)
(* followed with a principle of induction stated for sets of numbers.      *)
(*                                                                         *)
(* The third part is about FilterChunks: the filters fed any text cut in   *)
(* any way.  Both rewrite a pattern of three different symbols, and hold   *)
(* back what may become one, so one argument serves both: the rewriting    *)
(* of a text falls into that of its parts wherever no pattern is cut       *)
(* (RewriteJoin), and what was sent and is held back follows the text      *)
(* (Follows) from chunk to chunk.                                          *)
(*                                                                         *)
(* The fourth part is about ChatStream: whatever the client is sent keeps  *)
(* up with the calls the handler has collected (Tells), through every turn *)
(* of the loop over promptToolBuffer (LoopsTell), every frame and the end. *)
(*                                                                         *)
(* The fifth part is about ChatStream as well, and about the words of      *)
(* reasoning among what is sent and what is collected (Those): no filter   *)
(* ever holds a word back (HoldNoWord), so the streaming and the           *)
(* collecting reader tell the same ones in the same order (SameReasoning). *)
(***************************************************************************)
EXTENDS AnthropicStream, ChatStream, FilterChunks, TLAPS, WellFoundedInduction, SequenceTheorems

Clients == [kind : Kinds \cup {"none"}, cur : Nat, next : Nat, fault : Faults,
            seen : SUBSET Kinds]
Blocks == [index : Nat, in : [Kinds -> BOOLEAN]]
Streams == [blk : Blocks, client : Clients]

Agree(s) ==
    /\ \A k \in Kinds : s.blk.in[k] <=> s.client.kind = k
    /\ IF s.client.kind = "none" THEN s.client.next = s.blk.index
       ELSE s.client.cur = s.blk.index /\ s.client.next = s.blk.index + 1

KnownFault(s) == s.client.fault \in {"none", "thinking started inside tool_use"}

StreamOK(s) ==
    /\ s \in Streams
    /\ KnownFault(s)
    /\ s.client.fault = "none" => Agree(s)

\* Seen grows by the kinds a step may start.
Starts(s, t, kinds) ==
    s.client.seen \subseteq t.client.seen /\ t.client.seen \subseteq s.client.seen \cup kinds

-----------------------------------------------------------------------------
(***************************************************************************)
(* The operators on [blk, client].                                         *)
(***************************************************************************)

\* Closing a block keeps flags and client together, and clears that flag only.
LEMMA CloseOK ==
    ASSUME NEW s, StreamOK(s), NEW kind \in Kinds
    PROVE  /\ StreamOK(Close(s, kind))
           /\ ~Close(s, kind).blk.in[kind]
           /\ \A k \in Kinds \ {kind} : Close(s, kind).blk.in[k] = s.blk.in[k]
           /\ Close(s, kind).client.seen = s.client.seen
<1>1. CASE ~s.blk.in[kind]
  BY <1>1 DEF Close
<1>2. CASE s.blk.in[kind]
  <2> DEFINE b == [index |-> s.blk.index + 1, in |-> [s.blk.in EXCEPT ![kind] = FALSE]]
             c == SeeStop(s.client, s.blk.index)
  <2>1. s.blk \in Blocks /\ s.client \in Clients
    BY DEF StreamOK, Streams
  <2> DEFINE t == Close(s, kind)
  <2>2. t = [blk |-> b, client |-> c]
    BY <1>2 DEF Close
  <2>a. t.blk = b /\ t.client = c
    BY <2>2
  <2>3. /\ b \in Blocks /\ b.index = s.blk.index + 1
        /\ ~b.in[kind] /\ \A k \in Kinds \ {kind} : b.in[k] = s.blk.in[k]
    BY <2>1 DEF Blocks
  <2>4. /\ c.seen = s.client.seen /\ c.kind = "none"
        /\ c.next = s.client.next /\ c.cur = s.client.cur
        /\ c.fault = Note(s.client, s.client.kind = "none" \/ s.client.cur # s.blk.index, "bad stop")
    BY <2>1 DEF Clients, SeeStop
  <2>5. c \in Clients
    BY <2>1 DEF Clients, SeeStop, Note, Faults
  <2> HIDE DEF b, c, t
  <2>6. ASSUME s.client.fault = "none"
        PROVE  c.fault = "none" /\ Agree(t)
    <3>1. Agree(s)
      BY <2>6 DEF StreamOK
    <3>2. s.client.kind = kind /\ s.client.cur = s.blk.index
          /\ s.client.next = s.blk.index + 1
      BY <1>2, <3>1 DEF Agree, Kinds
    <3>3. c.fault = "none"
      BY <2>4, <2>6, <3>2 DEF Note, Kinds
    <3>4. \A k \in Kinds : ~b.in[k]
      BY <2>3, <3>1, <3>2, <2>1 DEF Agree, Blocks
    <3> QED BY <2>3, <2>4, <3>2, <3>3, <3>4, <2>a DEF Agree, Kinds
  <2>7. KnownFault(t)
    <3>1. s.client.fault # "none" => c.fault = s.client.fault
      BY <2>4 DEF Note
    <3> QED BY <2>6, <3>1, <2>a DEF StreamOK, KnownFault
  <2>8. s.client.fault # "none" => c.fault # "none"
    BY <2>4 DEF Note
  <2>9. StreamOK(t)
    BY <2>2, <2>a, <2>3, <2>5, <2>6, <2>7, <2>8 DEF StreamOK, Streams
  <2>c. t.blk = b /\ t.client = c /\ StreamOK(t)
    BY <2>a, <2>9
  <2> QED BY <2>c, <2>3, <2>4 DEF t
<1> QED BY <1>1, <1>2

\* Opening a block is in order when no other block is open, or when it is the one.
LEMMA OpenOK ==
    ASSUME NEW s, StreamOK(s), NEW kind \in Kinds,
           s.client.fault = "none" =>
              \/ \A k \in Kinds \ {kind} : ~s.blk.in[k]
              \/ kind = "thinking" /\ s.blk.in["tool_use"]
    PROVE  /\ StreamOK(Open(s, kind))
           /\ Open(s, kind).blk.in[kind]
           /\ \A k \in Kinds \ {kind} : Open(s, kind).blk.in[k] = s.blk.in[k]
           /\ Starts(s, Open(s, kind), {kind})
           /\ ~s.blk.in[kind] => kind \in Open(s, kind).client.seen
<1>1. CASE s.blk.in[kind]
  BY <1>1 DEF Open, Starts
<1>2. CASE ~s.blk.in[kind]
  <2> DEFINE b == [s.blk EXCEPT !.in = [@ EXCEPT ![kind] = TRUE]]
             c == SeeStart(s.client, s.blk.index, kind)
  <2>1. s.blk \in Blocks /\ s.client \in Clients
    BY DEF StreamOK, Streams
  <2> DEFINE t == Open(s, kind)
  <2>2. t = [blk |-> b, client |-> c]
    BY <1>2 DEF Open
  <2>a. t.blk = b /\ t.client = c
    BY <2>2
  <2>3. /\ b \in Blocks /\ b.in[kind] /\ b.index = s.blk.index
        /\ \A k \in Kinds \ {kind} : b.in[k] = s.blk.in[k]
    BY <2>1 DEF Blocks
  <2>4. /\ c.seen = s.client.seen \cup {kind} /\ c.kind = kind
        /\ c.cur = s.blk.index /\ c.next = s.blk.index + 1
        /\ c.fault = IF s.client.fault = "none" /\ kind = "thinking"
                        /\ s.client.kind = "tool_use"
                     THEN "thinking started inside tool_use"
                     ELSE Note(s.client, s.client.kind # "none" \/ s.blk.index # s.client.next,
                               "bad start")
    BY <2>1 DEF SeeStart
  <2>5. c \in Clients
    <3>1. s.blk.index \in Nat /\ s.blk.index + 1 \in Nat /\ s.client.fault \in Faults
          /\ s.client.seen \cup {kind} \in SUBSET Kinds
      BY <2>1 DEF Blocks, Clients
    <3>2. Note(s.client, s.client.kind # "none" \/ s.blk.index # s.client.next, "bad start")
            \in Faults
      BY <3>1 DEF Note, Faults
    <3> QED BY <3>1, <3>2 DEF Clients, SeeStart, Faults
  <2> HIDE DEF b, c, t
  <2>6. s.client.fault # "none" => c.fault = s.client.fault
    BY <2>4 DEF Note
  <2>7. ASSUME s.client.fault = "none", \A k \in Kinds : ~s.blk.in[k]
        PROVE  c.fault = "none" /\ Agree(t)
    <3>1. s.client.kind = "none" /\ s.blk.index = s.client.next
      BY <2>1, <2>7 DEF StreamOK, Agree, Clients
    <3>2. c.fault = "none"
      BY <2>4, <2>7, <3>1 DEF Note
    <3>3. \A k \in Kinds : b.in[k] <=> k = kind
      BY <2>3, <2>7
    <3> QED BY <2>3, <2>4, <3>2, <3>3, <2>a DEF Agree, Kinds
  <2>8. ASSUME s.client.fault = "none", ~ \A k \in Kinds : ~s.blk.in[k]
        PROVE  c.fault = "thinking started inside tool_use"
    <3>1. kind = "thinking" /\ s.blk.in["tool_use"]
      BY <1>2, <2>8
    <3>2. s.client.kind = "tool_use"
      BY <2>8, <3>1 DEF StreamOK, Agree, Kinds
    <3> QED BY <2>4, <2>8, <3>1, <3>2
  <2>9. StreamOK(t)
    BY <2>2, <2>a, <2>3, <2>5, <2>6, <2>7, <2>8 DEF StreamOK, Streams, KnownFault
  <2>c. t.blk = b /\ t.client = c /\ StreamOK(t)
    BY <2>a, <2>9
  <2> QED BY <2>c, <2>3, <2>4 DEF t, Starts
<1> QED BY <1>1, <1>2

\* A delta in a block whose flag is set is one the client expects.
LEMMA DeltaOK ==
    ASSUME NEW s, StreamOK(s), NEW kind \in Kinds, s.blk.in[kind]
    PROVE  /\ StreamOK(Delta(s, kind))
           /\ Delta(s, kind).blk = s.blk
           /\ Delta(s, kind).client.seen = s.client.seen
<1> DEFINE c == SeeDelta(s.client, s.blk.index, kind)
<1>1. s.blk \in Blocks /\ s.client \in Clients
  BY DEF StreamOK, Streams
<1>2. s.client.fault = "none" => s.client.kind = kind /\ s.client.cur = s.blk.index
  BY DEF StreamOK, Agree, Kinds
<1>3. Note(s.client, s.client.kind # kind \/ s.client.cur # s.blk.index, "bad delta")
        = s.client.fault
  BY <1>2 DEF Note
<1>4. c = s.client
  BY <1>1, <1>3 DEF SeeDelta, Clients
<1>5. Delta(s, kind) = [blk |-> s.blk, client |-> s.client]
  BY <1>4 DEF Delta
<1> QED BY <1>1, <1>5 DEF StreamOK, Streams, KnownFault, Agree

-----------------------------------------------------------------------------
(***************************************************************************)
(* What the handler sends in one go.                                       *)
(***************************************************************************)
ToolSeen(s) == "tool_use" \in s.client.seen

\* Reasoning text: in order, or the one known fault.
LEMMA ThinkingDeltaOK ==
    ASSUME NEW s, StreamOK(s)
    PROVE  StreamOK(ThinkingDelta(s)) /\ (ToolSeen(ThinkingDelta(s)) <=> ToolSeen(s))
<1> DEFINE c == Close(s, "text")
           o == Open(c, "thinking")
<1>1. StreamOK(c) /\ ~c.blk.in["text"] /\ c.client.seen = s.client.seen
  BY CloseOK DEF Kinds
<1> HIDE DEF c
<1>2. \/ \A k \in Kinds \ {"thinking"} : ~c.blk.in[k]
      \/ c.blk.in["tool_use"]
  BY <1>1 DEF Kinds
<1>3. StreamOK(o) /\ o.blk.in["thinking"] /\ Starts(c, o, {"thinking"})
  BY <1>1, <1>2, OpenOK DEF Kinds
<1> HIDE DEF o
<1>4. StreamOK(Delta(o, "thinking")) /\ Delta(o, "thinking").client.seen = o.client.seen
  BY <1>3, DeltaOK DEF Kinds
<1> QED BY <1>1, <1>3, <1>4 DEF ThinkingDelta, ToolSeen, Starts, c, o

\* Answer text: every other block is closed first.
LEMMA TextDeltaOK ==
    ASSUME NEW s, StreamOK(s)
    PROVE  StreamOK(TextDelta(s)) /\ (ToolSeen(TextDelta(s)) <=> ToolSeen(s))
<1> DEFINE c == Close(s, "thinking")
           d == Close(c, "tool_use")
           o == Open(d, "text")
<1>1. StreamOK(c) /\ ~c.blk.in["thinking"] /\ c.client.seen = s.client.seen
  BY CloseOK DEF Kinds
<1> HIDE DEF c
<1>2. StreamOK(d) /\ ~d.blk.in["tool_use"] /\ ~d.blk.in["thinking"]
      /\ d.client.seen = c.client.seen
  BY <1>1, CloseOK DEF Kinds
<1> HIDE DEF d
<1>3. StreamOK(o) /\ o.blk.in["text"] /\ Starts(d, o, {"text"})
  BY <1>2, OpenOK DEF Kinds
<1> HIDE DEF o
<1>4. StreamOK(Delta(o, "text")) /\ Delta(o, "text").client.seen = o.client.seen
  BY <1>3, DeltaOK DEF Kinds
<1> QED BY <1>1, <1>2, <1>3, <1>4 DEF TextDelta, ToolSeen, Starts, c, d, o

\* A tool call, once thinking and text are closed.
LEMMA ToolUseOK ==
    ASSUME NEW s, StreamOK(s), ~s.blk.in["thinking"], ~s.blk.in["text"]
    PROVE  LET t == ToolUse(s)
           IN  StreamOK(t) /\ ToolSeen(t) /\ ~t.blk.in["thinking"] /\ ~t.blk.in["text"]
<1> DEFINE c == Close(s, "tool_use")
           o == Open(c, "tool_use")
<1>1. StreamOK(c) /\ ~c.blk.in["tool_use"] /\ ~c.blk.in["thinking"] /\ ~c.blk.in["text"]
  BY CloseOK DEF Kinds
<1> HIDE DEF c
<1>2. /\ StreamOK(o) /\ o.blk.in["tool_use"] /\ "tool_use" \in o.client.seen
      /\ ~o.blk.in["thinking"] /\ ~o.blk.in["text"]
  BY <1>1, OpenOK DEF Kinds
<1> HIDE DEF o
<1>3. /\ StreamOK(Delta(o, "tool_use")) /\ Delta(o, "tool_use").blk = o.blk
      /\ Delta(o, "tool_use").client.seen = o.client.seen
  BY <1>2, DeltaOK DEF Kinds
<1> QED BY <1>2, <1>3 DEF ToolUse, ToolSeen, c, o

\* What makes room for tool calls, and for the end of the message.
LEMMA CloseForToolsOK ==
    ASSUME NEW s, StreamOK(s)
    PROVE  LET t == CloseForTools(s)
           IN  /\ StreamOK(t) /\ ~t.blk.in["thinking"] /\ ~t.blk.in["text"]
               /\ ToolSeen(t) <=> ToolSeen(s)
<1> DEFINE c == Close(s, "thinking")
           d == Close(c, "text")
<1>1. StreamOK(c) /\ ~c.blk.in["thinking"] /\ c.client.seen = s.client.seen
  BY CloseOK DEF Kinds
<1> HIDE DEF c
<1>2. StreamOK(d) /\ ~d.blk.in["text"] /\ ~d.blk.in["thinking"]
      /\ d.client.seen = c.client.seen
  BY <1>1, CloseOK DEF Kinds
<1> QED BY <1>1, <1>2 DEF CloseForTools, ToolSeen, c, d

LEMMA CloseAllOK ==
    ASSUME NEW s, StreamOK(s)
    PROVE  LET t == CloseAll(s)
           IN  /\ StreamOK(t) /\ \A k \in Kinds : ~t.blk.in[k]
               /\ ToolSeen(t) <=> ToolSeen(s)
<1> DEFINE c == CloseForTools(s)
           d == Close(c, "tool_use")
<1>1. StreamOK(c) /\ ~c.blk.in["thinking"] /\ ~c.blk.in["text"] /\ (ToolSeen(c) <=> ToolSeen(s))
  BY CloseForToolsOK
<1> HIDE DEF c
<1>2. StreamOK(d) /\ ~d.blk.in["tool_use"] /\ ~d.blk.in["text"] /\ ~d.blk.in["thinking"]
      /\ d.client.seen = c.client.seen
  BY <1>1, CloseOK DEF Kinds
<1> HIDE DEF d
<1>3. \A k \in Kinds : ~d.blk.in[k]
  BY <1>2 DEF Kinds
<1> QED BY <1>1, <1>2, <1>3 DEF CloseAll, ToolSeen, c, d

\* Sending nothing is sending in order.
LEMMA EmitOK ==
    ASSUME NEW s, StreamOK(s), NEW text
    PROVE  /\ StreamOK(EmitThinking(text, s)) /\ (ToolSeen(EmitThinking(text, s)) <=> ToolSeen(s))
           /\ StreamOK(EmitText(text, s)) /\ (ToolSeen(EmitText(text, s)) <=> ToolSeen(s))
  BY ThinkingDeltaOK, TextDeltaOK DEF EmitThinking, EmitText

\* A step that sends s leaves the variables as the pair s says.
LEMMA SetStreamOK ==
    ASSUME NEW s, StreamOK(s), SetStream(s)
    PROVE  StreamOK(Stream)' /\ (ToolSeen(Stream)' <=> ToolSeen(s))
           /\ blk' = s.blk
<1>1. s = [blk |-> s.blk, client |-> s.client]
  BY DEF StreamOK, Streams
<1>2. Stream' = s
  BY <1>1 DEF SetStream, Stream
<1> QED BY <1>2 DEF SetStream, ToolSeen, StreamOK, Streams, KnownFault, Agree

-----------------------------------------------------------------------------
(***************************************************************************)
(* The inductive invariant.                                                *)
(***************************************************************************)
ControlOK ==
    /\ pc \in {"frame", "calls", "drain", "flush", "tail", "close", "end"}
    /\ resume \in {"frame", "drain", "tail"}
    /\ hasToolCalls \in BOOLEAN
    /\ stopReason \in {"none", "tool_use", "end_turn"}

\* Where the calls are sent only a tool_use block may be open; hasToolCalls is
\* ahead of the client only there; at the end all is closed and told.
PhaseOK ==
    /\ pc = "calls" => ~blk.in["thinking"] /\ ~blk.in["text"] /\ hasToolCalls
    /\ ToolSeen(Stream) => hasToolCalls
    /\ hasToolCalls => ToolSeen(Stream) \/ pc = "calls"
    /\ pc = "end" => /\ \A k \in Kinds : ~blk.in[k]
                     /\ stopReason = (IF hasToolCalls THEN "tool_use" ELSE "end_turn")

IInv == ControlOK /\ StreamOK(Stream) /\ PhaseOK

LEMMA InitIInv == Init => IInv
<1> SUFFICES ASSUME Init PROVE IInv
  OBVIOUS
<1>1. blk \in Blocks /\ client \in Clients /\ client.fault = "none" /\ client.seen = {}
  BY DEF Init, NewBlocks, NewClient, Blocks, Clients, Faults, Kinds
<1>2. Stream \in Streams /\ Stream.blk = blk /\ Stream.client = client
  BY <1>1 DEF Stream, Streams
<1>3. Agree(Stream)
  <2>1. blk.index = 0 /\ \A k \in Kinds : ~blk.in[k]
    BY DEF Init, NewBlocks
  <2>2. client.kind = "none" /\ client.next = 0
    BY DEF Init, NewClient
  <2>3. \A k \in Kinds : k # "none"
    BY DEF Kinds
  <2> QED BY <1>2, <2>1, <2>2, <2>3 DEF Agree
<1>4. ControlOK /\ PhaseOK
  BY <1>1, <1>2 DEF Init, ControlOK, PhaseOK, ToolSeen
<1> QED BY <1>1, <1>2, <1>3, <1>4 DEF IInv, StreamOK, KnownFault

\* A step that sends text, or nothing, and stays out of the special places.
LEMMA TextStep ==
    ASSUME IInv, NEW s, StreamOK(s), ToolSeen(s) <=> ToolSeen(Stream), SetStream(s),
           UNCHANGED <<hasToolCalls, stopReason>>, ControlOK',
           pc \notin {"calls", "end"}, pc' \notin {"calls", "end"}
    PROVE  IInv'
  BY SetStreamOK DEF IInv, PhaseOK

\* A step that found calls and made room for them.
LEMMA CallsFoundStep ==
    ASSUME IInv, SetStream(CloseForTools(Stream)), hasToolCalls' = TRUE,
           pc' = "calls", ControlOK'
    PROVE  IInv'
<1>1. /\ StreamOK(CloseForTools(Stream))
      /\ ~CloseForTools(Stream).blk.in["thinking"] /\ ~CloseForTools(Stream).blk.in["text"]
  BY CloseForToolsOK DEF IInv
<1>2. StreamOK(Stream)' /\ blk' = CloseForTools(Stream).blk
  BY <1>1, SetStreamOK
<1> QED BY <1>1, <1>2 DEF IInv, PhaseOK

LEMMA StreamKept ==
    ASSUME UNCHANGED <<blk, client>>
    PROVE  SetStream(Stream) /\ Stream' = Stream
  BY DEF SetStream, Stream

\* Frames.
LEMMA FrameIInv == IInv /\ Frame => IInv'
<1> SUFFICES ASSUME IInv, Frame PROVE IInv'
  OBVIOUS
<1>0. StreamOK(Stream)
  BY DEF IInv
<1>1. ASSUME NEW delta \in ThinkingTexts[hasTools], ThinkingFrame(delta) PROVE IInv'
  <2>1. PICK text : SetStream(EmitThinking(text, Stream))
    BY <1>1 DEF ThinkingFrame
  <2>2. ControlOK' /\ pc = "frame" /\ UNCHANGED <<pc, hasToolCalls, stopReason>>
    BY <1>1 DEF ThinkingFrame, ReadFrame, IInv, ControlOK
  <2> QED BY <1>0, <2>1, <2>2, EmitOK, TextStep
<1>2. ASSUME NEW phase \in Phases, SearchResultFrame(phase) \/ SkippedFrame(phase) PROVE IInv'
  <2>1. UNCHANGED <<blk, client>>
    BY <1>2 DEF SearchResultFrame, SkippedFrame
  <2>2. ControlOK' /\ pc = "frame" /\ UNCHANGED <<pc, hasToolCalls, stopReason>>
    BY <1>2 DEF SearchResultFrame, SkippedFrame, OtherFrame, ReadFrame, IInv, ControlOK
  <2> QED BY <1>0, <2>1, <2>2, StreamKept, TextStep
<1>3. ASSUME NEW before \in AnswerTexts[hasTools], NEW phase \in Phases, BlockFrame(before, phase)
      PROVE  IInv'
  <2>1. PICK text : SetStream(EmitText(text, Stream))
    BY <1>3 DEF BlockFrame
  <2>2. ControlOK' /\ pc = "frame" /\ UNCHANGED <<pc, hasToolCalls, stopReason>>
    BY <1>3 DEF BlockFrame, OtherFrame, ReadFrame, IInv, ControlOK
  <2> QED BY <1>0, <2>1, <2>2, EmitOK, TextStep
<1>4. ASSUME NEW n \in 1 .. MaxCalls, FunctionCallFrame(n) PROVE IInv'
  <2>1. ControlOK'
    BY <1>4 DEF FunctionCallFrame, OtherFrame, ReadFrame, IInv, ControlOK
  <2> QED BY <1>4, <2>1, CallsFoundStep DEF FunctionCallFrame
<1>5. ASSUME NEW via, NEW phase, NEW text, ContentFrame(via, phase, text) PROVE IInv'
  <2>1. PICK t1, t2 : \/ SetStream(EmitThinking(t1, Stream))
                      \/ SetStream(EmitText(t2, EmitThinking(t1, Stream)))
    BY <1>5 DEF ContentFrame
  <2>2. ControlOK' /\ pc = "frame" /\ pc' \in {"frame", "drain"}
        /\ UNCHANGED <<hasToolCalls, stopReason>>
    BY <1>5 DEF ContentFrame, OtherFrame, ReadFrame, IInv, ControlOK
  <2>3. StreamOK(EmitThinking(t1, Stream))
        /\ (ToolSeen(EmitThinking(t1, Stream)) <=> ToolSeen(Stream))
    BY <1>0, EmitOK
  <2> QED BY <2>1, <2>2, <2>3, EmitOK, TextStep
<1> QED BY <1>1, <1>2, <1>3, <1>4, <1>5 DEF Frame

\* The loops and the end of the message.
LEMMA LocalIInv == IInv /\ (Local \/ EndOfBody) => IInv'
<1> SUFFICES ASSUME IInv, Local \/ EndOfBody PROVE IInv'
  OBVIOUS
<1>0. StreamOK(Stream)
  BY DEF IInv
<1>1. CASE DrainText
  <2>1. PICK text : SetStream(EmitText(text, Stream))
    BY <1>1 DEF DrainText
  <2>2. ControlOK' /\ pc = "drain" /\ UNCHANGED <<pc, hasToolCalls, stopReason>>
    BY <1>1 DEF DrainText, DrainUnchanged, IInv, ControlOK
  <2> QED BY <1>0, <2>1, <2>2, EmitOK, TextStep
<1>2. CASE DrainBlock
  <2>1. ControlOK' /\ pc = "drain" /\ UNCHANGED stopReason
    BY <1>2 DEF DrainBlock, DrainUnchanged, IInv, ControlOK
  <2>2. \/ UNCHANGED <<pc, hasToolCalls, blk, client>>
        \/ pc' = "calls" /\ hasToolCalls' = TRUE /\ SetStream(CloseForTools(Stream))
    BY <1>2 DEF DrainBlock
  <2> QED BY <1>0, <2>1, <2>2, StreamKept, TextStep, CallsFoundStep
<1>3. CASE DrainDone
  <2>1. ControlOK' /\ pc = "drain" /\ pc' = "frame"
        /\ UNCHANGED <<hasToolCalls, stopReason, blk, client>>
    BY <1>3 DEF DrainDone, DrainUnchanged, IInv, ControlOK
  <2> QED BY <1>0, <2>1, StreamKept, TextStep
<1>4. CASE EmitCall
  <2>1. ControlOK' /\ pc = "calls" /\ pc' # "end" /\ UNCHANGED <<hasToolCalls, stopReason>>
    BY <1>4 DEF EmitCall, DrainUnchanged, IInv, ControlOK
  <2>2. Stream.blk = blk
    BY DEF Stream
  <2>3. ~Stream.blk.in["thinking"] /\ ~Stream.blk.in["text"] /\ hasToolCalls
    BY <2>1, <2>2 DEF IInv, PhaseOK
  <2>4. /\ StreamOK(ToolUse(Stream)) /\ ToolSeen(ToolUse(Stream))
        /\ ~ToolUse(Stream).blk.in["thinking"] /\ ~ToolUse(Stream).blk.in["text"]
    BY <1>0, <2>3, ToolUseOK
  <2>5. StreamOK(Stream)' /\ ToolSeen(Stream)' /\ blk' = ToolUse(Stream).blk
    BY <1>4, <2>4, SetStreamOK DEF EmitCall
  <2> QED BY <2>1, <2>3, <2>4, <2>5 DEF IInv, PhaseOK
<1>5. CASE EndOfBody
  <2>1. ControlOK' /\ pc = "frame" /\ pc' = "flush"
        /\ UNCHANGED <<hasToolCalls, stopReason, blk, client>>
    BY <1>5 DEF EndOfBody, EndUnchanged, IInv, ControlOK
  <2> QED BY <1>0, <2>1, StreamKept, TextStep
<1>6. CASE FlushPrompt
  <2>1. ControlOK' /\ pc = "flush" /\ UNCHANGED stopReason
    BY <1>6 DEF FlushPrompt, EndUnchanged, IInv, ControlOK
  <2>2. \/ pc' = "tail" /\ UNCHANGED <<hasToolCalls, blk, client>>
        \/ pc' = "calls" /\ hasToolCalls' = TRUE /\ SetStream(CloseForTools(Stream))
    BY <1>6 DEF FlushPrompt
  <2> QED BY <1>0, <2>1, <2>2, StreamKept, TextStep, CallsFoundStep
<1>7. CASE FlushTail
  <2>1. PICK t1, t2 : SetStream(EmitText(t2, EmitText(t1, Stream)))
    BY <1>7 DEF FlushTail
  <2>2. ControlOK' /\ pc = "tail" /\ pc' = "close" /\ UNCHANGED <<hasToolCalls, stopReason>>
    BY <1>7 DEF FlushTail, EndUnchanged, IInv, ControlOK
  <2>3. StreamOK(EmitText(t1, Stream)) /\ (ToolSeen(EmitText(t1, Stream)) <=> ToolSeen(Stream))
    BY <1>0, EmitOK
  <2> QED BY <2>1, <2>2, <2>3, EmitOK, TextStep
<1>8. CASE Finish
  <2>1. ControlOK' /\ pc = "close" /\ pc' = "end" /\ UNCHANGED hasToolCalls
        /\ stopReason' = IF hasToolCalls THEN "tool_use" ELSE "end_turn"
    BY <1>8 DEF Finish, EndUnchanged, IInv, ControlOK
  <2>2. /\ StreamOK(CloseAll(Stream)) /\ \A k \in Kinds : ~CloseAll(Stream).blk.in[k]
        /\ ToolSeen(CloseAll(Stream)) <=> ToolSeen(Stream)
    BY <1>0, CloseAllOK
  <2>3. StreamOK(Stream)' /\ blk' = CloseAll(Stream).blk /\ (ToolSeen(Stream)' <=> ToolSeen(Stream))
    BY <1>8, <2>2, SetStreamOK DEF Finish
  <2> QED BY <2>1, <2>2, <2>3 DEF IInv, PhaseOK
<1> QED BY <1>1, <1>2, <1>3, <1>4, <1>5, <1>6, <1>7, <1>8 DEF Local

LEMMA StutterIInv == IInv /\ UNCHANGED vars => IInv'
<1> SUFFICES ASSUME IInv, UNCHANGED vars PROVE IInv'
  OBVIOUS
<1>1. UNCHANGED <<pc, resume, hasToolCalls, stopReason, blk, client>>
  BY DEF vars, handlerVars
<1>2. Stream' = Stream
  BY <1>1 DEF Stream
<1>3. ControlOK' /\ StreamOK(Stream)'
  BY <1>1, <1>2 DEF IInv, ControlOK, StreamOK, KnownFault, Agree
<1>4. PhaseOK'
  BY <1>1, <1>2 DEF IInv, PhaseOK, ToolSeen
<1> QED BY <1>3, <1>4 DEF IInv

LEMMA SpecIInv == Spec => []IInv
<1>1. IInv /\ [Next]_vars => IInv'
  BY FrameIInv, LocalIInv, StutterIInv DEF Next
<1> QED BY InitIInv, <1>1, PTL DEF Spec

-----------------------------------------------------------------------------
\* The locals that steer the stream, and the client's record of it, keep their
\* types (handleAnthropicStream).
THEOREM StreamTypes == Spec => []StreamTypeOK
<1>1. IInv => StreamTypeOK
  BY DEF IInv, ControlOK, StreamOK, Streams, Stream, Blocks, Clients, StreamTypeOK
<1> QED BY SpecIInv, <1>1, PTL

\* The only way the block protocol can first be broken is reasoning that follows
\* a tool call; otherwise every block is closed when the message ends.
THEOREM BlockProtocolHolds == Spec => []BlockProtocol
<1>1. IInv => BlockProtocol
  <2> SUFFICES ASSUME IInv PROVE BlockProtocol
    OBVIOUS
  <2>1. Stream.blk = blk /\ Stream.client = client /\ client \in Clients
    BY DEF Stream, IInv, StreamOK, Streams
  <2>2. pc = "end" /\ client.fault = "none" => client.kind = "none"
    BY <2>1 DEF IInv, StreamOK, Agree, PhaseOK, Clients
  <2> QED BY <2>1, <2>2 DEF IInv, StreamOK, KnownFault, BlockProtocol
<1> QED BY SpecIInv, <1>1, PTL

\* The stop reason is tool_use exactly when a tool_use block was sent.
THEOREM StopReasonHolds == Spec => []StopReasonTruthful
<1>1. IInv => StopReasonTruthful
  BY DEF IInv, PhaseOK, ToolSeen, Stream, StopReasonTruthful
<1> QED BY SpecIInv, <1>1, PTL

-----------------------------------------------------------------------------
(***************************************************************************)
(* Induction, and texts put together piece by piece.                       *)
(***************************************************************************)
\* A set of natural numbers that is not empty has a least one.
LEMMA LeastNatural ==
    ASSUME NEW T, T \subseteq Nat, T # {}
    PROVE  \E n \in T : \A m \in T : n <= m
<1> DEFINE R == OpToRel(<, Nat)
<1>1. \A m, n \in Nat : <<m, n>> \in R <=> m < n
  BY DEF OpToRel
<1>2. IsWellFoundedOn(R, Nat)
  BY NatLessThanWellFounded
<1> HIDE DEF R
<1>3. PICK n \in T : \A m \in T : <<m, n>> \notin R
  BY <1>2, WFMin
<1>4. \A m \in T : ~(m < n) /\ m \in Nat /\ n \in Nat
  BY <1>1, <1>3
<1>5. \A m \in T : n <= m
  BY <1>4
<1> QED
  BY <1>5

\* Induction: a set that has 0, and with n also n + 1, has every number.
LEMMA AllNaturals ==
    ASSUME NEW T, 0 \in T, \A n \in Nat : n \in T => n + 1 \in T
    PROVE  Nat \subseteq T
<1> SUFFICES ASSUME Nat \ T # {} PROVE FALSE
  OBVIOUS
<1>1. PICK n \in Nat \ T : \A m \in Nat \ T : n <= m
  <2>1. Nat \ T \subseteq Nat
    OBVIOUS
  <2> QED
    BY <2>1, LeastNatural
<1>2. n # 0 /\ n \in Nat
  BY <1>1
<1>3. n - 1 \in Nat /\ (n - 1) + 1 = n /\ ~(n <= n - 1)
  BY <1>2
<1>4. n - 1 \in T
  BY <1>1, <1>3
<1>5. n \in T
  BY <1>3, <1>4
<1> QED
  BY <1>1, <1>5

\* A text that is put together from i on, piece by piece, up to its end.
Pieces(last, head, next, f) ==
    f = [i \in Nat |-> IF i > last THEN <<>> ELSE head[i] \o f[next[i]]]

LEMMA PiecesExist ==
    ASSUME NEW last \in Nat, NEW head, NEW next,
           \A i \in Nat : next[i] \in Nat /\ next[i] > i
    PROVE  \E f : Pieces(last, head, next, f)
<1> DEFINE Good(f, n) ==
              /\ f = [i \in Nat |-> f[i]]
              /\ \A i \in Nat : i + n > last =>
                    f[i] = IF i > last THEN <<>> ELSE head[i] \o f[next[i]]
           T == {n \in Nat : \E f : Good(f, n)}
<1>1. 0 \in T
  <2> DEFINE f == [i \in Nat |-> <<>>]
  <2>1. Good(f, 0)
    OBVIOUS
  <2>2. 0 \in Nat /\ \E g : Good(g, 0)
    BY <2>1
  <2> HIDE DEF Good, f
  <2> QED
    BY <2>2
<1>2. ASSUME NEW n \in Nat, n \in T
      PROVE  n + 1 \in T
  <2>1. PICK f : Good(f, n)
    BY <1>2
  <2>2. CASE n > last
    <3>1. \A i \in Nat : i + n > last
      BY <2>2
    <3>2. Good(f, n + 1)
      BY <2>1, <3>1
    <3> HIDE DEF Good
    <3>3. n + 1 \in Nat /\ \E g : Good(g, n + 1)
      BY <3>2
    <3> QED
      BY <3>3
  <2>3. CASE n <= last
    <3> DEFINE k == last - n
               g == [i \in Nat |-> IF i = k THEN head[k] \o f[next[k]] ELSE f[i]]
    <3>1. k \in 0 .. last /\ k \in Nat /\ next[k] \in Nat /\ next[k] # k /\ ~(k > last)
      BY <2>3
    <3>2. \A i \in Nat : i + (n + 1) > last => i = k \/ i + n > last
      BY <2>3
    <3>3. ASSUME NEW i \in Nat, i + n > last
          PROVE  g[i] = IF i > last THEN <<>> ELSE head[i] \o g[next[i]]
      <4>1. i > k /\ i # k
        BY <2>3, <3>3
      <4>2. CASE i > last
        BY <2>1, <3>3, <4>1, <4>2
      <4>3. CASE ~(i > last)
        <5>1. next[i] \in Nat /\ next[i] # k
          BY <3>1, <4>1, <4>3
        <5>2. f[i] = head[i] \o f[next[i]]
          BY <2>1, <3>3, <4>3
        <5> HIDE DEF k
        <5> QED
          BY <4>1, <4>3, <5>1, <5>2
      <4> QED
        BY <4>2, <4>3
    <3>4. g[k] = head[k] \o g[next[k]]
      <4> HIDE DEF k
      <4> QED
        BY <3>1
    <3>5. g = [i \in Nat |-> g[i]]
      OBVIOUS
    <3> HIDE DEF g, k
    <3>6. Good(g, n + 1)
      BY <3>1, <3>2, <3>3, <3>4, <3>5
    <3> HIDE DEF Good
    <3>7. n + 1 \in Nat /\ \E h : Good(h, n + 1)
      BY <3>6
    <3> QED
      BY <3>7
  <2> QED
    BY <2>2, <2>3
<1>3. last + 1 \in T
  <2> HIDE DEF T
  <2>1. Nat \subseteq T
    BY <1>1, <1>2, AllNaturals
  <2> QED
    BY <2>1
<1>4. PICK f : Good(f, last + 1)
  BY <1>3
<1>5. \A i \in Nat : f[i] = IF i > last THEN <<>> ELSE head[i] \o f[next[i]]
  <2>1. \A i \in Nat : i + (last + 1) > last
    OBVIOUS
  <2> QED
    BY <1>4, <2>1
<1>6. Pieces(last, head, next, f)
  BY <1>4, <1>5 DEF Pieces
<1> QED
  BY <1>6

\* Text made of pieces from a set of tokens is of tokens of the set.
LEMMA PiecesOf ==
    ASSUME NEW last \in Nat, NEW head, NEW next, NEW f, Pieces(last, head, next, f),
           \A i \in Nat : next[i] \in Nat /\ next[i] > i,
           NEW A, \A i \in 1 .. last : head[i] \in Seq(A)
    PROVE  \A i \in Nat \ {0} : f[i] \in Seq(A)
<1> DEFINE T == {n \in Nat : \A i \in Nat \ {0} : i + n > last => f[i] \in Seq(A)}
<1>1. \A i \in Nat : f[i] = IF i > last THEN <<>> ELSE head[i] \o f[next[i]]
  BY DEF Pieces
<1>e. <<>> \in Seq(A)
  BY EmptySeq
<1>2. 0 \in T
  <2>1. \A i \in Nat \ {0} : i + 0 > last => f[i] = <<>>
    BY <1>1
  <2> QED
    BY <2>1, <1>e
<1>3. ASSUME NEW n \in Nat, n \in T
      PROVE  n + 1 \in T
  <2>1. ASSUME NEW i \in Nat \ {0}, i + (n + 1) > last
        PROVE  f[i] \in Seq(A)
    <3>1. CASE i > last
      <4>1. f[i] = <<>>
        BY <1>1, <3>1
      <4> QED
        BY <4>1, <1>e
    <3>2. CASE ~(i > last)
      <4>1. i \in 1 .. last /\ next[i] \in Nat \ {0} /\ next[i] + n > last
        BY <2>1, <3>2
      <4>2. f[next[i]] \in Seq(A) /\ head[i] \in Seq(A)
        BY <1>3, <4>1
      <4>3. f[i] = head[i] \o f[next[i]]
        BY <1>1, <3>2
      <4> QED
        BY <4>2, <4>3
    <3> QED
      BY <3>1, <3>2
  <2> QED
    BY <2>1
<1>4. last + 1 \in T
  <2> HIDE DEF T
  <2>1. Nat \subseteq T
    BY <1>2, <1>3, AllNaturals
  <2> QED
    BY <2>1
<1> QED
  BY <1>4

-----------------------------------------------------------------------------
(***************************************************************************)
(* The text functions of the filters and of the scan for calls.            *)
(***************************************************************************)
\* How the citation filter puts its text together.
Cite(t, sure) == IF sure THEN <<[t EXCEPT !.sym = "link"]>> ELSE <<>>
CiteHead(s, sure) == [i \in Nat |-> IF IsCitation(s, i) THEN Cite(s[i], sure) ELSE <<s[i]>>]
CiteNext(s) == [i \in Nat |-> IF IsCitation(s, i) THEN i + 3 ELSE i + 1]

LEMMA NextGrows == ASSUME NEW s PROVE \A i \in Nat : CiteNext(s)[i] \in Nat /\ CiteNext(s)[i] > i
  BY DEF CiteNext

LEMMA ResolvePieces ==
    ASSUME NEW s, Len(s) \in Nat, NEW sure
    PROVE  \E f : /\ Pieces(Len(s), CiteHead(s, sure), CiteNext(s), f)
                  /\ ResolveCitations(s, sure) = f[1]
<1> DEFINE head == CiteHead(s, sure)
           next == CiteNext(s)
           Body(f) == [i \in Nat |-> IF i > Len(s) THEN <<>>
                        ELSE IF IsCitation(s, i)
                             THEN (IF sure THEN <<[s[i] EXCEPT !.sym = "link"]>> ELSE <<>>)
                                  \o f[i + 3]
                             ELSE <<s[i]>> \o f[i + 1]]
           from == CHOOSE f : f = Body(f)
<1>1. ResolveCitations(s, sure) = from[1]
  BY DEF ResolveCitations
<1>2. \A f : Body(f) = [i \in Nat |-> IF i > Len(s) THEN <<>> ELSE head[i] \o f[next[i]]]
  BY DEF CiteHead, CiteNext, Cite
<1>3. \A i \in Nat : next[i] \in Nat /\ next[i] > i
  BY NextGrows
<1> HIDE DEF head, next, Body
<1>4. PICK f : Pieces(Len(s), head, next, f)
  BY <1>3, PiecesExist
<1>5. f = Body(f)
  BY <1>2, <1>4 DEF Pieces
<1>6. from = Body(from)
  BY <1>5
<1> HIDE DEF from
<1>7. Pieces(Len(s), head, next, from)
  BY <1>2, <1>6 DEF Pieces
<1> QED
  BY <1>1, <1>7 DEF head, next

\* What the citation filter makes of a text of tokens of a set is of tokens of
\* the set, which has a link in the place of each of its tokens.
LEMMA ResolveOf ==
    ASSUME NEW A, NEW s \in Seq(A), NEW sure,
           \A t \in A : [t EXCEPT !.sym = "link"] \in A
    PROVE  ResolveCitations(s, sure) \in Seq(A)
<1>1. Len(s) \in Nat
  BY LenProperties
<1>2. PICK f : /\ Pieces(Len(s), CiteHead(s, sure), CiteNext(s), f)
               /\ ResolveCitations(s, sure) = f[1]
  BY <1>1, ResolvePieces
<1>3. ASSUME NEW i \in 1 .. Len(s) PROVE CiteHead(s, sure)[i] \in Seq(A)
  <2>1. s[i] \in A /\ i \in Nat
    BY <1>1, ElementOfSeq
  <2>2. \A t \in A : <<t>> \in Seq(A)
    OBVIOUS
  <2>3. <<>> \in Seq(A)
    BY EmptySeq
  <2>4. CiteHead(s, sure)[i] \in {<<>>, <<s[i]>>, <<[s[i] EXCEPT !.sym = "link"]>>}
    BY <2>1 DEF CiteHead, Cite
  <2> QED
    BY <2>1, <2>2, <2>3, <2>4
<1>4. \A i \in Nat \ {0} : f[i] \in Seq(A)
  BY <1>1, <1>2, <1>3, NextGrows, PiecesOf
<1> QED
  BY <1>2, <1>4

\* How the thinking filter puts its text together.
SkipsMark(s, i) == i + 2 <= Len(s) /\ SymsAt(s, i, 3) = <<"nl", "gt", "sp">>
StripHead(s) == [i \in Nat |-> <<s[i]>>]
StripNext(s) == [i \in Nat |-> IF SkipsMark(s, i) THEN i + 3 ELSE i + 1]

LEMMA StripGrows == ASSUME NEW s PROVE \A i \in Nat : StripNext(s)[i] \in Nat /\ StripNext(s)[i] > i
  BY DEF StripNext

LEMMA StripPieces ==
    ASSUME NEW s, Len(s) \in Nat
    PROVE  \E f : /\ Pieces(Len(s), StripHead(s), StripNext(s), f)
                  /\ StripQuotes(s) = f[1]
<1> DEFINE head == StripHead(s)
           next == StripNext(s)
           Body(f) == [i \in Nat |->
                        IF i > Len(s) THEN <<>>
                        ELSE <<s[i]>> \o
                             (IF i + 2 <= Len(s) /\ SymsAt(s, i, 3) = <<"nl", "gt", "sp">>
                              THEN f[i + 3] ELSE f[i + 1])]
           from == CHOOSE f : f = Body(f)
<1>1. StripQuotes(s) = from[1]
  BY DEF StripQuotes
<1>2. \A f : Body(f) = [i \in Nat |-> IF i > Len(s) THEN <<>> ELSE head[i] \o f[next[i]]]
  BY DEF StripHead, StripNext, SkipsMark
<1>3. \A i \in Nat : next[i] \in Nat /\ next[i] > i
  BY StripGrows
<1> HIDE DEF head, next, Body
<1>4. PICK f : Pieces(Len(s), head, next, f)
  BY <1>3, PiecesExist
<1>5. f = Body(f)
  BY <1>2, <1>4 DEF Pieces
<1>6. from = Body(from)
  BY <1>5
<1> HIDE DEF from
<1>7. Pieces(Len(s), head, next, from)
  BY <1>2, <1>6 DEF Pieces
<1> QED
  BY <1>1, <1>7 DEF head, next

LEMMA StripOf ==
    ASSUME NEW A, NEW s \in Seq(A)
    PROVE  StripQuotes(s) \in Seq(A)
<1>1. Len(s) \in Nat
  BY LenProperties
<1>2. PICK f : Pieces(Len(s), StripHead(s), StripNext(s), f) /\ StripQuotes(s) = f[1]
  BY <1>1, StripPieces
<1>3. ASSUME NEW i \in 1 .. Len(s) PROVE StripHead(s)[i] \in Seq(A)
  <2>1. s[i] \in A /\ i \in Nat
    BY <1>1, ElementOfSeq
  <2>2. \A t \in A : <<t>> \in Seq(A)
    OBVIOUS
  <2> QED
    BY <2>1, <2>2 DEF StripHead
<1>4. \A i \in Nat \ {0} : f[i] \in Seq(A)
  BY <1>1, <1>2, <1>3, StripGrows, PiecesOf
<1> QED
  BY <1>2, <1>4

LEMMA SubOf ==
    ASSUME NEW A, NEW s \in Seq(A), NEW m \in Nat \ {0}, NEW n \in Nat, n <= Len(s)
    PROVE  SubSeq(s, m, n) \in Seq(A)
<1>1. CASE m <= n + 1
  <2>1. m \in 1 .. Len(s) + 1 /\ n \in m - 1 .. Len(s)
    BY <1>1, LenProperties
  <2> QED
    BY <2>1, SubSeqProperties
<1>2. CASE ~(m <= n + 1)
  <2>1. SubSeq(s, m, n) = <<>>
    BY <1>2, LenProperties
  <2> QED
    BY <2>1, EmptySeq
<1> QED
  BY <1>1, <1>2

Results(A) == [clean : Seq(A), calls : Seq(A)]

\* A tag takes its call out of the text that is left.
LEMMA ExtractAtOf ==
    ASSUME NEW A, NEW acc \in Results(A), NEW tag \in Nat \ {0}
    PROVE  ExtractAt(tag, acc) \in Results(A)
<1> DEFINE s     == acc.clean
           after == {i \in Positions(s, {"call", "bad"}) : i > tag}
           json  == Min(after)
           end   == IF json < Len(s) /\ s[json + 1].sym \in {"close", "think"}
                    THEN json + 1 ELSE json
<1>1. s \in Seq(A) /\ acc.calls \in Seq(A) /\ Len(s) \in Nat /\ DOMAIN s = 1 .. Len(s)
  BY LenProperties DEF Results
<1>2. CASE after = {} \/ (s[json].sym = "bad" /\ json = tag + 1)
  BY <1>2 DEF ExtractAt
<1>3. CASE ~(after = {} \/ (s[json].sym = "bad" /\ json = tag + 1))
  <2>1. after \subseteq DOMAIN s /\ after \subseteq Nat /\ after # {}
    BY <1>1, <1>3 DEF Positions
  <2>2. json \in after
    <3>1. \E n \in after : \A m \in after : n <= m
      BY <2>1, LeastNatural
    <3> HIDE DEF after
    <3> QED
      BY <3>1 DEF Min
  <2>3. json \in 1 .. Len(s) /\ json > tag
    BY <1>1, <2>1, <2>2
  <2>4. ExtractAt(tag, acc) = [clean |-> SubSeq(s, 1, tag - 1) \o SubSeq(s, end + 1, Len(s)),
                              calls |-> <<s[json]>> \o acc.calls]
    BY <1>3 DEF ExtractAt
  <2> HIDE DEF json, after
  <2>5. end + 1 \in Nat \ {0} /\ tag - 1 \in Nat /\ tag - 1 <= Len(s)
    BY <1>1, <2>3
  <2> HIDE DEF end, s
  <2>6. SubSeq(s, 1, tag - 1) \in Seq(A)
    BY <1>1, <2>5, SubOf
  <2>7. SubSeq(s, end + 1, Len(s)) \in Seq(A)
    BY <1>1, <2>5, SubOf
  <2>8. <<s[json]>> \in Seq(A)
    <3>1. s[json] \in A
      BY <1>1, <2>3, ElementOfSeq
    <3> QED
      BY <3>1
  <2>9. /\ SubSeq(s, 1, tag - 1) \o SubSeq(s, end + 1, Len(s)) \in Seq(A)
        /\ <<s[json]>> \o acc.calls \in Seq(A)
    BY <1>1, <2>6, <2>7, <2>8, ConcatProperties
  <2> QED
    BY <2>4, <2>9 DEF Results
<1> QED
  BY <1>2, <1>3

\* The calls found in a text, and what is left of it, are tokens of the text.
LEMMA ExtractOf ==
    ASSUME NEW A, NEW s \in Seq(A)
    PROVE  ExtractPromptToolCalls(s) \in Results(A)
<1> DEFINE Body(f) == [tag \in 1 .. Len(s) + 1 |->
                        IF tag > Len(s) THEN [clean |-> s, calls |-> <<>>]
                        ELSE IF s[tag].sym = "open" THEN ExtractAt(tag, f[tag + 1])
                        ELSE f[tag + 1]]
           from == CHOOSE f : f = Body(f)
           Good(f, n) ==
              /\ f = [tag \in 1 .. Len(s) + 1 |-> f[tag]]
              /\ \A tag \in 1 .. Len(s) + 1 : tag + n > Len(s) => f[tag] = Body(f)[tag]
           E == {n \in Nat : \E f : Good(f, n)}
           T == {n \in Nat : \A tag \in 1 .. Len(s) + 1 :
                                tag + n > Len(s) => from[tag] \in Results(A)}
<1>1. ExtractPromptToolCalls(s) = from[1]
  BY DEF ExtractPromptToolCalls
<1>2. Len(s) \in Nat
  BY LenProperties
<1>3. 0 \in E
  <2> DEFINE f == [tag \in 1 .. Len(s) + 1 |-> [clean |-> s, calls |-> <<>>]]
  <2>1. Good(f, 0)
    BY <1>2
  <2> HIDE DEF Good, f
  <2> QED
    BY <2>1
<1>4. ASSUME NEW n \in Nat, n \in E
      PROVE  n + 1 \in E
  <2>1. PICK f : Good(f, n)
    BY <1>4
  <2> DEFINE k == Len(s) - n
             g == [tag \in 1 .. Len(s) + 1 |-> IF tag = k THEN Body(f)[k] ELSE f[tag]]
  <2>2. k \in Int /\ \A tag \in 1 .. Len(s) + 1 : tag + (n + 1) > Len(s) => tag = k \/ tag > k
    BY <1>2
  <2>3. \A tag \in 1 .. Len(s) + 1 : tag > k => tag + n > Len(s)
    BY <1>2
  <2>4. \A tag \in 1 .. Len(s) + 1 : tag >= k /\ tag <= Len(s) => g[tag + 1] = f[tag + 1]
    BY <1>2
  <2>5. \A tag \in 1 .. Len(s) + 1 : tag >= k => Body(g)[tag] = Body(f)[tag]
    BY <1>2, <2>4
  <2>6. \A tag \in 1 .. Len(s) + 1 : tag > k => f[tag] = Body(f)[tag]
    BY <2>1, <2>3
  <2>7. \A tag \in 1 .. Len(s) + 1 : tag = k \/ tag > k => g[tag] = Body(f)[tag]
    <3> HIDE DEF Body
    <3> QED
      BY <2>2, <2>6
  <2>8. \A tag \in 1 .. Len(s) + 1 : tag = k \/ tag > k => tag >= k
    BY <2>2
  <2>9. g = [tag \in 1 .. Len(s) + 1 |-> g[tag]]
    OBVIOUS
  <2> HIDE DEF g, k, Body
  <2>10. Good(g, n + 1)
    BY <2>2, <2>5, <2>7, <2>8, <2>9
  <2> HIDE DEF Good
  <2>11. n + 1 \in Nat /\ \E h : Good(h, n + 1)
    BY <2>10
  <2> QED
    BY <2>11
<1>5. \E f : f = Body(f)
  <2>1. Len(s) \in E
    <3> HIDE DEF E
    <3>1. Nat \subseteq E
      BY <1>3, <1>4, AllNaturals
    <3> QED
      BY <1>2, <3>1
  <2>2. PICK f : Good(f, Len(s))
    BY <2>1
  <2>3. \A tag \in 1 .. Len(s) + 1 : tag + Len(s) > Len(s)
    BY <1>2
  <2>4. \A tag \in 1 .. Len(s) + 1 : f[tag] = Body(f)[tag]
    BY <2>2, <2>3
  <2>5. f = [tag \in 1 .. Len(s) + 1 |-> f[tag]]
    BY <2>2
  <2>6. f = Body(f)
    BY <2>4, <2>5
  <2> QED
    BY <2>6
<1>6. from = Body(from)
  <2> HIDE DEF Body
  <2> QED
    BY <1>5
<1> HIDE DEF from, Body, E
<1>7. \A tag \in 1 .. Len(s) + 1 : from[tag] =
         IF tag > Len(s) THEN [clean |-> s, calls |-> <<>>]
         ELSE IF s[tag].sym = "open" THEN ExtractAt(tag, from[tag + 1])
         ELSE from[tag + 1]
  BY <1>6 DEF Body
<1>8. [clean |-> s, calls |-> <<>>] \in Results(A)
  BY EmptySeq DEF Results
<1>9. 0 \in T
  <2>1. \A tag \in 1 .. Len(s) + 1 : tag + 0 > Len(s) => from[tag] = [clean |-> s, calls |-> <<>>]
    BY <1>2, <1>7
  <2> QED
    BY <1>8, <2>1
<1>10. ASSUME NEW n \in Nat, n \in T
       PROVE  n + 1 \in T
  <2>1. ASSUME NEW tag \in 1 .. Len(s) + 1, tag + (n + 1) > Len(s)
        PROVE  from[tag] \in Results(A)
    <3>1. CASE tag > Len(s)
      BY <1>7, <1>8, <3>1
    <3>2. CASE ~(tag > Len(s))
      <4>1. /\ tag \in Nat \ {0}
            /\ tag + 1 \in 1 .. Len(s) + 1 /\ (tag + 1) + n > Len(s)
        BY <1>2, <2>1, <3>2
      <4>2. from[tag + 1] \in Results(A)
        BY <1>10, <4>1
      <4>3. ExtractAt(tag, from[tag + 1]) \in Results(A)
        BY <4>1, <4>2, ExtractAtOf
      <4> QED
        BY <1>7, <3>2, <4>2, <4>3
    <3> QED
      BY <3>1, <3>2
  <2> QED
    BY <2>1
<1>11. Len(s) \in T
  <2> HIDE DEF T
  <2>1. Nat \subseteq T
    BY <1>9, <1>10, AllNaturals
  <2> QED
    BY <1>2, <2>1
<1>12. 1 \in 1 .. Len(s) + 1 /\ 1 + Len(s) > Len(s)
  BY <1>2
<1> QED
  BY <1>1, <1>11, <1>12

\* The strings; those the handler and its filters write are spelled out.
Strings == STRING \cup {"link", "break", "call", "thinking", "block", "answer", "tool_call",
                       "sources", "images", "pending"}
Toks == [sym : Strings, src : Strings, at : Nat, pos : Nat]
Reasoning == {t \in Toks : t.src = "thinking"}
Answer == {t \in Toks : t.src # "thinking"}

\* What may begin a citation, and what a citation can leave.
Begun == {t \in Toks : t.sym \in {"bra", "ref"}}
Cited == {t \in Toks : t.sym \in {"bra", "ref", "link"}}

InThinking == Reasoning \cup Cited
InText == Answer \cup Cited

\* A set of tokens the citation filter does not lead out of.
Linked(A) == Begun \subseteq A /\ A \subseteq Toks /\ \A t \in A : [t EXCEPT !.sym = "link"] \in A

LEMMA LinkedSets == Linked(InThinking) /\ Linked(InText) /\ Linked(Cited)
<1>1. ASSUME NEW t \in Toks
      PROVE  /\ [t EXCEPT !.sym = "link"] \in Toks
             /\ [t EXCEPT !.sym = "link"].sym = "link"
             /\ [t EXCEPT !.sym = "link"].src = t.src
  <2>1. t = [sym |-> t.sym, src |-> t.src, at |-> t.at, pos |-> t.pos]
    BY DEF Toks
  <2>2. [t EXCEPT !.sym = "link"] = [sym |-> "link", src |-> t.src, at |-> t.at, pos |-> t.pos]
    BY <2>1
  <2>3. [sym |-> "link", src |-> t.src, at |-> t.at, pos |-> t.pos] \in Toks
    BY DEF Toks, Strings
  <2> QED
    BY <2>2, <2>3
<1>2. Begun \subseteq Cited /\ \A t \in Toks : [t EXCEPT !.sym = "link"] \in Cited
  BY <1>1 DEF Begun, Cited
<1>3. Cited \subseteq Toks /\ Reasoning \subseteq Toks /\ Answer \subseteq Toks
  BY DEF Cited, Reasoning, Answer
<1> QED
  BY <1>2, <1>3 DEF Linked, InThinking, InText

LEMMA SeqWithin ==
    ASSUME NEW A, NEW B, A \subseteq B, NEW s \in Seq(A)
    PROVE  s \in Seq(B)
  OBVIOUS

\* The citation filter holds back the beginning of a citation, no more.
LEMMA RefsOf ==
    ASSUME NEW A, Linked(A), NEW buffer \in Seq(Begun), NEW content \in Seq(A), NEW sure
    PROVE  /\ ProcessRefs(buffer, content, sure).out \in Seq(A)
           /\ ProcessRefs(buffer, content, sure).buffer \in Seq(Begun)
<1> DEFINE s == ResolveCitations(buffer \o content, sure)
           n == Len(s) - HeldBack(s)
<1>1. ProcessRefs(buffer, content, sure) = [out |-> SubSeq(s, 1, n), buffer |-> SubSeq(s, n + 1, Len(s))]
  BY DEF ProcessRefs
<1>2. s \in Seq(A)
  <2>1. buffer \in Seq(A)
    BY SeqWithin DEF Linked
  <2>2. buffer \o content \in Seq(A)
    BY <2>1, ConcatProperties
  <2> QED
    BY <2>2, ResolveOf DEF Linked
<1> HIDE DEF s
<1>3. Len(s) \in Nat /\ \A i \in 1 .. Len(s) : s[i] \in A /\ s[i] \in Toks
  BY <1>2, LenProperties, ElementOfSeq DEF Linked
<1>4. CASE HeldBack(s) = 0
  <2>1. n = Len(s)
    BY <1>3, <1>4
  <2>2. SubSeq(s, 1, n) \in Seq(A)
    BY <1>2, <1>3, <2>1, SubOf
  <2>3. SubSeq(s, n + 1, Len(s)) \in Seq(Begun)
    <3>1. SubSeq(s, n + 1, Len(s)) = <<>>
      BY <1>2, <1>3, <2>1
    <3> QED
      BY <3>1, EmptySeq
  <2> HIDE DEF n
  <2> QED
    BY <1>1, <2>2, <2>3
<1>5. CASE HeldBack(s) # 0
  <2>1. \/ /\ HeldBack(s) = 1 /\ Len(s) >= 1
           /\ Syms(SubSeq(s, Len(s), Len(s))) = <<"bra">>
        \/ /\ HeldBack(s) = 2 /\ Len(s) >= 2
           /\ Syms(SubSeq(s, Len(s) - 1, Len(s))) = <<"bra", "ref">>
    <3>1. Len(s) - 1 + 1 = Len(s) /\ Len(s) - 2 + 1 = Len(s) - 1
      BY <1>3
    <3> QED
      BY <1>5, <3>1 DEF HeldBack
  <2>2. n \in Nat /\ n <= Len(s) /\ n + 1 \in Nat \ {0} /\ n + 1 <= Len(s)
    BY <1>3, <2>1
  <2>3. SubSeq(s, 1, n) \in Seq(A)
    BY <1>2, <2>2, SubOf
  <2> DEFINE held == SubSeq(s, n + 1, Len(s))
  <2>4. held \in Seq(A)
    BY <1>2, <1>3, <2>2, SubOf
  <2>5. \A i \in 1 .. Len(held) : held[i] \in Toks
    BY <2>4, ElementOfSeq DEF Linked
  <2>6. Syms(held) \in {<<"bra">>, <<"bra", "ref">>}
    <3>1. HeldBack(s) = 1 => n + 1 = Len(s)
      BY <1>3
    <3>2. HeldBack(s) = 2 => n + 1 = Len(s) - 1
      BY <1>3
    <3> QED
      BY <2>1, <3>1, <3>2
  <2> HIDE DEF held
  <2>7. \A i \in 1 .. Len(held) : held[i].sym \in {"bra", "ref"}
    <3>1. DOMAIN held = 1 .. Len(held) /\ Len(held) \in Nat
      BY <2>4, LenProperties
    <3>2. DOMAIN Syms(held) = 1 .. Len(held)
      BY <3>1 DEF Syms
    <3>3. \A i \in 1 .. Len(held) : Syms(held)[i] = held[i].sym
      BY <3>1 DEF Syms
    <3>4. CASE Syms(held) = <<"bra">>
      <4>1. DOMAIN <<"bra">> = {1} /\ <<"bra">>[1] = "bra"
        OBVIOUS
      <4> QED
        BY <3>2, <3>3, <3>4, <4>1
    <3>5. CASE Syms(held) = <<"bra", "ref">>
      <4>1. /\ DOMAIN <<"bra", "ref">> = {1, 2}
            /\ <<"bra", "ref">>[1] = "bra" /\ <<"bra", "ref">>[2] = "ref"
        OBVIOUS
      <4> QED
        BY <3>2, <3>3, <3>5, <4>1
    <3> QED
      BY <2>6, <3>4, <3>5
  <2>8. held \in Seq(Begun)
    <3>1. \A i \in 1 .. Len(held) : held[i] \in Begun
      BY <2>5, <2>7 DEF Begun
    <3>2. held = [i \in 1 .. Len(held) |-> held[i]] /\ Len(held) \in Nat
      BY <2>4, LenProperties
    <3> QED
      BY <3>1, <3>2, IsASeq
  <2> QED
    BY <1>1, <2>3, <2>8 DEF held
<1> QED
  BY <1>4, <1>5

LEMMA FlushRefsOf ==
    ASSUME NEW buffer \in Seq(Begun), NEW sure
    PROVE  FlushRefs(buffer, sure).out \in Seq(Cited)
<1>1. buffer \in Seq(Cited)
  BY SeqWithin, LinkedSets DEF Linked
<1>2. ResolveCitations(buffer, sure) \in Seq(Cited)
  BY <1>1, LinkedSets, ResolveOf DEF Linked
<1> QED
  BY <1>2 DEF FlushRefs

Filters == [seen : BOOLEAN, buffer : Seq(Reasoning)]

\* The thinking filter gives reasoning for reasoning.
LEMMA ThinkingOf ==
    ASSUME NEW f \in Filters, NEW delta \in Seq(Reasoning)
    PROVE  /\ ProcessThinking(f, delta).out \in Seq(Reasoning)
           /\ ProcessThinking(f, delta).filter \in Filters
<1>1. CASE ~f.seen /\ QuotesIn(delta) = {}
  BY <1>1, EmptySeq DEF ProcessThinking, Filters
<1>2. CASE ~(~f.seen /\ QuotesIn(delta) = {})
  <2> DEFINE body == IF f.seen THEN delta
                     ELSE SubSeq(delta, Min(QuotesIn(delta)) + 2, Len(delta))
             s    == StripQuotes(f.buffer \o body)
             held == HeldQuote(s)
  <2>1. ProcessThinking(f, delta) =
          [out    |-> SubSeq(s, 1, Len(s) - held),
           filter |-> [seen |-> TRUE, buffer |-> SubSeq(s, Len(s) - held + 1, Len(s))]]
    BY <1>2 DEF ProcessThinking
  <2>2. body \in Seq(Reasoning)
    <3>1. CASE f.seen
      BY <3>1
    <3>2. CASE ~f.seen
      <4>1. QuotesIn(delta) \subseteq Nat /\ QuotesIn(delta) # {} /\ Len(delta) \in Nat
        BY <1>2, <3>2, LenProperties DEF QuotesIn
      <4>2. PICK n \in QuotesIn(delta) : \A m \in QuotesIn(delta) : n <= m
        BY <4>1, LeastNatural
      <4>3. Min(QuotesIn(delta)) \in QuotesIn(delta)
        BY <4>2 DEF Min
      <4>4. Min(QuotesIn(delta)) + 2 \in Nat \ {0}
        BY <4>1, <4>3
      <4>5. SubSeq(delta, Min(QuotesIn(delta)) + 2, Len(delta)) \in Seq(Reasoning)
        BY <4>1, <4>4, SubOf
      <4> QED
        BY <3>2, <4>5
    <3> QED
      BY <3>1, <3>2
  <2> HIDE DEF body
  <2>3. s \in Seq(Reasoning)
    <3>1. f.buffer \o body \in Seq(Reasoning)
      BY <2>2, ConcatProperties DEF Filters
    <3> QED
      BY <3>1, StripOf
  <2> HIDE DEF s
  <2>4. Len(s) \in Nat
    BY <2>3, LenProperties
  <2>5. held \in {0, 1, 2} /\ held <= Len(s)
    BY <2>4 DEF HeldQuote, EndsWith
  <2> HIDE DEF held
  <2>6. Len(s) - held \in Nat /\ Len(s) - held <= Len(s) /\ Len(s) - held + 1 \in Nat \ {0}
    BY <2>4, <2>5
  <2>7. SubSeq(s, 1, Len(s) - held) \in Seq(Reasoning)
    BY <2>3, <2>6, SubOf
  <2>8. SubSeq(s, Len(s) - held + 1, Len(s)) \in Seq(Reasoning)
    BY <2>3, <2>4, <2>6, SubOf
  <2> QED
    BY <2>1, <2>7, <2>8 DEF Filters
<1> QED
  BY <1>1, <1>2

-----------------------------------------------------------------------------
(***************************************************************************)
(* Which tokens are where.                                                 *)
(***************************************************************************)
Fits == {o \in [kind : Kinds, tok : Toks] :
            /\ o.kind = "text" => o.tok \in InText
            /\ o.kind = "thinking" => o.tok \in InThinking}

TInv ==
    /\ hasTools \in Declared /\ frames \in Nat /\ outputLength \in Nat
    /\ thinking \in Filters
    /\ refs \in Seq(Begun)
    /\ promptBuf \in Seq(InText) /\ tail \in Seq(InText)
    /\ calls \in Seq(Toks) /\ (pc = "calls" => calls # <<>>)
    /\ resume # "calls"
    /\ out \in Seq(Fits)

LEMMA TextOf ==
    ASSUME frames \in Nat, NEW syms \in Seq(Strings), NEW src \in Strings
    PROVE  /\ Text(syms, src) \in Seq(Toks)
           /\ src = "thinking" => Text(syms, src) \in Seq(Reasoning)
           /\ src # "thinking" => Text(syms, src) \in Seq(Answer)
<1> DEFINE s == Text(syms, src)
           tok(i) == [sym |-> syms[i], src |-> src, at |-> frames + 1, pos |-> i]
           S == {t \in Toks : t.src = src}
<1>1. DOMAIN syms = 1 .. Len(syms) /\ Len(syms) \in Nat
  BY LenProperties
<1>2. s = [i \in 1 .. Len(syms) |-> tok(i)]
  BY <1>1 DEF Text
<1>3. ASSUME NEW i \in 1 .. Len(syms) PROVE tok(i) \in S
  <2>1. syms[i] \in Strings /\ i \in Nat /\ frames + 1 \in Nat
    BY <1>1, <1>3, ElementOfSeq
  <2> QED
    BY <2>1 DEF Toks
<1> HIDE DEF tok, S, s
<1>4. s \in Seq(S)
  BY <1>1, <1>2, <1>3, IsASeq
<1>5. S \subseteq Toks /\ (src = "thinking" => S \subseteq Reasoning)
      /\ (src # "thinking" => S \subseteq Answer)
  BY DEF S, Reasoning, Answer
<1>6. s \in Seq(Toks)
  BY <1>4, <1>5, SeqWithin
<1>7. src = "thinking" => s \in Seq(Reasoning)
  BY <1>4, <1>5, SeqWithin
<1>8. src # "thinking" => s \in Seq(Answer)
  BY <1>4, <1>5, SeqWithin
<1> QED
  BY <1>6, <1>7, <1>8 DEF s

LEMMA SentOf ==
    ASSUME NEW kind \in Kinds, NEW text,
           \/ kind = "text" /\ text \in Seq(InText)
           \/ kind = "thinking" /\ text \in Seq(InThinking)
    PROVE  Sent(kind, text) \in Seq(Fits)
<1> DEFINE A == IF kind = "text" THEN InText ELSE InThinking
<1>1. text \in Seq(A) /\ A \subseteq Toks
  BY LinkedSets DEF Linked
<1>2. DOMAIN text = 1 .. Len(text) /\ Len(text) \in Nat /\ \A i \in 1 .. Len(text) : text[i] \in A
  <2> HIDE DEF A
  <2> QED
    BY <1>1, LenProperties, ElementOfSeq
<1>3. ASSUME NEW i \in 1 .. Len(text) PROVE [kind |-> kind, tok |-> text[i]] \in Fits
  BY <1>1, <1>2, <1>3 DEF Fits
<1>4. Sent(kind, text) = [i \in 1 .. Len(text) |-> [kind |-> kind, tok |-> text[i]]]
  BY <1>2 DEF Sent
<1> QED
  BY <1>2, <1>3, <1>4, IsASeq

\* Text that goes out in one of the two kinds of block keeps out in order.
LEMMA OutOf ==
    ASSUME TInv, NEW kind \in Kinds, NEW text,
           \/ kind = "text" /\ text \in Seq(InText)
           \/ kind = "thinking" /\ text \in Seq(InThinking)
    PROVE  out \o Sent(kind, text) \in Seq(Fits)
<1>1. Sent(kind, text) \in Seq(Fits)
  BY SentOf
<1> QED
  BY <1>1, ConcatProperties DEF TInv

LEMMA InitTInv == Init => TInv
<1> SUFFICES ASSUME Init PROVE TInv
  OBVIOUS
<1>1. NewThinkingFilter \in Filters
  BY EmptySeq DEF NewThinkingFilter, Filters
<1> QED
  BY <1>1, EmptySeq DEF Init, TInv

LEMMA StutterTInv == TInv /\ UNCHANGED vars => TInv'
  BY DEF vars, handlerVars, TInv

\* The deltas are texts.
LEMMA DeltasAreTexts ==
    ASSUME TInv
    PROVE  /\ \A d \in ThinkingTexts[hasTools] : d \in Seq(Strings)
           /\ \A d \in AnswerTexts[hasTools] : d \in Seq(Strings)
           /\ <<>> \in Seq(Strings)
           /\ "thinking" \in Strings /\ "block" \in Strings /\ "answer" \in Strings
           /\ "tool_call" \in Strings
<1>1. STRING \subseteq Strings
  BY DEF Strings
<1>2. \A d \in ThinkingTexts[hasTools] \cup AnswerTexts[hasTools] : d \in Seq(STRING)
  BY TextsAssumption DEF TInv
<1>3. \A d \in Seq(STRING) : d \in Seq(Strings)
  BY <1>1, SeqWithin
<1> QED
  BY <1>2, <1>3, EmptySeq DEF Strings

LEMMA ThinkingFrameTInv ==
    ASSUME TInv, NEW delta \in ThinkingTexts[hasTools], ThinkingFrame(delta)
    PROVE  TInv'
<1> DEFINE newRound == lastPhase \notin {"", "thinking"}
           f == IF newRound THEN ResetForNewRound(thinking) ELSE thinking
           t == ProcessThinking(f, Text(delta, "thinking"))
           break == IF newRound /\ rounds >= 1 /\ t.out # <<>>
                    THEN <<[sym |-> "break", src |-> "thinking", at |-> frames + 1, pos |-> 0]>>
                    ELSE <<>>
           r == ProcessRefs(refs, break \o t.out, known)
<1>1. Text(delta, "thinking") \in Seq(Reasoning)
  BY DeltasAreTexts, TextOf DEF TInv
<1>2. f \in Filters
  BY DEF TInv, ResetForNewRound, Filters
<1> HIDE DEF f
<1>3. t.out \in Seq(Reasoning) /\ t.filter \in Filters
  BY <1>1, <1>2, ThinkingOf
<1> HIDE DEF t
<1>4. break \in Seq(Reasoning)
  <2>1. [sym |-> "break", src |-> "thinking", at |-> frames + 1, pos |-> 0] \in Reasoning
    BY DEF TInv, Reasoning, Toks, Strings
  <2>2. \A b : b \in Reasoning => <<b>> \in Seq(Reasoning)
    OBVIOUS
  <2>3. <<[sym |-> "break", src |-> "thinking", at |-> frames + 1, pos |-> 0]>> \in Seq(Reasoning)
    BY <2>1, <2>2
  <2> QED
    BY <2>3, EmptySeq
<1> HIDE DEF break
<1>5. break \o t.out \in Seq(InThinking)
  <2>1. break \o t.out \in Seq(Reasoning)
    BY <1>3, <1>4, ConcatProperties
  <2> QED
    BY <2>1, SeqWithin DEF InThinking
<1>6. r.out \in Seq(InThinking) /\ r.buffer \in Seq(Begun)
  BY <1>5, LinkedSets, RefsOf DEF TInv
<1> HIDE DEF r
<1>7. out \o Sent("thinking", r.out) \in Seq(Fits)
  BY <1>6, OutOf DEF Kinds
<1>8. /\ thinking' = t.filter /\ refs' = r.buffer /\ out' = out \o Sent("thinking", r.out)
      /\ frames' = frames + 1
      /\ UNCHANGED <<hasTools, resume, tail, pc, promptBuf, calls, outputLength>>
  BY DEF ThinkingFrame, ReadFrame, newRound, f, t, break, r
<1> QED
  BY <1>3, <1>6, <1>7, <1>8 DEF TInv

LEMMA BlockFrameTInv ==
    ASSUME TInv, NEW before \in AnswerTexts[hasTools], NEW phase, BlockFrame(before, phase)
    PROVE  TInv'
<1> DEFINE r == ProcessRefs(refs, Text(before, "block"), known)
<1>1. Text(before, "block") \in Seq(Answer)
  BY DeltasAreTexts, TextOf DEF TInv
<1>2. Text(before, "block") \in Seq(InText)
  BY <1>1, SeqWithin DEF InText
<1>3. r.out \in Seq(InText) /\ r.buffer \in Seq(Begun)
  BY <1>2, LinkedSets, RefsOf DEF TInv
<1> HIDE DEF r
<1>4. out \o Sent("text", r.out) \in Seq(Fits)
  BY <1>3, OutOf DEF Kinds
<1>5. /\ refs' = r.buffer /\ out' = out \o Sent("text", r.out) /\ frames' = frames + 1
      /\ UNCHANGED <<hasTools, resume, tail, pc, promptBuf, calls, outputLength, thinking>>
  BY DEF BlockFrame, OtherFrame, ReadFrame, r
<1> QED
  BY <1>3, <1>4, <1>5 DEF TInv

LEMMA FunctionCallFrameTInv ==
    ASSUME TInv, NEW n \in 1 .. MaxCalls, FunctionCallFrame(n)
    PROVE  TInv'
<1> DEFINE syms == [i \in 1 .. n |-> "call"]
<1>1. n \in Nat /\ n >= 1
  BY BoundsAssumption
<1>2. syms \in Seq(Strings) /\ DOMAIN syms = 1 .. n
  <2>1. "call" \in Strings
    BY DEF Strings
  <2> QED
    BY <1>1, <2>1, IsASeq
<1>3. Text(syms, "tool_call") \in Seq(Toks)
  <2> HIDE DEF syms
  <2> QED
    BY <1>2, DeltasAreTexts, TextOf DEF TInv
<1>4. Text(syms, "tool_call") # <<>>
  <2>1. DOMAIN Text(syms, "tool_call") = 1 .. n
    BY <1>2 DEF Text
  <2>2. 1 \in 1 .. n /\ DOMAIN <<>> = {}
    BY <1>1
  <2> QED
    BY <2>1, <2>2
<1>5. /\ calls' = Text(syms, "tool_call") /\ frames' = frames + 1
      /\ UNCHANGED <<hasTools, resume, tail, promptBuf, outputLength, thinking, refs, out>>
  BY DEF FunctionCallFrame, OtherFrame, ReadFrame
<1> HIDE DEF syms
<1> QED
  BY <1>3, <1>4, <1>5 DEF TInv

\* What a content frame adds comes from its text.
LEMMA ExtractedOf ==
    ASSUME TInv, NEW via \in {"delta", "edit", "repeat"}, NEW text \in Seq(Answer)
    PROVE  Extracted(via, text).content \in Seq(Answer) /\ Extracted(via, text).length \in Nat
<1>1. Len(text) \in Nat /\ outputLength \in Nat
  BY LenProperties DEF TInv
<1>2. CASE via = "delta"
  BY <1>1, <1>2 DEF Extracted
<1>3. CASE via = "edit"
  BY <1>1, <1>3 DEF Extracted
<1>4. CASE via = "repeat" /\ Len(text) > outputLength
  <2>1. SubSeq(text, outputLength + 1, Len(text)) \in Seq(Answer)
    BY <1>1, SubOf
  <2>2. Extracted(via, text) = [content |-> SubSeq(text, outputLength + 1, Len(text)),
                                length |-> Len(text)]
    BY <1>1, <1>4 DEF Extracted
  <2> QED
    BY <1>1, <2>1, <2>2
<1>5. CASE via = "repeat" /\ Len(text) <= outputLength
  <2>1. Extracted(via, text) = [content |-> text, length |-> outputLength]
    BY <1>1, <1>5 DEF Extracted
  <2> QED
    BY <1>1, <2>1
<1> QED
  BY <1>1, <1>2, <1>3, <1>4, <1>5

LEMMA ContentFrameTInv ==
    ASSUME TInv, NEW via \in {"delta", "edit", "repeat"}, NEW phase, NEW syms \in Seq(Strings),
           ContentFrame(via, phase, syms)
    PROVE  TInv'
<1> DEFINE t  == FlushThinking(thinking)
           r1 == ProcessRefs(refs, t.out, known)
           x  == Extracted(via, Text(syms, "answer"))
           r2 == ProcessRefs(r1.buffer, x.content, known)
<1>1. t.out \in Seq(Reasoning) /\ t.filter \in Filters
  BY EmptySeq DEF FlushThinking, Filters, TInv
<1> HIDE DEF t
<1>2. r1.out \in Seq(InThinking) /\ r1.buffer \in Seq(Begun)
  <2>1. t.out \in Seq(InThinking)
    BY <1>1, SeqWithin DEF InThinking
  <2> QED
    BY <2>1, LinkedSets, RefsOf DEF TInv
<1> HIDE DEF r1
<1>3. x.content \in Seq(Answer) /\ x.length \in Nat
  <2>1. Text(syms, "answer") \in Seq(Answer)
    BY DeltasAreTexts, TextOf DEF TInv
  <2> QED
    BY <2>1, ExtractedOf
<1> HIDE DEF x
<1>4. r2.out \in Seq(InText) /\ r2.buffer \in Seq(Begun)
  <2>1. x.content \in Seq(InText)
    BY <1>3, SeqWithin DEF InText
  <2> QED
    BY <1>2, <2>1, LinkedSets, RefsOf
<1> HIDE DEF r2
<1>5. out \o Sent("thinking", r1.out) \in Seq(Fits)
  BY <1>2, OutOf DEF Kinds
<1>6. out \o Sent("thinking", r1.out) \o Sent("text", r2.out) \in Seq(Fits)
  <2>1. Sent("text", r2.out) \in Seq(Fits)
    BY <1>4, SentOf DEF Kinds
  <2> QED
    BY <1>5, <2>1, ConcatProperties
<1>7. promptBuf \o r2.out \in Seq(InText)
  BY <1>4, ConcatProperties DEF TInv
<1>8. x.length + (IF via = "delta" THEN Len(r2.out) ELSE 0) \in Nat
  BY <1>3, <1>4, LenProperties
<1>9. /\ thinking' = t.filter /\ refs' = r2.buffer /\ frames' = frames + 1
      /\ outputLength' = x.length + (IF via = "delta" THEN Len(r2.out) ELSE 0)
      /\ UNCHANGED <<hasTools, resume, tail, calls>>
      /\ \/ pc' = "drain" /\ promptBuf' = promptBuf \o r2.out
            /\ out' = out \o Sent("thinking", r1.out)
         \/ UNCHANGED <<pc, promptBuf>>
            /\ out' = out \o Sent("thinking", r1.out) \o Sent("text", r2.out)
  BY DEF ContentFrame, OtherFrame, ReadFrame, t, r1, x, r2
<1>10. promptBuf' \in Seq(InText) /\ out' \in Seq(Fits) /\ (pc' = "calls" => pc = "calls")
  <2>1. promptBuf \in Seq(InText)
    BY DEF TInv
  <2> QED
    BY <2>1, <1>5, <1>6, <1>7, <1>9
<1>11. outputLength' \in Nat
  BY <1>8, <1>9
<1> QED
  BY <1>1, <1>4, <1>9, <1>10, <1>11 DEF TInv

LEMMA FrameTInv == TInv /\ Frame => TInv'
<1> SUFFICES ASSUME TInv, Frame PROVE TInv'
  OBVIOUS
<1>1. CASE \E delta \in ThinkingTexts[hasTools] : ThinkingFrame(delta)
  BY <1>1, ThinkingFrameTInv
<1>2. CASE \E phase \in Phases : SearchResultFrame(phase) \/ SkippedFrame(phase)
  <2>1. /\ frames' = frames + 1
        /\ UNCHANGED <<hasTools, resume, tail, pc, thinking, refs, promptBuf, calls, outputLength, out>>
    BY <1>2 DEF SearchResultFrame, SkippedFrame, OtherFrame, ReadFrame
  <2> QED
    BY <2>1 DEF TInv
<1>3. CASE \E before \in AnswerTexts[hasTools], phase \in Phases : BlockFrame(before, phase)
  BY <1>3, BlockFrameTInv
<1>4. CASE \E n \in 1 .. MaxCalls : FunctionCallFrame(n)
  BY <1>4, FunctionCallFrameTInv
<1>5. CASE \E via \in {"delta", "edit", "repeat"}, text \in AnswerTexts[hasTools] :
              ContentFrame(via, PhaseOf(via), text)
  BY <1>5, DeltasAreTexts, ContentFrameTInv
<1>6. CASE \E phase \in Phases : ContentFrame("delta", phase, <<>>)
  BY <1>6, DeltasAreTexts, ContentFrameTInv
<1> QED
  BY <1>1, <1>2, <1>3, <1>4, <1>5, <1>6 DEF Frame

LEMMA DrainTextTInv == TInv /\ DrainText => TInv'
<1> SUFFICES ASSUME TInv, DrainText PROVE TInv'
  OBVIOUS
<1>1. Len(promptBuf) \in Nat /\ DOMAIN promptBuf = 1 .. Len(promptBuf) /\ promptBuf \in Seq(InText)
  BY LenProperties DEF TInv
<1>2. FirstOpen \in Positions(promptBuf, {"open"})
  <2>1. Positions(promptBuf, {"open"}) \subseteq Nat /\ Positions(promptBuf, {"open"}) # {}
    BY <1>1 DEF Positions, DrainText
  <2>2. \E n \in Positions(promptBuf, {"open"}) : \A m \in Positions(promptBuf, {"open"}) : n <= m
    BY <2>1, LeastNatural
  <2> QED
    BY <2>2 DEF FirstOpen
<1>3. FirstOpen \in 1 .. Len(promptBuf)
  BY <1>1, <1>2 DEF Positions
<1>4. FirstOpen - 1 \in Nat /\ FirstOpen - 1 <= Len(promptBuf) /\ FirstOpen \in Nat \ {0}
  BY <1>1, <1>3
<1>5. SubSeq(promptBuf, 1, FirstOpen - 1) \in Seq(InText)
  BY <1>1, <1>4, SubOf
<1>6. SubSeq(promptBuf, FirstOpen, Len(promptBuf)) \in Seq(InText)
  BY <1>1, <1>4, SubOf
<1>7. out \o Sent("text", SubSeq(promptBuf, 1, FirstOpen - 1)) \in Seq(Fits)
  BY <1>5, OutOf DEF Kinds
<1>8. /\ out' = out \o Sent("text", SubSeq(promptBuf, 1, FirstOpen - 1))
      /\ promptBuf' = SubSeq(promptBuf, FirstOpen, Len(promptBuf))
      /\ UNCHANGED <<hasTools, frames, outputLength, thinking, refs, tail, pc, calls, resume>>
  BY DEF DrainText, DrainUnchanged
<1> QED
  BY <1>6, <1>7, <1>8 DEF TInv

LEMMA DrainBlockTInv == TInv /\ DrainBlock => TInv'
<1> SUFFICES ASSUME TInv, DrainBlock PROVE TInv'
  OBVIOUS
<1> DEFINE ends == Positions(promptBuf, {"close", "think"})
                   \cup {i - 1 : i \in Positions(promptBuf, {"open"}) \ {1}}
           end == BlockEnd(promptBuf)
           found == ExtractPromptToolCalls(SubSeq(promptBuf, 1, end)).calls
<1>1. Len(promptBuf) \in Nat /\ DOMAIN promptBuf = 1 .. Len(promptBuf) /\ promptBuf \in Seq(InText)
  BY LenProperties DEF TInv
<1>2. end # 0 /\ end = IF ends = {} THEN 0 ELSE Min(ends)
  BY DEF DrainBlock, BlockEnd
<1>3. ends \subseteq 1 .. Len(promptBuf)
  <2>1. \A i \in 1 .. Len(promptBuf) : i # 1 => i - 1 \in 1 .. Len(promptBuf)
    BY <1>1
  <2>2. \A syms : Positions(promptBuf, syms) \subseteq 1 .. Len(promptBuf)
    BY <1>1 DEF Positions
  <2> QED
    BY <2>1, <2>2
<1>4. end \in 1 .. Len(promptBuf)
  <2> HIDE DEF ends, end
  <2>1. ends \subseteq Nat /\ ends # {}
    BY <1>1, <1>2, <1>3
  <2>2. \E n \in ends : \A m \in ends : n <= m
    BY <2>1, LeastNatural
  <2>3. Min(ends) \in ends
    BY <2>2 DEF Min
  <2> QED
    BY <1>2, <1>3, <2>1, <2>3
<1>5. end \in Nat /\ end <= Len(promptBuf) /\ end + 1 \in Nat \ {0}
  BY <1>1, <1>4
<1> HIDE DEF ends, end
<1>6. SubSeq(promptBuf, end + 1, Len(promptBuf)) \in Seq(InText)
  BY <1>1, <1>5, SubOf
<1>7. found \in Seq(Toks)
  <2>1. SubSeq(promptBuf, 1, end) \in Seq(InText)
    BY <1>1, <1>5, SubOf
  <2>2. found \in Seq(InText)
    BY <2>1, ExtractOf DEF Results
  <2> QED
    BY <2>2, SeqWithin, LinkedSets DEF Linked
<1> HIDE DEF found
<1>8. /\ promptBuf' = SubSeq(promptBuf, end + 1, Len(promptBuf)) /\ calls' = found
      /\ \/ found = <<>> /\ UNCHANGED <<pc, resume>> /\ pc = "drain"
         \/ found # <<>> /\ pc' = "calls" /\ resume' = "drain"
      /\ UNCHANGED <<hasTools, frames, outputLength, thinking, refs, tail, out>>
  BY DEF DrainBlock, DrainUnchanged, end, found
<1>9. (pc' = "calls" => calls' # <<>>) /\ resume' # "calls"
  BY <1>8 DEF TInv
<1> QED
  BY <1>6, <1>7, <1>8, <1>9 DEF TInv

LEMMA EmitCallTInv == TInv /\ EmitCall => TInv'
<1> SUFFICES ASSUME TInv, EmitCall PROVE TInv'
  OBVIOUS
<1>1. calls \in Seq(Toks) /\ calls # <<>> /\ out \in Seq(Fits)
  BY DEF EmitCall, TInv
<1>2. Head(calls) \in Toks /\ Tail(calls) \in Seq(Toks)
  BY <1>1, HeadTailProperties
<1>3. [kind |-> "tool_use", tok |-> Head(calls)] \in Fits
  BY <1>2 DEF Fits, Kinds
<1>4. Append(out, [kind |-> "tool_use", tok |-> Head(calls)]) \in Seq(Fits)
  BY <1>1, <1>3, AppendProperties
<1>5. /\ out' = Append(out, [kind |-> "tool_use", tok |-> Head(calls)])
      /\ calls' = Tail(calls)
      /\ pc' = IF Tail(calls) = <<>> THEN resume ELSE "calls"
      /\ UNCHANGED <<hasTools, frames, outputLength, thinking, refs, tail, promptBuf, resume>>
  BY DEF EmitCall, DrainUnchanged
<1>6. pc' = "calls" => calls' # <<>>
  BY <1>5 DEF TInv
<1> QED
  BY <1>2, <1>4, <1>5, <1>6 DEF TInv

LEMMA FlushPromptTInv == TInv /\ FlushPrompt => TInv'
<1> SUFFICES ASSUME TInv, FlushPrompt PROVE TInv'
  OBVIOUS
<1> DEFINE x == ExtractPromptToolCalls(promptBuf)
<1>1. x.clean \in Seq(InText) /\ x.calls \in Seq(InText)
  BY ExtractOf DEF TInv, Results
<1>2. x.calls \in Seq(Toks)
  BY <1>1, SeqWithin, LinkedSets DEF Linked
<1> HIDE DEF x
<1>3. /\ calls' = x.calls /\ tail' = x.clean /\ promptBuf' = <<>>
      /\ \/ x.calls = <<>> /\ pc' = "tail" /\ UNCHANGED resume
         \/ x.calls # <<>> /\ pc' = "calls" /\ resume' = "tail"
      /\ UNCHANGED <<hasTools, frames, outputLength, thinking, refs, out>>
  BY DEF FlushPrompt, EndUnchanged, x
<1>4. (pc' = "calls" => calls' # <<>>) /\ resume' # "calls"
  BY <1>3 DEF TInv
<1> QED
  BY <1>1, <1>2, <1>3, <1>4, EmptySeq DEF TInv

LEMMA FlushTailTInv == TInv /\ FlushTail => TInv'
<1> SUFFICES ASSUME TInv, FlushTail PROVE TInv'
  OBVIOUS
<1> DEFINE rest == FlushRefs(refs, known).out
<1>1. rest \in Seq(InText)
  <2>1. rest \in Seq(Cited)
    BY FlushRefsOf DEF TInv
  <2> QED
    BY <2>1, SeqWithin DEF InText
<1> HIDE DEF rest
<1>2. out \o Sent("text", tail) \in Seq(Fits)
  BY OutOf DEF TInv, Kinds
<1>3. Sent("text", rest) \in Seq(Fits)
  BY <1>1, SentOf DEF Kinds
<1>4. out \o Sent("text", tail) \o Sent("text", rest) \in Seq(Fits)
  BY <1>2, <1>3, ConcatProperties
<1>5. /\ out' = out \o Sent("text", tail) \o Sent("text", rest)
      /\ tail' = <<>> /\ refs' = <<>> /\ pc' = "close"
      /\ UNCHANGED <<hasTools, frames, outputLength, thinking, promptBuf, calls, resume>>
  BY DEF FlushTail, EndUnchanged, rest
<1> QED
  BY <1>4, <1>5, EmptySeq DEF TInv

LEMMA LocalTInv == TInv /\ (Local \/ EndOfBody) => TInv'
<1> SUFFICES ASSUME TInv, Local \/ EndOfBody PROVE TInv'
  OBVIOUS
<1>1. CASE DrainDone
  BY <1>1 DEF DrainDone, DrainUnchanged, TInv
<1>2. CASE Finish
  BY <1>2 DEF Finish, EndUnchanged, TInv
<1>3. CASE EndOfBody
  BY <1>3 DEF EndOfBody, EndUnchanged, TInv
<1> QED
  BY <1>1, <1>2, <1>3, DrainTextTInv, DrainBlockTInv, EmitCallTInv, FlushPromptTInv,
     FlushTailTInv DEF Local

\* Reasoning never reaches the client as answer text, nor the answer as
\* reasoning: the tokens that change from one kind of block to the other are
\* the held-back beginnings of citations, through the one SearchRefFilter that
\* handleAnthropicStream uses for both.
THEOREM OnlyCitationsCrossHolds == Spec => []OnlyCitationsCross
<1>1. TInv /\ [Next]_vars => TInv'
  BY FrameTInv, LocalTInv, StutterTInv DEF Next
<1>2. TInv => OnlyCitationsCross
  <2> SUFFICES ASSUME TInv, NEW i \in DOMAIN out,
                      \/ out[i].kind = "text" /\ out[i].tok.src = "thinking"
                      \/ out[i].kind = "thinking" /\ out[i].tok.src # "thinking"
               PROVE  out[i].tok.sym \in {"bra", "ref", "link"}
    BY DEF OnlyCitationsCross
  <2>1. i \in 1 .. Len(out) /\ out \in Seq(Fits)
    BY LenProperties DEF TInv
  <2>2. out[i] \in Fits
    BY <2>1, ElementOfSeq
  <2> QED
    BY <2>2 DEF Fits, InText, InThinking, Answer, Reasoning, Cited
<1> QED
  BY InitTInv, <1>1, <1>2, PTL DEF Spec

-----------------------------------------------------------------------------
(***************************************************************************)
(* Texts taken apart and put together.                                     *)
(***************************************************************************)
\* What is left of a text after its first n tokens.
After(s, n) == SubSeq(s, n + 1, Len(s))

LEMMA AfterCut ==
    ASSUME NEW A, NEW s \in Seq(A), NEW n \in 0 .. Len(s)
    PROVE  /\ After(s, n) \in Seq(A) /\ SubSeq(s, 1, n) \in Seq(A)
           /\ Len(After(s, n)) = Len(s) - n /\ Len(SubSeq(s, 1, n)) = n
           /\ \A i \in 1 .. Len(s) - n : After(s, n)[i] = s[i + n]
           /\ \A i \in 1 .. n : SubSeq(s, 1, n)[i] = s[i]
           /\ s = SubSeq(s, 1, n) \o After(s, n)
<1> DEFINE a == SubSeq(s, 1, n)
           b == SubSeq(s, n + 1, Len(s))
<1>1. Len(s) \in Nat /\ n \in Nat /\ n <= Len(s) /\ \A i \in 1 .. Len(s) : s[i] \in A
  BY LenProperties, ElementOfSeq
<1>2. /\ a \in Seq(A) /\ Len(a) = IF 1 <= n THEN n - 1 + 1 ELSE 0
      /\ \A i \in 1 .. n - 1 + 1 : a[i] = s[1 + i - 1]
  <2>1. 1 \in Int /\ n \in Int /\ \A i \in 1 .. n : s[i] \in A
    BY <1>1
  <2> QED
    BY <2>1, SubSeqProperties
<1>3. /\ b \in Seq(A) /\ Len(b) = IF n + 1 <= Len(s) THEN Len(s) - (n + 1) + 1 ELSE 0
      /\ \A i \in 1 .. Len(s) - (n + 1) + 1 : b[i] = s[n + 1 + i - 1]
  <2>1. n + 1 \in Int /\ Len(s) \in Int /\ \A i \in n + 1 .. Len(s) : s[i] \in A
    BY <1>1
  <2> QED
    BY <2>1, SubSeqProperties
<1> HIDE DEF a, b
<1>4. /\ a \in Seq(A) /\ Len(a) = n /\ \A i \in 1 .. n : a[i] = s[i]
      /\ b \in Seq(A) /\ Len(b) = Len(s) - n /\ \A i \in 1 .. Len(s) - n : b[i] = s[i + n]
  <2>1. Len(a) = n /\ Len(b) = Len(s) - n
    BY <1>1, <1>2, <1>3
  <2>2. ASSUME NEW i \in 1 .. n PROVE a[i] = s[i]
    <3>1. i \in 1 .. n - 1 + 1 /\ 1 + i - 1 = i
      BY <1>1
    <3> QED
      BY <1>2, <3>1
  <2>3. ASSUME NEW i \in 1 .. Len(s) - n PROVE b[i] = s[i + n]
    <3>1. i \in 1 .. Len(s) - (n + 1) + 1 /\ n + 1 + i - 1 = i + n
      BY <1>1
    <3> QED
      BY <1>3, <3>1
  <2> QED
    BY <1>2, <1>3, <2>1, <2>2, <2>3
<1>5. s = a \o b
  <2>1. /\ a \o b \in Seq(A) /\ Len(a \o b) = n + (Len(s) - n)
        /\ \A i \in 1 .. n + (Len(s) - n) : (a \o b)[i] = IF i <= n THEN a[i] ELSE b[i - n]
    BY <1>4, ConcatProperties
  <2>2. Len(a \o b) = Len(s)
    BY <1>1, <2>1
  <2>3. ASSUME NEW i \in 1 .. Len(s) PROVE s[i] = (a \o b)[i]
    <3>1. CASE i <= n
      BY <1>1, <1>4, <2>1, <3>1
    <3>2. CASE ~(i <= n)
      <4>1. i - n \in 1 .. Len(s) - n /\ (i - n) + n = i
        BY <1>1, <3>2
      <4> QED
        BY <1>1, <1>4, <2>1, <3>2, <4>1
    <3> QED
      BY <3>1, <3>2
  <2> QED
    BY <2>1, <2>2, <2>3, SeqEqual
<1> QED
  BY <1>4, <1>5 DEF After, a, b

\* What is left of two texts joined.
LEMMA AfterConcat ==
    ASSUME NEW A, NEW x \in Seq(A), NEW y \in Seq(A), NEW n \in 0 .. Len(x)
    PROVE  /\ After(x \o y, n) = After(x, n) \o y
           /\ SubSeq(x \o y, 1, n) = SubSeq(x, 1, n)
<1>1. Len(x) \in Nat /\ Len(y) \in Nat /\ n \in Nat /\ n <= Len(x)
  BY LenProperties
<1>2. /\ x \o y \in Seq(A) /\ Len(x \o y) = Len(x) + Len(y)
      /\ \A i \in 1 .. Len(x) + Len(y) : (x \o y)[i] = IF i <= Len(x) THEN x[i] ELSE y[i - Len(x)]
  BY ConcatProperties
<1>3. n \in 0 .. Len(x \o y)
  BY <1>1, <1>2
<1>4. /\ After(x, n) \in Seq(A) /\ SubSeq(x, 1, n) \in Seq(A)
      /\ x = SubSeq(x, 1, n) \o After(x, n) /\ Len(SubSeq(x, 1, n)) = n
      /\ \A i \in 1 .. n : SubSeq(x, 1, n)[i] = x[i]
  BY AfterCut
<1>5. /\ After(x \o y, n) \in Seq(A) /\ SubSeq(x \o y, 1, n) \in Seq(A)
      /\ x \o y = SubSeq(x \o y, 1, n) \o After(x \o y, n) /\ Len(SubSeq(x \o y, 1, n)) = n
      /\ \A i \in 1 .. n : SubSeq(x \o y, 1, n)[i] = (x \o y)[i]
  BY <1>2, <1>3, AfterCut
<1>6. SubSeq(x \o y, 1, n) = SubSeq(x, 1, n)
  <2>1. \A i \in 1 .. n : SubSeq(x \o y, 1, n)[i] = SubSeq(x, 1, n)[i]
    BY <1>1, <1>2, <1>4, <1>5
  <2> QED
    BY ONLY <1>4, <1>5, <2>1, SeqEqual
<1>7. x \o y = SubSeq(x, 1, n) \o (After(x, n) \o y)
  <2>1. ASSUME NEW a \in Seq(A), NEW b \in Seq(A), x = a \o b
        PROVE  x \o y = a \o (b \o y)
    BY <2>1, ConcatAssociative
  <2> QED
    BY ONLY <1>4, <2>1
<1>8. After(x, n) \o y \in Seq(A)
  BY <1>4, ConcatProperties
<1>9. After(x \o y, n) = After(x, n) \o y
  BY ONLY <1>4, <1>5, <1>6, <1>7, <1>8, ConcatSimplifications
<1> QED
  BY <1>6, <1>9

\* If two texts agree in full and the first parts are as long, the parts agree.
LEMMA SameCut ==
    ASSUME NEW A, NEW a \in Seq(A), NEW b \in Seq(A), NEW x \in Seq(A), NEW y \in Seq(A),
           a \o b = x \o y, Len(b) = Len(y)
    PROVE  a = x /\ b = y
<1>1. /\ Len(a) \in Nat /\ Len(b) \in Nat /\ Len(x) \in Nat /\ Len(y) \in Nat
      /\ Len(a) = Len(x)
  BY LenProperties, ConcatProperties
<1>2. /\ \A i \in 1 .. Len(a) + Len(b) : (a \o b)[i] = IF i <= Len(a) THEN a[i] ELSE b[i - Len(a)]
      /\ \A i \in 1 .. Len(x) + Len(y) : (x \o y)[i] = IF i <= Len(x) THEN x[i] ELSE y[i - Len(x)]
  BY ConcatProperties
<1>3. \A i \in 1 .. Len(a) : i \in 1 .. Len(a) + Len(b) /\ a[i] = x[i]
  BY <1>1, <1>2
<1>4. a = x
  BY ONLY <1>1, <1>3, a \in Seq(A), x \in Seq(A), SeqEqual
<1> QED
  BY <1>4, ConcatSimplifications

\* Joining associates.
Associative(A) == \A a, b, c \in Seq(A) : (a \o b) \o c = a \o (b \o c)

LEMMA JoinsAssociate ==
    ASSUME NEW A
    PROVE  Associative(A)
<1>1. ASSUME NEW a \in Seq(A), NEW b \in Seq(A), NEW c \in Seq(A)
      PROVE  (a \o b) \o c = a \o (b \o c)
  BY ConcatAssociative
<1> QED
  BY <1>1 DEF Associative

-----------------------------------------------------------------------------
(***************************************************************************)
(* Rewriting a pattern of three different symbols: what the two filters    *)
(* have in common.  R[s] is the text s with every place of the pattern     *)
(* replaced by what F makes of its first token, in one pass from the left. *)
(***************************************************************************)
PatternAt(p, s, i) ==
    i + 2 <= Len(s) /\ s[i].sym = p[1] /\ s[i + 1].sym = p[2] /\ s[i + 2].sym = p[3]

Rewrites(A, p, F, R) ==
    /\ p[1] # p[2] /\ p[1] # p[3] /\ p[2] # p[3]
    /\ F \in [A -> Seq(A)] /\ \A t \in A : Len(F[t]) <= 1
    /\ R \in [Seq(A) -> Seq(A)] /\ R[<<>>] = <<>>
    /\ \A s \in Seq(A) : s # <<>> =>
          R[s] = IF PatternAt(p, s, 1) THEN F[s[1]] \o R[After(s, 3)]
                 ELSE <<s[1]>> \o R[After(s, 1)]

\* The pattern is nowhere in s; one of its places is cut by the end of x.
PatternFree(p, s) == \A i \in 1 .. Len(s) : ~PatternAt(p, s, i)
CutsPattern(p, x, y) ==
    \E i \in 1 .. Len(x) : PatternAt(p, x \o y, i) /\ i + 2 > Len(x)

\* The first step of a rewriting.
FirstStep(A, p, F, R, s) ==
    /\ Len(s) \in Nat \ {0} /\ s[1] \in A /\ <<s[1]>> \in Seq(A) /\ R[s] \in Seq(A)
    /\ F[s[1]] \in Seq(A) /\ Len(F[s[1]]) \in {0, 1}
    /\ PatternAt(p, s, 1) =>
          3 <= Len(s) /\ After(s, 3) \in Seq(A) /\ R[After(s, 3)] \in Seq(A)
          /\ Len(After(s, 3)) = Len(s) - 3 /\ R[s] = F[s[1]] \o R[After(s, 3)]
    /\ ~PatternAt(p, s, 1) =>
          After(s, 1) \in Seq(A) /\ R[After(s, 1)] \in Seq(A)
          /\ Len(After(s, 1)) = Len(s) - 1 /\ R[s] = <<s[1]>> \o R[After(s, 1)]
    /\ s = <<s[1]>> \o After(s, 1)

LEMMA RewriteFirst ==
    ASSUME NEW A, NEW p, NEW F, NEW R, Rewrites(A, p, F, R), NEW s \in Seq(A), s # <<>>
    PROVE  FirstStep(A, p, F, R, s)
<1>1. Len(s) \in Nat \ {0}
  BY EmptySeq
<1>2. 1 \in 1 .. Len(s)
  BY <1>1
<1>3. s[1] \in A
  BY <1>2, ElementOfSeq
<1>4. <<s[1]>> \in Seq(A) /\ Len(<<s[1]>>) = 1 /\ <<s[1]>>[1] = s[1]
  BY <1>3
<1>5. F[s[1]] \in Seq(A) /\ Len(F[s[1]]) <= 1
  BY <1>3 DEF Rewrites
<1>6. Len(F[s[1]]) \in {0, 1}
  <2>1. Len(F[s[1]]) \in Nat
    BY ONLY <1>5, LenProperties
  <2>2. \A k \in Nat : k <= 1 => k \in {0, 1}
    OBVIOUS
  <2> QED
    BY ONLY <1>5, <2>1, <2>2
<1>7. /\ After(s, 1) \in Seq(A) /\ Len(After(s, 1)) = Len(s) - 1
      /\ SubSeq(s, 1, 1) \in Seq(A) /\ Len(SubSeq(s, 1, 1)) = 1
      /\ SubSeq(s, 1, 1)[1] = s[1] /\ s = SubSeq(s, 1, 1) \o After(s, 1)
  <2>1. 1 \in 0 .. Len(s) /\ 1 \in 1 .. 1
    BY <1>1
  <2> QED
    BY <2>1, AfterCut
<1>8. SubSeq(s, 1, 1) = <<s[1]>>
  <2>1. \A i \in 1 .. 1 : SubSeq(s, 1, 1)[i] = <<s[1]>>[i]
    BY <1>4, <1>7
  <2> QED
    BY ONLY <1>4, <1>7, <2>1, SeqEqual
<1>9. PatternAt(p, s, 1) => 3 <= Len(s) /\ After(s, 3) \in Seq(A) /\ Len(After(s, 3)) = Len(s) - 3
  <2>1. SUFFICES ASSUME PatternAt(p, s, 1)
                 PROVE  3 <= Len(s) /\ After(s, 3) \in Seq(A) /\ Len(After(s, 3)) = Len(s) - 3
    OBVIOUS
  <2>2. 3 \in 0 .. Len(s)
    BY <1>1, <2>1 DEF PatternAt
  <2> QED
    BY <2>2, AfterCut
<1>10. R \in [Seq(A) -> Seq(A)]
       /\ R[s] = IF PatternAt(p, s, 1) THEN F[s[1]] \o R[After(s, 3)] ELSE <<s[1]>> \o R[After(s, 1)]
  BY DEF Rewrites
<1>11. s = <<s[1]>> \o After(s, 1)
  BY ONLY <1>7, <1>8
<1>12. PatternAt(p, s, 1) => R[After(s, 3)] \in Seq(A) /\ R[s] = F[s[1]] \o R[After(s, 3)]
  BY ONLY <1>9, <1>10
<1>13. ~PatternAt(p, s, 1) => R[After(s, 1)] \in Seq(A) /\ R[s] = <<s[1]>> \o R[After(s, 1)]
  BY ONLY <1>7, <1>10
<1>14. R[s] \in Seq(A)
  BY ONLY <1>10, s \in Seq(A)
<1> QED
  BY ONLY <1>1, <1>3, <1>4, <1>5, <1>6, <1>7, <1>9, <1>11, <1>12, <1>13, <1>14 DEF FirstStep

\* Where the pattern is in the joined texts.
LEMMA PatternInJoin ==
    ASSUME NEW A, NEW p, NEW x \in Seq(A), NEW y \in Seq(A), NEW i \in Nat \ {0}
    PROVE  /\ i + 2 <= Len(x) => (PatternAt(p, x \o y, i) <=> PatternAt(p, x, i))
           /\ i > Len(x) => (PatternAt(p, x \o y, i) <=> PatternAt(p, y, i - Len(x)))
           /\ PatternAt(p, x, i) => PatternAt(p, x \o y, i)
           /\ PatternAt(p, x, i) => i \in 1 .. Len(x)
<1>1. /\ Len(x) \in Nat /\ Len(y) \in Nat /\ Len(x \o y) = Len(x) + Len(y)
      /\ \A k \in 1 .. Len(x) + Len(y) : (x \o y)[k] = IF k <= Len(x) THEN x[k] ELSE y[k - Len(x)]
  BY LenProperties, ConcatProperties
<1>2. i + 2 <= Len(x) => (PatternAt(p, x \o y, i) <=> PatternAt(p, x, i))
  BY <1>1 DEF PatternAt
<1>3. i > Len(x) => (PatternAt(p, x \o y, i) <=> PatternAt(p, y, i - Len(x)))
  <2> SUFFICES ASSUME i > Len(x) PROVE PatternAt(p, x \o y, i) <=> PatternAt(p, y, i - Len(x))
    OBVIOUS
  <2>1. CASE i + 2 <= Len(x) + Len(y)
    <3>1. /\ (x \o y)[i] = y[i - Len(x)] /\ (x \o y)[i + 1] = y[i + 1 - Len(x)]
          /\ (x \o y)[i + 2] = y[i + 2 - Len(x)]
      BY <1>1, <2>1
    <3>2. /\ i + 1 - Len(x) = (i - Len(x)) + 1 /\ i + 2 - Len(x) = (i - Len(x)) + 2
          /\ (i - Len(x)) + 2 <= Len(y) /\ i + 2 <= Len(x \o y)
      BY <1>1, <2>1
    <3> QED
      BY ONLY <3>1, <3>2 DEF PatternAt
  <2>2. CASE ~(i + 2 <= Len(x) + Len(y))
    BY <1>1, <2>2 DEF PatternAt
  <2> QED
    BY <2>1, <2>2
<1>4. PatternAt(p, x, i) => i + 2 <= Len(x)
  BY DEF PatternAt
<1>5. i + 2 <= Len(x) => i \in 1 .. Len(x)
  BY <1>1
<1> QED
  BY ONLY <1>2, <1>3, <1>4, <1>5

\* A join without the pattern has parts without it.
LEMMA FreeParts ==
    ASSUME NEW A, NEW p, NEW x \in Seq(A), NEW y \in Seq(A), PatternFree(p, x \o y)
    PROVE  PatternFree(p, x) /\ PatternFree(p, y)
<1>1. Len(x) \in Nat /\ Len(y) \in Nat /\ Len(x \o y) = Len(x) + Len(y)
  BY LenProperties, ConcatProperties
<1>2. ASSUME NEW i \in 1 .. Len(x) PROVE ~PatternAt(p, x, i)
  <2>1. i \in Nat \ {0} /\ i \in 1 .. Len(x \o y)
    BY <1>1
  <2> QED
    BY <2>1, PatternInJoin DEF PatternFree
<1>3. ASSUME NEW i \in 1 .. Len(y) PROVE ~PatternAt(p, y, i)
  <2>1. i + Len(x) \in Nat \ {0} /\ i + Len(x) \in 1 .. Len(x \o y) /\ i + Len(x) > Len(x)
        /\ (i + Len(x)) - Len(x) = i
    BY <1>1
  <2>2. PatternAt(p, x \o y, i + Len(x)) <=> PatternAt(p, y, (i + Len(x)) - Len(x))
    BY ONLY <2>1, PatternInJoin, x \in Seq(A), y \in Seq(A)
  <2> QED
    BY <2>1, <2>2 DEF PatternFree
<1> QED
  BY <1>2, <1>3 DEF PatternFree

\* A text cut where no place of the pattern is cut is rewritten part by part.
PartByPart(A, p, R) ==
    \A x, y \in Seq(A) : ~CutsPattern(p, x, y) => R[x \o y] = R[x] \o R[y]

LEMMA RewriteJoin ==
    ASSUME NEW A, NEW p, NEW F, NEW R, Rewrites(A, p, F, R)
    PROVE  PartByPart(A, p, R)
<1> DEFINE Joins(x, y) == ~CutsPattern(p, x, y) => R[x \o y] = R[x] \o R[y]
           T == {n \in Nat : \A x, y \in Seq(A) : Len(x) < n => Joins(x, y)}
<1>r. R \in [Seq(A) -> Seq(A)] /\ R[<<>>] = <<>>
  BY DEF Rewrites
<1>1. 0 \in T
  <2>1. \A x \in Seq(A) : ~(Len(x) < 0)
    BY LenProperties
  <2> QED
    BY <2>1
<1>2. ASSUME NEW n \in Nat, n \in T
      PROVE  n + 1 \in T
  <2>1. ASSUME NEW x \in Seq(A), NEW y \in Seq(A), Len(x) < n + 1, ~CutsPattern(p, x, y)
        PROVE  R[x \o y] = R[x] \o R[y]
    <3>1. CASE x = <<>>
      <4>1. x \o y = y
        BY <3>1, ConcatEmptySeq
      <4>2. R[y] \in Seq(A)
        BY <1>r
      <4>3. <<>> \o R[y] = R[y]
        BY <4>2, ConcatEmptySeq
      <4> QED
        BY <1>r, <3>1, <4>1, <4>3
    <3>2. CASE x # <<>>
      <4> DEFINE xy == x \o y
      <4>1. /\ xy \in Seq(A) /\ Len(xy) = Len(x) + Len(y) /\ Len(y) \in Nat
            /\ \A k \in 1 .. Len(x) + Len(y) : xy[k] = IF k <= Len(x) THEN x[k] ELSE y[k - Len(x)]
        BY ConcatProperties, LenProperties
      <4> HIDE DEF xy
      <4>2. /\ Len(x) \in Nat \ {0} /\ x[1] \in A /\ <<x[1]>> \in Seq(A) /\ R[x] \in Seq(A)
            /\ F[x[1]] \in Seq(A)
            /\ PatternAt(p, x, 1) =>
                  3 <= Len(x) /\ After(x, 3) \in Seq(A) /\ R[After(x, 3)] \in Seq(A)
                  /\ Len(After(x, 3)) = Len(x) - 3 /\ R[x] = F[x[1]] \o R[After(x, 3)]
            /\ ~PatternAt(p, x, 1) =>
                  After(x, 1) \in Seq(A) /\ R[After(x, 1)] \in Seq(A)
                  /\ Len(After(x, 1)) = Len(x) - 1 /\ R[x] = <<x[1]>> \o R[After(x, 1)]
        <5>1. FirstStep(A, p, F, R, x)
          BY <3>2, RewriteFirst
        <5> QED
          BY ONLY <5>1 DEF FirstStep
      <4>3. Len(xy) # 0
        BY <4>1, <4>2
      <4>4. xy # <<>>
        BY <4>3, EmptySeq
      <4>5. /\ PatternAt(p, xy, 1) => R[xy] = F[xy[1]] \o R[After(xy, 3)]
            /\ ~PatternAt(p, xy, 1) => R[xy] = <<xy[1]>> \o R[After(xy, 1)]
        <5>1. FirstStep(A, p, F, R, xy)
          BY <4>1, <4>4, RewriteFirst
        <5> QED
          BY ONLY <5>1 DEF FirstStep
      <4>6. xy[1] = x[1]
        BY <4>1, <4>2
      <4>7. PatternAt(p, xy, 1) <=> PatternAt(p, x, 1)
        <5>1. 1 \in Nat \ {0} /\ 1 \in 1 .. Len(x)
          BY <4>2
        <5>2. PatternAt(p, x, 1) => PatternAt(p, xy, 1)
          BY <5>1, PatternInJoin DEF xy
        <5>3. 1 + 2 <= Len(x) => (PatternAt(p, xy, 1) <=> PatternAt(p, x, 1))
          BY <5>1, PatternInJoin DEF xy
        <5>4. PatternAt(p, xy, 1) => 1 + 2 <= Len(x)
          <6>1. ~(PatternAt(p, xy, 1) /\ 1 + 2 > Len(x))
            BY ONLY <2>1, <5>1 DEF CutsPattern, xy
          <6> QED
            BY <4>2, <6>1
        <5> QED
          BY <5>2, <5>3, <5>4
      <4>8. ASSUME NEW m \in {1, 3}, m <= Len(x), After(x, m) \in Seq(A),
                   Len(After(x, m)) = Len(x) - m
            PROVE  /\ After(xy, m) = After(x, m) \o y
                   /\ R[After(xy, m)] = R[After(x, m)] \o R[y]
        <5>1. m \in 0 .. Len(x)
          BY <4>2, <4>8
        <5>2. After(xy, m) = After(x, m) \o y
          BY <5>1, AfterConcat DEF xy
        <5>3. Len(After(x, m)) < n
          BY <2>1, <4>2, <4>8
        <5>4. ~CutsPattern(p, After(x, m), y)
          <6>1. SUFFICES ASSUME NEW i \in 1 .. Len(After(x, m)),
                                PatternAt(p, After(x, m) \o y, i), i + 2 > Len(After(x, m))
                         PROVE  FALSE
            BY DEF CutsPattern
          <6>2. /\ SubSeq(xy, 1, m) \in Seq(A) /\ After(xy, m) \in Seq(A)
                /\ Len(SubSeq(xy, 1, m)) = m /\ xy = SubSeq(xy, 1, m) \o After(xy, m)
            <7>1. m \in 0 .. Len(xy)
              BY <4>1, <4>2, <4>8
            <7> QED
              BY SMTT(30), <4>1, <7>1, AfterCut
          <6>3. i + m \in Nat \ {0} /\ i + m > m /\ (i + m) - m = i /\ i + m \in 1 .. Len(x)
                /\ (i + m) + 2 > Len(x)
            BY <4>2, <4>8, <6>1
          <6>4. ASSUME NEW a \in Seq(A), NEW b \in Seq(A), Len(a) = m, xy = a \o b,
                       PatternAt(p, b, i)
                PROVE  PatternAt(p, xy, i + m)
            <7>1. PatternAt(p, a \o b, i + m) <=> PatternAt(p, b, (i + m) - Len(a))
              BY <6>3, <6>4, PatternInJoin
            <7> QED
              BY <6>3, <6>4, <7>1
          <6>5. PatternAt(p, After(xy, m), i)
            BY <5>2, <6>1
          <6>6. PatternAt(p, xy, i + m)
            BY ONLY <6>2, <6>4, <6>5
          <6> QED
            BY ONLY <2>1, <6>3, <6>6 DEF CutsPattern, xy
        <5>5. R[After(x, m) \o y] = R[After(x, m)] \o R[y]
          <6>1. Joins(After(x, m), y)
            <7> HIDE DEF Joins
            <7> QED
              BY <1>2, <4>8, <5>3
          <6> QED
            BY <5>4, <6>1
        <5> QED
          BY <5>2, <5>5
      <4>9. R[y] \in Seq(A)
        BY <1>r
      <4>10. CASE PatternAt(p, x, 1)
        <5>1. R[After(xy, 3)] = R[After(x, 3)] \o R[y]
          <6>1. 3 \in {1, 3} /\ 3 <= Len(x)
            BY <4>2, <4>10
          <6> QED
            BY <4>2, <4>8, <4>10, <6>1
        <5>2. R[xy] = F[x[1]] \o (R[After(x, 3)] \o R[y])
          BY <4>5, <4>6, <4>7, <4>10, <5>1
        <5>3. F[x[1]] \o (R[After(x, 3)] \o R[y]) = (F[x[1]] \o R[After(x, 3)]) \o R[y]
          <6>1. F[x[1]] \in Seq(A) /\ R[After(x, 3)] \in Seq(A)
            BY <4>2, <4>10
          <6>2. \A a, b, c \in Seq(A) : a \o (b \o c) = (a \o b) \o c
            BY ONLY SMTT(30), ConcatAssociative
          <6> QED
            BY ONLY <4>9, <6>1, <6>2
        <5> QED
          BY <4>2, <4>10, <5>2, <5>3 DEF xy
      <4>11. CASE ~PatternAt(p, x, 1)
        <5>1. R[After(xy, 1)] = R[After(x, 1)] \o R[y]
          <6>1. 1 \in {1, 3} /\ 1 <= Len(x)
            BY <4>2
          <6> QED
            BY <4>2, <4>8, <4>11, <6>1
        <5>2. R[xy] = <<x[1]>> \o (R[After(x, 1)] \o R[y])
          BY <4>5, <4>6, <4>7, <4>11, <5>1
        <5>3. <<x[1]>> \o (R[After(x, 1)] \o R[y]) = (<<x[1]>> \o R[After(x, 1)]) \o R[y]
          <6>1. <<x[1]>> \in Seq(A) /\ R[After(x, 1)] \in Seq(A)
            BY <4>2, <4>11
          <6>2. \A a, b, c \in Seq(A) : a \o (b \o c) = (a \o b) \o c
            BY ONLY SMTT(30), ConcatAssociative
          <6> QED
            BY ONLY <4>9, <6>1, <6>2
        <5> QED
          BY <4>2, <4>11, <5>2, <5>3 DEF xy
      <4> QED
        BY <4>10, <4>11
    <3> QED
      BY <3>1, <3>2
  <2>2. ASSUME NEW x \in Seq(A), NEW y \in Seq(A), Len(x) < n + 1
        PROVE  Joins(x, y)
    BY <2>1, <2>2
  <2> HIDE DEF Joins
  <2> QED
    BY <2>2
<1>3. Nat \subseteq T
  <2> HIDE DEF T
  <2> QED
    BY <1>1, <1>2, AllNaturals
<1> SUFFICES ASSUME NEW x \in Seq(A), NEW y \in Seq(A), ~CutsPattern(p, x, y)
             PROVE  R[x \o y] = R[x] \o R[y]
  BY DEF PartByPart
<1>4. Len(x) + 1 \in Nat /\ Len(x) < Len(x) + 1
  BY LenProperties
<1>5. Len(x) + 1 \in T
  BY <1>3, <1>4
<1>6. Joins(x, y)
  <2> HIDE DEF Joins
  <2> QED
    BY <1>4, <1>5
<1> QED
  BY <1>6

\* Without the pattern nothing changes, with it the text becomes shorter.
LEMMA RewriteShortens ==
    ASSUME NEW A, NEW p, NEW F, NEW R, Rewrites(A, p, F, R)
    PROVE  \A s \in Seq(A) : IF PatternFree(p, s) THEN R[s] = s ELSE Len(R[s]) < Len(s)
<1> DEFINE Right(s) == /\ PatternFree(p, s) => R[s] = s
                       /\ ~PatternFree(p, s) => Len(R[s]) < Len(s)
           T == {n \in Nat : \A s \in Seq(A) : Len(s) < n => Right(s)}
<1>r. R \in [Seq(A) -> Seq(A)] /\ R[<<>>] = <<>>
  BY DEF Rewrites
<1>1. 0 \in T
  <2>1. \A x \in Seq(A) : ~(Len(x) < 0)
    BY LenProperties
  <2> QED
    BY <2>1
<1>2. ASSUME NEW n \in Nat, n \in T
      PROVE  n + 1 \in T
  <2>1. ASSUME NEW s \in Seq(A), Len(s) < n + 1
        PROVE  Right(s)
    <3>1. CASE s = <<>>
      <4>1. Len(s) = 0
        BY <3>1
      <4> QED
        BY <1>r, <3>1, <4>1 DEF PatternFree
    <3>2. CASE s # <<>>
      <4>1. /\ Len(s) \in Nat \ {0} /\ s[1] \in A /\ <<s[1]>> \in Seq(A) /\ R[s] \in Seq(A)
            /\ F[s[1]] \in Seq(A) /\ Len(F[s[1]]) \in {0, 1}
            /\ PatternAt(p, s, 1) =>
                  3 <= Len(s) /\ After(s, 3) \in Seq(A) /\ R[After(s, 3)] \in Seq(A)
                  /\ Len(After(s, 3)) = Len(s) - 3 /\ R[s] = F[s[1]] \o R[After(s, 3)]
            /\ ~PatternAt(p, s, 1) =>
                  After(s, 1) \in Seq(A) /\ R[After(s, 1)] \in Seq(A)
                  /\ Len(After(s, 1)) = Len(s) - 1 /\ R[s] = <<s[1]>> \o R[After(s, 1)]
            /\ s = <<s[1]>> \o After(s, 1)
        <5>1. FirstStep(A, p, F, R, s)
          BY <3>2, RewriteFirst
        <5> QED
          BY ONLY <5>1 DEF FirstStep
      <4>2. CASE PatternAt(p, s, 1)
        <5>1. ~PatternFree(p, s)
          <6>1. 1 \in 1 .. Len(s)
            BY <4>1
          <6> QED
            BY <4>2, <6>1 DEF PatternFree
        <5>2. Right(After(s, 3))
          <6>1. After(s, 3) \in Seq(A) /\ Len(After(s, 3)) < n
            BY <2>1, <4>1, <4>2
          <6> HIDE DEF Right
          <6> QED
            BY <1>2, <6>1
        <5>3. Len(R[After(s, 3)]) <= Len(After(s, 3)) /\ Len(R[After(s, 3)]) \in Nat
          <6>1. Len(R[After(s, 3)]) \in Nat /\ Len(After(s, 3)) \in Nat
            BY <4>1, <4>2, LenProperties
          <6> QED
            BY <5>2, <6>1
        <5>4. Len(R[s]) = Len(F[s[1]]) + Len(R[After(s, 3)])
          <6>1. F[s[1]] \in Seq(A) /\ R[After(s, 3)] \in Seq(A) /\ R[s] = F[s[1]] \o R[After(s, 3)]
            BY <4>1, <4>2
          <6>2. \A a, b \in Seq(A) : Len(a \o b) = Len(a) + Len(b)
            BY ConcatProperties
          <6> QED
            BY ONLY <6>1, <6>2
        <5>5. Len(R[s]) < Len(s)
          <6>1. /\ Len(s) \in Nat /\ Len(F[s[1]]) \in {0, 1} /\ Len(After(s, 3)) = Len(s) - 3
            BY <4>1, <4>2
          <6> QED
            <7>1. PICK f \in {0, 1} : f = Len(F[s[1]])
              BY <6>1
            <7>2. PICK r \in Nat : r = Len(R[After(s, 3)])
              BY <5>3
            <7>3. PICK l \in Nat : l = Len(s)
              BY <6>1
            <7>4. f + r < l
              <8>1. r <= l - 3
                BY ONLY <5>3, <6>1, <7>2, <7>3
              <8> QED
                BY ONLY <8>1, f \in {0, 1}, r \in Nat, l \in Nat
            <7> QED
              BY ONLY <5>4, <7>1, <7>2, <7>3, <7>4
        <5> QED
          BY <5>1, <5>5
      <4>3. CASE ~PatternAt(p, s, 1)
        <5>1. Right(After(s, 1)) /\ After(s, 1) \in Seq(A)
          <6>1. After(s, 1) \in Seq(A) /\ Len(After(s, 1)) < n
            BY <2>1, <4>1, <4>3
          <6> HIDE DEF Right
          <6> QED
            BY <1>2, <6>1
        <5>2. CASE PatternFree(p, s)
          <6>1. PatternFree(p, After(s, 1))
            <7>1. ASSUME NEW a \in Seq(A), NEW b \in Seq(A), s = a \o b
                  PROVE  PatternFree(p, b)
              BY <5>2, <7>1, FreeParts
            <7> QED
              BY ONLY <4>1, <5>1, <7>1
          <6>2. R[After(s, 1)] = After(s, 1)
            BY <5>1, <6>1
          <6> QED
            BY <4>1, <4>3, <5>2, <6>2
        <5>3. CASE ~PatternFree(p, s)
          <6>1. ~PatternFree(p, After(s, 1))
            <7>1. PICK i \in 1 .. Len(s) : PatternAt(p, s, i)
              BY <5>3 DEF PatternFree
            <7>2. i # 1
              BY <4>3, <7>1
            <7>3. /\ i - 1 \in 1 .. Len(After(s, 1)) /\ i > 1 /\ i \in Nat \ {0}
              BY <4>1, <4>3, <7>1, <7>2
            <7>4. ASSUME NEW a \in Seq(A), NEW b \in Seq(A), s = a \o b, Len(a) = 1
                  PROVE  PatternAt(p, b, i - 1)
              <8>1. PatternAt(p, a \o b, i) <=> PatternAt(p, b, i - Len(a))
                BY <7>3, <7>4, PatternInJoin
              <8> QED
                BY <7>1, <7>4, <8>1
            <7>5. Len(<<s[1]>>) = 1
              OBVIOUS
            <7>6. PatternAt(p, After(s, 1), i - 1)
              BY ONLY <4>1, <5>1, <7>4, <7>5
            <7> QED
              BY <7>3, <7>6 DEF PatternFree
          <6>2. Len(R[After(s, 1)]) < Len(After(s, 1))
            BY <5>1, <6>1
          <6>3. Len(R[s]) = 1 + Len(R[After(s, 1)]) /\ Len(R[After(s, 1)]) \in Nat
            <7>1. Len(<<s[1]>>) = 1
              OBVIOUS
            <7> QED
              BY SMTT(30), <4>1, <4>3, <7>1, ConcatProperties, LenProperties
          <6>4. Len(R[s]) < Len(s)
            BY <4>1, <4>3, <6>2, <6>3
          <6> QED
            BY <5>3, <6>4
        <5> QED
          BY <5>2, <5>3
      <4> QED
        BY <4>2, <4>3
    <3> QED
      BY <3>1, <3>2
  <2> HIDE DEF Right
  <2> QED
    BY <2>1
<1>3. Nat \subseteq T
  <2> HIDE DEF T
  <2> QED
    BY <1>1, <1>2, AllNaturals
<1> SUFFICES ASSUME NEW s \in Seq(A)
             PROVE  IF PatternFree(p, s) THEN R[s] = s ELSE Len(R[s]) < Len(s)
  OBVIOUS
<1>4. Len(s) + 1 \in Nat /\ Len(s) < Len(s) + 1
  BY LenProperties
<1>5. Len(s) + 1 \in T
  BY <1>3, <1>4
<1>6. Right(s)
  <2> HIDE DEF Right
  <2> QED
    BY <1>4, <1>5
<1> QED
  BY <1>6

\* So a text is left alone exactly if the pattern is nowhere in it.
LEMMA StableIsFree ==
    ASSUME NEW A, NEW p, NEW F, NEW R, Rewrites(A, p, F, R), NEW s \in Seq(A)
    PROVE  R[s] = s <=> PatternFree(p, s)
<1>1. IF PatternFree(p, s) THEN R[s] = s ELSE Len(R[s]) < Len(s)
  BY RewriteShortens
<1>2. Len(s) \in Nat
  BY LenProperties
<1> QED
  BY <1>1, <1>2

-----------------------------------------------------------------------------
(***************************************************************************)
(* A filter that holds back what may still become the pattern.             *)
(***************************************************************************)
\* A text that the pattern starts with.
Started(p, h) ==
    \/ Len(h) = 1 /\ h[1].sym = p[1]
    \/ Len(h) = 2 /\ h[1].sym = p[1] /\ h[2].sym = p[2]

\* The filter sends out of the text s and holds back the rest.
HoldsBack(A, p, s, out_, held) ==
    /\ s = out_ \o held
    /\ \/ Started(p, held)
       \/ held = <<>> /\ \A f, h \in Seq(A) : s = f \o h => ~Started(p, h)

\* What was sent and what is held back follow the text fed so far.
Follows(A, p, R, text, sent, held) ==
    /\ held = <<>> \/ Started(p, held)
    /\ \A f, h \in Seq(A) : text = f \o h /\ Started(p, h) => held = h
    /\ R[R[text]] = R[text] => sent \o held = R[text]

LEMMA StartedFree ==
    ASSUME NEW A, NEW p, NEW F, NEW R, Rewrites(A, p, F, R),
           NEW h \in Seq(A), h = <<>> \/ Started(p, h)
    PROVE  PatternFree(p, h) /\ R[h] = h
<1>1. Len(h) \in {0, 1, 2}
  <2>1. CASE h = <<>>
    BY <2>1, EmptySeq
  <2>2. CASE Started(p, h)
    BY <2>2 DEF Started
  <2> QED
    BY <2>1, <2>2
<1>2. ASSUME NEW i \in 1 .. Len(h), i + 2 <= Len(h)
      PROVE  FALSE
  <2>1. CASE Len(h) = 0
    BY <1>2, <2>1
  <2>2. CASE Len(h) = 1
    BY <1>2, <2>2
  <2>3. CASE Len(h) = 2
    BY <1>2, <2>3
  <2> QED
    BY <1>1, <2>1, <2>2, <2>3
<1>3. PatternFree(p, h)
  BY <1>2 DEF PatternFree, PatternAt
<1> QED
  BY <1>3, StableIsFree

\* A text without the pattern can be followed by the beginning of one.
LEMMA FreeThenStarted ==
    ASSUME NEW A, NEW p, NEW F, NEW R, Rewrites(A, p, F, R),
           NEW x \in Seq(A), NEW h \in Seq(A), PatternFree(p, x), Started(p, h)
    PROVE  PatternFree(p, x \o h)
<1>1. /\ Len(x) \in Nat /\ Len(h) \in {1, 2} /\ Len(x \o h) = Len(x) + Len(h)
      /\ \A k \in 1 .. Len(x) + Len(h) : (x \o h)[k] = IF k <= Len(x) THEN x[k] ELSE h[k - Len(x)]
  BY LenProperties, ConcatProperties DEF Started
<1>2. ASSUME NEW i \in 1 .. Len(x \o h), PatternAt(p, x \o h, i)
      PROVE  FALSE
  <2>1. i \in Nat \ {0} /\ i + 2 <= Len(x) + Len(h) /\ (x \o h)[i + 2].sym = p[3]
    BY <1>1, <1>2 DEF PatternAt
  <2>2. CASE i + 2 <= Len(x)
    <3>1. i \in 1 .. Len(x) /\ PatternAt(p, x, i)
      BY <1>1, <1>2, <2>1, <2>2, PatternInJoin
    <3> QED
      BY <3>1 DEF PatternFree
  <2>3. CASE ~(i + 2 <= Len(x))
    <3>1. /\ i + 2 \in 1 .. Len(x) + Len(h) /\ i + 2 - Len(x) \in {1, 2}
          /\ i + 2 - Len(x) <= Len(h)
      BY <1>1, <2>1, <2>3
    <3>2. (x \o h)[i + 2] = h[i + 2 - Len(x)]
      BY <1>1, <2>3, <3>1
    <3>3. \A k \in {1, 2} : k <= Len(h) => h[k].sym # p[3]
      BY DEF Started, Rewrites
    <3> QED
      BY ONLY <2>1, <3>1, <3>2, <3>3
  <2> QED
    BY <2>2, <2>3
<1> QED
  BY <1>2 DEF PatternFree

\* A cut before the beginning of a pattern cuts none.
LEMMA NoCutBeforeStarted ==
    ASSUME NEW A, NEW p, NEW F, NEW R, Rewrites(A, p, F, R),
           NEW x \in Seq(A), NEW h \in Seq(A), Started(p, h), NEW y \in Seq(A)
    PROVE  ~CutsPattern(p, x, h \o y)
<1> DEFINE hy == h \o y
<1>1. /\ Len(h) \in {1, 2} /\ Len(y) \in Nat /\ hy \in Seq(A) /\ Len(hy) = Len(h) + Len(y)
      /\ \A k \in 1 .. Len(h) + Len(y) : hy[k] = IF k <= Len(h) THEN h[k] ELSE y[k - Len(h)]
  BY LenProperties, ConcatProperties DEF Started
<1> HIDE DEF hy
<1>2. hy[1].sym = p[1]
  <2>1. hy[1] = h[1]
    BY <1>1
  <2> QED
    BY ONLY <2>1, Started(p, h) DEF Started
<1>3. /\ Len(x) \in Nat /\ Len(x \o hy) = Len(x) + Len(hy)
      /\ \A k \in 1 .. Len(x) + Len(hy) : (x \o hy)[k] = IF k <= Len(x) THEN x[k] ELSE hy[k - Len(x)]
  <2>1. hy \in Seq(A)
    BY <1>1
  <2>2. Len(x) \in Nat
    BY LenProperties
  <2> QED
    BY ONLY <2>1, <2>2, x \in Seq(A), ConcatProperties
<1>4. (x \o hy)[Len(x) + 1] = hy[1]
  <2>1. Len(hy) \in Nat \ {0}
    <3>1. \A m \in {1, 2}, n \in Nat : m + n \in Nat \ {0}
      OBVIOUS
    <3> QED
      BY ONLY <1>1, <3>1
  <2>2. \A m \in Nat, n \in Nat \ {0} : m + 1 \in 1 .. m + n /\ ~(m + 1 <= m) /\ m + 1 - m = 1
    OBVIOUS
  <2>3. /\ Len(x) + 1 \in 1 .. Len(x) + Len(hy) /\ ~(Len(x) + 1 <= Len(x))
        /\ Len(x) + 1 - Len(x) = 1
    BY ONLY <1>3, <2>1, <2>2
  <2> QED
    BY ONLY <1>3, <2>3
<1>5. ASSUME NEW i \in 1 .. Len(x), PatternAt(p, x \o hy, i), i + 2 > Len(x)
      PROVE  FALSE
  <2>1. Len(x) + 1 = i + 1 \/ Len(x) + 1 = i + 2
    BY SMTT(30), <1>3, <1>5
  <2>2. (x \o hy)[i + 1].sym = p[2] /\ (x \o hy)[i + 2].sym = p[3]
    BY ONLY <1>5 DEF PatternAt
  <2>3. p[1] # p[2] /\ p[1] # p[3]
    BY DEF Rewrites
  <2> QED
    BY ONLY <1>2, <1>4, <2>1, <2>2, <2>3
<1> QED
  BY <1>5 DEF CutsPattern, hy

\* A text in which a place of the pattern is cut ends with the beginning of it.
LEMMA CutAfterStarted ==
    ASSUME NEW A, NEW p, NEW x \in Seq(A), NEW y \in Seq(A), CutsPattern(p, x, y)
    PROVE  \E f, h \in Seq(A) : x = f \o h /\ Started(p, h)
<1>1. PICK i \in 1 .. Len(x) : PatternAt(p, x \o y, i) /\ i + 2 > Len(x)
  BY DEF CutsPattern
<1>2. /\ Len(x) \in Nat /\ Len(y) \in Nat /\ Len(x \o y) = Len(x) + Len(y)
      /\ \A k \in 1 .. Len(x) + Len(y) : (x \o y)[k] = IF k <= Len(x) THEN x[k] ELSE y[k - Len(x)]
  BY LenProperties, ConcatProperties
<1>3. i - 1 \in 0 .. Len(x) /\ i \in Nat \ {0}
  BY <1>1, <1>2
<1>4. /\ After(x, i - 1) \in Seq(A) /\ SubSeq(x, 1, i - 1) \in Seq(A)
      /\ Len(After(x, i - 1)) = Len(x) - (i - 1)
      /\ \A k \in 1 .. Len(x) - (i - 1) : After(x, i - 1)[k] = x[k + (i - 1)]
      /\ x = SubSeq(x, 1, i - 1) \o After(x, i - 1)
  BY SMTT(30), <1>3, AfterCut
<1>5. Started(p, After(x, i - 1))
  <2>1. (x \o y)[i].sym = p[1] /\ (x \o y)[i + 1].sym = p[2] /\ i + 2 <= Len(x) + Len(y)
    BY <1>1, <1>2 DEF PatternAt
  <2>2. (x \o y)[i] = x[i] /\ After(x, i - 1)[1] = x[i]
    <3>1. 1 \in 1 .. Len(x) - (i - 1) /\ 1 + (i - 1) = i /\ i \in 1 .. Len(x) + Len(y) /\ i <= Len(x)
      BY <1>1, <1>2, <1>3
    <3> QED
      BY ONLY <1>2, <1>4, <3>1
  <2>3. CASE i = Len(x)
    <3>1. Len(After(x, i - 1)) = 1
      BY <1>2, <1>4, <2>3
    <3> QED
      BY ONLY <2>1, <2>2, <3>1 DEF Started
  <2>4. CASE i # Len(x)
    <3>1. /\ Len(x) - (i - 1) = 2 /\ 2 \in 1 .. Len(x) - (i - 1) /\ 2 + (i - 1) = i + 1
          /\ i + 1 \in 1 .. Len(x) + Len(y) /\ i + 1 <= Len(x)
      BY <1>1, <1>2, <1>3, <2>4
    <3>2. (x \o y)[i + 1] = x[i + 1] /\ After(x, i - 1)[2] = x[i + 1]
      BY ONLY <1>2, <1>4, <3>1
    <3> QED
      BY ONLY <1>4, <2>1, <2>2, <3>1, <3>2 DEF Started
  <2> QED
    BY <2>3, <2>4
<1> QED
  BY <1>4, <1>5

\* A text ends with the beginning of a pattern in one way at most.
LEMMA StartedUnique ==
    ASSUME NEW A, NEW p, NEW F, NEW R, Rewrites(A, p, F, R),
           NEW f \in Seq(A), NEW h \in Seq(A), NEW g \in Seq(A), NEW k \in Seq(A),
           f \o h = g \o k, Started(p, h), Started(p, k)
    PROVE  h = k
<1>1. /\ Len(f) \in Nat /\ Len(g) \in Nat /\ Len(h) \in {1, 2} /\ Len(k) \in {1, 2}
      /\ Len(f) + Len(h) = Len(g) + Len(k)
  BY LenProperties, ConcatProperties DEF Started
<1>2. /\ \A i \in 1 .. Len(f) + Len(h) : (f \o h)[i] = IF i <= Len(f) THEN f[i] ELSE h[i - Len(f)]
      /\ \A i \in 1 .. Len(g) + Len(k) : (g \o k)[i] = IF i <= Len(g) THEN g[i] ELSE k[i - Len(g)]
  BY ConcatProperties
<1>3. (f \o h)[Len(f) + Len(h)] = h[Len(h)] /\ (g \o k)[Len(g) + Len(k)] = k[Len(k)]
  <2>1. \A m \in Nat, n \in {1, 2} : m + n \in 1 .. m + n /\ ~(m + n <= m) /\ m + n - m = n
    OBVIOUS
  <2>2. /\ Len(f) + Len(h) \in 1 .. Len(f) + Len(h) /\ ~(Len(f) + Len(h) <= Len(f))
        /\ Len(f) + Len(h) - Len(f) = Len(h)
    BY ONLY <1>1, <2>1
  <2>3. /\ Len(g) + Len(k) \in 1 .. Len(g) + Len(k) /\ ~(Len(g) + Len(k) <= Len(g))
        /\ Len(g) + Len(k) - Len(g) = Len(k)
    BY ONLY <1>1, <2>1
  <2>4. (f \o h)[Len(f) + Len(h)] = h[Len(h)]
    BY ONLY <1>2, <2>2
  <2>5. (g \o k)[Len(g) + Len(k)] = k[Len(k)]
    BY ONLY <1>2, <2>3
  <2> QED
    BY ONLY <2>4, <2>5
<1>4. h[Len(h)] = k[Len(k)]
  BY ONLY <1>1, <1>3, f \o h = g \o k
<1>5. Len(h) = Len(k)
  BY <1>1, <1>4 DEF Started, Rewrites
<1> QED
  BY ZenonT(30), <1>5, SameCut

\* A first token that starts no pattern stays.
LEMMA FirstStays ==
    ASSUME NEW A, NEW p, NEW F, NEW R, Rewrites(A, p, F, R),
           NEW s \in Seq(A), s # <<>>, s[1].sym # p[1]
    PROVE  /\ R[s] \in Seq(A) /\ After(s, 1) \in Seq(A) /\ R[After(s, 1)] \in Seq(A)
           /\ Len(R[s]) = 1 + Len(R[After(s, 1)]) /\ R[s][1] = s[1]
           /\ \A i \in 1 .. Len(R[After(s, 1)]) : R[s][i + 1] = R[After(s, 1)][i]
<1>1. ~PatternAt(p, s, 1)
  BY DEF PatternAt
<1>2. /\ <<s[1]>> \in Seq(A) /\ R[s] \in Seq(A) /\ After(s, 1) \in Seq(A)
      /\ R[After(s, 1)] \in Seq(A) /\ R[s] = <<s[1]>> \o R[After(s, 1)]
  <2>1. FirstStep(A, p, F, R, s)
    BY RewriteFirst
  <2> QED
    BY ONLY <1>1, <2>1 DEF FirstStep
<1>3. ASSUME NEW a \in Seq(A), NEW b \in Seq(A), Len(a) = 1
      PROVE  /\ Len(a \o b) = 1 + Len(b) /\ (a \o b)[1] = a[1]
             /\ \A i \in 1 .. Len(b) : (a \o b)[i + 1] = b[i]
  <2>1. /\ Len(b) \in Nat /\ Len(a \o b) = Len(a) + Len(b)
        /\ \A i \in 1 .. Len(a) + Len(b) : (a \o b)[i] = IF i <= Len(a) THEN a[i] ELSE b[i - Len(a)]
    BY LenProperties, ConcatProperties
  <2>2. (a \o b)[1] = a[1]
    BY <1>3, <2>1
  <2>3. ASSUME NEW i \in 1 .. Len(b) PROVE (a \o b)[i + 1] = b[i]
    <3>1. i + 1 \in 1 .. Len(a) + Len(b) /\ ~(i + 1 <= Len(a)) /\ i + 1 - Len(a) = i
      BY <1>3, <2>1
    <3> QED
      BY <2>1, <3>1
  <2> QED
    BY <1>3, <2>1, <2>2, <2>3
<1>4. Len(<<s[1]>>) = 1 /\ <<s[1]>>[1] = s[1]
  OBVIOUS
<1> QED
  BY ONLY <1>2, <1>3, <1>4

\* The heart of the matter: rewriting what is held back together with the next
\* chunk gives what rewriting the whole text gives.
LEMMA FeedRewrites ==
    ASSUME NEW A, NEW p, NEW F, NEW R, Rewrites(A, p, F, R),
           NEW text \in Seq(A), NEW more \in Seq(A), NEW sent \in Seq(A), NEW held \in Seq(A),
           Follows(A, p, R, text, sent, held), R[R[text \o more]] = R[text \o more]
    PROVE  R[text \o more] = sent \o R[held \o more]
<1>r. \A s \in Seq(A) : R[s] \in Seq(A)
  BY DEF Rewrites
<1>j. \A x, y \in Seq(A) : ~CutsPattern(p, x, y) => R[x \o y] = R[x] \o R[y]
  <2>1. PartByPart(A, p, R)
    BY ONLY Rewrites(A, p, F, R), RewriteJoin
  <2> QED
    BY ONLY <2>1 DEF PartByPart
<1>c. \A x, y \in Seq(A) : x \o y \in Seq(A)
  BY ConcatProperties
<1>a. \A a, b, c \in Seq(A) : (a \o b) \o c = a \o (b \o c)
  <2>1. Associative(A)
    BY JoinsAssociate
  <2> QED
    BY ONLY <2>1 DEF Associative
<1>s. \A s \in Seq(A) : R[s] = s <=> PatternFree(p, s)
  BY StableIsFree
<1>1. held = <<>> \/ Started(p, held)
  BY DEF Follows
<1>2. R[held] = held /\ PatternFree(p, held)
  BY <1>1, StartedFree
<1>3. CASE \E f, h \in Seq(A) : text = f \o h /\ Started(p, h)
  <2>1. PICK f \in Seq(A) : \E h \in Seq(A) : text = f \o h /\ Started(p, h)
    BY <1>3
  <2>2. text = f \o held /\ Started(p, held)
    BY <2>1 DEF Follows
  <2>3. held \o more \in Seq(A) /\ text \o more = f \o (held \o more)
    <3>1. (f \o held) \o more = f \o (held \o more)
      BY SMTT(30), ConcatAssociative
    <3> QED
      BY ONLY <1>c, <2>2, <3>1, held \in Seq(A), more \in Seq(A)
  <2>4. R[text \o more] = R[f] \o R[held \o more]
    <3>1. ~CutsPattern(p, f, held \o more)
      BY <2>2, NoCutBeforeStarted
    <3> QED
      BY ONLY <1>j, <2>3, <3>1, f \in Seq(A)
  <2>5. R[text] = R[f] \o held
    <3>1. ~CutsPattern(p, f, held \o <<>>) /\ <<>> \in Seq(A)
      BY <2>2, EmptySeq, NoCutBeforeStarted
    <3>2. held \o <<>> = held
      BY ConcatEmptySeq
    <3> QED
      BY ONLY <1>j, <1>2, <2>2, <3>1, <3>2, f \in Seq(A), held \in Seq(A)
  <2>6. PatternFree(p, R[f])
    <3>1. PatternFree(p, R[f] \o R[held \o more])
      BY ONLY <1>r, <1>c, <1>s, <2>3, <2>4, f \in Seq(A), R[R[text \o more]] = R[text \o more]
    <3> QED
      BY <1>r, <2>3, <3>1, FreeParts
  <2>7. PatternFree(p, R[f] \o held)
    BY <1>r, <2>2, <2>6, FreeThenStarted
  <2>8. sent \o held = R[f] \o held
    <3>1. R[R[text]] = R[text]
      BY ONLY <1>r, <1>c, <1>s, <2>5, <2>7, f \in Seq(A), held \in Seq(A)
    <3> QED
      BY <2>5, <3>1 DEF Follows
  <2>9. sent = R[f]
    BY <1>r, <2>8, ConcatSimplifications
  <2> QED
    BY <2>4, <2>9
<1>4. CASE ~(\E f, h \in Seq(A) : text = f \o h /\ Started(p, h))
  <2>1. ~CutsPattern(p, text, more)
    BY <1>4, CutAfterStarted
  <2>2. R[text \o more] = R[text] \o R[more]
    BY <1>j, <2>1
  <2>3. PatternFree(p, R[text] \o R[more]) /\ R[text] \in Seq(A) /\ R[more] \in Seq(A)
    BY ONLY <1>r, <1>c, <1>s, <2>2, text \in Seq(A), more \in Seq(A),
            R[R[text \o more]] = R[text \o more]
  <2>4. PatternFree(p, R[text])
    BY <2>3, FreeParts
  <2>5. sent \o held = R[text]
    <3>1. R[R[text]] = R[text]
      BY <1>s, <2>3, <2>4
    <3> QED
      BY <3>1 DEF Follows
  <2>6. R[text] \o R[more] = sent \o (held \o R[more])
    <3>1. (sent \o held) \o R[more] = sent \o (held \o R[more])
      BY ONLY <1>a, <2>3, sent \in Seq(A), held \in Seq(A)
    <3> QED
      BY ONLY <2>5, <3>1
  <2>7. PatternFree(p, held \o R[more])
    <3>1. PatternFree(p, sent \o (held \o R[more])) /\ held \o R[more] \in Seq(A)
      BY ONLY <1>c, <2>3, <2>6, held \in Seq(A)
    <3> QED
      BY <3>1, FreeParts
  <2>8. ~CutsPattern(p, held, more)
    <3>1. SUFFICES ASSUME NEW i \in 1 .. Len(held), PatternAt(p, held \o more, i),
                          i + 2 > Len(held)
                   PROVE  FALSE
      BY DEF CutsPattern
    <3>2. Started(p, held)
      <4>1. held # <<>>
        BY <3>1, EmptySeq
      <4> QED
        BY <1>1, <4>1
    <3>3. /\ Len(held) \in {1, 2} /\ Len(more) \in Nat
          /\ Len(held \o more) = Len(held) + Len(more)
          /\ \A k \in 1 .. Len(held) + Len(more) :
                (held \o more)[k] = IF k <= Len(held) THEN held[k] ELSE more[k - Len(held)]
      BY <3>2, LenProperties, ConcatProperties DEF Started
    <3>4. /\ Len(R[more]) \in Nat /\ Len(held \o R[more]) = Len(held) + Len(R[more])
          /\ \A k \in 1 .. Len(held) + Len(R[more]) :
                (held \o R[more])[k] = IF k <= Len(held) THEN held[k] ELSE R[more][k - Len(held)]
      BY <2>3, LenProperties, ConcatProperties
    <3>5. i = 1
      <4>1. (held \o more)[i] = held[i] /\ (held \o more)[i].sym = p[1]
        BY <3>1, <3>3 DEF PatternAt
      <4>2. i \in {1, 2} /\ (i = 2 => Len(held) = 2)
        <5>1. \A n \in {1, 2} : \A k \in 1 .. n : k \in {1, 2} /\ (k = 2 => n = 2)
          OBVIOUS
        <5> QED
          BY ONLY <3>3, <5>1, i \in 1 .. Len(held)
      <4> QED
        BY <3>2, <4>1, <4>2 DEF Started, Rewrites
    <3>6. /\ 1 + 2 <= Len(held) + Len(more) /\ (held \o more)[2].sym = p[2]
          /\ (held \o more)[3].sym = p[3]
      BY <3>1, <3>3, <3>5 DEF PatternAt
    <3>7. more # <<>> /\ Len(more) \in Nat \ {0}
      <4>1. Len(more) # 0
        <5>1. \A n \in {1, 2}, m \in Nat : 1 + 2 <= n + m => m # 0
          OBVIOUS
        <5> QED
          BY ONLY <3>3, <3>6, <5>1
      <4> QED
        BY <3>3, <4>1, EmptySeq
    <3>8. /\ Len(held) = 1 => more[1].sym = p[2] /\ more[2].sym = p[3] /\ 2 <= Len(more)
          /\ Len(held) = 2 => more[1].sym = p[3]
      <4>1. CASE Len(held) = 1
        <5>1. (held \o more)[2] = more[1] /\ (held \o more)[3] = more[2] /\ 2 <= Len(more)
          BY <3>3, <3>6, <4>1
        <5> QED
          BY ONLY <3>6, <4>1, <5>1
      <4>2. CASE Len(held) = 2
        <5>1. (held \o more)[3] = more[1]
          BY <3>3, <3>6, <4>2
        <5> QED
          BY ONLY <3>6, <4>2, <5>1
      <4> QED
        BY <4>1, <4>2, <3>3
    <3>9. more[1].sym # p[1]
      BY <3>3, <3>8 DEF Rewrites
    <3>10. /\ After(more, 1) \in Seq(A) /\ R[After(more, 1)] \in Seq(A)
           /\ Len(R[more]) = 1 + Len(R[After(more, 1)]) /\ R[more][1] = more[1]
           /\ \A k \in 1 .. Len(R[After(more, 1)]) : R[more][k + 1] = R[After(more, 1)][k]
      BY <3>7, <3>9, FirstStays
    <3>11. PatternAt(p, held \o R[more], 1)
      <4>1. CASE Len(held) = 1
        <5> DEFINE rest == After(more, 1)
        <5>1. Len(rest) = Len(more) - 1 /\ rest[1] = more[2] /\ rest \in Seq(A)
          <6>1. 1 \in 0 .. Len(more) /\ 1 \in 1 .. Len(more) - 1 /\ 1 + 1 = 2
            BY <3>3, <3>8, <4>1
          <6> QED
            BY <6>1, AfterCut
        <5>2. rest # <<>>
          <6>1. Len(rest) # 0
            BY <3>3, <3>8, <4>1, <5>1
          <6> QED
            BY <6>1, EmptySeq
        <5>3. rest[1].sym # p[1]
          BY <3>8, <4>1, <5>1 DEF Rewrites
        <5>4. R[rest][1] = rest[1] /\ Len(R[rest]) = 1 + Len(R[After(rest, 1)])
              /\ R[After(rest, 1)] \in Seq(A)
          BY <5>1, <5>2, <5>3, FirstStays
        <5>5. 1 \in 1 .. Len(R[rest]) /\ 2 <= Len(R[more])
          <6>1. Len(R[After(rest, 1)]) \in Nat
            BY <5>4, LenProperties
          <6> QED
            BY SMTT(30), <3>10, <5>4, <6>1
        <5>6. R[more][2] = more[2]
          <6>1. R[more][1 + 1] = R[rest][1]
            BY <3>10, <5>5
          <6> QED
            BY <5>1, <5>4, <6>1
        <5>7. /\ (held \o R[more])[1] = held[1] /\ (held \o R[more])[2] = more[1]
              /\ (held \o R[more])[3] = more[2] /\ 1 + 2 <= Len(held \o R[more])
          <6>1. \A n \in Nat : 2 <= n => /\ {1, 2, 3} \subseteq 1 .. 1 + n /\ 1 + 2 <= 1 + n
                                          /\ 1 <= 1 /\ ~(2 <= 1) /\ ~(3 <= 1)
                                          /\ 2 - 1 = 1 /\ 3 - 1 = 2
            OBVIOUS
          <6>2. /\ {1, 2, 3} \subseteq 1 .. Len(held) + Len(R[more])
                /\ 1 + 2 <= Len(held) + Len(R[more])
            BY ONLY <3>4, <4>1, <5>5, <6>1
          <6>3. /\ (held \o R[more])[1] = held[1] /\ (held \o R[more])[2] = R[more][1]
                /\ (held \o R[more])[3] = R[more][2]
            BY ONLY <3>4, <4>1, <6>1, <6>2, <5>5
          <6> QED
            BY ONLY <3>4, <3>10, <5>6, <6>2, <6>3
        <5> QED
          <6>1. held[1].sym = p[1]
            BY ONLY <3>2, <4>1 DEF Started
          <6>2. PICK h : h = held \o R[more]
            OBVIOUS
          <6>3. h[1].sym = p[1] /\ h[2].sym = p[2] /\ h[3].sym = p[3] /\ 1 + 2 <= Len(h)
            BY ONLY <3>8, <4>1, <5>7, <6>1, <6>2
          <6> QED
            BY ONLY <6>2, <6>3 DEF PatternAt
      <4>2. CASE Len(held) = 2
        <5>1. 1 <= Len(R[more])
          <6>1. Len(R[After(more, 1)]) \in Nat
            BY <3>10, LenProperties
          <6> QED
            BY <3>10, <6>1
        <5>2. /\ (held \o R[more])[1] = held[1] /\ (held \o R[more])[2] = held[2]
              /\ (held \o R[more])[3] = more[1] /\ 1 + 2 <= Len(held \o R[more])
          <6>1. \A n \in Nat : 1 <= n => /\ {1, 2, 3} \subseteq 1 .. 2 + n /\ 1 + 2 <= 2 + n
                                          /\ 1 <= 2 /\ 2 <= 2 /\ ~(3 <= 2) /\ 3 - 2 = 1
            OBVIOUS
          <6>2. /\ {1, 2, 3} \subseteq 1 .. Len(held) + Len(R[more])
                /\ 1 + 2 <= Len(held) + Len(R[more])
            BY ONLY <3>4, <4>2, <5>1, <6>1
          <6>3. /\ (held \o R[more])[1] = held[1] /\ (held \o R[more])[2] = held[2]
                /\ (held \o R[more])[3] = R[more][1]
            BY ONLY <3>4, <4>2, <6>2
          <6> QED
            BY ONLY <3>4, <3>10, <6>2, <6>3
        <5> QED
          <6>1. held[1].sym = p[1] /\ held[2].sym = p[2]
            BY ONLY <3>2, <4>2 DEF Started
          <6>2. PICK h : h = held \o R[more]
            OBVIOUS
          <6>3. h[1].sym = p[1] /\ h[2].sym = p[2] /\ h[3].sym = p[3] /\ 1 + 2 <= Len(h)
            BY ONLY <3>8, <4>2, <5>2, <6>1, <6>2
          <6> QED
            BY ONLY <6>2, <6>3 DEF PatternAt
      <4> QED
        BY <3>3, <4>1, <4>2
    <3>12. 1 \in 1 .. Len(held \o R[more])
      BY <3>3, <3>4
    <3> QED
      BY <2>7, <3>11, <3>12 DEF PatternFree
  <2>9. R[held \o more] = held \o R[more]
    BY <1>j, <1>2, <2>8
  <2> QED
    BY <2>2, <2>6, <2>9
<1> QED
  BY <1>3, <1>4

\* Joins taken apart, for texts that stand in other equations as well.
SameParts(a, b, x, y) == a = x /\ b = y
Regrouped(A, x, m, a, b) == x \o m = (x \o a) \o b /\ x \o a \in Seq(A)
EndsIn(A, s, k) == \E z \in Seq(A) : s = z \o k

LEMMA SameCutParts ==
    ASSUME NEW A, NEW a \in Seq(A), NEW b \in Seq(A), NEW x \in Seq(A), NEW y \in Seq(A),
           a \o b = x \o y, Len(b) = Len(y)
    PROVE  SameParts(a, b, x, y)
  BY ZenonT(30), SameCut DEF SameParts

LEMMA Regroup ==
    ASSUME NEW A, NEW x \in Seq(A), NEW a \in Seq(A), NEW b \in Seq(A), NEW m, m = a \o b
    PROVE  Regrouped(A, x, m, a, b)
<1>1. (x \o a) \o b = x \o (a \o b)
  BY ConcatAssociative
<1>2. x \o a \in Seq(A)
  BY ConcatProperties
<1> QED
  BY ONLY <1>1, <1>2, m = a \o b DEF Regrouped

LEMMA CutOfTwo ==
    ASSUME NEW A, NEW s \in Seq(A), Len(s) = 2
    PROVE  \E a, b \in Seq(A) : Len(a) = 1 /\ Len(b) = 1 /\ s = a \o b /\ a[1] = s[1]
<1>1. 1 \in 0 .. Len(s) /\ Len(s) - 1 = 1 /\ 1 \in 1 .. 1
  OBVIOUS
<1>2. /\ After(s, 1) \in Seq(A) /\ SubSeq(s, 1, 1) \in Seq(A)
      /\ Len(After(s, 1)) = 1 /\ Len(SubSeq(s, 1, 1)) = 1
      /\ SubSeq(s, 1, 1)[1] = s[1] /\ s = SubSeq(s, 1, 1) \o After(s, 1)
  BY ZenonT(30), <1>1, AfterCut
<1> QED
  BY <1>2

\* What a longer text ends with, what was held back and the new chunk end with.
LEMMA TailIsFed ==
    ASSUME NEW A, NEW p, NEW F, NEW R, Rewrites(A, p, F, R),
           NEW text \in Seq(A), NEW more \in Seq(A), NEW held \in Seq(A),
           \A f, h \in Seq(A) : text = f \o h /\ Started(p, h) => held = h,
           NEW g \in Seq(A), NEW k \in Seq(A), text \o more = g \o k, Started(p, k)
    PROVE  EndsIn(A, held \o more, k)
<1>1. Len(k) \in {1, 2} /\ Len(more) \in Nat
  BY LenProperties DEF Started
<1>2. CASE Len(k) <= Len(more)
  <2> DEFINE n == Len(more) - Len(k)
             a == SubSeq(more, 1, n)
             b == After(more, n)
  <2>1. n \in 0 .. Len(more) /\ Len(more) - n = Len(k)
    BY <1>1, <1>2
  <2> HIDE DEF n
  <2>2. a \in Seq(A) /\ b \in Seq(A) /\ Len(b) = Len(k) /\ more = a \o b
    BY <2>1, AfterCut
  <2> HIDE DEF a, b
  <2>3. Regrouped(A, text, more, a, b) /\ Regrouped(A, held, more, a, b)
    BY ONLY <2>2, text \in Seq(A), held \in Seq(A), Regroup
  <2>4. (text \o a) \o b = g \o k /\ text \o a \in Seq(A) /\ held \o a \in Seq(A)
        /\ held \o more = (held \o a) \o b
    BY ONLY <2>3, text \o more = g \o k DEF Regrouped
  <2>5. SameParts(text \o a, b, g, k)
    BY ONLY <2>2, <2>4, g \in Seq(A), k \in Seq(A), SameCutParts
  <2> QED
    BY ONLY <2>4, <2>5 DEF SameParts, EndsIn
<1>3. CASE Len(more) = 0
  <2>1. more = <<>>
    BY <1>3, EmptySeq
  <2>2. text \o more = text /\ held \o more = held
    BY <2>1, ConcatEmptySeq
  <2>3. held = k
    BY <2>2
  <2>4. <<>> \in Seq(A) /\ held \o more = <<>> \o k
    BY <2>2, <2>3, EmptySeq, ConcatEmptySeq
  <2> QED
    BY <2>4 DEF EndsIn
<1>4. CASE Len(more) # 0 /\ ~(Len(k) <= Len(more))
  <2>1. Len(k) = 2 /\ Len(more) = 1
    <3>1. \A m \in {1, 2}, n \in Nat : n # 0 /\ ~(m <= n) => m = 2 /\ n = 1
      OBVIOUS
    <3> QED
      BY ONLY <1>1, <1>4, <3>1
  <2>2. PICK a, b \in Seq(A) : Len(a) = 1 /\ Len(b) = 1 /\ k = a \o b /\ a[1] = k[1]
    BY <2>1, CutOfTwo
  <2>3. text \o more = (g \o a) \o b /\ g \o a \in Seq(A)
    <3>1. Regrouped(A, g, k, a, b)
      BY ONLY <2>2, g \in Seq(A), a \in Seq(A), b \in Seq(A), Regroup
    <3> QED
      BY ONLY <3>1, text \o more = g \o k DEF Regrouped
  <2>4. text = g \o a /\ more = b
    <3>1. Len(more) = Len(b)
      BY <2>1, <2>2
    <3>2. SameParts(text, more, g \o a, b)
      BY ONLY <2>3, <3>1, text \in Seq(A), more \in Seq(A), b \in Seq(A), SameCutParts
    <3> QED
      BY ONLY <3>2 DEF SameParts
  <2>5. Started(p, a)
    BY <2>1, <2>2 DEF Started
  <2>6. held = a
    BY <2>2, <2>4, <2>5
  <2>7. <<>> \in Seq(A) /\ held \o more = <<>> \o k
    BY <2>2, <2>4, <2>6, EmptySeq, ConcatEmptySeq
  <2> QED
    BY <2>7 DEF EndsIn
<1> QED
  BY <1>2, <1>3, <1>4

\* Feeding a chunk: what was sent and what is held back go on following.
LEMMA FeedFollows ==
    ASSUME NEW A, NEW p, NEW F, NEW R, Rewrites(A, p, F, R),
           NEW text \in Seq(A), NEW more \in Seq(A), NEW sent \in Seq(A), NEW held \in Seq(A),
           Follows(A, p, R, text, sent, held),
           NEW new \in Seq(A), NEW rest \in Seq(A),
           HoldsBack(A, p, R[held \o more], new, rest)
    PROVE  Follows(A, p, R, text \o more, sent \o new, rest)
<1>r. \A s \in Seq(A) : R[s] \in Seq(A)
  BY DEF Rewrites
<1>1. /\ R[held \o more] = new \o rest
      /\ \/ Started(p, rest)
         \/ rest = <<>> /\ \A f, h \in Seq(A) : R[held \o more] = f \o h => ~Started(p, h)
  BY DEF HoldsBack
<1>2. ASSUME NEW g \in Seq(A), NEW k \in Seq(A), text \o more = g \o k, Started(p, k)
      PROVE  rest = k
  <2>1. \A f, h \in Seq(A) : text = f \o h /\ Started(p, h) => held = h
    BY DEF Follows
  <2>2. EndsIn(A, held \o more, k)
    BY ONLY Rewrites(A, p, F, R), <1>2, <2>1, text \in Seq(A), more \in Seq(A), held \in Seq(A),
            TailIsFed
  <2>3. PICK z \in Seq(A) : held \o more = z \o k
    BY <2>2 DEF EndsIn
  <2>4. R[held \o more] = R[z] \o k
    <3>1. ~CutsPattern(p, z, k \o <<>>) /\ <<>> \in Seq(A)
      BY <1>2, EmptySeq, NoCutBeforeStarted
    <3>2. k \o <<>> = k
      BY ConcatEmptySeq
    <3>3. R[k] = k
      BY <1>2, StartedFree
    <3>4. PartByPart(A, p, R)
      BY RewriteJoin
    <3> QED
      BY ONLY ZenonT(30), <2>3, <3>1, <3>2, <3>3, <3>4, z \in Seq(A), k \in Seq(A) DEF PartByPart
  <2>5. Started(p, rest)
    BY <1>r, <1>1, <1>2, <2>4
  <2>6. new \o rest = R[z] \o k /\ R[z] \in Seq(A)
    BY <1>r, <1>1, <2>4
  <2> QED
    BY <1>2, <2>5, <2>6, StartedUnique
<1>3. ASSUME R[R[text \o more]] = R[text \o more]
      PROVE  (sent \o new) \o rest = R[text \o more]
  <2>1. R[text \o more] = sent \o R[held \o more]
    BY <1>3, FeedRewrites
  <2>2. Associative(A)
    BY JoinsAssociate
  <2>3. (sent \o new) \o rest = sent \o (new \o rest)
    BY ONLY SMTT(30), <2>2, sent \in Seq(A), new \in Seq(A), rest \in Seq(A) DEF Associative
  <2> QED
    BY ONLY <1>1, <2>1, <2>3
<1> QED
  BY <1>1, <1>2, <1>3 DEF Follows

\* Nothing was fed yet.
LEMMA StartFollows ==
    ASSUME NEW A, NEW p, NEW F, NEW R, Rewrites(A, p, F, R)
    PROVE  Follows(A, p, R, <<>>, <<>>, <<>>)
<1>1. <<>> \in Seq(A) /\ <<>> \o <<>> = <<>> /\ R[<<>>] = <<>>
  BY EmptySeq, ConcatEmptySeq DEF Rewrites
<1>2. \A f, h \in Seq(A) : <<>> = f \o h => h = <<>>
  BY ConcatSimplifications
<1>3. ~Started(p, <<>>)
  BY DEF Started
<1> QED
  BY <1>1, <1>2, <1>3 DEF Follows

\* Flushing sends what is held back as it is.
LEMMA FlushFollows ==
    ASSUME NEW A, NEW p, NEW F, NEW R, Rewrites(A, p, F, R),
           NEW text \in Seq(A), NEW sent \in Seq(A), NEW held \in Seq(A),
           Follows(A, p, R, text, sent, held), R[R[text]] = R[text]
    PROVE  /\ sent \o held = R[text] /\ R[held] = held
           /\ (sent \o held) \o <<>> = R[text]
<1>1. sent \o held = R[text] /\ (held = <<>> \/ Started(p, held))
  BY DEF Follows
<1>2. R[held] = held
  BY <1>1, StartedFree
<1>3. sent \o held \in Seq(A)
  BY ConcatProperties
<1>4. (sent \o held) \o <<>> = sent \o held
  BY <1>3, ConcatEmptySeq
<1> QED
  BY <1>1, <1>2, <1>4

-----------------------------------------------------------------------------
(***************************************************************************)
(* The two filters rewrite: citations, and marks of quoted lines.          *)
(***************************************************************************)
\* Two texts put together the same way from some place on.
Shifted(last, k, head, next, head2, next2) ==
    /\ \A i \in Nat : next2[i] \in Nat /\ next2[i] > i
    /\ \A i \in 1 .. last - k : head2[i] = head[i + k] /\ next2[i] + k = next[i + k]

LEMMA PiecesShift ==
    ASSUME NEW last \in Nat, NEW head, NEW next, NEW f, Pieces(last, head, next, f),
           NEW k \in 0 .. last, NEW head2, NEW next2, NEW g, Pieces(last - k, head2, next2, g),
           Shifted(last, k, head, next, head2, next2)
    PROVE  \A i \in Nat \ {0} : g[i] = f[i + k]
<1> DEFINE T == {n \in Nat : \A i \in Nat \ {0} : i + k + n > last => g[i] = f[i + k]}
<1>1. /\ \A i \in Nat : f[i] = IF i > last THEN <<>> ELSE head[i] \o f[next[i]]
      /\ \A i \in Nat : g[i] = IF i > last - k THEN <<>> ELSE head2[i] \o g[next2[i]]
  BY DEF Pieces
<1>2. 0 \in T
  <2>1. ASSUME NEW i \in Nat \ {0}, i + k + 0 > last PROVE g[i] = f[i + k]
    <3>1. i + k \in Nat /\ i + k > last /\ i > last - k
      BY <2>1
    <3> QED
      BY <1>1, <3>1
  <2> QED
    BY <2>1
<1>3. ASSUME NEW n \in Nat, n \in T
      PROVE  n + 1 \in T
  <2>1. ASSUME NEW i \in Nat \ {0}, i + k + (n + 1) > last PROVE g[i] = f[i + k]
    <3>0. i + k \in Nat
      OBVIOUS
    <3>1. CASE i + k > last
      <4>1. i > last - k
        BY <3>1
      <4> QED
        BY <1>1, <3>0, <3>1, <4>1
    <3>2. CASE ~(i + k > last)
      <4>1. i \in 1 .. last - k /\ ~(i > last - k)
        BY <3>2
      <4>2. next2[i] \in Nat \ {0} /\ next2[i] + k + n > last
        BY <2>1 DEF Shifted
      <4>3. g[next2[i]] = f[next2[i] + k]
        BY <1>3, <4>2
      <4>4. g[i] = head2[i] \o g[next2[i]] /\ f[i + k] = head[i + k] \o f[next[i + k]]
        BY <1>1, <3>0, <3>2, <4>1
      <4> QED
        BY <4>1, <4>3, <4>4 DEF Shifted
    <3> QED
      BY <3>1, <3>2
  <2> QED
    BY <2>1
<1>4. last + 1 \in T
  <2> HIDE DEF T
  <2>1. Nat \subseteq T
    BY <1>2, <1>3, AllNaturals
  <2> QED
    BY <2>1
<1> QED
  BY <1>4

\* A citation is a pattern of three tokens.
Citation == <<"bra", "ref", "ket">>

LEMMA CitationAt ==
    ASSUME NEW A, NEW s \in Seq(A), NEW i \in Nat \ {0}
    PROVE  IsCitation(s, i) <=> PatternAt(Citation, s, i)
<1>1. CASE i + 2 <= Len(s)
  <2>1. Len(s) \in Nat /\ \A j \in 1 .. Len(s) : s[j] \in A
    BY LenProperties, ElementOfSeq
  <2>2. /\ SubSeq(s, i, i + 2) \in Seq(A) /\ Len(SubSeq(s, i, i + 2)) = 3
        /\ \A j \in 1 .. 3 : SubSeq(s, i, i + 2)[j] = s[i + j - 1]
    <3>1. i \in Int /\ i + 2 \in Int /\ \A j \in i .. i + 2 : s[j] \in A
      BY <1>1, <2>1
    <3>2. /\ SubSeq(s, i, i + 2) \in Seq(A)
          /\ Len(SubSeq(s, i, i + 2)) = IF i <= i + 2 THEN i + 2 - i + 1 ELSE 0
          /\ \A j \in 1 .. i + 2 - i + 1 : SubSeq(s, i, i + 2)[j] = s[i + j - 1]
      BY ONLY <3>1, SubSeqProperties
    <3>3. i <= i + 2 /\ i + 2 - i + 1 = 3
      OBVIOUS
    <3> QED
      BY ONLY <3>2, <3>3
  <2> DEFINE c == SubSeq(s, i, i + 2)
  <2>3. DOMAIN c = 1 .. 3
    BY <2>2, LenProperties
  <2>4. c[1] = s[i] /\ c[2] = s[i + 1] /\ c[3] = s[i + 2]
    <3>1. i + 1 - 1 = i /\ i + 2 - 1 = i + 1 /\ i + 3 - 1 = i + 2 /\ {1, 2, 3} \subseteq 1 .. 3
      OBVIOUS
    <3> QED
      BY <2>2, <3>1
  <2> HIDE DEF c
  <2>5. Syms(c) = <<"bra", "ref", "ket">> <=>
            c[1].sym = "bra" /\ c[2].sym = "ref" /\ c[3].sym = "ket"
    <3>1. Syms(c) = [j \in 1 .. 3 |-> c[j].sym]
      BY <2>3 DEF Syms
    <3> QED
      BY ONLY <3>1
  <2> QED
    BY <1>1, <2>4, <2>5 DEF IsCitation, PatternAt, Citation, c
<1>2. CASE ~(i + 2 <= Len(s))
  BY <1>2 DEF IsCitation, PatternAt
<1> QED
  BY <1>1, <1>2

\* The citation filter's text function, as a function on the texts over A.
Resolving(A, sure) == [s \in Seq(A) |-> ResolveCitations(s, sure)]
Citing(A, sure) == [t \in A |-> Cite(t, sure)]

LEMMA ResolveSuffix ==
    ASSUME NEW A, NEW s \in Seq(A), NEW k \in 0 .. Len(s), NEW sure,
           NEW f, Pieces(Len(s), CiteHead(s, sure), CiteNext(s), f)
    PROVE  ResolveCitations(After(s, k), sure) = f[1 + k]
<1> DEFINE rest == After(s, k)
<1>1. /\ rest \in Seq(A) /\ Len(rest) = Len(s) - k /\ Len(s) \in Nat /\ k \in Nat
      /\ Len(rest) \in Nat /\ \A i \in 1 .. Len(s) - k : rest[i] = s[i + k]
  BY AfterCut, LenProperties
<1> HIDE DEF rest
<1>2. PICK g : Pieces(Len(rest), CiteHead(rest, sure), CiteNext(rest), g)
               /\ ResolveCitations(rest, sure) = g[1]
  BY SMTT(30), <1>1, ResolvePieces
<1>3. ASSUME NEW i \in 1 .. Len(s) - k
      PROVE  /\ CiteHead(rest, sure)[i] = CiteHead(s, sure)[i + k]
             /\ CiteNext(rest)[i] + k = CiteNext(s)[i + k]
  <2>1. i \in Nat \ {0} /\ i + k \in Nat \ {0} /\ rest[i] = s[i + k]
    BY SMTT(30), <1>1
  <2>2. IsCitation(rest, i) <=> IsCitation(s, i + k)
    <3>1. PatternAt(Citation, rest, i) <=> PatternAt(Citation, s, i + k)
      <4>1. CASE i + 2 <= Len(rest)
        <5>1. /\ i + 1 \in 1 .. Len(s) - k /\ i + 2 \in 1 .. Len(s) - k
              /\ i + 1 + k = i + k + 1 /\ i + 2 + k = i + k + 2 /\ i + k + 2 <= Len(s)
          <6>1. \A m \in Nat, j \in Nat \ {0} : j + 2 <= m - k =>
                    /\ j + 1 \in 1 .. m - k /\ j + 2 \in 1 .. m - k
                    /\ j + 1 + k = j + k + 1 /\ j + 2 + k = j + k + 2 /\ j + k + 2 <= m
            BY <1>1
          <6> QED
            BY ONLY <1>1, <2>1, <4>1, <6>1
        <5>2. rest[i + 1] = s[i + k + 1] /\ rest[i + 2] = s[i + k + 2]
          BY ONLY <1>1, <5>1
        <5> QED
          BY ONLY <2>1, <4>1, <5>1, <5>2 DEF PatternAt
      <4>2. CASE ~(i + 2 <= Len(rest))
        <5>1. ~(i + k + 2 <= Len(s))
          BY <1>1, <2>1, <4>2
        <5> QED
          BY ONLY <4>2, <5>1 DEF PatternAt
      <4> QED
        BY <4>1, <4>2
    <3> QED
      BY <1>1, <2>1, <3>1, CitationAt
  <2>3. CiteHead(rest, sure)[i] = CiteHead(s, sure)[i + k]
    BY ONLY <2>1, <2>2 DEF CiteHead
  <2>4. CiteNext(rest)[i] + k = CiteNext(s)[i + k]
    BY <1>1, <2>1, <2>2 DEF CiteNext
  <2> QED
    BY <2>3, <2>4
<1>4. \A i \in Nat \ {0} : g[i] = f[i + k]
  <2>1. Pieces(Len(s) - k, CiteHead(rest, sure), CiteNext(rest), g)
    BY <1>1, <1>2
  <2>2. \A i \in Nat : CiteNext(rest)[i] \in Nat /\ CiteNext(rest)[i] > i
    BY NextGrows
  <2>3. Shifted(Len(s), k, CiteHead(s, sure), CiteNext(s), CiteHead(rest, sure), CiteNext(rest))
    BY ONLY <1>3, <2>2 DEF Shifted
  <2> QED
    BY <1>1, <2>1, <2>3, PiecesShift
<1> QED
  BY <1>2, <1>4 DEF rest

LEMMA ResolveRewrites ==
    ASSUME NEW A, NEW sure, \A t \in A : [t EXCEPT !.sym = "link"] \in A
    PROVE  Rewrites(A, Citation, Citing(A, sure), Resolving(A, sure))
<1> DEFINE R == Resolving(A, sure)
           F == Citing(A, sure)
<1>1. R \in [Seq(A) -> Seq(A)]
  BY ResolveOf DEF Resolving
<1>2. F \in [A -> Seq(A)] /\ \A t \in A : Len(F[t]) <= 1
  <2>1. ASSUME NEW t \in A PROVE Cite(t, sure) \in Seq(A) /\ Len(Cite(t, sure)) <= 1
    <3>1. [t EXCEPT !.sym = "link"] \in A
      OBVIOUS
    <3>2. <<>> \in Seq(A) /\ Len(<<>>) = 0
      BY EmptySeq
    <3>3. \A u \in A : <<u>> \in Seq(A) /\ Len(<<u>>) = 1
      OBVIOUS
    <3> QED
      BY <3>1, <3>2, <3>3 DEF Cite
  <2> QED
    BY <2>1 DEF Citing
<1>3. R[<<>>] = <<>>
  <2>1. <<>> \in Seq(A) /\ Len(<<>>) = 0
    BY EmptySeq
  <2>2. Len(<<>>) \in Nat
    BY <2>1
  <2>3. PICK f : /\ Pieces(Len(<<>>), CiteHead(<<>>, sure), CiteNext(<<>>), f)
                 /\ ResolveCitations(<<>>, sure) = f[1]
    BY <2>2, ResolvePieces
  <2>4. f[1] = <<>>
    BY <2>1, <2>3 DEF Pieces
  <2> QED
    BY <2>1, <2>3, <2>4 DEF Resolving
<1>4. ASSUME NEW s \in Seq(A), s # <<>>
      PROVE  R[s] = IF PatternAt(Citation, s, 1) THEN F[s[1]] \o R[After(s, 3)]
                    ELSE <<s[1]>> \o R[After(s, 1)]
  <2>1. Len(s) \in Nat \ {0}
    BY <1>4, EmptySeq
  <2>2. s[1] \in A
    <3>1. 1 \in 1 .. Len(s)
      BY <2>1
    <3> QED
      BY <3>1, ElementOfSeq
  <2>3. PICK f : /\ Pieces(Len(s), CiteHead(s, sure), CiteNext(s), f)
                 /\ ResolveCitations(s, sure) = f[1]
    BY <2>1, ResolvePieces
  <2>4. f[1] = CiteHead(s, sure)[1] \o f[CiteNext(s)[1]]
    <3>1. \A i \in Nat : f[i] = IF i > Len(s) THEN <<>>
                               ELSE CiteHead(s, sure)[i] \o f[CiteNext(s)[i]]
      BY <2>3 DEF Pieces
    <3>2. 1 \in Nat /\ ~(1 > Len(s))
      BY <2>1
    <3> QED
      BY ONLY <3>1, <3>2
  <2>5. IsCitation(s, 1) <=> PatternAt(Citation, s, 1)
    BY CitationAt
  <2>6. ASSUME NEW k \in 0 .. Len(s) PROVE R[After(s, k)] = f[1 + k]
    <3>1. After(s, k) \in Seq(A)
      BY AfterCut
    <3>2. ResolveCitations(After(s, k), sure) = f[1 + k]
      BY <2>3, ResolveSuffix
    <3> QED
      BY <3>1, <3>2 DEF Resolving
  <2>7. R[s] = f[1]
    BY <2>3 DEF Resolving
  <2>8. CASE PatternAt(Citation, s, 1)
    <3>1. 3 \in 0 .. Len(s) /\ 1 + 3 = 4
      BY <2>1, <2>8 DEF PatternAt
    <3>2. R[After(s, 3)] = f[4]
      BY ONLY <2>6, <3>1
    <3>3. CiteHead(s, sure)[1] = F[s[1]] /\ CiteNext(s)[1] = 4
      BY <2>2, <2>5, <2>8 DEF CiteHead, CiteNext, Citing
    <3> QED
      BY ONLY <2>4, <2>7, <2>8, <3>2, <3>3
  <2>9. CASE ~PatternAt(Citation, s, 1)
    <3>1. 1 \in 0 .. Len(s) /\ 1 + 1 = 2
      BY <2>1
    <3>2. R[After(s, 1)] = f[2]
      BY ONLY <2>6, <3>1
    <3>3. CiteHead(s, sure)[1] = <<s[1]>> /\ CiteNext(s)[1] = 2
      BY <2>5, <2>9 DEF CiteHead, CiteNext
    <3> QED
      BY ONLY <2>4, <2>7, <2>9, <3>2, <3>3
  <2> QED
    BY <2>8, <2>9
<1> HIDE DEF R, F
<1>5. Citation[1] # Citation[2] /\ Citation[1] # Citation[3] /\ Citation[2] # Citation[3]
  BY DEF Citation
<1>6. Rewrites(A, Citation, F, R)
  BY <1>1, <1>2, <1>3, <1>4, <1>5 DEF Rewrites
<1> QED
  BY <1>6 DEF R, F

\* A line break and the mark that quotes the next line are a pattern too.
QuoteMark == <<"nl", "gt", "sp">>

LEMMA MarkAt ==
    ASSUME NEW s, NEW i \in Nat \ {0}
    PROVE  SkipsMark(s, i) <=> PatternAt(QuoteMark, s, i)
<1>1. SymsAt(s, i, 3) = [k \in 1 .. 3 |-> s[i + k - 1].sym]
  BY DEF SymsAt
<1>2. i + 1 - 1 = i /\ i + 2 - 1 = i + 1 /\ i + 3 - 1 = i + 2
  OBVIOUS
<1>3. SymsAt(s, i, 3) = <<"nl", "gt", "sp">> <=>
            s[i].sym = "nl" /\ s[i + 1].sym = "gt" /\ s[i + 2].sym = "sp"
  BY <1>1, <1>2
<1> QED
  BY <1>3 DEF SkipsMark, PatternAt, QuoteMark

\* The thinking filter's text function, as a function on the texts over A.
Stripping(A) == [s \in Seq(A) |-> StripQuotes(s)]
Keeping(A) == [t \in A |-> <<t>>]

LEMMA StripSuffix ==
    ASSUME NEW A, NEW s \in Seq(A), NEW k \in 0 .. Len(s),
           NEW f, Pieces(Len(s), StripHead(s), StripNext(s), f)
    PROVE  StripQuotes(After(s, k)) = f[1 + k]
<1> DEFINE rest == After(s, k)
<1>1. /\ rest \in Seq(A) /\ Len(rest) = Len(s) - k /\ Len(s) \in Nat /\ k \in Nat
      /\ Len(rest) \in Nat /\ \A i \in 1 .. Len(s) - k : rest[i] = s[i + k]
  BY AfterCut, LenProperties
<1> HIDE DEF rest
<1>2. PICK g : Pieces(Len(rest), StripHead(rest), StripNext(rest), g)
               /\ StripQuotes(rest) = g[1]
  BY <1>1, StripPieces
<1>3. ASSUME NEW i \in 1 .. Len(s) - k
      PROVE  /\ StripHead(rest)[i] = StripHead(s)[i + k]
             /\ StripNext(rest)[i] + k = StripNext(s)[i + k]
  <2>1. i \in Nat \ {0} /\ i + k \in Nat \ {0} /\ rest[i] = s[i + k]
    BY SMTT(30), <1>1
  <2>2. SkipsMark(rest, i) <=> SkipsMark(s, i + k)
    <3>1. PatternAt(QuoteMark, rest, i) <=> PatternAt(QuoteMark, s, i + k)
      <4>1. CASE i + 2 <= Len(rest)
        <5>1. /\ i + 1 \in 1 .. Len(s) - k /\ i + 2 \in 1 .. Len(s) - k
              /\ i + 1 + k = i + k + 1 /\ i + 2 + k = i + k + 2 /\ i + k + 2 <= Len(s)
          <6>1. \A m \in Nat, j \in Nat \ {0} : j + 2 <= m - k =>
                    /\ j + 1 \in 1 .. m - k /\ j + 2 \in 1 .. m - k
                    /\ j + 1 + k = j + k + 1 /\ j + 2 + k = j + k + 2 /\ j + k + 2 <= m
            BY <1>1
          <6> QED
            BY ONLY <1>1, <2>1, <4>1, <6>1
        <5>2. rest[i + 1] = s[i + k + 1] /\ rest[i + 2] = s[i + k + 2]
          BY ONLY <1>1, <5>1
        <5> QED
          BY ONLY <2>1, <4>1, <5>1, <5>2 DEF PatternAt
      <4>2. CASE ~(i + 2 <= Len(rest))
        <5>1. ~(i + k + 2 <= Len(s))
          BY <1>1, <2>1, <4>2
        <5> QED
          BY ONLY <4>2, <5>1 DEF PatternAt
      <4> QED
        BY <4>1, <4>2
    <3> QED
      BY <1>1, <2>1, <3>1, MarkAt
  <2>3. StripHead(rest)[i] = StripHead(s)[i + k]
    BY ONLY <2>1, <2>2 DEF StripHead
  <2>4. StripNext(rest)[i] + k = StripNext(s)[i + k]
    BY <1>1, <2>1, <2>2 DEF StripNext
  <2> QED
    BY <2>3, <2>4
<1>4. \A i \in Nat \ {0} : g[i] = f[i + k]
  <2>1. Pieces(Len(s) - k, StripHead(rest), StripNext(rest), g)
    BY <1>1, <1>2
  <2>2. \A i \in Nat : StripNext(rest)[i] \in Nat /\ StripNext(rest)[i] > i
    BY StripGrows
  <2>3. Shifted(Len(s), k, StripHead(s), StripNext(s), StripHead(rest), StripNext(rest))
    BY ONLY <1>3, <2>2 DEF Shifted
  <2> QED
    BY <1>1, <2>1, <2>3, PiecesShift
<1> QED
  BY <1>2, <1>4 DEF rest

LEMMA StripRewrites ==
    ASSUME NEW A
    PROVE  Rewrites(A, QuoteMark, Keeping(A), Stripping(A))
<1> DEFINE R == Stripping(A)
           F == Keeping(A)
<1>1. R \in [Seq(A) -> Seq(A)]
  BY StripOf DEF Stripping
<1>2. F \in [A -> Seq(A)] /\ \A t \in A : Len(F[t]) <= 1
  <2>1. \A t \in A : <<t>> \in Seq(A) /\ Len(<<t>>) <= 1
    OBVIOUS
  <2> QED
    BY <2>1 DEF Keeping
<1>3. R[<<>>] = <<>>
  <2>1. <<>> \in Seq(A) /\ Len(<<>>) = 0
    BY EmptySeq
  <2>2. Len(<<>>) \in Nat
    BY <2>1
  <2>3. PICK f : /\ Pieces(Len(<<>>), StripHead(<<>>), StripNext(<<>>), f)
                 /\ StripQuotes(<<>>) = f[1]
    BY <2>2, StripPieces
  <2>4. f[1] = <<>>
    BY <2>1, <2>3 DEF Pieces
  <2> QED
    BY <2>1, <2>3, <2>4 DEF Stripping
<1>4. ASSUME NEW s \in Seq(A), s # <<>>
      PROVE  R[s] = IF PatternAt(QuoteMark, s, 1) THEN F[s[1]] \o R[After(s, 3)]
                    ELSE <<s[1]>> \o R[After(s, 1)]
  <2>1. Len(s) \in Nat \ {0}
    BY <1>4, EmptySeq
  <2>2. s[1] \in A
    <3>1. 1 \in 1 .. Len(s)
      BY <2>1
    <3> QED
      BY <3>1, ElementOfSeq
  <2>3. PICK f : /\ Pieces(Len(s), StripHead(s), StripNext(s), f)
                 /\ StripQuotes(s) = f[1]
    BY <2>1, StripPieces
  <2>4. f[1] = StripHead(s)[1] \o f[StripNext(s)[1]]
    <3>1. \A i \in Nat : f[i] = IF i > Len(s) THEN <<>>
                               ELSE StripHead(s)[i] \o f[StripNext(s)[i]]
      BY <2>3 DEF Pieces
    <3>2. 1 \in Nat /\ ~(1 > Len(s))
      BY <2>1
    <3> QED
      BY ONLY <3>1, <3>2
  <2>5. SkipsMark(s, 1) <=> PatternAt(QuoteMark, s, 1)
    BY MarkAt
  <2>6. ASSUME NEW k \in 0 .. Len(s) PROVE R[After(s, k)] = f[1 + k]
    <3>1. After(s, k) \in Seq(A)
      BY AfterCut
    <3>2. StripQuotes(After(s, k)) = f[1 + k]
      BY <2>3, StripSuffix
    <3> QED
      BY <3>1, <3>2 DEF Stripping
  <2>7. R[s] = f[1]
    BY <2>3 DEF Stripping
  <2>8. CASE PatternAt(QuoteMark, s, 1)
    <3>1. 3 \in 0 .. Len(s) /\ 1 + 3 = 4
      BY <2>1, <2>8 DEF PatternAt
    <3>2. R[After(s, 3)] = f[4]
      BY ONLY <2>6, <3>1
    <3>3. StripHead(s)[1] = F[s[1]] /\ StripNext(s)[1] = 4
      BY <2>2, <2>5, <2>8 DEF StripHead, StripNext, Keeping
    <3> QED
      BY ONLY <2>4, <2>7, <2>8, <3>2, <3>3
  <2>9. CASE ~PatternAt(QuoteMark, s, 1)
    <3>1. 1 \in 0 .. Len(s) /\ 1 + 1 = 2
      BY <2>1
    <3>2. R[After(s, 1)] = f[2]
      BY ONLY <2>6, <3>1
    <3>3. StripHead(s)[1] = <<s[1]>> /\ StripNext(s)[1] = 2
      BY <2>5, <2>9 DEF StripHead, StripNext
    <3> QED
      BY ONLY <2>4, <2>7, <2>9, <3>2, <3>3
  <2> QED
    BY <2>8, <2>9
<1> HIDE DEF R, F
<1>5. QuoteMark[1] # QuoteMark[2] /\ QuoteMark[1] # QuoteMark[3] /\ QuoteMark[2] # QuoteMark[3]
  BY DEF QuoteMark
<1>6. Rewrites(A, QuoteMark, F, R)
  BY <1>1, <1>2, <1>3, <1>4, <1>5 DEF Rewrites
<1> QED
  BY <1>6 DEF R, F

\* How much of a text has to wait.
Waits(p, s) ==
    IF Len(s) >= 1 /\ s[Len(s)].sym = p[1] THEN 1
    ELSE IF Len(s) >= 2 /\ s[Len(s) - 1].sym = p[1] /\ s[Len(s)].sym = p[2] THEN 2
    ELSE 0

LEMMA WaitsHold ==
    ASSUME NEW A, NEW p, NEW s \in Seq(A), NEW n, n = Len(s) - Waits(p, s)
    PROVE  n \in 0 .. Len(s) /\ HoldsBack(A, p, s, SubSeq(s, 1, n), After(s, n))
<1>1. Len(s) \in Nat /\ Waits(p, s) \in {0, 1, 2}
  BY LenProperties DEF Waits
<1>2. n \in 0 .. Len(s)
  BY <1>1 DEF Waits
<1>3. /\ After(s, n) \in Seq(A) /\ Len(After(s, n)) = Len(s) - n
      /\ \A i \in 1 .. Len(s) - n : After(s, n)[i] = s[i + n]
      /\ s = SubSeq(s, 1, n) \o After(s, n)
  BY <1>2, AfterCut
<1>4. CASE Waits(p, s) = 1
  <2>1. Len(s) - n = 1 /\ 1 + n = Len(s) /\ s[Len(s)].sym = p[1]
    BY <1>1, <1>4 DEF Waits
  <2>2. After(s, n)[1] = s[Len(s)]
    <3>1. 1 \in 1 .. 1
      OBVIOUS
    <3> QED
      BY ONLY <1>3, <2>1, <3>1
  <2>3. Started(p, After(s, n))
    BY <1>3, <2>1, <2>2 DEF Started
  <2> QED
    BY <1>2, <1>3, <2>3 DEF HoldsBack
<1>5. CASE Waits(p, s) = 2
  <2>1. /\ Len(s) - n = 2 /\ 1 + n = Len(s) - 1 /\ 2 + n = Len(s)
        /\ s[Len(s) - 1].sym = p[1] /\ s[Len(s)].sym = p[2]
    BY <1>1, <1>5 DEF Waits
  <2>2. After(s, n)[1] = s[Len(s) - 1] /\ After(s, n)[2] = s[Len(s)]
    <3>1. 1 \in 1 .. 2 /\ 2 \in 1 .. 2
      OBVIOUS
    <3> QED
      BY ONLY <1>3, <2>1, <3>1
  <2>3. Started(p, After(s, n))
    BY <1>3, <2>1, <2>2 DEF Started
  <2> QED
    BY <1>2, <1>3, <2>3 DEF HoldsBack
<1>6. CASE Waits(p, s) = 0
  <2>1. Len(s) - n = 0
    BY <1>1, <1>6
  <2>2. After(s, n) = <<>>
    BY <1>3, <2>1, EmptySeq
  <2>3. ASSUME NEW f \in Seq(A), NEW h \in Seq(A), s = f \o h, Started(p, h)
        PROVE  FALSE
    <3>1. /\ Len(f) \in Nat /\ Len(h) \in {1, 2} /\ Len(f \o h) = Len(f) + Len(h)
          /\ \A k \in 1 .. Len(f) + Len(h) : (f \o h)[k] = IF k <= Len(f) THEN f[k] ELSE h[k - Len(f)]
      BY <2>3, LenProperties, ConcatProperties DEF Started
    <3>2. CASE Len(h) = 1
      <4>1. Len(f) + 1 = Len(s) /\ Len(s) >= 1
        BY ONLY <2>3, <3>1, <3>2
      <4>2. (f \o h)[Len(f) + 1] = h[1]
        BY ONLY <3>1, <3>2
      <4>3. s[Len(s)].sym = p[1]
        BY ONLY <2>3, <3>2, <4>1, <4>2 DEF Started
      <4> QED
        BY ONLY <1>6, <4>1, <4>3 DEF Waits
    <3>3. CASE Len(h) = 2
      <4>1. Len(f) + 2 = Len(s) /\ Len(s) >= 2 /\ Len(f) + 1 = Len(s) - 1 /\ Len(s) >= 1
        BY ONLY <2>3, <3>1, <3>3
      <4>2. (f \o h)[Len(f) + 1] = h[1] /\ (f \o h)[Len(f) + 2] = h[2]
        BY ONLY <3>1, <3>3
      <4>3. s[Len(s) - 1].sym = p[1] /\ s[Len(s)].sym = p[2]
        BY ONLY <2>3, <3>3, <4>1, <4>2 DEF Started
      <4> QED
        BY ONLY <1>6, <4>1, <4>3 DEF Waits
    <3> QED
      BY <3>1, <3>2, <3>3
  <2> QED
    BY <1>2, <1>3, <2>2, <2>3 DEF HoldsBack
<1> QED
  BY <1>1, <1>4, <1>5, <1>6

LEMMA HeldBackWaits ==
    ASSUME NEW A, NEW s \in Seq(A)
    PROVE  HeldBack(s) = Waits(Citation, s)
<1> DEFINE end(n) == SubSeq(s, Len(s) - n + 1, Len(s))
<1>1. Len(s) \in Nat /\ \A i \in 1 .. Len(s) : s[i] \in A
  BY LenProperties, ElementOfSeq
<1>2. ASSUME NEW n \in {1, 2}, Len(s) >= n
      PROVE  /\ Syms(end(n)) = [i \in 1 .. n |-> s[Len(s) - n + 1 + i - 1].sym]
  <2>1. /\ Len(s) - n + 1 \in Int /\ Len(s) \in Int
        /\ \A i \in Len(s) - n + 1 .. Len(s) : s[i] \in A
        /\ Len(s) - n + 1 <= Len(s) /\ Len(s) - (Len(s) - n + 1) + 1 = n
    BY <1>1, <1>2
  <2>2. /\ end(n) \in Seq(A) /\ Len(end(n)) = n
        /\ \A i \in 1 .. n : end(n)[i] = s[Len(s) - n + 1 + i - 1]
    <3>1. /\ end(n) \in Seq(A)
          /\ Len(end(n)) = IF Len(s) - n + 1 <= Len(s) THEN Len(s) - (Len(s) - n + 1) + 1 ELSE 0
          /\ \A i \in 1 .. Len(s) - (Len(s) - n + 1) + 1 : end(n)[i] = s[Len(s) - n + 1 + i - 1]
      BY ONLY <2>1, SubSeqProperties
    <3> QED
      BY ONLY <2>1, <3>1
  <2> HIDE DEF end
  <2>3. DOMAIN end(n) = 1 .. n
    BY <2>2, LenProperties
  <2> QED
    BY ONLY <2>2, <2>3 DEF Syms
<1>3. Len(s) >= 1 => (Syms(end(1)) = <<"bra">> <=> s[Len(s)].sym = "bra")
  <2>1. SUFFICES ASSUME Len(s) >= 1
                 PROVE  Syms(end(1)) = <<"bra">> <=> s[Len(s)].sym = "bra"
    OBVIOUS
  <2>2. Syms(end(1)) = [i \in 1 .. 1 |-> s[Len(s) - 1 + 1 + i - 1].sym]
    BY ONLY <1>2, <2>1
  <2>3. Len(s) - 1 + 1 + 1 - 1 = Len(s)
    BY <1>1
  <2> HIDE DEF end
  <2> QED
    BY ONLY <2>2, <2>3
<1>4. Len(s) >= 2 => (Syms(end(2)) = <<"bra", "ref">> <=>
                          s[Len(s) - 1].sym = "bra" /\ s[Len(s)].sym = "ref")
  <2>1. SUFFICES ASSUME Len(s) >= 2
                 PROVE  Syms(end(2)) = <<"bra", "ref">> <=>
                          s[Len(s) - 1].sym = "bra" /\ s[Len(s)].sym = "ref"
    OBVIOUS
  <2>2. Syms(end(2)) = [i \in 1 .. 2 |-> s[Len(s) - 2 + 1 + i - 1].sym]
    BY ONLY <1>2, <2>1
  <2>3. Len(s) - 2 + 1 + 1 - 1 = Len(s) - 1 /\ Len(s) - 2 + 1 + 2 - 1 = Len(s)
    BY <1>1
  <2> HIDE DEF end
  <2> QED
    BY ONLY <2>2, <2>3
<1>5. HeldBack(s) = IF Len(s) >= 1 /\ Syms(end(1)) = <<"bra">> THEN 1
                    ELSE IF Len(s) >= 2 /\ Syms(end(2)) = <<"bra", "ref">> THEN 2
                    ELSE 0
  BY DEF HeldBack
<1> HIDE DEF end
<1> QED
  BY ONLY <1>3, <1>4, <1>5 DEF Waits, Citation

LEMMA HeldQuoteWaits ==
    ASSUME NEW A, NEW s \in Seq(A)
    PROVE  HeldQuote(s) = Waits(QuoteMark, s)
<1>1. Len(s) \in Nat
  BY LenProperties
<1>2. Len(<<"nl">>) = 1 /\ Len(<<"nl", "gt">>) = 2
  OBVIOUS
<1>3. EndsWith(s, <<"nl">>) <=> Len(s) >= 1 /\ s[Len(s)].sym = "nl"
  <2>1. SymsAt(s, Len(s) - 1 + 1, 1) = [k \in 1 .. 1 |-> s[Len(s) - 1 + 1 + k - 1].sym]
    BY DEF SymsAt
  <2>2. Len(s) - 1 + 1 + 1 - 1 = Len(s)
    BY <1>1
  <2>3. SymsAt(s, Len(s) - 1 + 1, 1) = <<"nl">> <=> s[Len(s)].sym = "nl"
    BY ONLY <2>1, <2>2
  <2> QED
    BY ONLY <1>2, <2>3 DEF EndsWith
<1>4. EndsWith(s, <<"nl", "gt">>) <=>
            Len(s) >= 2 /\ s[Len(s) - 1].sym = "nl" /\ s[Len(s)].sym = "gt"
  <2>1. SymsAt(s, Len(s) - 2 + 1, 2) = [k \in 1 .. 2 |-> s[Len(s) - 2 + 1 + k - 1].sym]
    BY DEF SymsAt
  <2>2. Len(s) - 2 + 1 + 1 - 1 = Len(s) - 1 /\ Len(s) - 2 + 1 + 2 - 1 = Len(s)
    BY <1>1
  <2>3. SymsAt(s, Len(s) - 2 + 1, 2) = <<"nl", "gt">> <=>
            s[Len(s) - 1].sym = "nl" /\ s[Len(s)].sym = "gt"
    BY ONLY <2>1, <2>2
  <2> QED
    BY ONLY <1>2, <2>3 DEF EndsWith
<1> QED
  BY ONLY <1>3, <1>4 DEF HeldQuote, Waits, QuoteMark

-----------------------------------------------------------------------------
(***************************************************************************)
(* FilterChunks: both filters fed chunk by chunk, and flushed.             *)
(***************************************************************************)
LEMMA FeedRefs ==
    ASSUME NEW A, \A t \in A : [t EXCEPT !.sym = "link"] \in A, NEW sure,
           NEW text \in Seq(A), NEW more \in Seq(A), NEW sent \in Seq(A), NEW held \in Seq(A),
           Follows(A, Citation, Resolving(A, sure), text, sent, held),
           NEW r, r = ProcessRefs(held, more, sure)
    PROVE  /\ r.out \in Seq(A) /\ r.buffer \in Seq(A)
           /\ Follows(A, Citation, Resolving(A, sure), text \o more, sent \o r.out, r.buffer)
<1> DEFINE s == ResolveCitations(held \o more, sure)
           n == Len(s) - HeldBack(s)
<1>1. held \o more \in Seq(A)
  BY ConcatProperties
<1>2. s \in Seq(A) /\ s = Resolving(A, sure)[held \o more]
  BY <1>1, ResolveOf DEF Resolving
<1>3. r.out = SubSeq(s, 1, n) /\ r.buffer = After(s, n)
  BY DEF ProcessRefs, After
<1>4. n = Len(s) - Waits(Citation, s)
  BY <1>2, HeldBackWaits
<1> HIDE DEF n, s
<1>5. n \in 0 .. Len(s) /\ HoldsBack(A, Citation, s, SubSeq(s, 1, n), After(s, n))
  BY <1>2, <1>4, WaitsHold
<1>6. SubSeq(s, 1, n) \in Seq(A) /\ After(s, n) \in Seq(A)
  BY <1>2, <1>5, AfterCut
<1>7. r.out \in Seq(A) /\ r.buffer \in Seq(A)
      /\ HoldsBack(A, Citation, Resolving(A, sure)[held \o more], r.out, r.buffer)
  BY ONLY <1>2, <1>3, <1>5, <1>6
<1>8. Rewrites(A, Citation, Citing(A, sure), Resolving(A, sure))
  BY ResolveRewrites
<1>9. ASSUME NEW o \in Seq(A), NEW b \in Seq(A),
             HoldsBack(A, Citation, Resolving(A, sure)[held \o more], o, b)
      PROVE  Follows(A, Citation, Resolving(A, sure), text \o more, sent \o o, b)
  BY <1>8, <1>9, FeedFollows
<1> QED
  BY ONLY <1>7, <1>9

LEMMA FeedQuotes ==
    ASSUME NEW A,
           NEW text \in Seq(A), NEW more \in Seq(A), NEW sent \in Seq(A), NEW held \in Seq(A),
           Follows(A, QuoteMark, Stripping(A), text, sent, held),
           NEW s, s = StripQuotes(held \o more), NEW n, n = Len(s) - HeldQuote(s)
    PROVE  /\ SubSeq(s, 1, n) \in Seq(A) /\ After(s, n) \in Seq(A)
           /\ Follows(A, QuoteMark, Stripping(A), text \o more,
                      sent \o SubSeq(s, 1, n), After(s, n))
<1>1. held \o more \in Seq(A)
  BY ConcatProperties
<1>2. s \in Seq(A) /\ s = Stripping(A)[held \o more]
  BY <1>1, StripOf DEF Stripping
<1>4. n = Len(s) - Waits(QuoteMark, s)
  BY <1>2, HeldQuoteWaits
<1>5. n \in 0 .. Len(s) /\ HoldsBack(A, QuoteMark, s, SubSeq(s, 1, n), After(s, n))
  BY ONLY <1>2, <1>4, WaitsHold
<1>6. SubSeq(s, 1, n) \in Seq(A) /\ After(s, n) \in Seq(A)
  BY ONLY <1>2, <1>5, AfterCut
<1>7. HoldsBack(A, QuoteMark, Stripping(A)[held \o more], SubSeq(s, 1, n), After(s, n))
  BY ONLY <1>2, <1>5
<1>8. Rewrites(A, QuoteMark, Keeping(A), Stripping(A))
  BY StripRewrites
<1>9. ASSUME NEW o \in Seq(A), NEW b \in Seq(A),
             HoldsBack(A, QuoteMark, Stripping(A)[held \o more], o, b)
      PROVE  Follows(A, QuoteMark, Stripping(A), text \o more, sent \o o, b)
  BY ONLY Follows(A, QuoteMark, Stripping(A), text, sent, held), text \in Seq(A), more \in Seq(A),
          sent \in Seq(A), held \in Seq(A), <1>8, <1>9, FeedFollows
<1> QED
  BY ONLY <1>6, <1>7, <1>9

Tokens == [sym : (UNION Alphabets) \cup {"link"}]

\* The filters' state: what each sent and holds back follows its text.
RefsRight(sure) ==
    LET R == Resolving(Tokens, sure) IN
    /\ given \in Seq(Tokens) /\ cited.sent \in Seq(Tokens) /\ cited.buffer \in Seq(Tokens)
    /\ IF flushed THEN R[R[given]] = R[given] => cited.sent \o cited.buffer = R[given]
       ELSE Follows(Tokens, Citation, R, given, cited.sent, cited.buffer)

QuotesRight ==
    LET R == Stripping(Tokens) IN
    /\ quoted \in Seq(Tokens) /\ quotes.sent \in Seq(Tokens)
    /\ quotes.filter \in [seen : BOOLEAN, buffer : Seq(Tokens)]
    /\ ~quotes.filter.seen => quoted = <<>>
    /\ IF flushed THEN R[R[quoted]] = R[quoted] => quotes.sent \o quotes.filter.buffer = R[quoted]
       ELSE Follows(Tokens, QuoteMark, R, quoted, quotes.sent, quotes.filter.buffer)

ChunkInv ==
    /\ alphabet \in Alphabets
    /\ RefsRight(listed)
    /\ QuotesRight

LEMMA TokensLinked == \A t \in Tokens : [t EXCEPT !.sym = "link"] \in Tokens
<1> SUFFICES ASSUME NEW t \in Tokens PROVE [t EXCEPT !.sym = "link"] \in Tokens
  OBVIOUS
<1>1. t = [sym |-> t.sym]
  BY DEF Tokens
<1>2. [t EXCEPT !.sym = "link"] = [sym |-> "link"]
  BY <1>1
<1> QED
  BY ONLY <1>2 DEF Tokens

LEMMA InitChunkInv == FilterInit => ChunkInv
<1> SUFFICES ASSUME FilterInit PROVE ChunkInv
  OBVIOUS
<1>1. /\ alphabet \in Alphabets /\ given = <<>> /\ quoted = <<>> /\ flushed = FALSE
      /\ cited.sent = <<>> /\ cited.buffer = <<>>
      /\ quotes.sent = <<>> /\ quotes.filter = [seen |-> FALSE, buffer |-> <<>>]
  BY DEF FilterInit, NewThinkingFilter
<1>2. <<>> \in Seq(Tokens)
  BY EmptySeq
<1>3. Follows(Tokens, Citation, Resolving(Tokens, listed), <<>>, <<>>, <<>>)
  <2>1. Rewrites(Tokens, Citation, Citing(Tokens, listed), Resolving(Tokens, listed))
    BY TokensLinked, ResolveRewrites
  <2> QED
    BY ONLY <2>1, StartFollows
<1>4. Follows(Tokens, QuoteMark, Stripping(Tokens), <<>>, <<>>, <<>>)
  <2>1. Rewrites(Tokens, QuoteMark, Keeping(Tokens), Stripping(Tokens))
    BY StripRewrites
  <2> QED
    BY ONLY <2>1, StartFollows
<1> QED
  BY <1>1, <1>2, <1>3, <1>4 DEF ChunkInv, RefsRight, QuotesRight

\* A chunk is a text.
LEMMA ChunkOf ==
    ASSUME alphabet \in Alphabets, NEW chunk \in Chunks
    PROVE  chunk \in Seq(Tokens)
<1>1. PICK n \in 1 .. MaxChunk : chunk \in [1 .. n -> Token]
  BY DEF Chunks
<1>2. n \in Nat
  BY <1>1
<1>3. Token \subseteq Tokens
  BY DEF Token, Tokens
<1>4. chunk \in [1 .. n -> Tokens]
  BY <1>1, <1>3
<1> QED
  BY <1>2, <1>4

LEMMA FeedRefsRight ==
    ASSUME ChunkInv, NEW chunk \in Chunks, Feed(chunk)
    PROVE  RefsRight(listed)'
<1>1. /\ ~flushed /\ flushed' = flushed /\ listed' = listed /\ given' = given \o chunk
      /\ cited' = [sent   |-> cited.sent \o ProcessRefs(cited.buffer, chunk, listed).out,
                  buffer |-> ProcessRefs(cited.buffer, chunk, listed).buffer]
  BY DEF Feed
<1>2. /\ chunk \in Seq(Tokens) /\ given \in Seq(Tokens)
      /\ cited.sent \in Seq(Tokens) /\ cited.buffer \in Seq(Tokens)
      /\ Follows(Tokens, Citation, Resolving(Tokens, listed), given, cited.sent, cited.buffer)
  BY <1>1, ChunkOf DEF ChunkInv, RefsRight
<1>3. PICK r : r = ProcessRefs(cited.buffer, chunk, listed)
  OBVIOUS
<1>4. /\ r.out \in Seq(Tokens) /\ r.buffer \in Seq(Tokens)
      /\ Follows(Tokens, Citation, Resolving(Tokens, listed), given \o chunk,
                 cited.sent \o r.out, r.buffer)
  BY ONLY <1>2, <1>3, TokensLinked, FeedRefs
<1>5. cited'.sent = cited.sent \o r.out /\ cited'.buffer = r.buffer
  BY <1>1, <1>3
<1>6. given \o chunk \in Seq(Tokens) /\ cited.sent \o r.out \in Seq(Tokens)
  BY ONLY <1>2, <1>4, ConcatProperties
<1> QED
  BY ONLY <1>1, <1>4, <1>5, <1>6 DEF RefsRight

\* What is given to the quotation filter: body, the chunk or what is left of the
\* first one.
LEMMA StepOfQuotes ==
    ASSUME NEW A, NEW text \in Seq(A), NEW body \in Seq(A),
           NEW sent \in Seq(A), NEW f, f.buffer \in Seq(A),
           Follows(A, QuoteMark, Stripping(A), text, sent, f.buffer),
           NEW s, s = StripQuotes(f.buffer \o body), NEW n, n = Len(s) - HeldQuote(s),
           NEW q, q = [sent |-> sent \o SubSeq(s, 1, n),
                       filter |-> [seen |-> TRUE, buffer |-> SubSeq(s, n + 1, Len(s))]]
    PROVE  /\ q.sent \in Seq(A) /\ q.filter.buffer \in Seq(A) /\ q.filter.seen
           /\ text \o body \in Seq(A)
           /\ Follows(A, QuoteMark, Stripping(A), text \o body, q.sent, q.filter.buffer)
<1>1. PICK held \in Seq(A) : held = f.buffer
  OBVIOUS
<1>2. /\ SubSeq(s, 1, n) \in Seq(A) /\ After(s, n) \in Seq(A)
      /\ Follows(A, QuoteMark, Stripping(A), text \o body, sent \o SubSeq(s, 1, n), After(s, n))
  BY <1>1, FeedQuotes
<1>3. /\ q.sent = sent \o SubSeq(s, 1, n) /\ q.filter.buffer = After(s, n)
      /\ q.filter.seen = TRUE
  BY DEF After
<1>4. sent \o SubSeq(s, 1, n) \in Seq(A) /\ text \o body \in Seq(A)
  BY ONLY <1>2, text \in Seq(A), body \in Seq(A), sent \in Seq(A), ConcatProperties
<1> QED
  BY ONLY <1>2, <1>3, <1>4

\* What is left of the first chunk is a text.
LEMMA BodyOf ==
    ASSUME NEW A, NEW chunk \in Seq(A), QuotesIn(chunk) # {}
    PROVE  /\ SubSeq(chunk, Min(QuotesIn(chunk)) + 2, Len(chunk)) \in Seq(A)
           /\ SubSeq(chunk, Min(QuotesIn(chunk)) + 2, Len(chunk))
              = LET q == CHOOSE i \in QuotesIn(chunk) : \A j \in QuotesIn(chunk) : i <= j
                IN  SubSeq(chunk, q + 2, Len(chunk))
<1>1. QuotesIn(chunk) \subseteq 1 .. Len(chunk) - 1
  BY DEF QuotesIn
<1>2. PICK L \in Nat : L = Len(chunk)
  BY LenProperties
<1>3. QuotesIn(chunk) \subseteq Nat
  BY <1>1, <1>2
<1>4. Min(QuotesIn(chunk)) \in QuotesIn(chunk)
  <2>1. \E i \in QuotesIn(chunk) : \A j \in QuotesIn(chunk) : i <= j
    BY <1>3, LeastNatural
  <2> QED
    BY <2>1 DEF Min
<1>5. PICK m \in 1 .. L - 1 : m = Min(QuotesIn(chunk))
  BY <1>1, <1>2, <1>4
<1>6. SubSeq(chunk, m + 2, L) \in Seq(A)
  BY ONLY <1>2, <1>5, chunk \in Seq(A), SubSeqProperties
<1> QED
  BY <1>2, <1>5, <1>6 DEF Min

LEMMA FeedQuotesRight ==
    ASSUME ChunkInv, NEW chunk \in Chunks, Feed(chunk)
    PROVE  QuotesRight'
<1>1. /\ ~flushed /\ flushed' = flushed
      /\ quotes' = [sent   |-> quotes.sent \o ProcessThinking(quotes.filter, chunk).out,
                    filter |-> ProcessThinking(quotes.filter, chunk).filter]
      /\ quoted' = IF quotes.filter.seen THEN quoted \o chunk
                   ELSE IF QuotesIn(chunk) = {} THEN <<>>
                   ELSE LET q == CHOOSE i \in QuotesIn(chunk) :
                                   \A j \in QuotesIn(chunk) : i <= j
                        IN  SubSeq(chunk, q + 2, Len(chunk))
  <2>1. /\ ~flushed /\ flushed' = flushed
        /\ quotes' = [sent   |-> quotes.sent \o ProcessThinking(quotes.filter, chunk).out,
                      filter |-> ProcessThinking(quotes.filter, chunk).filter]
    BY DEF Feed
  <2>2. quoted' = IF quotes.filter.seen THEN quoted \o chunk
                  ELSE IF QuotesIn(chunk) = {} THEN <<>>
                  ELSE LET q == CHOOSE i \in QuotesIn(chunk) :
                                  \A j \in QuotesIn(chunk) : i <= j
                       IN  SubSeq(chunk, q + 2, Len(chunk))
    BY ONLY Feed(chunk) DEF Feed
  <2> QED
    BY ONLY <2>1, <2>2
<1>2. /\ chunk \in Seq(Tokens) /\ quoted \in Seq(Tokens) /\ quotes.sent \in Seq(Tokens)
      /\ quotes.filter \in [seen : BOOLEAN, buffer : Seq(Tokens)]
      /\ ~quotes.filter.seen => quoted = <<>>
      /\ Follows(Tokens, QuoteMark, Stripping(Tokens), quoted, quotes.sent, quotes.filter.buffer)
  BY <1>1, ChunkOf DEF ChunkInv, QuotesRight
<1>3. PICK f \in [seen : BOOLEAN, buffer : Seq(Tokens)] : f = quotes.filter
  BY <1>2
<1>4. PICK sent \in Seq(Tokens) : sent = quotes.sent
  BY <1>2
<1>5. PICK text \in Seq(Tokens) : text = quoted
  BY <1>2
<1>6. PICK q, text1 : q = quotes' /\ text1 = quoted'
  OBVIOUS
<1>a. q = [sent   |-> sent \o ProcessThinking(f, chunk).out,
           filter |-> ProcessThinking(f, chunk).filter]
  BY ONLY <1>1, <1>3, <1>4, <1>6
<1>b. f.seen \in BOOLEAN
  OBVIOUS
<1>7. SUFFICES /\ text1 \in Seq(Tokens) /\ q.sent \in Seq(Tokens)
               /\ q.filter \in [seen : BOOLEAN, buffer : Seq(Tokens)] /\ q.filter.seen
               /\ Follows(Tokens, QuoteMark, Stripping(Tokens), text1, q.sent, q.filter.buffer)
  BY ONLY <1>1, <1>6, <1>7 DEF QuotesRight
<1>8. CASE ~f.seen /\ QuotesIn(chunk) = {}
  <2>1. ProcessThinking(f, chunk) = [out |-> <<>>, filter |-> [f EXCEPT !.seen = TRUE]]
    BY ONLY <1>8 DEF ProcessThinking
  <2>2. q = [sent |-> sent \o <<>>, filter |-> [f EXCEPT !.seen = TRUE]] /\ text1 = <<>>
    <3>1. q = [sent |-> sent \o <<>>, filter |-> [f EXCEPT !.seen = TRUE]]
      BY ONLY <2>1, <1>a
    <3>2. text1 = <<>>
      BY ONLY <1>1, <1>3, <1>6, <1>8
    <3> QED
      BY ONLY <3>1, <3>2
  <2>3. sent \o <<>> = sent /\ text = <<>>
    BY ONLY <1>2, <1>3, <1>5, <1>8, sent \in Seq(Tokens), ConcatEmptySeq
  <2>4. /\ q.sent = sent /\ q.filter.seen /\ q.filter.buffer = f.buffer
        /\ q.filter \in [seen : BOOLEAN, buffer : Seq(Tokens)]
    BY ONLY <2>2, <2>3, f \in [seen : BOOLEAN, buffer : Seq(Tokens)]
  <2> QED
    BY ONLY <2>2, <2>3, <2>4, <1>2, <1>3, <1>4, <1>5
<1>9. CASE f.seen \/ QuotesIn(chunk) # {}
  <2>1. PICK body \in Seq(Tokens) :
          /\ body = IF f.seen THEN chunk
                    ELSE SubSeq(chunk, Min(QuotesIn(chunk)) + 2, Len(chunk))
          /\ text1 = text \o body
    <3>1. CASE f.seen
      BY ONLY <3>1, <1>1, <1>2, <1>3, <1>5, <1>6
    <3>2. CASE ~f.seen
      <4>1. PICK body \in Seq(Tokens) :
              /\ body = SubSeq(chunk, Min(QuotesIn(chunk)) + 2, Len(chunk))
              /\ body = LET i == CHOOSE i \in QuotesIn(chunk) : \A j \in QuotesIn(chunk) : i <= j
                        IN  SubSeq(chunk, i + 2, Len(chunk))
        BY ONLY <3>2, <1>9, <1>2, BodyOf
      <4>2. text1 = body /\ text = <<>>
        BY ONLY <4>1, <3>2, <1>9, <1>1, <1>2, <1>3, <1>5, <1>6
      <4>3. <<>> \o body = body
        BY ONLY body \in Seq(Tokens), ConcatEmptySeq
      <4> QED
        BY ONLY <3>2, <4>1, <4>2, <4>3
    <3> QED
      BY ONLY <3>1, <3>2, <1>3
  <2>2. PICK s, n : s = StripQuotes(f.buffer \o body) /\ n = Len(s) - HeldQuote(s)
    OBVIOUS
  <2>3. ProcessThinking(f, chunk)
        = [out |-> SubSeq(s, 1, n), filter |-> [seen |-> TRUE, buffer |-> SubSeq(s, n + 1, Len(s))]]
    BY ONLY <1>9, <2>1, <2>2 DEF ProcessThinking
  <2>4. q = [sent |-> sent \o SubSeq(s, 1, n),
             filter |-> [seen |-> TRUE, buffer |-> SubSeq(s, n + 1, Len(s))]]
    BY ONLY <2>3, <1>a
  <2>5. f.buffer \in Seq(Tokens)
        /\ Follows(Tokens, QuoteMark, Stripping(Tokens), text, sent, f.buffer)
    BY ONLY <1>2, <1>3, <1>4, <1>5
  <2>6. /\ q.sent \in Seq(Tokens) /\ q.filter.buffer \in Seq(Tokens) /\ q.filter.seen
        /\ text \o body \in Seq(Tokens)
        /\ Follows(Tokens, QuoteMark, Stripping(Tokens), text \o body, q.sent, q.filter.buffer)
    BY ONLY ZenonT(30), <2>2, <2>4, <2>5, text \in Seq(Tokens), body \in Seq(Tokens),
            sent \in Seq(Tokens),
            StepOfQuotes
  <2>7. q.filter = [seen |-> TRUE, buffer |-> q.filter.buffer]
    BY ONLY <2>4
  <2> QED
    BY ONLY <2>1, <2>6, <2>7
<1> QED
  BY ONLY <1>8, <1>9, <1>3

LEMMA FeedChunkInv ==
    ASSUME ChunkInv, NEW chunk \in Chunks, Feed(chunk)
    PROVE  ChunkInv'
<1>1. alphabet' = alphabet
  BY DEF Feed
<1> QED
  BY <1>1, FeedRefsRight, FeedQuotesRight DEF ChunkInv

LEMMA FlushChunkInv ==
    ASSUME ChunkInv, FlushAll
    PROVE  ChunkInv'
<1>1. /\ ~flushed /\ flushed' = TRUE
      /\ alphabet' = alphabet /\ given' = given /\ listed' = listed /\ quoted' = quoted
      /\ cited' = [sent |-> cited.sent \o ResolveCitations(cited.buffer, listed), buffer |-> <<>>]
      /\ quotes' = [sent |-> quotes.sent \o quotes.filter.buffer,
                    filter |-> [quotes.filter EXCEPT !.buffer = <<>>]]
  BY DEF FlushAll, FlushRefs, FlushThinking
<1>2. RefsRight(listed)'
  <2> DEFINE R == Resolving(Tokens, listed)
  <2>1. /\ given \in Seq(Tokens) /\ cited.sent \in Seq(Tokens) /\ cited.buffer \in Seq(Tokens)
        /\ Follows(Tokens, Citation, R, given, cited.sent, cited.buffer)
    BY <1>1 DEF ChunkInv, RefsRight
  <2>2. PICK sent \in Seq(Tokens), held \in Seq(Tokens) : sent = cited.sent /\ held = cited.buffer
    BY <2>1
  <2>3. Rewrites(Tokens, Citation, Citing(Tokens, listed), R)
    BY TokensLinked, ResolveRewrites
  <2>4. held = <<>> \/ Started(Citation, held)
    BY ONLY <2>1, <2>2 DEF Follows
  <2>5. R[held] = held
    BY ONLY <2>3, <2>4, held \in Seq(Tokens), StartedFree
  <2>6. ResolveCitations(held, listed) = R[held]
    BY ResolveOf DEF Resolving
  <2>7. cited'.sent = sent \o held /\ cited'.buffer = <<>>
    BY ONLY <1>1, <2>2, <2>5, <2>6
  <2>8. R[R[given]] = R[given] => (sent \o held) \o <<>> = R[given]
    <3> SUFFICES ASSUME R[R[given]] = R[given] PROVE (sent \o held) \o <<>> = R[given]
      OBVIOUS
    <3>1. Follows(Tokens, Citation, R, given, sent, held) /\ given \in Seq(Tokens)
      BY ONLY <2>1, <2>2
    <3> HIDE DEF R
    <3> QED
      BY ONLY <3>1, <2>3, R[R[given]] = R[given], sent \in Seq(Tokens), held \in Seq(Tokens),
              FlushFollows
  <2>9. sent \o held \in Seq(Tokens) /\ <<>> \in Seq(Tokens)
    BY ONLY <2>2, ConcatProperties, EmptySeq
  <2> QED
    BY ONLY <1>1, <2>1, <2>7, <2>8, <2>9 DEF RefsRight
<1>3. QuotesRight'
  <2> DEFINE R == Stripping(Tokens)
  <2>1. /\ quoted \in Seq(Tokens) /\ quotes.sent \in Seq(Tokens)
        /\ quotes.filter \in [seen : BOOLEAN, buffer : Seq(Tokens)]
        /\ ~quotes.filter.seen => quoted = <<>>
        /\ Follows(Tokens, QuoteMark, R, quoted, quotes.sent, quotes.filter.buffer)
    BY <1>1 DEF ChunkInv, QuotesRight
  <2>2. PICK sent \in Seq(Tokens), f \in [seen : BOOLEAN, buffer : Seq(Tokens)] :
          sent = quotes.sent /\ f = quotes.filter
    BY <2>1
  <2>3. PICK held \in Seq(Tokens) : held = f.buffer
    OBVIOUS
  <2>4. Rewrites(Tokens, QuoteMark, Keeping(Tokens), R)
    BY StripRewrites
  <2>5. quotes' = [sent |-> sent \o held, filter |-> [f EXCEPT !.buffer = <<>>]]
    BY ONLY <1>1, <2>2, <2>3
  <2>6. sent \o held \in Seq(Tokens) /\ <<>> \in Seq(Tokens)
    BY ONLY sent \in Seq(Tokens), held \in Seq(Tokens), ConcatProperties, EmptySeq
  <2>7. /\ quotes'.sent = sent \o held /\ quotes'.filter.buffer = <<>>
        /\ quotes'.filter.seen = quotes.filter.seen
        /\ quotes'.filter \in [seen : BOOLEAN, buffer : Seq(Tokens)]
    BY ONLY <2>2, <2>5, <2>6
  <2>8. R[R[quoted]] = R[quoted] => (sent \o held) \o <<>> = R[quoted]
    <3> SUFFICES ASSUME R[R[quoted]] = R[quoted] PROVE (sent \o held) \o <<>> = R[quoted]
      OBVIOUS
    <3>1. Follows(Tokens, QuoteMark, R, quoted, sent, held) /\ quoted \in Seq(Tokens)
      BY ONLY <2>1, <2>2, <2>3
    <3> HIDE DEF R
    <3> QED
      BY ONLY <3>1, <2>4, R[R[quoted]] = R[quoted], sent \in Seq(Tokens), held \in Seq(Tokens),
              FlushFollows
  <2> QED
    BY ONLY <1>1, <2>1, <2>6, <2>7, <2>8 DEF QuotesRight
<1> QED
  BY <1>1, <1>2, <1>3 DEF ChunkInv

LEMMA ChunkedInv == FilterSpec => []ChunkInv
<1>1. FilterInit => ChunkInv
  BY InitChunkInv
<1>2. ChunkInv /\ [FilterNext]_filterVars => ChunkInv'
  <2> SUFFICES ASSUME ChunkInv, [FilterNext]_filterVars PROVE ChunkInv'
    OBVIOUS
  <2>1. CASE \E chunk \in Chunks : Feed(chunk)
    BY <2>1, FeedChunkInv
  <2>2. CASE FlushAll
    BY <2>2, FlushChunkInv
  <2>3. CASE UNCHANGED filterVars
    BY <2>3 DEF filterVars, ChunkInv, RefsRight, QuotesRight
  <2> QED
    BY <2>1, <2>2, <2>3 DEF FilterNext
<1> QED
  BY <1>1, <1>2, PTL DEF FilterSpec

\* Of every text over every alphabet, however the upstream cuts it and however
\* long it is, the citation filter sends on and holds back the text with its
\* citations resolved, unless resolving splices a new one (SearchRefFilter).
THEOREM RefsChunkFreeHolds == FilterSpec => []RefsChunkFree
<1>1. ChunkInv => RefsChunkFree
  <2> SUFFICES ASSUME ChunkInv,
                      NEW whole, whole = ResolveCitations(given, listed),
                      ResolveCitations(whole, listed) = whole
               PROVE  cited.sent \o cited.buffer = whole
    BY DEF RefsChunkFree
  <2> DEFINE R == Resolving(Tokens, listed)
  <2>1. /\ given \in Seq(Tokens)
        /\ IF flushed THEN R[R[given]] = R[given] => cited.sent \o cited.buffer = R[given]
           ELSE Follows(Tokens, Citation, R, given, cited.sent, cited.buffer)
    BY DEF ChunkInv, RefsRight
  <2>2. whole \in Seq(Tokens) /\ whole = R[given]
    BY <2>1, TokensLinked, ResolveOf DEF Resolving
  <2>3. R[whole] = whole
    BY <2>2 DEF Resolving
  <2> QED
    BY ONLY <2>1, <2>2, <2>3 DEF Follows
<1> QED
  BY <1>1, ChunkedInv, PTL

\* The same for the quoting of the reasoning: a mark split from its line break
\* is taken off, every other character passes once (ThinkingFilter).
THEOREM QuotesChunkFreeHolds == FilterSpec => []QuotesChunkFree
<1>1. ChunkInv => QuotesChunkFree
  <2> SUFFICES ASSUME ChunkInv,
                      NEW whole, whole = StripQuotes(quoted), StripQuotes(whole) = whole
               PROVE  quotes.sent \o quotes.filter.buffer = whole
    BY DEF QuotesChunkFree
  <2> DEFINE R == Stripping(Tokens)
  <2>1. /\ quoted \in Seq(Tokens)
        /\ IF flushed THEN R[R[quoted]] = R[quoted] => quotes.sent \o quotes.filter.buffer = R[quoted]
           ELSE Follows(Tokens, QuoteMark, R, quoted, quotes.sent, quotes.filter.buffer)
    BY DEF ChunkInv, QuotesRight
  <2>2. whole \in Seq(Tokens) /\ whole = R[quoted]
    BY <2>1, StripOf DEF Stripping
  <2>3. R[whole] = whole
    BY <2>2 DEF Stripping
  <2> QED
    BY ONLY <2>1, <2>2, <2>3 DEF Follows
<1> QED
  BY <1>1, ChunkedInv, PTL

-----------------------------------------------------------------------------
(***************************************************************************)
(* ChatStream: the calls the client of a stream is told about.             *)
(***************************************************************************)
ChatChunks == [kind : {"reasoning", "content"}, tok : Toks]
              \cup [kind : {"call"}, tok : Toks, index : Nat]
Spoken == {o \in ChatChunks : o.kind # "reasoning"}

\* The chunks o have a call exactly if there are calls c.
Tells(o, c) == (\E i \in 1 .. Len(o) : o[i].kind = "call") <=> c # <<>>

LEMMA TellsJoin ==
    ASSUME NEW o1 \in Seq(ChatChunks), NEW o2 \in Seq(ChatChunks),
           NEW c1 \in Seq(Toks), NEW c2 \in Seq(Toks), Tells(o1, c1), Tells(o2, c2)
    PROVE  /\ o1 \o o2 \in Seq(ChatChunks) /\ c1 \o c2 \in Seq(Toks)
           /\ Tells(o1 \o o2, c1 \o c2)
           /\ o1 \in Seq(Spoken) /\ o2 \in Seq(Spoken) => o1 \o o2 \in Seq(Spoken)
<1>1. /\ o1 \o o2 \in Seq(ChatChunks) /\ Len(o1 \o o2) = Len(o1) + Len(o2)
      /\ Len(o1) \in Nat /\ Len(o2) \in Nat
      /\ \A i \in 1 .. Len(o1) + Len(o2) :
            (o1 \o o2)[i] = IF i <= Len(o1) THEN o1[i] ELSE o2[i - Len(o1)]
  BY ConcatProperties, LenProperties
<1>2. /\ c1 \o c2 \in Seq(Toks)
      /\ c1 \o c2 # <<>> <=> c1 # <<>> \/ c2 # <<>>
  BY ConcatProperties, ConcatSimplifications, ConcatEmptySeq
<1>3. ASSUME NEW i \in 1 .. Len(o1 \o o2), (o1 \o o2)[i].kind = "call"
      PROVE  \/ \E j \in 1 .. Len(o1) : o1[j].kind = "call"
             \/ \E j \in 1 .. Len(o2) : o2[j].kind = "call"
  <2>1. CASE i <= Len(o1)
    BY <1>1, <1>3, <2>1
  <2>2. CASE ~(i <= Len(o1))
    <3>1. i - Len(o1) \in 1 .. Len(o2)
      BY <1>1, <2>2
    <3> QED
      BY <1>1, <1>3, <2>2, <3>1
  <2> QED
    BY <2>1, <2>2
<1>4. ASSUME NEW i \in 1 .. Len(o1), o1[i].kind = "call"
      PROVE  \E j \in 1 .. Len(o1 \o o2) : (o1 \o o2)[j].kind = "call"
  <2>1. i \in 1 .. Len(o1) + Len(o2) /\ i <= Len(o1)
    BY <1>1
  <2> QED
    BY <1>1, <1>4, <2>1
<1>5. ASSUME NEW i \in 1 .. Len(o2), o2[i].kind = "call"
      PROVE  \E j \in 1 .. Len(o1 \o o2) : (o1 \o o2)[j].kind = "call"
  <2>1. /\ i + Len(o1) \in 1 .. Len(o1) + Len(o2) /\ ~(i + Len(o1) <= Len(o1))
        /\ (i + Len(o1)) - Len(o1) = i
    BY <1>1
  <2> QED
    BY <1>1, <1>5, <2>1
<1>6. o1 \in Seq(Spoken) /\ o2 \in Seq(Spoken) => o1 \o o2 \in Seq(Spoken)
  BY ConcatProperties
<1>7. Tells(o1 \o o2, c1 \o c2)
  BY <1>1, <1>2, <1>3, <1>4, <1>5 DEF Tells
<1> QED
  BY <1>1, <1>2, <1>6, <1>7

\* Text tells of no call, and what is sent for calls tells of them.
LEMMA TellsText ==
    ASSUME NEW text \in Seq(Toks)
    PROVE  /\ SentReasoning(text) \in Seq(ChatChunks) /\ Tells(SentReasoning(text), <<>>)
           /\ SentContent(text) \in Seq(ChatChunks) /\ Tells(SentContent(text), <<>>)
           /\ SentContent(text) \in Seq(Spoken)
<1>1. /\ Len(text) \in Nat /\ DOMAIN text = 1 .. Len(text)
      /\ \A i \in 1 .. Len(text) : text[i] \in Toks
  BY LenProperties, ElementOfSeq
<1>2. ASSUME NEW kind \in {"reasoning", "content"},
             NEW o, o = [i \in DOMAIN text |-> [kind |-> kind, tok |-> text[i]]]
      PROVE  /\ o \in Seq(ChatChunks) /\ Tells(o, <<>>)
             /\ kind = "content" => o \in Seq(Spoken)
  <2>1. \A i \in 1 .. Len(text) : [kind |-> kind, tok |-> text[i]] \in ChatChunks
    BY <1>1 DEF ChatChunks
  <2>2. /\ o = [i \in 1 .. Len(text) |-> o[i]]
        /\ \A i \in 1 .. Len(text) : o[i] = [kind |-> kind, tok |-> text[i]]
    BY <1>1, <1>2
  <2>3. o \in Seq(ChatChunks) /\ Len(o) = Len(text)
    BY <1>1, <2>1, <2>2, IsASeq, LenProperties
  <2>4. \A i \in 1 .. Len(o) : o[i].kind # "call"
    BY <2>2, <2>3
  <2>5. kind = "content" => o \in Seq(Spoken)
    <3>1. kind = "content" => \A i \in 1 .. Len(text) : o[i] \in Spoken
      BY <2>1, <2>2 DEF Spoken
    <3> QED
      BY <1>1, <2>2, <3>1, IsASeq
  <2> QED
    BY <2>3, <2>4, <2>5 DEF Tells
<1> QED
  BY <1>2 DEF SentReasoning, SentContent

LEMMA TellsCalls ==
    ASSUME NEW text \in Seq(Toks)
    PROVE  /\ SentCalls(text) \in Seq(ChatChunks) /\ Tells(SentCalls(text), text)
           /\ SentCalls(text) \in Seq(Spoken)
<1> DEFINE o == SentCalls(text)
<1>1. /\ Len(text) \in Nat /\ DOMAIN text = 1 .. Len(text)
      /\ \A i \in 1 .. Len(text) : text[i] \in Toks
  BY LenProperties, ElementOfSeq
<1>2. \A i \in 1 .. Len(text) : [kind |-> "call", tok |-> text[i], index |-> i - 1] \in ChatChunks
  BY <1>1 DEF ChatChunks
<1>3. /\ o = [i \in 1 .. Len(text) |-> o[i]]
      /\ \A i \in 1 .. Len(text) : o[i] = [kind |-> "call", tok |-> text[i], index |-> i - 1]
  BY <1>1 DEF SentCalls
<1> HIDE DEF o
<1>4. o \in Seq(ChatChunks) /\ Len(o) = Len(text)
  BY <1>1, <1>2, <1>3, IsASeq, LenProperties
<1>7. o \in Seq(Spoken)
  <2>1. \A i \in 1 .. Len(text) : o[i] \in Spoken
    BY <1>2, <1>3 DEF Spoken
  <2> QED
    BY <1>1, <1>3, <2>1, IsASeq
<1>5. CASE text = <<>>
  BY <1>1, <1>4, <1>5, <1>7, EmptySeq DEF Tells, o
<1>6. CASE text # <<>>
  <2>1. 1 \in 1 .. Len(o)
    BY <1>1, <1>4, <1>6, EmptySeq
  <2> QED
    BY <1>3, <1>4, <1>6, <1>7, <2>1 DEF Tells, o
<1> QED
  BY <1>5, <1>6

\* What a loop gives that goes on from n at step[n], or stops there.
Loops(last, stop, part, step, f) ==
    f = [n \in 0 .. last |->
            IF stop[n] THEN part[n]
            ELSE [out   |-> part[n].out \o f[step[n]].out,
                  calls |-> part[n].calls \o f[step[n]].calls,
                  rest  |-> f[step[n]].rest]]

LEMMA LoopsExist ==
    ASSUME NEW last \in Nat, NEW stop, NEW part, NEW step,
           \A n \in 0 .. last : ~stop[n] => step[n] \in n + 1 .. last
    PROVE  \E f : Loops(last, stop, part, step, f)
<1> DEFINE Turn(f, n) == IF stop[n] THEN part[n]
                         ELSE [out   |-> part[n].out \o f[step[n]].out,
                               calls |-> part[n].calls \o f[step[n]].calls,
                               rest  |-> f[step[n]].rest]
           Good(f, k) ==
              /\ f = [n \in 0 .. last |-> f[n]]
              /\ \A n \in 0 .. last : n + k > last => f[n] = Turn(f, n)
           T == {k \in Nat : \E f : Good(f, k)}
<1>0. ASSUME NEW f, NEW g, NEW n \in 0 .. last, ~stop[n] => f[step[n]] = g[step[n]]
      PROVE  Turn(f, n) = Turn(g, n)
  BY <1>0
<1>1. 0 \in T
  <2> DEFINE f == [n \in 0 .. last |-> n]
  <2>1. Good(f, 0)
    <3>1. f = [n \in 0 .. last |-> f[n]] /\ \A n \in 0 .. last : ~(n + 0 > last)
      OBVIOUS
    <3> HIDE DEF Turn, f
    <3> QED
      BY <3>1
  <2> HIDE DEF Good, f
  <2> QED
    BY <2>1
<1>2. ASSUME NEW k \in Nat, k \in T
      PROVE  k + 1 \in T
  <2>1. PICK f : Good(f, k)
    BY <1>2
  <2> DEFINE at == last - k
             g == [n \in 0 .. last |-> IF n = at THEN Turn(f, at) ELSE f[n]]
  <2>2. \A n \in 0 .. last : n + (k + 1) > last => n = at \/ n + k > last
    OBVIOUS
  <2>3. \A n \in 0 .. last : n >= at /\ ~stop[n] => step[n] # at /\ step[n] \in 0 .. last
    OBVIOUS
  <2>4. \A n \in 0 .. last : n = at \/ n + k > last => n >= at
    OBVIOUS
  <2>5. \A n \in 0 .. last : n # at => g[n] = f[n]
    OBVIOUS
  <2>6. at \in 0 .. last => g[at] = Turn(f, at)
    OBVIOUS
  <2>7. g = [n \in 0 .. last |-> g[n]]
    OBVIOUS
  <2> HIDE DEF g, at, Turn
  <2>8. ASSUME NEW n \in 0 .. last, n + (k + 1) > last
        PROVE  g[n] = Turn(g, n)
    <3>1. ~stop[n] => f[step[n]] = g[step[n]]
      BY <2>2, <2>3, <2>4, <2>5, <2>8
    <3>2. Turn(f, n) = Turn(g, n)
      BY <1>0, <3>1
    <3>3. CASE n = at
      BY <2>6, <3>2, <3>3
    <3>4. CASE n # at
      <4>1. f[n] = Turn(f, n)
        BY <2>1, <2>2, <2>8, <3>4
      <4> QED
        BY <2>5, <3>2, <3>4, <4>1
    <3> QED
      BY <3>3, <3>4
  <2>9. Good(g, k + 1)
    BY <2>7, <2>8
  <2> HIDE DEF Good
  <2>10. k + 1 \in Nat /\ \E h : Good(h, k + 1)
    BY <2>9
  <2> QED
    BY <2>10
<1>3. last + 1 \in T
  <2> HIDE DEF T
  <2>1. Nat \subseteq T
    BY <1>1, <1>2, AllNaturals
  <2> QED
    BY <2>1
<1>4. PICK f : Good(f, last + 1)
  BY <1>3
<1>5. \A n \in 0 .. last : f[n] = Turn(f, n)
  <2>1. \A n \in 0 .. last : n + (last + 1) > last
    OBVIOUS
  <2> HIDE DEF Turn
  <2> QED
    BY <1>4, <2>1
<1>6. Loops(last, stop, part, step, f)
  BY <1>4, <1>5 DEF Loops
<1> QED
  BY <1>6

Drained == [out : Seq(Spoken), calls : Seq(Toks), rest : Seq(Toks)]

\* If every turn of the loop tells of the calls it found, so does the loop.
LEMMA LoopsTell ==
    ASSUME NEW last \in Nat, NEW stop, NEW part, NEW step, NEW f,
           Loops(last, stop, part, step, f),
           \A n \in 0 .. last : ~stop[n] => step[n] \in n + 1 .. last,
           \A n \in 0 .. last : part[n] \in Drained /\ Tells(part[n].out, part[n].calls)
    PROVE  \A n \in 0 .. last : f[n] \in Drained /\ Tells(f[n].out, f[n].calls)
<1> DEFINE Right(d) == d \in Drained /\ Tells(d.out, d.calls)
           T == {k \in Nat : \A n \in 0 .. last : n + k > last => Right(f[n])}
<1>1. \A n \in 0 .. last : f[n] = IF stop[n] THEN part[n]
                                 ELSE [out   |-> part[n].out \o f[step[n]].out,
                                       calls |-> part[n].calls \o f[step[n]].calls,
                                       rest  |-> f[step[n]].rest]
  BY DEF Loops
<1>2. 0 \in T
  OBVIOUS
<1>3. ASSUME NEW k \in Nat, k \in T
      PROVE  k + 1 \in T
  <2>1. ASSUME NEW n \in 0 .. last, n + (k + 1) > last
        PROVE  Right(f[n])
    <3>1. CASE stop[n]
      BY <1>1, <3>1
    <3>2. CASE ~stop[n]
      <4>1. step[n] \in 0 .. last /\ step[n] + k > last
        BY <2>1, <3>2
      <4>2. PICK d : d = f[step[n]] /\ d \in Drained /\ Tells(d.out, d.calls)
        BY <1>3, <4>1
      <4>3. PICK p : p = part[n] /\ p \in Drained /\ Tells(p.out, p.calls)
        BY <2>1
      <4>4. /\ p.out \in Seq(Spoken) /\ p.calls \in Seq(Toks)
            /\ d.out \in Seq(Spoken) /\ d.calls \in Seq(Toks) /\ d.rest \in Seq(Toks)
            /\ p.out \in Seq(ChatChunks) /\ d.out \in Seq(ChatChunks)
        BY <4>2, <4>3, SeqWithin DEF Drained, Spoken
      <4>5. /\ p.out \o d.out \in Seq(Spoken) /\ p.calls \o d.calls \in Seq(Toks)
            /\ Tells(p.out \o d.out, p.calls \o d.calls)
        BY <4>2, <4>3, <4>4, TellsJoin
      <4>6. f[n] = [out |-> p.out \o d.out, calls |-> p.calls \o d.calls, rest |-> d.rest]
        BY <1>1, <2>1, <3>2, <4>2, <4>3
      <4> QED
        BY ONLY <4>4, <4>5, <4>6 DEF Drained
    <3> QED
      BY <3>1, <3>2
  <2> HIDE DEF Right
  <2> QED
    BY <2>1
<1>4. last + 1 \in T
  <2> HIDE DEF T
  <2>1. Nat \subseteq T
    BY <1>2, <1>3, AllNaturals
  <2> QED
    BY <2>1
<1> QED
  BY <1>4

\* A block ends in the text, after its first token.
LEMMA BlockEnds ==
    ASSUME NEW A, NEW s \in Seq(A)
    PROVE  BlockEnd(s) \in 0 .. Len(s)
<1> DEFINE ends == Positions(s, {"close", "think"})
                   \cup {i - 1 : i \in Positions(s, {"open"}) \ {1}}
<1>1. Len(s) \in Nat /\ DOMAIN s = 1 .. Len(s)
  BY LenProperties
<1>2. ends \subseteq 1 .. Len(s)
  BY <1>1 DEF Positions
<1>3. BlockEnd(s) = IF ends = {} THEN 0 ELSE Min(ends)
  BY DEF BlockEnd
<1> HIDE DEF ends
<1>4. CASE ends = {}
  BY <1>1, <1>3, <1>4
<1>5. CASE ends # {}
  <2>1. ends \subseteq Nat
    BY <1>1, <1>2
  <2>2. \E n \in ends : \A m \in ends : n <= m
    BY <1>5, <2>1, LeastNatural
  <2>3. Min(ends) \in ends
    BY <2>2 DEF Min
  <2>4. BlockEnd(s) = Min(ends) /\ Min(ends) \in 1 .. Len(s)
    BY <1>2, <1>3, <1>5, <2>3
  <2> QED
    BY ONLY <1>1, <2>4
<1> QED
  BY <1>4, <1>5

\* The loop over the buffer tells of the calls it takes out of it.
LEMMA DrainTells ==
    ASSUME NEW buffer \in Seq(Toks)
    PROVE  /\ DrainBuffer(buffer) \in Drained
           /\ Tells(DrainBuffer(buffer).out, DrainBuffer(buffer).calls)
<1> DEFINE last == Len(buffer)
           b(n)    == SubSeq(buffer, n + 1, Len(buffer))
           tags(n) == Positions(b(n), {"open"})
           tag(n)  == CHOOSE i \in tags(n) : \A j \in tags(n) : i <= j
           rest(n) == SubSeq(b(n), tag(n), Len(b(n)))
           end(n)  == BlockEnd(rest(n))
           found(n) == ExtractPromptToolCalls(SubSeq(rest(n), 1, end(n))).calls
           before(n) == SentContent(SubSeq(b(n), 1, tag(n) - 1))
           stop == [n \in 0 .. last |-> tags(n) = {} \/ end(n) = 0]
           part == [n \in 0 .. last |->
                      IF tags(n) = {} THEN [out |-> <<>>, calls |-> <<>>, rest |-> b(n)]
                      ELSE IF end(n) = 0
                      THEN [out |-> before(n), calls |-> <<>>, rest |-> rest(n)]
                      ELSE [out |-> before(n) \o SentCalls(found(n)), calls |-> found(n),
                            rest |-> <<>>]]
           step == [n \in 0 .. last |-> n + tag(n) - 1 + end(n)]
           Body(f) == [n \in 0 .. last |->
                         IF tags(n) = {} THEN [out |-> <<>>, calls |-> <<>>, rest |-> b(n)]
                         ELSE IF end(n) = 0
                         THEN [out |-> before(n), calls |-> <<>>, rest |-> rest(n)]
                         ELSE [out |-> before(n) \o SentCalls(found(n))
                                       \o f[n + tag(n) - 1 + end(n)].out,
                               calls |-> found(n) \o f[n + tag(n) - 1 + end(n)].calls,
                               rest |-> f[n + tag(n) - 1 + end(n)].rest]]
           from == CHOOSE f : f = Body(f)
<1>1. DrainBuffer(buffer) = from[0]
  BY DEF DrainBuffer
<1>2. Len(buffer) \in Nat
  BY LenProperties
<1>3. \A f : Body(f) = [n \in 0 .. last |->
                          IF stop[n] THEN part[n]
                          ELSE [out   |-> part[n].out \o f[step[n]].out,
                                calls |-> part[n].calls \o f[step[n]].calls,
                                rest  |-> f[step[n]].rest]]
  <2> SUFFICES ASSUME NEW f
               PROVE  Body(f) = [n \in 0 .. last |->
                          IF stop[n] THEN part[n]
                          ELSE [out   |-> part[n].out \o f[step[n]].out,
                                calls |-> part[n].calls \o f[step[n]].calls,
                                rest  |-> f[step[n]].rest]]
    OBVIOUS
  <2> HIDE DEF last, b, tag, rest, before, end, tags, found
  <2>1. ASSUME NEW n \in 0 .. last
        PROVE  Body(f)[n] = IF stop[n] THEN part[n]
                            ELSE [out   |-> part[n].out \o f[step[n]].out,
                                  calls |-> part[n].calls \o f[step[n]].calls,
                                  rest  |-> f[step[n]].rest]
    <3>1. CASE tags(n) = {}
      BY <3>1
    <3>2. CASE tags(n) # {} /\ end(n) = 0
      BY <3>2
    <3>3. CASE tags(n) # {} /\ end(n) # 0
      <4>1. /\ ~stop[n] /\ step[n] = n + tag(n) - 1 + end(n)
            /\ part[n] = [out |-> before(n) \o SentCalls(found(n)), calls |-> found(n),
                          rest |-> <<>>]
        BY <3>3
      <4>2. Body(f)[n] = [out |-> before(n) \o SentCalls(found(n))
                                  \o f[n + tag(n) - 1 + end(n)].out,
                          calls |-> found(n) \o f[n + tag(n) - 1 + end(n)].calls,
                          rest |-> f[n + tag(n) - 1 + end(n)].rest]
        BY <3>3
      <4> HIDE DEF Body, stop, part, step
      <4> QED
        BY ONLY <4>1, <4>2
    <3> QED
      BY <3>1, <3>2, <3>3
  <2>2. Body(f) = [n \in 0 .. last |-> Body(f)[n]]
    OBVIOUS
  <2> HIDE DEF Body, stop, part, step
  <2> QED
    BY <2>1, <2>2
<1>4. ASSUME NEW n \in 0 .. last
      PROVE  /\ ~stop[n] => step[n] \in n + 1 .. last
             /\ part[n] \in Drained /\ Tells(part[n].out, part[n].calls)
  <2>1. /\ b(n) \in Seq(Toks) /\ Len(b(n)) = last - n /\ Len(b(n)) \in Nat
        /\ DOMAIN b(n) = 1 .. last - n
    BY <1>2, AfterCut, LenProperties DEF After
  <2>2. CASE tags(n) = {}
    <3>1. part[n] = [out |-> <<>>, calls |-> <<>>, rest |-> b(n)] /\ stop[n]
      BY <2>2
    <3>2. <<>> \in Seq(Toks) /\ <<>> \in Seq(Spoken) /\ Tells(<<>>, <<>>)
      BY EmptySeq DEF Tells
    <3> HIDE DEF b, stop, part, step
    <3> QED
      BY ONLY <2>1, <3>1, <3>2 DEF Drained
  <2>3. CASE tags(n) # {}
    <3>1. tags(n) \subseteq 1 .. last - n
      BY <2>1 DEF Positions
    <3>2. tag(n) \in tags(n)
      <4> HIDE DEF tags
      <4>1. tags(n) \subseteq Nat
        BY <1>2, <3>1
      <4>2. \E i \in tags(n) : \A j \in tags(n) : i <= j
        BY <2>3, <4>1, LeastNatural
      <4> QED
        BY <4>2
    <3>3. PICK t \in 1 .. last - n : t = tag(n)
      BY <3>1, <3>2
    <3>4. rest(n) \in Seq(Toks) /\ Len(rest(n)) = (last - n) - t + 1
      <4>1. /\ t - 1 \in 0 .. Len(b(n)) /\ t - 1 + 1 = t
            /\ Len(b(n)) - (t - 1) = (last - n) - t + 1
        <5> HIDE DEF b, tag
        <5> QED
          BY ONLY <1>2, <2>1, n \in 0 .. last, t \in 1 .. last - n
      <4>2. After(b(n), t - 1) \in Seq(Toks) /\ Len(After(b(n), t - 1)) = Len(b(n)) - (t - 1)
        BY <2>1, <4>1, AfterCut
      <4> HIDE DEF b, tag
      <4> QED
        BY ONLY <3>3, <4>1, <4>2 DEF After, rest
    <3>5. before(n) \in Seq(ChatChunks) /\ before(n) \in Seq(Spoken) /\ Tells(before(n), <<>>)
      <4>1. SubSeq(b(n), 1, tag(n) - 1) \in Seq(Toks)
        <5>1. /\ 1 \in Nat \ {0} /\ tag(n) - 1 \in Nat /\ tag(n) - 1 <= Len(b(n))
          BY <1>2, <2>1, <3>3
        <5> HIDE DEF b, tag
        <5> QED
          BY ONLY <2>1, <5>1, SubOf
      <4> HIDE DEF b, tag
      <4> QED
        BY <4>1, TellsText
    <3>6. end(n) \in 0 .. (last - n) - t + 1
      <4> HIDE DEF rest
      <4> QED
        BY <3>4, BlockEnds
    <3>7. PICK e \in 0 .. (last - n) - t + 1 : e = end(n)
      BY <3>6
    <3> HIDE DEF b, tag, rest, before, end, tags, found
    <3>8. CASE end(n) = 0
      <4>1. part[n] = [out |-> before(n), calls |-> <<>>, rest |-> rest(n)] /\ stop[n]
        BY <2>3, <3>8
      <4>2. <<>> \in Seq(Toks)
        BY EmptySeq
      <4> QED
        BY ONLY <3>4, <3>5, <4>1, <4>2 DEF Drained
    <3>9. CASE end(n) # 0
      <4>1. /\ part[n] = [out |-> before(n) \o SentCalls(found(n)), calls |-> found(n),
                          rest |-> <<>>]
            /\ ~stop[n] /\ step[n] = n + t - 1 + e
        BY <2>3, <3>3, <3>7, <3>9
      <4>2. n + t - 1 + e \in n + 1 .. last
        BY <1>2, <3>3, <3>7, <3>9
      <4>3. SubSeq(rest(n), 1, end(n)) \in Seq(Toks)
        <5>1. e \in Nat /\ e <= Len(rest(n)) /\ 1 \in Nat \ {0}
          BY <1>2, <3>3, <3>4, <3>7
        <5> QED
          BY ONLY <3>4, <3>7, <5>1, SubOf
      <4>4. found(n) \in Seq(Toks)
        <5>1. ExtractPromptToolCalls(SubSeq(rest(n), 1, end(n))) \in Results(Toks)
          BY <4>3, ExtractOf
        <5> QED
          BY <5>1 DEF Results, found
      <4>5. /\ SentCalls(found(n)) \in Seq(ChatChunks) /\ SentCalls(found(n)) \in Seq(Spoken)
            /\ Tells(SentCalls(found(n)), found(n))
        BY <4>4, TellsCalls
      <4>6. /\ before(n) \o SentCalls(found(n)) \in Seq(Spoken)
            /\ Tells(before(n) \o SentCalls(found(n)), <<>> \o found(n))
            /\ <<>> \o found(n) = found(n) /\ <<>> \in Seq(Toks)
        BY <3>5, <4>4, <4>5, EmptySeq, ConcatEmptySeq, TellsJoin
      <4> QED
        BY ONLY <4>1, <4>2, <4>4, <4>6 DEF Drained
    <3> QED
      BY <3>8, <3>9
  <2> QED
    BY <2>2, <2>3
<1> HIDE DEF stop, part, step, Body
<1>5. PICK f : Loops(last, stop, part, step, f)
  BY <1>2, <1>4, LoopsExist
<1>6. f = Body(f)
  BY <1>3, <1>5 DEF Loops
<1>7. from = Body(from)
  BY <1>6
<1> HIDE DEF from
<1>8. Loops(last, stop, part, step, from)
  BY <1>3, <1>7 DEF Loops
<1>9. 0 \in 0 .. last
  BY <1>2
<1>10. from[0] \in Drained /\ Tells(from[0].out, from[0].calls)
  BY <1>2, <1>4, <1>8, <1>9, LoopsTell
<1> QED
  BY <1>1, <1>10

ChatLocals == [thinking : Filters, last : Seq(Toks), refs : Seq(Toks), buffer : Seq(Toks),
               calls : Seq(Toks), length : Nat]

\* The client was told of a call exactly if the handler has collected one.
ChatInv ==
    /\ hasTools \in Declared /\ frames \in Nat
    /\ stream \in ChatLocals /\ out \in Seq(ChatChunks)
    /\ Tells(out, stream.calls)
    /\ pc = "end" => (finish = "tool_calls" <=> stream.calls # <<>>)

LEMMA ToksLinked == \A t \in Toks : [t EXCEPT !.sym = "link"] \in Toks
  BY LinkedSets DEF Linked, InThinking, InText, Reasoning, Answer

\* What the citation filter is given stays a text of tokens.
LEMMA RefsWithin ==
    ASSUME NEW b \in Seq(Toks), NEW c \in Seq(Toks), NEW sure
    PROVE  /\ ProcessRefs(b, c, sure).out \in Seq(Toks)
           /\ ProcessRefs(b, c, sure).buffer \in Seq(Toks)
           /\ FlushRefs(b, sure).out \in Seq(Toks)
<1> DEFINE s == ResolveCitations(b \o c, sure)
           n == Len(s) - HeldBack(s)
<1>1. s \in Seq(Toks)
  BY ConcatProperties, ToksLinked, ResolveOf
<1>2. n = Len(s) - Waits(Citation, s)
  BY <1>1, HeldBackWaits
<1>3. ProcessRefs(b, c, sure) = [out |-> SubSeq(s, 1, n), buffer |-> After(s, n)]
  BY DEF ProcessRefs, After
<1> HIDE DEF n, s
<1>4. SubSeq(s, 1, n) \in Seq(Toks) /\ After(s, n) \in Seq(Toks)
  BY <1>1, <1>2, WaitsHold, AfterCut
<1>5. ResolveCitations(b, sure) \in Seq(Toks)
  BY ToksLinked, ResolveOf
<1>6. FlushRefs(b, sure).out \in Seq(Toks)
  BY <1>5 DEF FlushRefs
<1> QED
  BY ONLY <1>3, <1>4, <1>6

LEMMA ChatMarks ==
    ASSUME frames \in Nat, NEW cond,
           NEW sym \in {"sources", "images", "break"}, NEW src \in {"pending", "thinking"}
    PROVE  When(cond, Mark(sym, src)) \in Seq(Toks)
<1>1. [sym |-> sym, src |-> src, at |-> frames + 1, pos |-> 0] \in Toks
  BY DEF Toks, Strings
<1>2. Mark(sym, src) \in Seq(Toks)
  BY <1>1 DEF Mark
<1> QED
  BY <1>2, EmptySeq DEF When

LEMMA TellsMore ==
    ASSUME NEW o1 \in Seq(ChatChunks), NEW o2 \in Seq(ChatChunks), NEW c \in Seq(Toks),
           Tells(o1, c), Tells(o2, <<>>)
    PROVE  o1 \o o2 \in Seq(ChatChunks) /\ Tells(o1 \o o2, c)
<1>1. <<>> \in Seq(Toks) /\ c \o <<>> = c
  BY EmptySeq, ConcatEmptySeq
<1>2. o1 \o o2 \in Seq(ChatChunks) /\ Tells(o1 \o o2, c \o <<>>)
  BY <1>1, TellsJoin
<1> QED
  BY ONLY <1>1, <1>2

\* Every frame keeps the client told.
LEMMA ChatKept ==
    ASSUME ChatInv, ChatReadFrame, stream' \in ChatLocals, out' \in Seq(ChatChunks),
           Tells(out', stream'.calls)
    PROVE  ChatInv'
<1>1. hasTools' \in Declared /\ pc' # "end" /\ frames' \in Nat
  BY DEF ChatInv, ChatReadFrame
<1> QED
  BY ONLY <1>1, stream' \in ChatLocals, out' \in Seq(ChatChunks), Tells(out', stream'.calls)
     DEF ChatInv, Tells

\* A frame that adds no call sends text only.
LEMMA ChatSaysText ==
    ASSUME ChatInv, ChatReadFrame, stream' \in ChatLocals, stream'.calls = stream.calls,
           NEW o \in Seq(ChatChunks), Tells(o, <<>>), out' = out \o o
    PROVE  ChatInv'
<1>1. out \in Seq(ChatChunks) /\ stream.calls \in Seq(Toks) /\ Tells(out, stream.calls)
  BY DEF ChatInv, ChatLocals
<1>2. out \o o \in Seq(ChatChunks) /\ Tells(out \o o, stream.calls)
  BY <1>1, TellsMore
<1>3. out' \in Seq(ChatChunks) /\ Tells(out', stream'.calls)
  BY <1>2
<1> QED
  BY <1>3, ChatKept

LEMMA InitChat == ChatInit => ChatInv
<1>1. <<>> \in Seq(Toks) /\ <<>> \in Seq(ChatChunks) /\ <<>> \in Seq(Reasoning)
  BY EmptySeq
<1>2. Tells(<<>>, <<>>)
  BY EmptySeq DEF Tells
<1>3. [seen |-> FALSE, buffer |-> <<>>] \in Filters
  BY <1>1 DEF Filters
<1> SUFFICES ASSUME ChatInit PROVE ChatInv
  OBVIOUS
<1>4. /\ stream = [thinking |-> [seen |-> FALSE, buffer |-> <<>>], last |-> <<>>, refs |-> <<>>,
                   buffer |-> <<>>, calls |-> <<>>, length |-> 0]
      /\ hasTools \in Declared /\ frames = 0 /\ out = <<>> /\ pc = "frame"
  BY DEF ChatInit, NewThinkingFilter
<1>5. stream \in ChatLocals /\ stream.calls = <<>>
  BY ONLY <1>1, <1>3, <1>4 DEF ChatLocals
<1> QED
  BY ONLY <1>1, <1>2, <1>4, <1>5 DEF ChatInv

LEMMA ChatTexts ==
    ASSUME ChatInv
    PROVE  /\ \A d \in ThinkingTexts[hasTools] : d \in Seq(Strings)
           /\ \A d \in EditThinking[hasTools] : d \in Seq(Strings)
           /\ \A d \in AnswerTexts[hasTools] : d \in Seq(Strings)
           /\ <<>> \in Seq(Strings)
           /\ "thinking" \in Strings /\ "block" \in Strings /\ "answer" \in Strings
           /\ "tool_call" \in Strings
<1>1. STRING \subseteq Strings
  BY DEF Strings
<1>2. \A d \in ThinkingTexts[hasTools] \cup AnswerTexts[hasTools] : d \in Seq(STRING)
  BY TextsAssumption DEF ChatInv
<1>3. \A d \in EditThinking[hasTools] : d \in Seq(STRING)
  BY EditThinkingAssumption DEF ChatInv
<1>4. \A d \in Seq(STRING) : d \in Seq(Strings)
  BY <1>1, SeqWithin
<1> QED
  BY <1>2, <1>3, <1>4, EmptySeq DEF Strings

LEMMA ThinkingChat ==
    ASSUME ChatInv, NEW delta \in ThinkingTexts[hasTools], ChatThinkingFrame(delta)
    PROVE  ChatInv'
<1>1. /\ stream \in ChatLocals /\ stream.thinking \in Filters /\ stream.refs \in Seq(Toks)
      /\ stream.last \in Seq(Toks) /\ frames \in Nat
  BY DEF ChatInv, ChatLocals
<1>2. Text(delta, "thinking") \in Seq(Reasoning)
  BY <1>1, ChatTexts, TextOf
<1>3. PICK p : p = Process(stream.thinking, delta)
  OBVIOUS
<1>4. p.out \in Seq(Toks) /\ p.filter \in Filters
  <2> DEFINE f == IF NewRound THEN ResetForNewRound(stream.thinking)
                  ELSE stream.thinking
  <2>1. f \in Filters
    BY <1>1 DEF Filters, ResetForNewRound
  <2>2. p = ProcessThinking(f, Text(delta, "thinking"))
    BY <1>3 DEF Process
  <2>3. p.out \in Seq(Reasoning) /\ p.filter \in Filters
    BY ONLY <1>2, <2>1, <2>2, ThinkingOf
  <2> QED
    BY <2>3, SeqWithin DEF Reasoning
<1>5. PICK text : text = When(p.out # <<>>, Break \o p.out)
  OBVIOUS
<1>6. text \in Seq(Toks)
  <2>1. Break \in Seq(Toks)
    BY <1>1, ChatMarks DEF Break
  <2>2. Break \o p.out \in Seq(Toks)
    BY <1>4, <2>1, ConcatProperties
  <2> QED
    BY <1>5, <2>2, EmptySeq DEF When
<1>7. PICK r : r = ProcessRefs(stream.refs, text, known)
  OBVIOUS
<1>8. r.out \in Seq(Toks) /\ r.buffer \in Seq(Toks)
  BY <1>1, <1>6, <1>7, RefsWithin
<1>9. PICK last : last = LastOutputChunk(stream.last, text)
  OBVIOUS
<1>10. last \in Seq(Toks)
  BY <1>1, <1>6, <1>9, EmptySeq DEF LastOutputChunk
<1>11. /\ ChatReadFrame
       /\ stream' = [stream EXCEPT !.thinking = p.filter, !.refs = r.buffer, !.last = last]
       /\ out' = out \o SentReasoning(r.out)
  BY <1>3, <1>5, <1>7, <1>9 DEF ChatThinkingFrame, StreamThinks
<1>12. stream' \in ChatLocals /\ stream'.calls = stream.calls
  BY ONLY <1>1, <1>4, <1>8, <1>10, <1>11 DEF ChatLocals
<1>13. SentReasoning(r.out) \in Seq(ChatChunks) /\ Tells(SentReasoning(r.out), <<>>)
  BY <1>8, TellsText
<1> QED
  BY <1>11, <1>12, <1>13, ChatSaysText

\* Frames that leave the stream alone.
LEMMA QuietChat ==
    ASSUME ChatInv, ChatReadFrame, UNCHANGED <<stream, out>>
    PROVE  ChatInv'
<1>1. stream' \in ChatLocals /\ out' \in Seq(ChatChunks) /\ Tells(out', stream'.calls)
  BY DEF ChatInv
<1> QED
  BY <1>1, ChatKept

LEMMA BlockChat ==
    ASSUME ChatInv, NEW before \in AnswerTexts[hasTools], NEW image, NEW phase,
           ChatBlockFrame(before, image, phase)
    PROVE  ChatInv'
<1>1. stream \in ChatLocals /\ stream.refs \in Seq(Toks) /\ frames \in Nat
  BY DEF ChatInv, ChatLocals
<1>2. Text(before, "block") \in Seq(Toks)
  BY <1>1, ChatTexts, TextOf
<1>3. PICK r : r = ProcessRefs(stream.refs, Text(before, "block"), known)
  OBVIOUS
<1>4. r.out \in Seq(Toks) /\ r.buffer \in Seq(Toks)
  BY <1>1, <1>2, <1>3, RefsWithin
<1>5. /\ ChatReadFrame
      /\ stream' = [stream EXCEPT !.refs = r.buffer] /\ out' = out \o SentContent(r.out)
  BY <1>3 DEF ChatBlockFrame, ChatOtherFrame
<1>6. stream' \in ChatLocals /\ stream'.calls = stream.calls
  BY ONLY <1>1, <1>4, <1>5 DEF ChatLocals
<1>7. SentContent(r.out) \in Seq(ChatChunks) /\ Tells(SentContent(r.out), <<>>)
  BY <1>4, TellsText
<1> QED
  BY <1>5, <1>6, <1>7, ChatSaysText

\* The calls of a frame replace the earlier ones, but there is one at least.
LEMMA CallsChat ==
    ASSUME ChatInv, NEW n \in 1 .. MaxCalls, ChatFunctionCallFrame(n)
    PROVE  ChatInv'
<1>1. stream \in ChatLocals /\ frames \in Nat /\ out \in Seq(ChatChunks) /\ hasTools \in Declared
  BY DEF ChatInv
<1>2. PICK calls_ : calls_ = Text([i \in 1 .. n |-> "call"], "tool_call")
  OBVIOUS
<1>3. n \in Nat \ {0}
  BY BoundsAssumption
<1>4. calls_ \in Seq(Toks) /\ calls_ # <<>>
  <2>1. \A i \in 1 .. n : "call" \in Strings
    BY DEF Strings
  <2>2. [i \in 1 .. n |-> "call"] \in Seq(Strings) /\ "tool_call" \in Strings
    BY <1>3, <2>1, IsASeq DEF Strings
  <2>3. calls_ \in Seq(Toks)
    BY <1>1, <1>2, <2>2, TextOf
  <2>4. DOMAIN calls_ = 1 .. n
    BY <1>2 DEF Text
  <2> QED
    BY <1>3, <2>3, <2>4, EmptySeq
<1>5. /\ ChatReadFrame /\ stream' = [stream EXCEPT !.calls = calls_]
      /\ out' = out \o SentCalls(calls_)
  BY <1>2 DEF ChatFunctionCallFrame, ChatOtherFrame
<1>6. stream' \in ChatLocals /\ stream'.calls = calls_
  BY ONLY <1>1, <1>4, <1>5 DEF ChatLocals
<1>7. PICK o : o = SentCalls(calls_) /\ o \in Seq(ChatChunks) /\ Tells(o, calls_)
  BY <1>4, TellsCalls
<1>8. out \o o \in Seq(ChatChunks) /\ Tells(out \o o, calls_)
  <2>1. /\ out \o o \in Seq(ChatChunks) /\ Len(out \o o) = Len(out) + Len(o)
        /\ Len(out) \in Nat /\ Len(o) \in Nat
        /\ \A i \in 1 .. Len(out) + Len(o) :
              (out \o o)[i] = IF i <= Len(out) THEN out[i] ELSE o[i - Len(out)]
    BY ONLY <1>1, <1>7, ConcatProperties, LenProperties
  <2>2. PICK i \in 1 .. Len(o) : o[i].kind = "call"
    BY <1>4, <1>7 DEF Tells
  <2>3. /\ i + Len(out) \in 1 .. Len(out) + Len(o) /\ ~(i + Len(out) <= Len(out))
        /\ (i + Len(out)) - Len(out) = i
    BY ONLY <2>1, i \in 1 .. Len(o)
  <2>4. (out \o o)[i + Len(out)].kind = "call" /\ i + Len(out) \in 1 .. Len(out \o o)
    BY ONLY <2>1, <2>2, <2>3
  <2> QED
    BY ONLY <2>1, <2>4, <1>4 DEF Tells
<1>9. out' \in Seq(ChatChunks) /\ Tells(out', stream'.calls)
  BY ONLY <1>5, <1>6, <1>7, <1>8
<1> QED
  BY <1>5, <1>6, <1>9, ChatKept

\* What an edit adds to the reasoning is part of what it repeats.
LEMMA MoreThinking ==
    ASSUME NEW whole \in Seq(Toks), NEW last \in Seq(Toks)
    PROVE  IncrementalThinking(whole, last) \in Seq(Toks)
<1> DEFINE at == {i \in 0 .. Len(whole) - Len(last) :
                     Syms(SubSeq(whole, i + 1, i + Len(last))) = Syms(last)}
           i == CHOOSE i \in at : \A j \in at : i <= j
<1>1. IncrementalThinking(whole, last)
      = IF last = <<>> \/ at = {} THEN whole ELSE SubSeq(whole, i + Len(last) + 1, Len(whole))
  BY DEF IncrementalThinking
<1>2. Len(whole) \in Nat /\ Len(last) \in Nat
  BY LenProperties
<1>3. at \subseteq Nat
  BY <1>2
<1> HIDE DEF at
<1>4. CASE at # {}
  <2>1. \E n \in at : \A j \in at : n <= j
    BY <1>3, <1>4, LeastNatural
  <2>2. i \in at
    BY <2>1
  <2>3. i + Len(last) + 1 \in Nat \ {0}
    <3>1. PICK k \in Nat : k = i
      BY <1>3, <2>2
    <3> HIDE DEF i
    <3>2. k + Len(last) + 1 \in Nat \ {0}
      BY ONLY <1>2, k \in Nat
    <3> QED
      BY ONLY <3>1, <3>2
  <2> HIDE DEF i
  <2>4. SubSeq(whole, i + Len(last) + 1, Len(whole)) \in Seq(Toks)
    BY <1>2, <2>3, SubOf
  <2> QED
    BY ONLY <1>1, <2>4, whole \in Seq(Toks)
<1>5. CASE at = {}
  BY <1>1, <1>5
<1> QED
  BY <1>4, <1>5

LEMMA WhenText ==
    ASSUME NEW cond, NEW text \in Seq(Toks)
    PROVE  When(cond, text) \in Seq(Toks)
  BY EmptySeq DEF When

LEMMA ChatExtracts ==
    ASSUME ChatInv, NEW via, NEW text \in Seq(Toks)
    PROVE  /\ ChatExtracted(via, text).content \in Seq(Toks)
           /\ ChatExtracted(via, text).length \in Nat
<1>1. stream.length \in Nat /\ Len(text) \in Nat
  BY LenProperties DEF ChatInv, ChatLocals
<1>2. SubSeq(text, stream.length + 1, Len(text)) \in Seq(Toks)
  BY <1>1, SubOf
<1> QED
  BY <1>1, <1>2 DEF ChatExtracted

LEMMA ContentChat ==
    ASSUME ChatInv, NEW via, NEW phase,
           NEW repeated \in Seq(Strings), NEW syms \in Seq(Strings),
           ChatContentFrame(via, phase, repeated, syms)
    PROVE  ChatInv'
<1>1. /\ stream \in ChatLocals /\ stream.thinking \in Filters
      /\ stream.thinking.buffer \in Seq(Reasoning) /\ stream.refs \in Seq(Toks)
      /\ stream.last \in Seq(Toks) /\ stream.buffer \in Seq(Toks)
      /\ stream.calls \in Seq(Toks) /\ stream.length \in Nat
      /\ frames \in Nat /\ out \in Seq(ChatChunks) /\ Tells(out, stream.calls)
  BY DEF ChatInv, ChatLocals, Filters
<1>2. PICK whole, text : /\ whole = Text(repeated, "thinking")
                         /\ text = Text(syms, "answer")
  OBVIOUS
<1>3. whole \in Seq(Toks) /\ text \in Seq(Toks)
  <2>1. "thinking" \in Strings /\ "answer" \in Strings
    BY DEF Strings
  <2> QED
    BY <1>1, <1>2, <2>1, TextOf
<1>4. PICK f : f = FlushThinking(stream.thinking)
  OBVIOUS
<1>5. f.out \in Seq(Toks) /\ f.filter \in Filters
  <2>1. f = [out |-> stream.thinking.buffer, filter |-> [stream.thinking EXCEPT !.buffer = <<>>]]
    BY <1>4 DEF FlushThinking
  <2>2. stream.thinking.buffer \in Seq(Toks)
    BY <1>1, SeqWithin DEF Reasoning
  <2>3. [stream.thinking EXCEPT !.buffer = <<>>] \in Filters
    BY <1>1, EmptySeq DEF Filters
  <2> QED
    BY <2>1, <2>2, <2>3
<1>6. PICK last : last = IF f.out # <<>> THEN f.out ELSE stream.last
  OBVIOUS
<1>7. last \in Seq(Toks)
  BY <1>1, <1>5, <1>6
<1>8. PICK more : more = When(via = "edit", IncrementalThinking(whole, last))
  OBVIOUS
<1>9. more \in Seq(Toks)
  BY <1>3, <1>7, <1>8, MoreThinking, WhenText
<1>10. PICK r1 : r1 = ProcessRefs(stream.refs, f.out, known)
  OBVIOUS
<1>11. r1.out \in Seq(Toks) /\ r1.buffer \in Seq(Toks)
  BY <1>1, <1>5, <1>10, RefsWithin
<1>12. PICK r2 : r2 = ProcessRefs(r1.buffer, more, known)
  OBVIOUS
<1>13. r2.out \in Seq(Toks) /\ r2.buffer \in Seq(Toks)
  BY <1>9, <1>11, <1>12, RefsWithin
<1>14. PICK said : said = When(more # <<>>, r2.out \o FlushRefs(r2.buffer, known).out)
  OBVIOUS
<1>15. said \in Seq(Toks)
  <2>1. FlushRefs(r2.buffer, known).out \in Seq(Toks)
    BY <1>13, RefsWithin
  <2>2. r2.out \o FlushRefs(r2.buffer, known).out \in Seq(Toks)
    BY <1>13, <2>1, ConcatProperties
  <2> QED
    BY <1>14, <2>2, WhenText
<1>16. PICK x : x = ChatExtracted(via, text)
  OBVIOUS
<1>17. x.content \in Seq(Toks) /\ x.length \in Nat
  BY <1>3, <1>16, ChatExtracts
<1>18. PICK r3 : r3 = ProcessRefs(When(more = <<>>, r1.buffer), x.content, known)
  OBVIOUS
<1>19. r3.out \in Seq(Toks) /\ r3.buffer \in Seq(Toks)
  <2>1. When(more = <<>>, r1.buffer) \in Seq(Toks)
    BY <1>11, WhenText
  <2> QED
    BY <1>17, <1>18, <2>1, RefsWithin
<1>20. PICK d : d = DrainBuffer(stream.buffer \o r3.out)
  OBVIOUS
<1>21. /\ d.out \in Seq(ChatChunks) /\ d.calls \in Seq(Toks) /\ d.rest \in Seq(Toks)
       /\ Tells(d.out, d.calls)
  <2>1. stream.buffer \o r3.out \in Seq(Toks)
    BY <1>1, <1>19, ConcatProperties
  <2>2. d \in Drained /\ Tells(d.out, d.calls)
    BY <1>20, <2>1, DrainTells
  <2>3. Spoken \subseteq ChatChunks
    BY DEF Spoken
  <2> QED
    BY <2>2, <2>3, SeqWithin DEF Drained
<1>22. PICK answer \in BOOLEAN : answer = (hasTools /\ r3.out # <<>>)
  OBVIOUS
<1>23. PICK m1, m2 : /\ m1 = When(sources, Mark("sources", "pending"))
                     /\ m2 = When(images, Mark("images", "pending"))
  OBVIOUS
<1>24. m1 \in Seq(Toks) /\ m2 \in Seq(Toks)
  BY <1>1, <1>23, ChatMarks
<1>25. /\ ChatReadFrame
       /\ stream' = [stream EXCEPT
              !.thinking = f.filter, !.last = last, !.refs = r3.buffer,
              !.length = x.length + (IF via = "delta" THEN Len(r3.out) ELSE 0),
              !.buffer = IF answer THEN d.rest ELSE @,
              !.calls = IF answer THEN @ \o d.calls ELSE @]
       /\ out' = out \o SentContent(m1) \o SentContent(m2)
                     \o SentReasoning(r1.out) \o SentReasoning(said)
                     \o (IF answer THEN d.out ELSE SentContent(r3.out))
  BY <1>2, <1>4, <1>6, <1>8, <1>10, <1>12, <1>14, <1>16, <1>18, <1>20, <1>22, <1>23
     DEF ChatContentFrame, ChatOtherFrame, StreamContent
<1>26. PICK now \in Seq(Toks) : now = IF answer THEN stream.calls \o d.calls ELSE stream.calls
  BY <1>1, <1>21, ConcatProperties
<1>27. stream' \in ChatLocals /\ stream'.calls = now
  <2>1. x.length + (IF via = "delta" THEN Len(r3.out) ELSE 0) \in Nat
    BY <1>17, <1>19, LenProperties
  <2>2. (IF answer THEN d.rest ELSE stream.buffer) \in Seq(Toks)
    BY <1>1, <1>21
  <2> QED
    BY ONLY <1>1, <1>5, <1>7, <1>19, <1>25, <1>26, <2>1, <2>2 DEF ChatLocals
<1>28. /\ SentContent(m1) \in Seq(ChatChunks) /\ Tells(SentContent(m1), <<>>)
       /\ SentContent(m2) \in Seq(ChatChunks) /\ Tells(SentContent(m2), <<>>)
       /\ SentContent(r3.out) \in Seq(ChatChunks) /\ Tells(SentContent(r3.out), <<>>)
       /\ SentReasoning(r1.out) \in Seq(ChatChunks) /\ Tells(SentReasoning(r1.out), <<>>)
       /\ SentReasoning(said) \in Seq(ChatChunks) /\ Tells(SentReasoning(said), <<>>)
  BY <1>11, <1>15, <1>19, <1>24, TellsText
<1>29. PICK o4 \in Seq(ChatChunks) :
          /\ o4 = out \o SentContent(m1) \o SentContent(m2)
                  \o SentReasoning(r1.out) \o SentReasoning(said)
          /\ Tells(o4, stream.calls)
  <2>1. PICK o1 \in Seq(ChatChunks) : o1 = out \o SentContent(m1) /\ Tells(o1, stream.calls)
    BY ONLY <1>1, <1>28, TellsMore
  <2>2. PICK o2 \in Seq(ChatChunks) : o2 = o1 \o SentContent(m2) /\ Tells(o2, stream.calls)
    BY ONLY <1>1, <1>28, <2>1, TellsMore
  <2>3. PICK o3 \in Seq(ChatChunks) : o3 = o2 \o SentReasoning(r1.out) /\ Tells(o3, stream.calls)
    BY ONLY <1>1, <1>28, <2>2, TellsMore
  <2>4. PICK o4 \in Seq(ChatChunks) : o4 = o3 \o SentReasoning(said) /\ Tells(o4, stream.calls)
    BY ONLY <1>1, <1>28, <2>3, TellsMore
  <2> QED
    BY ONLY <2>1, <2>2, <2>3, <2>4
<1>30. out' \in Seq(ChatChunks) /\ Tells(out', stream'.calls)
  <2>1. CASE answer
    <3>1. o4 \o d.out \in Seq(ChatChunks) /\ Tells(o4 \o d.out, stream.calls \o d.calls)
      BY ONLY <1>1, <1>21, <1>29, TellsJoin
    <3> QED
      BY ONLY <1>25, <1>26, <1>27, <1>29, <2>1, <3>1
  <2>2. CASE ~answer
    <3>1. /\ o4 \o SentContent(r3.out) \in Seq(ChatChunks)
          /\ Tells(o4 \o SentContent(r3.out), stream.calls)
      BY ONLY <1>1, <1>28, <1>29, TellsMore
    <3> QED
      BY ONLY <1>25, <1>26, <1>27, <1>29, <2>2, <3>1
  <2> QED
    BY <2>1, <2>2
<1> QED
  BY <1>25, <1>27, <1>30, ChatKept

\* The final scan: its calls are counted when the reason is chosen.
LEMMA EndChat ==
    ASSUME ChatInv, ChatEndOfBody
    PROVE  ChatInv'
<1>1. /\ stream \in ChatLocals /\ stream.buffer \in Seq(Toks) /\ stream.refs \in Seq(Toks)
      /\ stream.calls \in Seq(Toks) /\ out \in Seq(ChatChunks) /\ Tells(out, stream.calls)
      /\ hasTools \in Declared /\ frames \in Nat
  BY DEF ChatInv, ChatLocals
<1>2. PICK x : x = ExtractPromptToolCalls(stream.buffer)
  OBVIOUS
<1>3. x.clean \in Seq(Toks) /\ x.calls \in Seq(Toks)
  <2>1. x \in Results(Toks)
    BY <1>1, <1>2, ExtractOf
  <2> QED
    BY <2>1 DEF Results
<1>4. PICK r : r = FlushRefs(stream.refs, known).out
  OBVIOUS
<1>5. r \in Seq(Toks)
  BY <1>1, <1>4, RefsWithin
<1>6. PICK now \in Seq(Toks) : now = stream.calls \o x.calls
  BY <1>1, <1>3, ConcatProperties
<1>7. /\ out' = out \o SentCalls(x.calls) \o SentContent(x.clean) \o SentContent(r)
      /\ finish' = IF now # <<>> THEN "tool_calls" ELSE "stop"
      /\ stream' = [stream EXCEPT !.calls = now, !.buffer = <<>>, !.refs = <<>>]
      /\ UNCHANGED <<hasTools, frames>>
  BY <1>2, <1>4, <1>6 DEF ChatEndOfBody, StreamEnds
<1>8. stream' \in ChatLocals /\ stream'.calls = now
  BY ONLY <1>1, <1>6, <1>7, EmptySeq DEF ChatLocals
<1>9. /\ SentCalls(x.calls) \in Seq(ChatChunks) /\ Tells(SentCalls(x.calls), x.calls)
      /\ SentContent(x.clean) \in Seq(ChatChunks) /\ Tells(SentContent(x.clean), <<>>)
      /\ SentContent(r) \in Seq(ChatChunks) /\ Tells(SentContent(r), <<>>)
  BY <1>3, <1>5, TellsText, TellsCalls
<1>10. PICK o1 \in Seq(ChatChunks) : o1 = out \o SentCalls(x.calls) /\ Tells(o1, now)
  BY ONLY <1>1, <1>3, <1>6, <1>9, TellsJoin
<1>11. PICK o2 \in Seq(ChatChunks) : o2 = o1 \o SentContent(x.clean) /\ Tells(o2, now)
  BY ONLY <1>6, <1>9, <1>10, TellsMore
<1>12. PICK o3 \in Seq(ChatChunks) : o3 = o2 \o SentContent(r) /\ Tells(o3, now)
  BY ONLY <1>6, <1>9, <1>11, TellsMore
<1>13. out' \in Seq(ChatChunks) /\ Tells(out', stream'.calls)
  BY ONLY <1>7, <1>8, <1>10, <1>11, <1>12
<1>14. finish' = "tool_calls" <=> stream'.calls # <<>>
  BY ONLY <1>7, <1>8
<1> QED
  BY ONLY <1>1, <1>7, <1>8, <1>13, <1>14 DEF ChatInv, Tells

LEMMA NextChat ==
    ASSUME ChatInv, ChatNext
    PROVE  ChatInv'
<1>1. hasTools \in Declared
  BY DEF ChatInv
<1>2. CASE \E delta \in ThinkingTexts[hasTools] : ChatThinkingFrame(delta)
  BY <1>2, ThinkingChat
<1>3. CASE \E phase \in ChatPhases : ChatSearchResultFrame(phase) \/ ChatSkippedFrame(phase)
  <2>1. ChatReadFrame /\ UNCHANGED <<stream, out>>
    BY <1>3 DEF ChatSearchResultFrame, ChatSkippedFrame, ChatOtherFrame
  <2> QED
    BY <2>1, QuietChat
<1>4. CASE \E before \in AnswerTexts[hasTools], image \in BOOLEAN, phase \in ChatPhases :
              ChatBlockFrame(before, image, phase)
  BY <1>4, BlockChat
<1>5. CASE \E n \in 1 .. MaxCalls : ChatFunctionCallFrame(n)
  BY <1>5, CallsChat
<1>6. CASE ChatEndOfBody
  BY <1>6, EndChat
<1>7. ASSUME NEW text \in AnswerTexts[hasTools],
             \/ ChatContentFrame("delta", "answer", <<>>, text)
             \/ ChatContentFrame("repeat", "other", <<>>, text)
             \/ \E whole \in EditThinking[hasTools] :
                   ChatContentFrame("edit", "answer", whole, text)
      PROVE  ChatInv'
  <2>1. text \in Seq(Strings) /\ <<>> \in Seq(Strings)
    BY ChatTexts
  <2>2. \A whole \in EditThinking[hasTools] : whole \in Seq(Strings)
    BY ChatTexts
  <2>3. CASE ChatContentFrame("delta", "answer", <<>>, text)
    BY <2>1, <2>3, ContentChat
  <2>4. CASE ChatContentFrame("repeat", "other", <<>>, text)
    BY <2>1, <2>4, ContentChat
  <2>5. CASE \E whole \in EditThinking[hasTools] :
                ChatContentFrame("edit", "answer", whole, text)
    BY <2>1, <2>2, <2>5, ContentChat
  <2> QED
    BY <1>7, <2>3, <2>4, <2>5
<1>8. ASSUME NEW phase, ChatContentFrame("delta", phase, <<>>, <<>>)
      PROVE  ChatInv'
  <2>1. <<>> \in Seq(Strings)
    BY ChatTexts
  <2> QED
    BY <1>8, <2>1, ContentChat
<1> QED
  BY <1>2, <1>3, <1>4, <1>5, <1>6, <1>7, <1>8 DEF ChatNext

LEMMA ChatInvHolds == ChatSpec => []ChatInv
<1>1. ChatInv /\ UNCHANGED chatVars => ChatInv'
  BY DEF ChatInv, ChatLocals, Tells, chatVars
<1>2. ChatInv /\ [ChatNext]_chatVars => ChatInv'
  BY <1>1, NextChat
<1> QED
  BY <1>2, InitChat, PTL DEF ChatSpec

\* The reason a streamed answer of the OpenAI API ends with is tool_calls exactly if
\* the client was sent a call: one of a tool_call frame, of a block the loop over
\* promptToolBuffer took out, or of the final scan (handleStreamResponse).
THEOREM FinishTruthfulHolds == ChatSpec => []FinishTruthful
<1>1. ChatInv => FinishTruthful
  <2> SUFFICES ASSUME ChatInv PROVE FinishTruthful
    OBVIOUS
  <2>1. out \in Seq(ChatChunks) /\ DOMAIN out = 1 .. Len(out)
    BY LenProperties DEF ChatInv
  <2> QED
    BY <2>1 DEF ChatInv, Tells, FinishTruthful
<1> QED
  BY <1>1, ChatInvHolds, PTL

-----------------------------------------------------------------------------
(***************************************************************************)
(* The elements of a text that are in a set (Those), and what the filters  *)
(* leave of them.                                                          *)
(***************************************************************************)
\* A token put before a text.
Put(e, s) == <<e>> \o s

LEMMA PutOf ==
    ASSUME NEW A, NEW e \in A, NEW s \in Seq(A)
    PROVE  /\ Put(e, s) \in Seq(A) /\ Len(Put(e, s)) = Len(s) + 1 /\ Put(e, s)[1] = e
           /\ Len(s) \in Nat /\ \A i \in 1 .. Len(s) : Put(e, s)[i + 1] = s[i]
<1> DEFINE x == Put(e, s)
<1>1. <<e>> \in Seq(A) /\ Len(<<e>>) = 1 /\ <<e>>[1] = e /\ Len(s) \in Nat
  BY LenProperties
<1>2. /\ x \in Seq(A) /\ Len(x) = 1 + Len(s)
      /\ \A i \in 1 .. 1 + Len(s) : x[i] = IF i <= 1 THEN <<e>>[i] ELSE s[i - 1]
  BY <1>1, ConcatProperties DEF Put
<1> HIDE DEF x
<1>3. ASSUME NEW i \in 1 .. Len(s) PROVE x[i + 1] = s[i]
  <2>1. i + 1 \in 1 .. 1 + Len(s) /\ ~(i + 1 <= 1) /\ (i + 1) - 1 = i
    BY <1>1
  <2> QED
    BY ONLY <1>2, <2>1
<1>4. x[1] = e
  <2>1. 1 \in 1 .. 1 + Len(s) /\ 1 <= 1
    BY <1>1
  <2> QED
    BY ONLY <1>1, <1>2, <2>1
<1>5. x \in Seq(A) /\ Len(x) = Len(s) + 1
  BY <1>1, <1>2
<1> QED
  BY ONLY <1>1, <1>3, <1>4, <1>5 DEF x

\* A text that is not empty is its first token and the others.
LEMMA FirstOf ==
    ASSUME NEW A, NEW s \in Seq(A), s # <<>>
    PROVE  /\ s[1] \in A /\ After(s, 1) \in Seq(A) /\ s = Put(s[1], After(s, 1))
           /\ Len(s) \in Nat /\ Len(After(s, 1)) = Len(s) - 1
<1>1. Len(s) \in Nat \ {0}
  BY EmptySeq
<1>2. 1 \in 1 .. Len(s) /\ 1 \in 0 .. Len(s)
  BY <1>1
<1>3. s[1] \in A
  BY <1>2, ElementOfSeq
<1>4. <<s[1]>> \in Seq(A) /\ Len(<<s[1]>>) = 1 /\ <<s[1]>>[1] = s[1]
  BY <1>3
<1>5. /\ After(s, 1) \in Seq(A) /\ Len(After(s, 1)) = Len(s) - 1
      /\ SubSeq(s, 1, 1) \in Seq(A) /\ Len(SubSeq(s, 1, 1)) = 1
      /\ \A i \in 1 .. 1 : SubSeq(s, 1, 1)[i] = s[i]
      /\ s = SubSeq(s, 1, 1) \o After(s, 1)
  BY <1>2, AfterCut
<1>6. SubSeq(s, 1, 1) = <<s[1]>>
  <2>1. \A i \in 1 .. 1 : SubSeq(s, 1, 1)[i] = <<s[1]>>[i]
    BY <1>4, <1>5
  <2> QED
    BY ONLY <1>4, <1>5, <2>1, SeqEqual
<1>7. s = Put(s[1], After(s, 1))
  BY ONLY <1>5, <1>6 DEF Put
<1> QED
  BY ONLY <1>1, <1>3, <1>5, <1>7

\* Induction over the texts: a set that has the empty text, and with a text also
\* those with one more token before it, has every text.
LEMMA AllTexts ==
    ASSUME NEW A, NEW P, <<>> \in P,
           \A e \in A, s \in Seq(A) : s \in P => Put(e, s) \in P
    PROVE  Seq(A) \subseteq P
<1> DEFINE T == {n \in Nat : \A s \in Seq(A) : Len(s) = n => s \in P}
<1>1. 0 \in T
  <2>1. \A s \in Seq(A) : Len(s) = 0 => s = <<>>
    BY EmptySeq
  <2> QED
    BY <2>1
<1>2. ASSUME NEW n \in Nat, n \in T
      PROVE  n + 1 \in T
  <2>1. ASSUME NEW s \in Seq(A), Len(s) = n + 1 PROVE s \in P
    <3>1. s # <<>>
      BY <2>1, EmptySeq
    <3>2. /\ s[1] \in A /\ After(s, 1) \in Seq(A) /\ s = Put(s[1], After(s, 1))
          /\ Len(After(s, 1)) = Len(s) - 1
      BY <3>1, FirstOf
    <3>3. Len(After(s, 1)) = n
      BY <2>1, <3>2
    <3>4. After(s, 1) \in P
      BY <1>2, <3>2, <3>3
    <3>5. Put(s[1], After(s, 1)) \in P
      BY ONLY <3>2, <3>4, \A e \in A, t \in Seq(A) : t \in P => Put(e, t) \in P
    <3> QED
      BY ONLY <3>2, <3>5
  <2> QED
    BY <2>1
<1> HIDE DEF T
<1>3. Nat \subseteq T
  BY <1>1, <1>2, AllNaturals
<1>4. ASSUME NEW s \in Seq(A) PROVE s \in P
  <2>1. Len(s) \in T
    BY <1>3, LenProperties
  <2> QED
    BY <2>1 DEF T
<1> QED
  BY <1>4

\* A text all of whose tokens are in a set is a text over the set.
LEMMA TextWithin ==
    ASSUME NEW A, NEW B, NEW s \in Seq(A), \A i \in 1 .. Len(s) : s[i] \in B
    PROVE  s \in Seq(B)
<1>1. s = [i \in 1 .. Len(s) |-> s[i]] /\ Len(s) \in Nat
  BY LenProperties
<1> QED
  BY <1>1, IsASeq

ThoseHead(s, T) == [i \in Nat |-> IF s[i] \in T THEN <<s[i]>> ELSE <<>>]
ThoseNext == [i \in Nat |-> i + 1]

LEMMA ThoseGrows == \A i \in Nat : ThoseNext[i] \in Nat /\ ThoseNext[i] > i
  BY DEF ThoseNext

LEMMA ThosePieces ==
    ASSUME NEW s, Len(s) \in Nat, NEW T
    PROVE  \E f : Pieces(Len(s), ThoseHead(s, T), ThoseNext, f) /\ Those(s, T) = f[1]
<1> DEFINE head == ThoseHead(s, T)
           next == ThoseNext
           Body(f) == [i \in Nat |->
                        IF i > Len(s) THEN <<>>
                        ELSE (IF s[i] \in T THEN <<s[i]>> ELSE <<>>) \o f[i + 1]]
           from == CHOOSE f : f = Body(f)
<1>1. Those(s, T) = from[1]
  BY DEF Those
<1>2. \A f : Body(f) = [i \in Nat |-> IF i > Len(s) THEN <<>> ELSE head[i] \o f[next[i]]]
  BY DEF ThoseHead, ThoseNext
<1>3. \A i \in Nat : next[i] \in Nat /\ next[i] > i
  BY ThoseGrows
<1> HIDE DEF head, next, Body
<1>4. PICK f : Pieces(Len(s), head, next, f)
  BY <1>3, PiecesExist
<1>5. f = Body(f)
  BY <1>2, <1>4 DEF Pieces
<1>6. from = Body(from)
  BY <1>5
<1> HIDE DEF from
<1>7. Pieces(Len(s), head, next, from)
  BY <1>2, <1>6 DEF Pieces
<1> QED
  BY <1>1, <1>7 DEF head, next

LEMMA ThoseOf ==
    ASSUME NEW A, NEW s \in Seq(A), NEW T
    PROVE  Those(s, T) \in Seq(A \cap T)
<1>1. Len(s) \in Nat
  BY LenProperties
<1>2. PICK f : Pieces(Len(s), ThoseHead(s, T), ThoseNext, f) /\ Those(s, T) = f[1]
  BY <1>1, ThosePieces
<1>3. ASSUME NEW i \in 1 .. Len(s) PROVE ThoseHead(s, T)[i] \in Seq(A \cap T)
  <2>1. s[i] \in A /\ i \in Nat
    BY <1>1, ElementOfSeq
  <2>2. \A t \in A \cap T : <<t>> \in Seq(A \cap T)
    OBVIOUS
  <2>3. <<>> \in Seq(A \cap T)
    BY EmptySeq
  <2> QED
    BY <2>1, <2>2, <2>3 DEF ThoseHead
<1>4. \A i \in Nat \ {0} : f[i] \in Seq(A \cap T)
  BY <1>1, <1>2, <1>3, ThoseGrows, PiecesOf
<1> QED
  BY <1>2, <1>4

LEMMA ThoseNone ==
    ASSUME NEW A, NEW s \in Seq(A), NEW T, A \cap T = {}
    PROVE  Those(s, T) = <<>>
<1>1. Those(s, T) \in Seq({})
  BY ThoseOf
<1>2. ASSUME NEW x \in Seq({}) PROVE x = <<>>
  <2>1. SUFFICES ASSUME x # <<>> PROVE FALSE
    OBVIOUS
  <2>2. 1 \in 1 .. Len(x)
    BY <2>1, EmptySeq
  <2> QED
    BY <2>2, ElementOfSeq
<1> QED
  BY <1>1, <1>2

\* The first token, then the others.
Wanted(e, T) == IF e \in T THEN <<e>> ELSE <<>>

LEMMA ThoseFirst ==
    ASSUME NEW A, NEW e \in A, NEW s \in Seq(A), NEW T
    PROVE  Those(Put(e, s), T) = Wanted(e, T) \o Those(s, T)
<1> DEFINE x == Put(e, s)
<1>1. /\ x \in Seq(A) /\ Len(x) = Len(s) + 1 /\ Len(s) \in Nat /\ Len(x) \in Nat
      /\ x[1] = e /\ \A i \in 1 .. Len(s) : x[i + 1] = s[i]
  <2>1. /\ x \in Seq(A) /\ Len(x) = Len(s) + 1 /\ x[1] = e
        /\ Len(s) \in Nat /\ \A i \in 1 .. Len(s) : x[i + 1] = s[i]
    BY ONLY e \in A, s \in Seq(A), PutOf
  <2> QED
    BY ONLY <2>1
<1> HIDE DEF x
<1>2. PICK f : Pieces(Len(x), ThoseHead(x, T), ThoseNext, f) /\ Those(x, T) = f[1]
  BY ONLY <1>1, ThosePieces
<1>3. PICK g : Pieces(Len(s), ThoseHead(s, T), ThoseNext, g) /\ Those(s, T) = g[1]
  BY <1>1, ThosePieces
<1>4. Shifted(Len(x), 1, ThoseHead(x, T), ThoseNext, ThoseHead(s, T), ThoseNext)
  <2>1. ASSUME NEW i \in 1 .. Len(x) - 1
        PROVE  ThoseHead(s, T)[i] = ThoseHead(x, T)[i + 1] /\ ThoseNext[i] + 1 = ThoseNext[i + 1]
    <3>1. i \in 1 .. Len(s) /\ i \in Nat /\ i + 1 \in Nat
      BY <1>1
    <3>2. x[i + 1] = s[i]
      BY <1>1, <3>1
    <3> QED
      BY <3>1, <3>2 DEF ThoseHead, ThoseNext
  <2> QED
    BY <2>1, ThoseGrows DEF Shifted
<1>5. g[1] = f[1 + 1]
  <2>1. Len(x) - 1 = Len(s) /\ 1 \in 0 .. Len(x) /\ 1 \in Nat \ {0}
    BY <1>1
  <2>2. \A i \in Nat \ {0} : g[i] = f[i + 1]
    BY <1>1, <1>2, <1>3, <1>4, <2>1, PiecesShift
  <2> QED
    BY <2>1, <2>2
<1>6. f[1] = ThoseHead(x, T)[1] \o f[ThoseNext[1]]
  <2>1. 1 \in Nat /\ ~(1 > Len(x))
    BY <1>1
  <2> QED
    BY <1>2, <2>1 DEF Pieces
<1>7. ThoseNext[1] = 1 + 1 /\ ThoseHead(x, T)[1] = Wanted(e, T)
  BY <1>1 DEF Wanted, ThoseHead, ThoseNext
<1> QED
  BY ONLY <1>2, <1>3, <1>5, <1>6, <1>7 DEF x

LEMMA ThoseEmpty ==
    ASSUME NEW T
    PROVE  Those(<<>>, T) = <<>>
<1>1. PICK A : A = {}
  OBVIOUS
<1>2. A \cap T = {} /\ <<>> \in Seq(A)
  BY <1>1, EmptySeq
<1> QED
  BY ONLY <1>2, ThoseNone

\* Two texts joined.
LEMMA ThoseJoin ==
    ASSUME NEW A, NEW x \in Seq(A), NEW y \in Seq(A), NEW T
    PROVE  Those(x \o y, T) = Those(x, T) \o Those(y, T)
<1> DEFINE P == {s \in Seq(A) : Those(s \o y, T) = Those(s, T) \o Those(y, T)}
<1>0. \A s \in Seq(A) : Those(s, T) \in Seq(A)
  <2>1. A \cap T \subseteq A
    OBVIOUS
  <2> QED
    BY <2>1, ThoseOf, SeqWithin
<1>a. \A a, b, c \in Seq(A) : (a \o b) \o c = a \o (b \o c)
  BY JoinsAssociate DEF Associative
<1>1. <<>> \in P
  <2>1. <<>> \in Seq(A) /\ <<>> \o y = y /\ <<>> \o Those(y, T) = Those(y, T)
    BY <1>0, EmptySeq, ConcatEmptySeq
  <2> QED
    BY <2>1, ThoseEmpty
<1>2. ASSUME NEW e \in A, NEW s \in Seq(A), s \in P PROVE Put(e, s) \in P
  <2>1. Put(e, s) \in Seq(A) /\ s \o y \in Seq(A)
    BY PutOf, ConcatProperties
  <2>2. Put(e, s) \o y = Put(e, s \o y)
    <3>1. <<e>> \in Seq(A)
      OBVIOUS
    <3> QED
      BY ONLY <1>a, <3>1, s \in Seq(A), y \in Seq(A) DEF Put
  <2>3. Wanted(e, T) \in Seq(A)
    BY EmptySeq DEF Wanted
  <2>4. \A z \in Seq(A) : Those(Put(e, z), T) = Wanted(e, T) \o Those(z, T)
    BY ThoseFirst
  <2>6. Those(s \o y, T) = Those(s, T) \o Those(y, T)
    BY <1>2
  <2>7. Wanted(e, T) \o (Those(s, T) \o Those(y, T)) = (Wanted(e, T) \o Those(s, T)) \o Those(y, T)
    <3>1. Those(s, T) \in Seq(A) /\ Those(y, T) \in Seq(A)
      BY <1>0
    <3> QED
      BY ONLY <1>a, <2>3, <3>1
  <2>8. Those(Put(e, s) \o y, T) = Those(Put(e, s), T) \o Those(y, T)
    BY <2>1, <2>2, <2>4, <2>6, <2>7
  <2> QED
    BY <2>1, <2>8
<1> HIDE DEF P
<1>3. Seq(A) \subseteq P
  BY <1>1, <1>2, AllTexts
<1> QED
  BY <1>3 DEF P

\* What is in no pattern, and in nothing a pattern is replaced by, is left as it is.
Spares(A, p, F, T) ==
    /\ \A t \in A : t.sym \in {p[1], p[2], p[3]} => t \notin T
    /\ \A t \in A : t.sym = p[1] => Those(F[t], T) = <<>>

LEMMA ThoseRewritten ==
    ASSUME NEW A, NEW p, NEW F, NEW R, Rewrites(A, p, F, R), NEW T, Spares(A, p, F, T),
           NEW s \in Seq(A)
    PROVE  Those(R[s], T) = Those(s, T)
<1> DEFINE N == {n \in Nat : \A x \in Seq(A) : Len(x) <= n => Those(R[x], T) = Those(x, T)}
<1>a. \A x, y \in Seq(A) : Those(x \o y, T) = Those(x, T) \o Those(y, T)
  BY ThoseJoin
<1>b. \A e \in A, y \in Seq(A) : Those(Put(e, y), T) = Wanted(e, T) \o Those(y, T)
  BY ThoseFirst
<1>1. 0 \in N
  <2>1. ASSUME NEW x \in Seq(A), Len(x) <= 0 PROVE Those(R[x], T) = Those(x, T)
    <3>1. x = <<>>
      BY <2>1, EmptySeq
    <3> QED
      BY <3>1 DEF Rewrites
  <2> QED
    BY <2>1
<1>2. ASSUME NEW n \in Nat, n \in N
      PROVE  n + 1 \in N
  <2>1. ASSUME NEW x \in Seq(A), Len(x) <= n + 1 PROVE Those(R[x], T) = Those(x, T)
    <3>1. CASE x = <<>>
      BY <3>1 DEF Rewrites
    <3>2. CASE x # <<>>
      <4>1. FirstStep(A, p, F, R, x)
        BY <3>2, RewriteFirst
      <4>2. ASSUME NEW y \in Seq(A), Len(y) <= n PROVE Those(R[y], T) = Those(y, T)
        BY <1>2, <4>2
      <4>3. CASE PatternAt(p, x, 1)
        <5>1. /\ 3 <= Len(x) /\ After(x, 3) \in Seq(A) /\ R[After(x, 3)] \in Seq(A)
              /\ Len(x) \in Nat /\ Len(After(x, 3)) = Len(x) - 3
              /\ R[x] = F[x[1]] \o R[After(x, 3)] /\ F[x[1]] \in Seq(A) /\ x[1] \in A
          BY ONLY <4>1, <4>3 DEF FirstStep
        <5>2. Those(R[After(x, 3)], T) = Those(After(x, 3), T)
          <6>1. Len(After(x, 3)) <= n
            BY <2>1, <5>1
          <6> QED
            BY ONLY <4>2, <5>1, <6>1
        <5>3. Those(R[x], T) = Those(F[x[1]], T) \o Those(R[After(x, 3)], T)
          <6>1. PICK f, r \in Seq(A) : f = F[x[1]] /\ r = R[After(x, 3)]
            BY <5>1
          <6>2. Those(f \o r, T) = Those(f, T) \o Those(r, T)
            BY <1>a
          <6> QED
            BY ONLY <5>1, <6>1, <6>2
        <5>4. Those(F[x[1]], T) = <<>>
          BY <4>3, <5>1 DEF Spares, PatternAt
        <5>5. /\ SubSeq(x, 1, 3) \in Seq(A) /\ Len(SubSeq(x, 1, 3)) = 3
              /\ \A i \in 1 .. 3 : SubSeq(x, 1, 3)[i] = x[i]
              /\ x = SubSeq(x, 1, 3) \o After(x, 3)
          <6>1. 3 \in 0 .. Len(x)
            BY <5>1
          <6> QED
            BY ONLY <6>1, x \in Seq(A), AfterCut
        <5>6. PICK h \in Seq(A) : h = SubSeq(x, 1, 3)
          BY <5>5
        <5>7. Those(h, T) = <<>>
          <6>1. /\ x[1].sym = p[1] /\ x[2].sym = p[2] /\ x[3].sym = p[3]
                /\ x[1] \in A /\ x[2] \in A /\ x[3] \in A
            <7>1. 1 \in 1 .. Len(x) /\ 2 \in 1 .. Len(x) /\ 3 \in 1 .. Len(x) /\ 1 + 1 = 2 /\ 1 + 2 = 3
              BY <5>1
            <7>2. x[1] \in A /\ x[2] \in A /\ x[3] \in A
              BY ONLY <7>1, x \in Seq(A), ElementOfSeq
            <7> QED
              BY <4>3, <7>1, <7>2 DEF PatternAt
          <6>2. ASSUME NEW i \in 1 .. Len(h) PROVE h[i] \in A \ T
            <7>1. i \in {1, 2, 3} /\ h[i] = x[i]
              BY ONLY <5>5, <5>6, i \in 1 .. Len(h)
            <7> QED
              BY <6>1, <7>1 DEF Spares
          <6>3. h \in Seq(A \ T) /\ (A \ T) \cap T = {}
            BY <6>2, TextWithin
          <6> QED
            BY ONLY <6>3, ThoseNone
        <5>8. Those(x, T) = Those(h, T) \o Those(After(x, 3), T)
          <6>1. x = h \o After(x, 3)
            BY ONLY <5>5, <5>6
          <6>2. Those(h \o After(x, 3), T) = Those(h, T) \o Those(After(x, 3), T)
            <7>1. After(x, 3) \in Seq(A)
              BY <5>1
            <7> QED
              BY ONLY <1>a, <7>1, h \in Seq(A)
          <6> QED
            BY ONLY <6>1, <6>2
        <5> QED
          BY ONLY <5>2, <5>3, <5>4, <5>7, <5>8
      <4>4. CASE ~PatternAt(p, x, 1)
        <5>1. /\ After(x, 1) \in Seq(A) /\ R[After(x, 1)] \in Seq(A) /\ x[1] \in A
              /\ Len(x) \in Nat /\ Len(After(x, 1)) = Len(x) - 1
              /\ R[x] = Put(x[1], R[After(x, 1)]) /\ x = Put(x[1], After(x, 1))
          BY ONLY <4>1, <4>4 DEF FirstStep, Put
        <5>2. Those(R[After(x, 1)], T) = Those(After(x, 1), T)
          <6>1. Len(After(x, 1)) <= n
            BY <2>1, <5>1
          <6> QED
            BY ONLY <4>2, <5>1, <6>1
        <5>3. \A y \in Seq(A) : Those(Put(x[1], y), T) = Wanted(x[1], T) \o Those(y, T)
          <6>1. x[1] \in A
            BY <5>1
          <6> QED
            BY ONLY <1>b, <6>1
        <5> QED
          BY ONLY <5>1, <5>2, <5>3
      <4> QED
        BY <4>3, <4>4
    <3> QED
      BY <3>1, <3>2
  <2> QED
    BY <2>1
<1> HIDE DEF N
<1>3. Nat \subseteq N
  BY <1>1, <1>2, AllNaturals
<1>4. Len(s) \in Nat /\ Len(s) <= Len(s)
  BY LenProperties
<1>5. Len(s) \in N
  BY <1>3, <1>4
<1> QED
  BY <1>4, <1>5 DEF N

\* The words of a text that were reasoned.
Words(s) == Those(s, ThinkingWords)

LEMMA WordsJoin ==
    ASSUME NEW x \in Seq(Toks), NEW y \in Seq(Toks)
    PROVE  /\ Words(x \o y) = Words(x) \o Words(y)
           /\ Words(x) \in Seq(Toks)
<1>1. Words(x) \in Seq(Toks \cap ThinkingWords) /\ Toks \cap ThinkingWords \subseteq Toks
  BY ThoseOf DEF Words
<1>2. Words(x) \in Seq(Toks)
  BY <1>1, SeqWithin
<1>3. Words(x \o y) = Words(x) \o Words(y)
  BY ThoseJoin DEF Words
<1> QED
  BY <1>2, <1>3

\* A text of other symbols has no words.
LEMMA Wordless ==
    ASSUME NEW A, \A t \in A : t.sym # "word" \/ t.src # "thinking", NEW s \in Seq(A)
    PROVE  Words(s) = <<>>
<1>1. A \cap ThinkingWords = {}
  BY DEF ThinkingWords
<1> QED
  BY <1>1, ThoseNone DEF Words

LEMMA WordsResolved ==
    ASSUME NEW s \in Seq(Toks), NEW sure
    PROVE  Words(ResolveCitations(s, sure)) = Words(s)
<1>1. Rewrites(Toks, Citation, Citing(Toks, sure), Resolving(Toks, sure))
  BY ToksLinked, ResolveRewrites
<1>2. Spares(Toks, Citation, Citing(Toks, sure), ThinkingWords)
  <2>1. ASSUME NEW t \in Toks, t.sym \in {"bra", "ref", "ket"} PROVE t \notin ThinkingWords
    BY <2>1 DEF ThinkingWords
  <2>2. ASSUME NEW t \in Toks PROVE Those(Cite(t, sure), ThinkingWords) = <<>>
    <3>1. PICK l : l = [t EXCEPT !.sym = "link"]
      OBVIOUS
    <3>2. l \notin ThinkingWords
      <4>1. l.sym = "link"
        BY <3>1 DEF Toks
      <4>2. \A w \in ThinkingWords : w.sym = "word"
        BY DEF ThinkingWords
      <4> QED
        BY ONLY <4>1, <4>2
    <3>3. Cite(t, sure) \in Seq({l})
      <4>1. <<l>> \in Seq({l}) /\ <<>> \in Seq({l})
        BY EmptySeq
      <4>2. Cite(t, sure) \in {<<l>>, <<>>}
        BY <3>1 DEF Cite
      <4> QED
        BY ONLY <4>1, <4>2
    <3>4. {l} \cap ThinkingWords = {}
      BY <3>2
    <3> QED
      BY ONLY <3>3, <3>4, ThoseNone
  <2>3. Citation[1] = "bra" /\ Citation[2] = "ref" /\ Citation[3] = "ket"
    BY DEF Citation
  <2> QED
    BY <2>1, <2>2, <2>3 DEF Spares, Citing
<1>3. Those(Resolving(Toks, sure)[s], ThinkingWords) = Those(s, ThinkingWords)
  BY <1>1, <1>2, ThoseRewritten
<1> QED
  BY <1>3 DEF Resolving, Words

LEMMA WordsStripped ==
    ASSUME NEW s \in Seq(Toks)
    PROVE  Words(StripQuotes(s)) = Words(s)
<1>1. Rewrites(Toks, QuoteMark, Keeping(Toks), Stripping(Toks))
  BY StripRewrites
<1>2. Spares(Toks, QuoteMark, Keeping(Toks), ThinkingWords)
  <2>1. ASSUME NEW t \in Toks, t.sym \in {"nl", "gt", "sp"} PROVE t \notin ThinkingWords
    BY <2>1 DEF ThinkingWords
  <2>2. ASSUME NEW t \in Toks, t.sym = "nl" PROVE Those(<<t>>, ThinkingWords) = <<>>
    <3>1. <<t>> \in Seq({t}) /\ {t} \cap ThinkingWords = {}
      BY <2>1, <2>2
    <3> QED
      BY ONLY <3>1, ThoseNone
  <2>3. QuoteMark[1] = "nl" /\ QuoteMark[2] = "gt" /\ QuoteMark[3] = "sp"
    BY DEF QuoteMark
  <2> QED
    BY <2>1, <2>2, <2>3 DEF Spares, Keeping
<1>3. Those(Stripping(Toks)[s], ThinkingWords) = Those(s, ThinkingWords)
  BY <1>1, <1>2, ThoseRewritten
<1> QED
  BY <1>3 DEF Stripping, Words

\* The citation filter holds no word back.
LEMMA RefsWords ==
    ASSUME NEW b \in Seq(Begun), NEW c \in Seq(Toks), NEW sure
    PROVE  /\ ProcessRefs(b, c, sure).buffer \in Seq(Begun)
           /\ ProcessRefs(b, c, sure).out \in Seq(Toks)
           /\ Words(ProcessRefs(b, c, sure).out) = Words(c)
<1> DEFINE s == ResolveCitations(b \o c, sure)
           n == Len(s) - HeldBack(s)
<1>1. Linked(Toks) /\ Begun \subseteq Toks /\ \A t \in Begun : t.sym # "word"
  BY ToksLinked DEF Linked, Begun
<1>2. b \in Seq(Toks) /\ b \o c \in Seq(Toks)
  BY <1>1, SeqWithin, ConcatProperties
<1>3. s \in Seq(Toks)
  BY <1>2, ToksLinked, ResolveOf
<1>4. Words(s) = Words(b) \o Words(c)
  BY <1>2, WordsResolved, WordsJoin
<1>5. n = Len(s) - Waits(Citation, s)
  BY <1>3, HeldBackWaits
<1>6. PICK o, h : o = SubSeq(s, 1, n) /\ h = After(s, n)
  OBVIOUS
<1>7. ProcessRefs(b, c, sure) = [out |-> o, buffer |-> h]
  BY <1>6 DEF ProcessRefs, After
<1> HIDE DEF n, s
<1>8. o \in Seq(Toks) /\ s = o \o h
  <2>1. n \in 0 .. Len(s)
    BY ONLY <1>3, <1>5, WaitsHold
  <2>2. SubSeq(s, 1, n) \in Seq(Toks) /\ s = SubSeq(s, 1, n) \o After(s, n)
    BY ONLY <1>3, <2>1, AfterCut
  <2> QED
    BY ONLY <1>6, <2>2
<1>9. h \in Seq(Begun)
  BY <1>1, <1>7, RefsOf
<1>10. Words(h) = <<>> /\ Words(b) = <<>>
  BY <1>1, <1>9, Wordless
<1>11. Words(s) = Words(o) \o Words(h) /\ Words(o) \in Seq(Toks) /\ Words(c) \in Seq(Toks)
  <2>1. h \in Seq(Toks)
    BY <1>1, <1>9, SeqWithin
  <2> QED
    BY <1>8, <2>1, WordsJoin
<1>12. \A x \in Seq(Toks) : x \o <<>> = x /\ <<>> \o x = x
  BY ConcatEmptySeq
<1>13. Words(o) = Words(c)
  BY ONLY <1>4, <1>10, <1>11, <1>12
<1> QED
  BY ONLY <1>7, <1>8, <1>9, <1>13

\* What of a delta counts as reasoning.
Counted(seen, delta) ==
    IF seen THEN delta
    ELSE IF QuotesIn(delta) = {} THEN <<>>
    ELSE SubSeq(delta, Min(QuotesIn(delta)) + 2, Len(delta))

\* The symbols the thinking filter holds back.
Quiet == {t \in Reasoning : t.sym # "word"}

\* The thinking filter sends the words of what counts, and holds none back.
LEMMA ThinkingFilterWords ==
    ASSUME NEW f \in Filters, f.buffer \in Seq(Quiet), NEW delta \in Seq(Reasoning)
    PROVE  /\ ProcessThinking(f, delta).filter \in Filters
           /\ ProcessThinking(f, delta).filter.seen = TRUE
           /\ ProcessThinking(f, delta).filter.buffer \in Seq(Quiet)
           /\ ProcessThinking(f, delta).out \in Seq(Reasoning)
           /\ Words(ProcessThinking(f, delta).out) = Words(Counted(f.seen, delta))
<1> DEFINE p == ProcessThinking(f, delta)
<1>1. p.out \in Seq(Reasoning) /\ p.filter \in Filters
  BY ThinkingOf
<1>2. CASE ~f.seen /\ QuotesIn(delta) = {}
  <2>0. PICK g : g = [f EXCEPT !.seen = TRUE]
    OBVIOUS
  <2>1. p = [out |-> <<>>, filter |-> g]
    BY <1>2, <2>0 DEF ProcessThinking
  <2>2. g.seen = TRUE /\ g.buffer = f.buffer
    BY <2>0 DEF Filters
  <2>3. Counted(f.seen, delta) = <<>>
    BY <1>2 DEF Counted
  <2>4. /\ p.out = <<>> /\ p.filter.seen = TRUE /\ p.filter.buffer = f.buffer
    BY ONLY <2>1, <2>2
  <2> HIDE DEF p
  <2> QED
    BY ONLY <1>1, <2>3, <2>4, f.buffer \in Seq(Quiet) DEF p
<1>3. CASE ~(~f.seen /\ QuotesIn(delta) = {})
  <2> DEFINE s == StripQuotes(f.buffer \o Counted(f.seen, delta))
             n == Len(s) - HeldQuote(s)
  <2>1. p = [out |-> SubSeq(s, 1, n),
             filter |-> [seen |-> TRUE, buffer |-> SubSeq(s, n + 1, Len(s))]]
    BY <1>3 DEF ProcessThinking, Counted
  <2>2. Counted(f.seen, delta) \in Seq(Reasoning)
    <3>1. f.seen = FALSE => QuotesIn(delta) # {}
      BY <1>3
    <3>2. QuotesIn(delta) # {} =>
            SubSeq(delta, Min(QuotesIn(delta)) + 2, Len(delta)) \in Seq(Reasoning)
      BY BodyOf
    <3>3. f.seen \in BOOLEAN
      BY DEF Filters
    <3> QED
      BY <3>1, <3>2, <3>3 DEF Counted
  <2>3. /\ Quiet \subseteq Reasoning /\ Reasoning \subseteq Toks
        /\ \A t \in Quiet : t.sym # "word"
    BY DEF Quiet, Reasoning
  <2>4. PICK b \in Seq(Quiet) : b = f.buffer
    OBVIOUS
  <2>5. PICK c \in Seq(Reasoning) : c = Counted(f.seen, delta)
    BY <2>2
  <2>6. /\ b \in Seq(Reasoning) /\ b \in Seq(Toks) /\ c \in Seq(Toks)
        /\ b \o c \in Seq(Toks) /\ b \o c \in Seq(Reasoning)
    <3>1. b \in Seq(Reasoning)
      BY ONLY b \in Seq(Quiet), <2>3, SeqWithin
    <3>2. b \in Seq(Toks) /\ c \in Seq(Toks)
      BY <2>3, <3>1, SeqWithin
    <3> QED
      BY <3>1, <3>2, ConcatProperties
  <2>7. s = StripQuotes(b \o c)
    BY <2>4, <2>5
  <2>8. Words(s) = Words(b) \o Words(c) /\ s \in Seq(Toks) /\ s \in Seq(Reasoning)
    BY ONLY <2>6, <2>7, WordsStripped, WordsJoin, StripOf
  <2>9. n = Len(s) - Waits(QuoteMark, s)
    BY ONLY <2>8, HeldQuoteWaits DEF n
  <2>10. PICK o, h : o = SubSeq(s, 1, n) /\ h = After(s, n)
    OBVIOUS
  <2>11. p = [out |-> o, filter |-> [seen |-> TRUE, buffer |-> h]]
    BY <2>1, <2>10 DEF After
  <2> HIDE DEF n, s, p
  <2>12. /\ n \in 0 .. Len(s)
         /\ HoldsBack(Reasoning, QuoteMark, s, SubSeq(s, 1, n), After(s, n))
    BY ONLY <2>8, <2>9, WaitsHold
  <2>13. /\ o \in Seq(Reasoning) /\ h \in Seq(Reasoning) /\ s = o \o h
         /\ Started(QuoteMark, h) \/ h = <<>>
    BY <2>8, <2>10, <2>12, AfterCut DEF HoldsBack
  <2>14. h \in Seq(Quiet)
    <3>1. CASE h = <<>>
      BY <3>1, EmptySeq
    <3>2. CASE Started(QuoteMark, h)
      <4>1. ASSUME NEW i \in 1 .. Len(h) PROVE h[i] \in Quiet
        <5>1. h[i] \in Reasoning
          BY <2>13, ElementOfSeq
        <5>2. h[i].sym = "nl" \/ h[i].sym = "gt"
          BY <3>2 DEF Started, QuoteMark
        <5> QED
          BY ONLY <5>1, <5>2 DEF Quiet
      <4> QED
        BY <2>13, <4>1, TextWithin
    <3> QED
      BY <2>13, <3>1, <3>2
  <2>15. Words(h) = <<>> /\ Words(b) = <<>>
    BY <2>3, <2>14, Wordless
  <2>16. Words(s) = Words(o) \o Words(h) /\ Words(o) \in Seq(Toks) /\ Words(c) \in Seq(Toks)
    <3>1. h \in Seq(Toks) /\ o \in Seq(Toks)
      BY <2>3, <2>13, SeqWithin
    <3> QED
      BY <2>6, <2>13, <3>1, WordsJoin
  <2>17. \A x \in Seq(Toks) : x \o <<>> = x /\ <<>> \o x = x
    BY ConcatEmptySeq
  <2>18. Words(o) = Words(c)
    BY ONLY <2>8, <2>15, <2>16, <2>17
  <2> QED
    BY ONLY <1>1, <2>5, <2>11, <2>14, <2>18 DEF p
<1> QED
  BY <1>2, <1>3

-----------------------------------------------------------------------------
(***************************************************************************)
(* The words of reasoning a client is sent.                                *)
(***************************************************************************)
Reasoned(o) == TokensOf(Those(o, [kind : {"reasoning"}, tok : ThinkingWords]))

LEMMA ReasonedJoin ==
    ASSUME NEW o1 \in Seq(ChatChunks), NEW o2 \in Seq(ChatChunks)
    PROVE  /\ Reasoned(o1 \o o2) = Reasoned(o1) \o Reasoned(o2)
           /\ Reasoned(o1) \in Seq(Toks)
<1> DEFINE W == [kind : {"reasoning"}, tok : ThinkingWords]
           B == ChatChunks \cap W
<1>1. \A b \in B : b.tok \in Toks
  BY DEF ChatChunks
<1>2. PICK x, y \in Seq(B) : x = Those(o1, W) /\ y = Those(o2, W)
  <2>1. Those(o1, W) \in Seq(B) /\ Those(o2, W) \in Seq(B)
    BY ThoseOf
  <2> HIDE DEF B, W
  <2> QED
    BY ONLY <2>1
<1>3. Those(o1 \o o2, W) = x \o y
  <2>1. Those(o1 \o o2, W) = Those(o1, W) \o Those(o2, W)
    BY ThoseJoin
  <2> HIDE DEF B, W
  <2> QED
    BY ONLY <1>2, <2>1
<1> HIDE DEF B, W
<1>4. ASSUME NEW z \in Seq(B)
      PROVE  /\ TokensOf(z) \in Seq(Toks) /\ Len(TokensOf(z)) = Len(z) /\ Len(z) \in Nat
             /\ \A i \in 1 .. Len(z) : TokensOf(z)[i] = z[i].tok
  <2>1. Len(z) \in Nat /\ DOMAIN z = 1 .. Len(z) /\ \A i \in 1 .. Len(z) : z[i] \in B
    BY LenProperties, ElementOfSeq
  <2>2. TokensOf(z) = [i \in 1 .. Len(z) |-> z[i].tok]
    BY <2>1 DEF TokensOf
  <2>3. TokensOf(z) \in Seq(Toks)
    BY <1>1, <2>1, <2>2, IsASeq
  <2>4. DOMAIN TokensOf(z) = 1 .. Len(z)
    BY <2>2
  <2>5. Len(TokensOf(z)) = Len(z)
    BY ONLY <2>1, <2>3, <2>4, LenProperties
  <2> QED
    BY <2>1, <2>2, <2>3, <2>5
<1>5. /\ x \o y \in Seq(B) /\ Len(x \o y) = Len(x) + Len(y)
      /\ \A i \in 1 .. Len(x) + Len(y) : (x \o y)[i] = IF i <= Len(x) THEN x[i] ELSE y[i - Len(x)]
  BY ConcatProperties
<1>6. PICK a, b, c \in Seq(Toks) : a = TokensOf(x) /\ b = TokensOf(y) /\ c = TokensOf(x \o y)
  BY <1>4, <1>5
<1>7. /\ Len(a) = Len(x) /\ Len(b) = Len(y) /\ Len(c) = Len(x) + Len(y)
      /\ Len(x) \in Nat /\ Len(y) \in Nat
      /\ \A i \in 1 .. Len(x) : a[i] = x[i].tok
      /\ \A i \in 1 .. Len(y) : b[i] = y[i].tok
      /\ \A i \in 1 .. Len(x) + Len(y) : c[i] = (x \o y)[i].tok
  BY ONLY <1>4, <1>5, <1>6, x \in Seq(B), y \in Seq(B)
<1>8. /\ a \o b \in Seq(Toks) /\ Len(a \o b) = Len(a) + Len(b)
      /\ \A i \in 1 .. Len(a) + Len(b) : (a \o b)[i] = IF i <= Len(a) THEN a[i] ELSE b[i - Len(a)]
  BY ConcatProperties
<1>9. ASSUME NEW i \in 1 .. Len(c) PROVE c[i] = (a \o b)[i]
  <2>1. CASE i <= Len(x)
    <3>1. i \in 1 .. Len(x) /\ i \in 1 .. Len(x) + Len(y)
      BY <1>7, <2>1
    <3> QED
      BY ONLY <1>5, <1>7, <1>8, <2>1, <3>1
  <2>2. CASE ~(i <= Len(x))
    <3>1. i - Len(x) \in 1 .. Len(y) /\ i \in 1 .. Len(x) + Len(y)
      BY <1>7, <2>2
    <3> QED
      BY ONLY <1>5, <1>7, <1>8, <2>2, <3>1
  <2> QED
    BY <2>1, <2>2
<1>10. c = a \o b
  <2>1. Len(c) = Len(a \o b)
    BY ONLY <1>7, <1>8
  <2> QED
    BY ONLY <1>8, <1>9, <2>1, c \in Seq(Toks), SeqEqual
<1> QED
  BY <1>2, <1>3, <1>6, <1>10 DEF Reasoned, W

LEMMA ReasonedSpoken ==
    ASSUME NEW o \in Seq(Spoken)
    PROVE  Reasoned(o) = <<>>
<1> DEFINE W == [kind : {"reasoning"}, tok : ThinkingWords]
<1>1. Spoken \cap W = {}
  BY DEF Spoken
<1>2. Those(o, W) = <<>>
  BY <1>1, ThoseNone
<1>3. TokensOf(<<>>) = <<>>
  BY DEF TokensOf
<1> QED
  BY <1>2, <1>3 DEF Reasoned

\* PutOf for the tokens of the handlers.
LEMMA PutTok ==
    ASSUME NEW e \in Toks, NEW s \in Seq(Toks)
    PROVE  /\ Put(e, s) \in Seq(Toks) /\ Len(Put(e, s)) = Len(s) + 1 /\ Put(e, s)[1] = e
           /\ Len(s) \in Nat /\ \A i \in 1 .. Len(s) : Put(e, s)[i + 1] = s[i]
BY PutOf

LEMMA ReasonedText ==
    ASSUME NEW text \in Seq(Toks)
    PROVE  Reasoned(SentReasoning(text)) = Words(text)
<1> DEFINE W == [kind : {"reasoning"}, tok : ThinkingWords]
           P == {s \in Seq(Toks) : Reasoned(SentReasoning(s)) = Words(s)}
<1>0. ASSUME NEW s \in Seq(Toks)
      PROVE  /\ SentReasoning(s) \in Seq(ChatChunks) /\ Len(SentReasoning(s)) = Len(s)
             /\ \A i \in 1 .. Len(s) : SentReasoning(s)[i] = [kind |-> "reasoning", tok |-> s[i]]
  <2>1. SentReasoning(s) \in Seq(ChatChunks) /\ Len(s) \in Nat /\ DOMAIN s = 1 .. Len(s)
    BY TellsText, LenProperties
  <2>2. SentReasoning(s) = [i \in 1 .. Len(s) |-> [kind |-> "reasoning", tok |-> s[i]]]
    BY <2>1 DEF SentReasoning
  <2>3. DOMAIN SentReasoning(s) = 1 .. Len(s)
    BY <2>2
  <2>4. Len(SentReasoning(s)) = Len(s)
    BY ONLY <2>1, <2>3, LenProperties
  <2> QED
    BY <2>1, <2>2, <2>4
<1>1. <<>> \in P
  <2>1. SentReasoning(<<>>) = <<>>
    BY DEF SentReasoning
  <2>2. Reasoned(<<>>) = <<>>
    BY EmptySeq, ReasonedSpoken
  <2>3. Words(<<>>) = <<>>
    BY ThoseEmpty DEF Words
  <2> QED
    BY <2>1, <2>2, <2>3, EmptySeq
<1>2. ASSUME NEW e \in Toks, NEW s \in Seq(Toks), s \in P PROVE Put(e, s) \in P
  <2>1. /\ Put(e, s) \in Seq(Toks) /\ Len(Put(e, s)) = Len(s) + 1 /\ Put(e, s)[1] = e
        /\ Len(s) \in Nat /\ \A i \in 1 .. Len(s) : Put(e, s)[i + 1] = s[i]
    BY PutTok
  <2>2. PICK c : c = [kind |-> "reasoning", tok |-> e]
    OBVIOUS
  <2>3. c \in ChatChunks /\ c.tok = e /\ (c \in W <=> e \in ThinkingWords)
    BY <2>2 DEF ChatChunks
  <2>4. PICK o \in Seq(ChatChunks) : o = SentReasoning(s)
    BY <1>0
  <2>5. PICK q \in Seq(ChatChunks) : q = SentReasoning(Put(e, s))
    BY <1>0, <2>1
  <2>6. q = Put(c, o)
    <3>1. /\ Put(c, o) \in Seq(ChatChunks) /\ Len(Put(c, o)) = Len(o) + 1 /\ Put(c, o)[1] = c
          /\ Len(o) \in Nat /\ \A i \in 1 .. Len(o) : Put(c, o)[i + 1] = o[i]
      BY <2>3, PutOf
    <3>2. /\ Len(o) = Len(s) /\ Len(q) = Len(s) + 1
          /\ \A i \in 1 .. Len(s) : o[i] = [kind |-> "reasoning", tok |-> s[i]]
          /\ \A i \in 1 .. Len(s) + 1 : q[i] = [kind |-> "reasoning", tok |-> Put(e, s)[i]]
      BY <1>0, <2>1, <2>4, <2>5
    <3>3. q[1] = Put(c, o)[1]
      <4>1. 1 \in 1 .. Len(s) + 1
        BY <2>1
      <4> QED
        BY ONLY <2>1, <2>2, <3>1, <3>2, <4>1
    <3>4. ASSUME NEW i \in 1 .. Len(s) PROVE q[i + 1] = Put(c, o)[i + 1]
      <4>1. i + 1 \in 1 .. Len(s) + 1
        BY <2>1
      <4> QED
        BY ONLY <2>1, <3>1, <3>2, <4>1, i \in 1 .. Len(s)
    <3>5. ASSUME NEW i \in 1 .. Len(q) PROVE q[i] = Put(c, o)[i]
      <4>1. CASE i = 1
        BY <3>3, <4>1
      <4>2. CASE i # 1
        <5>1. i - 1 \in 1 .. Len(s) /\ (i - 1) + 1 = i
          BY <2>1, <3>2, <4>2
        <5> QED
          BY ONLY <3>4, <5>1
      <4> QED
        BY <4>1, <4>2
    <3>6. Len(q) = Len(Put(c, o))
      BY ONLY <3>1, <3>2
    <3> QED
      BY ONLY <3>1, <3>5, <3>6, q \in Seq(ChatChunks), SeqEqual
  <2>7. Reasoned(q) = Reasoned(<<c>>) \o Reasoned(o)
    <3>1. <<c>> \in Seq(ChatChunks)
      BY <2>3
    <3>2. Reasoned(<<c>> \o o) = Reasoned(<<c>>) \o Reasoned(o)
      BY <3>1, ReasonedJoin
    <3> QED
      BY ONLY <2>6, <3>2 DEF Put
  <2>8. Reasoned(<<c>>) = Wanted(e, ThinkingWords)
    <3>1. <<>> \in Seq(ChatChunks) /\ <<c>> = Put(c, <<>>)
      <4>1. <<>> \in Seq(ChatChunks) /\ <<c>> \in Seq(ChatChunks)
        BY <2>3, EmptySeq
      <4>2. <<c>> \o <<>> = <<c>>
        BY <4>1, ConcatEmptySeq
      <4> QED
        BY <4>1, <4>2 DEF Put
    <3>2. Those(Put(c, <<>>), W) = Wanted(c, W) \o Those(<<>>, W)
      <4>1. \A z \in Seq(ChatChunks) : Those(Put(c, z), W) = Wanted(c, W) \o Those(z, W)
        BY <2>3, ThoseFirst
      <4> QED
        BY ONLY <3>1, <4>1
    <3>3. Those(<<>>, W) = <<>>
      BY ThoseEmpty
    <3>4. Wanted(c, W) \in Seq(ChatChunks)
      BY <2>3, <3>1 DEF Wanted
    <3>5. Wanted(c, W) \o <<>> = Wanted(c, W)
      BY <3>4, ConcatEmptySeq
    <3>6. Those(<<c>>, W) = Wanted(c, W)
      BY ONLY <3>1, <3>2, <3>3, <3>5
    <3>7. TokensOf(Wanted(c, W)) = Wanted(e, ThinkingWords)
      BY <2>3 DEF Wanted, TokensOf
    <3> QED
      BY <3>6, <3>7 DEF Reasoned
  <2>9. Words(Put(e, s)) = Wanted(e, ThinkingWords) \o Words(s)
    BY ThoseFirst DEF Words
  <2>10. Reasoned(o) = Words(s)
    BY <1>2, <2>4
  <2>11. Reasoned(SentReasoning(Put(e, s))) = Words(Put(e, s))
    BY ONLY <2>5, <2>7, <2>8, <2>9, <2>10
  <2> QED
    BY <2>1, <2>11
<1> HIDE DEF P
<1>3. Seq(Toks) \subseteq P
  BY <1>1, <1>2, AllTexts
<1> QED
  BY <1>3 DEF P

\* Chunks without a word of reasoning, and text without a word, add none.
LEMMA SaysNoWord ==
    ASSUME NEW o1 \in Seq(ChatChunks), NEW o2 \in Seq(ChatChunks), Reasoned(o2) = <<>>
    PROVE  o1 \o o2 \in Seq(ChatChunks) /\ Reasoned(o1 \o o2) = Reasoned(o1)
<1>1. o1 \o o2 \in Seq(ChatChunks)
  BY ConcatProperties
<1>2. Reasoned(o1 \o o2) = Reasoned(o1) \o Reasoned(o2) /\ Reasoned(o1) \in Seq(Toks)
  BY ReasonedJoin
<1>3. \A x \in Seq(Toks) : x \o <<>> = x
  BY ConcatEmptySeq
<1> QED
  BY <1>1, <1>2, <1>3

LEMMA AddsNoWord ==
    ASSUME NEW x \in Seq(Toks), NEW y \in Seq(Toks), Words(y) = <<>>
    PROVE  x \o y \in Seq(Toks) /\ Words(x \o y) = Words(x)
<1>1. x \o y \in Seq(Toks)
  BY ConcatProperties
<1>2. Words(x \o y) = Words(x) \o Words(y) /\ Words(x) \in Seq(Toks)
  BY WordsJoin
<1>3. \A z \in Seq(Toks) : z \o <<>> = z
  BY ConcatEmptySeq
<1> QED
  BY <1>1, <1>2, <1>3

-----------------------------------------------------------------------------
(***************************************************************************)
(* ChatStream: both readers tell the same reasoning.                       *)
(***************************************************************************)
Turns == [thinking : Filters, last : Seq(Toks), hasThinking : BOOLEAN, chunks : Seq(Toks),
          reasoning : Seq(Toks), calls : Seq(Toks)]

\* Neither reader holds a word back, and their thinking filters count alike.
HoldNoWord ==
    /\ turn \in Turns
    /\ stream.refs \in Seq(Begun)
    /\ stream.thinking.buffer \in Seq(Quiet) /\ turn.thinking.buffer \in Seq(Quiet)
    /\ stream.thinking.seen = turn.thinking.seen

SameReasoning ==
    /\ "reasoning" \notin edits => Reasoned(out) = Words(turn.reasoning)
    /\ pc = "end" => Words(result.reasoning) = Words(turn.reasoning)

ReasonInv == ChatInv /\ HoldNoWord /\ SameReasoning

LEMMA InitReason == ChatInit => ReasonInv
<1> SUFFICES ASSUME ChatInit PROVE ReasonInv
  OBVIOUS
<1>1. /\ turn = [thinking |-> [seen |-> FALSE, buffer |-> <<>>], last |-> <<>>,
                 hasThinking |-> FALSE, chunks |-> <<>>, reasoning |-> <<>>, calls |-> <<>>]
      /\ stream.refs = <<>> /\ stream.thinking = [seen |-> FALSE, buffer |-> <<>>]
      /\ out = <<>> /\ pc = "frame"
  BY DEF ChatInit, NewThinkingFilter
<1>2. /\ <<>> \in Seq(Toks) /\ <<>> \in Seq(Begun) /\ <<>> \in Seq(Quiet)
      /\ <<>> \in Seq(Reasoning)
  BY EmptySeq
<1>3. [seen |-> FALSE, buffer |-> <<>>] \in Filters
  BY <1>2 DEF Filters
<1>4. HoldNoWord
  <2>1. turn \in Turns /\ turn.thinking.seen = FALSE /\ turn.thinking.buffer = <<>>
    BY ONLY <1>1, <1>2, <1>3 DEF Turns
  <2>2. stream.refs = <<>> /\ stream.thinking.seen = FALSE /\ stream.thinking.buffer = <<>>
    BY ONLY <1>1
  <2> QED
    BY ONLY <1>2, <2>1, <2>2 DEF HoldNoWord
<1>5. Reasoned(<<>>) = <<>>
  BY EmptySeq, ReasonedSpoken
<1>6. Words(<<>>) = <<>>
  BY ThoseEmpty DEF Words
<1>7. SameReasoning
  BY ONLY <1>1, <1>5, <1>6 DEF SameReasoning
<1> QED
  BY <1>4, <1>7, InitChat DEF ReasonInv

\* A frame that says the same words to both clients.
LEMMA ReasonKept ==
    ASSUME ReasonInv, ChatReadFrame, ChatInv', HoldNoWord',
           "reasoning" \notin edits' => Reasoned(out') = Words(turn'.reasoning)
    PROVE  ReasonInv'
<1>1. pc' # "end"
  BY DEF ChatReadFrame
<1> QED
  BY <1>1 DEF ReasonInv, SameReasoning, Reasoned, Words

\* A frame that says no word, and leaves the reasoning of the turn alone.
LEMMA QuietReason ==
    ASSUME ReasonInv, ChatReadFrame, ChatInv', HoldNoWord', UNCHANGED edits,
           turn'.reasoning = turn.reasoning, NEW o \in Seq(Spoken), out' = out \o o
    PROVE  ReasonInv'
<1>1. o \in Seq(ChatChunks) /\ out \in Seq(ChatChunks)
  <2>1. Spoken \subseteq ChatChunks
    BY DEF Spoken
  <2> QED
    BY <2>1, SeqWithin DEF ReasonInv, ChatInv
<1>2. Reasoned(o) = <<>>
  BY ReasonedSpoken
<1>3. Reasoned(out \o o) = Reasoned(out)
  BY <1>1, <1>2, SaysNoWord
<1>4. "reasoning" \notin edits => Reasoned(out) = Words(turn.reasoning)
  BY DEF ReasonInv, SameReasoning
<1>5. "reasoning" \notin edits' => Reasoned(out') = Words(turn'.reasoning)
  BY ONLY <1>3, <1>4, UNCHANGED edits, turn'.reasoning = turn.reasoning, out' = out \o o
<1> QED
  BY <1>5, ReasonKept

LEMMA ThinkingReason ==
    ASSUME ReasonInv, ChatInv', NEW delta \in ThinkingTexts[hasTools], ChatThinkingFrame(delta)
    PROVE  ReasonInv'
<1>1. /\ stream \in ChatLocals /\ stream.thinking \in Filters /\ stream.refs \in Seq(Begun)
      /\ turn \in Turns /\ turn.thinking \in Filters /\ turn.reasoning \in Seq(Toks)
      /\ turn.last \in Seq(Toks) /\ frames \in Nat /\ out \in Seq(ChatChunks)
      /\ stream.thinking.buffer \in Seq(Quiet) /\ turn.thinking.buffer \in Seq(Quiet)
      /\ stream.thinking.seen = turn.thinking.seen
      /\ "reasoning" \notin edits => Reasoned(out) = Words(turn.reasoning)
  BY DEF ReasonInv, ChatInv, ChatLocals, HoldNoWord, SameReasoning, Turns
<1>2. PICK d \in Seq(Reasoning) : d = Text(delta, "thinking")
  <2>1. ChatInv
    BY DEF ReasonInv
  <2> QED
    BY <1>1, <2>1, ChatTexts, TextOf
<1>3. ASSUME NEW f \in Filters, f.buffer \in Seq(Quiet)
      PROVE  LET g == IF NewRound THEN ResetForNewRound(f) ELSE f
             IN  /\ g \in Filters /\ g.buffer \in Seq(Quiet)
                 /\ g.seen = (f.seen /\ ~NewRound)
  BY <1>3 DEF Filters, ResetForNewRound
<1>4. PICK fs \in Filters :
          /\ fs = IF NewRound THEN ResetForNewRound(stream.thinking) ELSE stream.thinking
          /\ fs.buffer \in Seq(Quiet) /\ fs.seen = (stream.thinking.seen /\ ~NewRound)
  BY ONLY <1>1, <1>3
<1>5. PICK ft \in Filters :
          /\ ft = IF NewRound THEN ResetForNewRound(turn.thinking) ELSE turn.thinking
          /\ ft.buffer \in Seq(Quiet) /\ ft.seen = (turn.thinking.seen /\ ~NewRound)
  BY ONLY <1>1, <1>3
<1>6. fs.seen = ft.seen
  BY ONLY <1>1, <1>4, <1>5
<1>7. PICK p : p = ProcessThinking(fs, d)
  OBVIOUS
<1>8. PICK q : q = ProcessThinking(ft, d)
  OBVIOUS
<1>9. /\ p.filter \in Filters /\ p.filter.seen = TRUE /\ p.filter.buffer \in Seq(Quiet)
      /\ p.out \in Seq(Reasoning) /\ Words(p.out) = Words(Counted(fs.seen, d))
  BY ONLY <1>4, <1>7, fs \in Filters, d \in Seq(Reasoning), ThinkingFilterWords
<1>10. /\ q.filter \in Filters /\ q.filter.seen = TRUE /\ q.filter.buffer \in Seq(Quiet)
       /\ q.out \in Seq(Reasoning) /\ Words(q.out) = Words(Counted(ft.seen, d))
  BY ONLY <1>5, <1>8, ft \in Filters, d \in Seq(Reasoning), ThinkingFilterWords
<1>11. p = Process(stream.thinking, delta) /\ q = Process(turn.thinking, delta)
  BY ONLY <1>2, <1>4, <1>5, <1>7, <1>8 DEF Process
<1>12. PICK w : Words(p.out) = w /\ Words(q.out) = w
  BY ONLY <1>6, <1>9, <1>10
<1>13. p.out \in Seq(Toks) /\ q.out \in Seq(Toks)
  BY ONLY <1>9, <1>10, SeqWithin DEF Reasoning
<1>14. PICK b \in Seq(Toks) : b = Break /\ Words(b) = <<>>
  <2>1. Break \in Seq(Toks)
    BY <1>1, ChatMarks DEF Break
  <2>2. PICK t : t = [sym |-> "break", src |-> "thinking", at |-> frames + 1, pos |-> 0]
    OBVIOUS
  <2>3. Break \in Seq({t})
    <3>1. Break \in {<<>>, <<t>>}
      BY <2>2 DEF Break, When, Mark
    <3>2. <<>> \in Seq({t}) /\ <<t>> \in Seq({t})
      BY EmptySeq
    <3> QED
      BY ONLY <3>1, <3>2
  <2>4. t.sym # "word"
    BY <2>2
  <2>5. Words(Break) = <<>>
    BY ONLY <2>3, <2>4, Wordless
  <2> QED
    BY <2>1, <2>5
<1>15. ASSUME NEW x \in Seq(Toks)
       PROVE  b \o x \in Seq(Toks) /\ Words(b \o x) = Words(x)
  <2>1. b \o x \in Seq(Toks) /\ Words(b \o x) = Words(b) \o Words(x) /\ Words(x) \in Seq(Toks)
    BY WordsJoin, ConcatProperties
  <2>2. \A z \in Seq(Toks) : <<>> \o z = z
    BY ConcatEmptySeq
  <2> QED
    BY <1>14, <2>1, <2>2
<1>16. PICK text \in Seq(Toks) : text = When(p.out # <<>>, Break \o p.out) /\ Words(text) = w
  <2>1. When(p.out # <<>>, Break \o p.out) = IF p.out # <<>> THEN b \o p.out ELSE p.out
    BY <1>14 DEF When
  <2>2. b \o p.out \in Seq(Toks) /\ Words(b \o p.out) = w
    BY ONLY <1>12, <1>13, <1>15
  <2> QED
    BY ONLY <1>12, <1>13, <2>1, <2>2
<1>17. PICK r : r = ProcessRefs(stream.refs, text, known)
  OBVIOUS
<1>18. r.buffer \in Seq(Begun) /\ r.out \in Seq(Toks) /\ Words(r.out) = w
  BY ONLY <1>1, <1>16, <1>17, text \in Seq(Toks), RefsWords
<1>19. PICK l1, l2 : l1 = LastOutputChunk(stream.last, text)
                     /\ l2 = LastOutputChunk(turn.last, q.out)
  OBVIOUS
<1>20. l2 \in Seq(Toks)
  BY ONLY <1>1, <1>13, <1>19, EmptySeq DEF LastOutputChunk
<1>21. PICK more : more = turn.reasoning \o Break \o q.out
  OBVIOUS
<1>22. more \in Seq(Toks) /\ Words(more) = Words(turn.reasoning) \o w
  <2>1. turn.reasoning \o b \in Seq(Toks) /\ Words(turn.reasoning \o b) = Words(turn.reasoning)
    BY <1>1, <1>14, AddsNoWord
  <2>2. PICK tb \in Seq(Toks) : tb = turn.reasoning \o b /\ Words(tb) = Words(turn.reasoning)
    BY <2>1
  <2>3. tb \o q.out \in Seq(Toks) /\ Words(tb \o q.out) = Words(tb) \o Words(q.out)
    BY ONLY <1>13, tb \in Seq(Toks), WordsJoin, ConcatProperties
  <2>4. more = tb \o q.out
    BY ONLY <1>14, <1>21, <2>2
  <2> QED
    BY ONLY <1>12, <2>2, <2>3, <2>4
<1>23. /\ ChatReadFrame
       /\ stream' = [stream EXCEPT !.thinking = p.filter, !.refs = r.buffer, !.last = l1]
       /\ out' = out \o SentReasoning(r.out)
       /\ turn' = [turn EXCEPT !.thinking = q.filter, !.hasThinking = TRUE, !.last = l2,
                               !.reasoning = more]
       /\ UNCHANGED edits
  BY <1>11, <1>16, <1>17, <1>19, <1>21 DEF ChatThinkingFrame, StreamThinks, TurnThinks
<1>24. HoldNoWord'
  <2>1. stream'.refs = r.buffer /\ stream'.thinking = p.filter
    BY ONLY <1>1, <1>23 DEF ChatLocals
  <2>2. turn' \in Turns /\ turn'.thinking = q.filter
    BY ONLY <1>1, <1>10, <1>20, <1>22, <1>23 DEF Turns
  <2> QED
    BY ONLY <1>9, <1>10, <1>18, <2>1, <2>2 DEF HoldNoWord
<1>25. "reasoning" \notin edits' => Reasoned(out') = Words(turn'.reasoning)
  <2>1. turn'.reasoning = more
    BY ONLY <1>1, <1>23 DEF Turns
  <2>2. SentReasoning(r.out) \in Seq(ChatChunks) /\ Reasoned(SentReasoning(r.out)) = w
    BY <1>18, TellsText, ReasonedText
  <2>3. Reasoned(out \o SentReasoning(r.out)) = Reasoned(out) \o w
    BY ONLY <1>1, <2>2, ReasonedJoin
  <2> QED
    BY ONLY <1>1, <1>22, <1>23, <2>1, <2>3
<1> QED
  BY <1>23, <1>24, <1>25, ReasonKept

\* Frames that leave both readers alone.
LEMMA SkippedReason ==
    ASSUME ReasonInv, ChatInv', ChatReadFrame, UNCHANGED <<stream, turn, edits, out>>
    PROVE  ReasonInv'
<1>1. HoldNoWord'
  BY DEF ReasonInv, HoldNoWord
<1>2. "reasoning" \notin edits' => Reasoned(out') = Words(turn'.reasoning)
  BY DEF ReasonInv, SameReasoning
<1> QED
  BY <1>1, <1>2, ReasonKept

LEMMA BlockReason ==
    ASSUME ReasonInv, ChatInv', NEW before \in AnswerTexts[hasTools], NEW image, NEW phase,
           ChatBlockFrame(before, image, phase)
    PROVE  ReasonInv'
<1>1. /\ stream \in ChatLocals /\ stream.refs \in Seq(Begun) /\ turn \in Turns
      /\ turn.chunks \in Seq(Toks) /\ frames \in Nat
      /\ stream.thinking.buffer \in Seq(Quiet) /\ turn.thinking.buffer \in Seq(Quiet)
      /\ stream.thinking.seen = turn.thinking.seen
  BY DEF ReasonInv, ChatInv, HoldNoWord, Turns
<1>2. PICK text \in Seq(Toks) : text = Text(before, "block")
  <2>1. ChatInv
    BY DEF ReasonInv
  <2> QED
    BY <1>1, <2>1, ChatTexts, TextOf
<1>3. PICK r : r = ProcessRefs(stream.refs, text, known)
  OBVIOUS
<1>4. r.buffer \in Seq(Begun) /\ r.out \in Seq(Toks)
  BY ONLY <1>1, <1>3, text \in Seq(Toks), RefsWords
<1>5. PICK chunks \in Seq(Toks) : chunks = turn.chunks \o text
  BY <1>1, ConcatProperties
<1>6. /\ ChatReadFrame /\ UNCHANGED edits
      /\ stream' = [stream EXCEPT !.refs = r.buffer] /\ out' = out \o SentContent(r.out)
      /\ turn' = [turn EXCEPT !.chunks = chunks]
  BY <1>2, <1>3, <1>5 DEF ChatBlockFrame, ChatOtherFrame
<1>7. SentContent(r.out) \in Seq(Spoken)
  BY <1>4, TellsText
<1>8. /\ stream'.refs = r.buffer /\ stream'.thinking = stream.thinking
      /\ turn' \in Turns /\ turn'.thinking = turn.thinking /\ turn'.reasoning = turn.reasoning
  BY ONLY <1>1, <1>6, chunks \in Seq(Toks) DEF ChatLocals, Turns
<1>9. HoldNoWord'
  BY ONLY <1>1, <1>4, <1>8 DEF HoldNoWord
<1> QED
  BY <1>6, <1>7, <1>8, <1>9, QuietReason

LEMMA CallsReason ==
    ASSUME ReasonInv, ChatInv', NEW n \in 1 .. MaxCalls, ChatFunctionCallFrame(n)
    PROVE  ReasonInv'
<1>1. /\ stream \in ChatLocals /\ turn \in Turns /\ frames \in Nat
      /\ stream.refs \in Seq(Begun)
      /\ stream.thinking.buffer \in Seq(Quiet) /\ turn.thinking.buffer \in Seq(Quiet)
      /\ stream.thinking.seen = turn.thinking.seen
  BY DEF ReasonInv, ChatInv, HoldNoWord
<1>2. PICK calls_ : calls_ = Text([i \in 1 .. n |-> "call"], "tool_call")
  OBVIOUS
<1>3. calls_ \in Seq(Toks)
  <2>1. n \in Nat
    BY BoundsAssumption
  <2>2. \A i \in 1 .. n : "call" \in Strings
    BY DEF Strings
  <2>3. [i \in 1 .. n |-> "call"] \in Seq(Strings) /\ "tool_call" \in Strings
    BY <2>1, <2>2, IsASeq DEF Strings
  <2> QED
    BY <1>1, <1>2, <2>3, TextOf
<1>4. /\ ChatReadFrame /\ UNCHANGED edits /\ stream' = [stream EXCEPT !.calls = calls_]
      /\ out' = out \o SentCalls(calls_) /\ turn' = [turn EXCEPT !.calls = calls_]
  BY <1>2 DEF ChatFunctionCallFrame, ChatOtherFrame
<1>5. SentCalls(calls_) \in Seq(Spoken)
  BY <1>3, TellsCalls
<1>6. /\ stream'.refs = stream.refs /\ stream'.thinking = stream.thinking
      /\ turn' \in Turns /\ turn'.thinking = turn.thinking /\ turn'.reasoning = turn.reasoning
  BY ONLY <1>1, <1>3, <1>4 DEF ChatLocals, Turns
<1>7. HoldNoWord'
  BY ONLY <1>1, <1>6 DEF HoldNoWord
<1> QED
  BY <1>4, <1>5, <1>6, <1>7, QuietReason

\* An edit that repeats no reasoning adds none.
LEMMA NoMoreThinking ==
    ASSUME NEW last \in Seq(Toks)
    PROVE  IncrementalThinking(<<>>, last) = <<>>
<1> DEFINE whole == <<>>
           at == {i \in 0 .. Len(whole) - Len(last) :
                     Syms(SubSeq(whole, i + 1, i + Len(last))) = Syms(last)}
<1>1. last # <<>> => at = {}
  <2>1. last # <<>> => Len(last) \in Nat \ {0}
    BY EmptySeq
  <2>2. Len(whole) = 0
    BY EmptySeq
  <2> HIDE DEF whole
  <2>3. last # <<>> => 0 .. Len(whole) - Len(last) = {}
    BY <2>1, <2>2
  <2> QED
    BY <2>3
<1> QED
  BY <1>1 DEF IncrementalThinking

LEMMA MarksSayNothing ==
    ASSUME frames \in Nat, NEW cond, NEW sym \in {"sources", "images"}
    PROVE  /\ When(cond, Mark(sym, "pending")) \in Seq(Toks)
           /\ Words(When(cond, Mark(sym, "pending"))) = <<>>
<1>1. PICK m \in Seq(Toks) : m = When(cond, Mark(sym, "pending"))
  BY ChatMarks
<1>2. PICK t : t = [sym |-> sym, src |-> "pending", at |-> frames + 1, pos |-> 0]
  OBVIOUS
<1>3. m \in Seq({t})
  <2>1. m \in {<<>>, <<t>>}
    BY <1>1, <1>2 DEF When, Mark
  <2>2. <<>> \in Seq({t}) /\ <<t>> \in Seq({t})
    BY EmptySeq
  <2> QED
    BY ONLY <2>1, <2>2
<1>4. t.sym # "word"
  BY <1>2
<1>5. Words(m) = <<>>
  BY ONLY <1>3, <1>4, Wordless
<1> QED
  BY ONLY <1>1, <1>5

LEMMA ContentReason ==
    ASSUME ReasonInv, ChatInv', NEW via, NEW phase,
           NEW repeated \in Seq(Strings), NEW syms \in Seq(Strings),
           ChatContentFrame(via, phase, repeated, syms)
    PROVE  ReasonInv'
<1>1. /\ stream \in ChatLocals /\ stream.thinking \in Filters /\ stream.refs \in Seq(Begun)
      /\ stream.last \in Seq(Toks) /\ stream.buffer \in Seq(Toks)
      /\ stream.thinking.buffer \in Seq(Quiet) /\ turn.thinking.buffer \in Seq(Quiet)
      /\ stream.thinking.seen = turn.thinking.seen
      /\ turn \in Turns /\ turn.last \in Seq(Toks) /\ turn.chunks \in Seq(Toks)
      /\ turn.reasoning \in Seq(Toks) /\ frames \in Nat /\ out \in Seq(ChatChunks)
  BY DEF ReasonInv, ChatInv, ChatLocals, HoldNoWord, Turns
<1>2. PICK whole, text \in Seq(Toks) : /\ whole = Text(repeated, "thinking")
                                       /\ text = Text(syms, "answer")
  <2>1. "thinking" \in Strings /\ "answer" \in Strings
    BY DEF Strings
  <2> QED
    BY <1>1, <2>1, TextOf
<1>3. PICK f : f = FlushThinking(stream.thinking)
  OBVIOUS
<1>4. /\ f.out \in Seq(Toks) /\ Words(f.out) = <<>>
      /\ f.filter.seen = stream.thinking.seen /\ f.filter.buffer = <<>>
  <2>1. PICK g : g = [stream.thinking EXCEPT !.buffer = <<>>]
    OBVIOUS
  <2>2. f = [out |-> stream.thinking.buffer, filter |-> g]
    BY <1>3, <2>1 DEF FlushThinking
  <2>3. g.seen = stream.thinking.seen /\ g.buffer = <<>>
    BY <1>1, <2>1 DEF Filters
  <2>4. Quiet \subseteq Toks /\ \A t \in Quiet : t.sym # "word"
    BY DEF Quiet, Reasoning
  <2>5. stream.thinking.buffer \in Seq(Toks) /\ Words(stream.thinking.buffer) = <<>>
    BY <1>1, <2>4, SeqWithin, Wordless
  <2> QED
    BY ONLY <2>2, <2>3, <2>5
<1>5. PICK last \in Seq(Toks) : last = IF f.out # <<>> THEN f.out ELSE stream.last
  BY <1>1, <1>4
<1>6. PICK more \in Seq(Toks) : more = When(via = "edit", IncrementalThinking(whole, last))
  BY MoreThinking, WhenText
<1>7. PICK again \in Seq(Toks) : again = When(via = "edit", IncrementalThinking(whole, turn.last))
  BY <1>1, MoreThinking, WhenText
<1>8. PICK r1 : r1 = ProcessRefs(stream.refs, f.out, known)
  OBVIOUS
<1>9. r1.buffer \in Seq(Begun) /\ r1.out \in Seq(Toks) /\ Words(r1.out) = <<>>
  BY ONLY <1>1, <1>4, <1>8, RefsWords
<1>10. PICK r2 : r2 = ProcessRefs(r1.buffer, more, known)
  OBVIOUS
<1>11. PICK said : said = When(more # <<>>, r2.out \o FlushRefs(r2.buffer, known).out)
  OBVIOUS
<1>12. PICK x : x = ChatExtracted(via, text)
  OBVIOUS
<1>13. x.content \in Seq(Toks)
  BY <1>12, ChatExtracts DEF ReasonInv
<1>14. PICK r3 : r3 = ProcessRefs(When(more = <<>>, r1.buffer), x.content, known)
  OBVIOUS
<1>15. r3.buffer \in Seq(Begun) /\ r3.out \in Seq(Toks)
  <2>1. When(more = <<>>, r1.buffer) \in Seq(Begun)
    BY <1>9, EmptySeq DEF When
  <2> QED
    BY ONLY <1>13, <1>14, <2>1, RefsWords
<1>16. PICK d : d = DrainBuffer(stream.buffer \o r3.out)
  OBVIOUS
<1>17. d.out \in Seq(Spoken)
  <2>1. stream.buffer \o r3.out \in Seq(Toks)
    BY <1>1, <1>15, ConcatProperties
  <2>2. d \in Drained
    BY <1>16, <2>1, DrainTells
  <2> QED
    BY <2>2 DEF Drained
<1>18. PICK answer \in BOOLEAN : answer = (hasTools /\ r3.out # <<>>)
  OBVIOUS
<1>19. PICK m1, m2 \in Seq(Toks) :
          /\ m1 = When(sources, Mark("sources", "pending")) /\ Words(m1) = <<>>
          /\ m2 = When(images, Mark("images", "pending")) /\ Words(m2) = <<>>
  BY <1>1, MarksSayNothing
<1>20. PICK o5 \in Seq(Spoken) : o5 = IF answer THEN d.out ELSE SentContent(r3.out)
  BY <1>15, <1>17, TellsText
<1>21. PICK length, rest, now :
          /\ length = x.length + (IF via = "delta" THEN Len(r3.out) ELSE 0)
          /\ rest = (IF answer THEN d.rest ELSE stream.buffer)
          /\ now = IF answer THEN stream.calls \o d.calls ELSE stream.calls
  OBVIOUS
<1>22. /\ ChatReadFrame
       /\ stream' = [stream EXCEPT !.thinking = f.filter, !.last = last, !.refs = r3.buffer,
                                   !.length = length, !.buffer = rest, !.calls = now]
       /\ out' = out \o SentContent(m1) \o SentContent(m2)
                     \o SentReasoning(r1.out) \o SentReasoning(said) \o o5
  BY <1>2, <1>3, <1>5, <1>6, <1>8, <1>10, <1>11, <1>12, <1>14, <1>16, <1>18, <1>19, <1>20, <1>21
     DEF ChatContentFrame, ChatOtherFrame, StreamContent
<1>23. PICK found \in Seq(Toks) : found = When(turn.hasThinking, m1) /\ Words(found) = <<>>
  <2>1. When(turn.hasThinking, m1) \in {<<>>, m1}
    BY DEF When
  <2>2. <<>> \in Seq(Toks) /\ Words(<<>>) = <<>>
    BY EmptySeq, ThoseEmpty DEF Words
  <2> QED
    BY ONLY <1>19, <2>1, <2>2, m1 \in Seq(Toks)
<1>24. PICK reasoned \in Seq(Toks) : reasoned = turn.reasoning \o found \o again
  <2>1. turn.reasoning \o found \in Seq(Toks)
    BY <1>1, ConcatProperties
  <2> QED
    BY <2>1, ConcatProperties
<1>25. PICK chunks \in Seq(Toks) : chunks = turn.chunks \o When(~turn.hasThinking, m1) \o m2 \o text
  <2>1. When(~turn.hasThinking, m1) \in Seq(Toks)
    BY WhenText
  <2>2. turn.chunks \o When(~turn.hasThinking, m1) \in Seq(Toks)
    BY <1>1, <2>1, ConcatProperties
  <2>3. turn.chunks \o When(~turn.hasThinking, m1) \o m2 \in Seq(Toks)
    BY <2>2, ConcatProperties
  <2> QED
    BY <2>3, ConcatProperties
<1>26. turn' = [turn EXCEPT !.reasoning = reasoned, !.chunks = chunks]
  <2>1. turn' = [turn EXCEPT !.reasoning = @ \o When(turn.hasThinking, m1) \o again,
                             !.chunks = @ \o When(~turn.hasThinking, m1) \o m2 \o text]
    BY <1>2, <1>7, <1>19 DEF ChatContentFrame, TurnContent
  <2> QED
    BY ONLY <1>23, <1>24, <1>25, <2>1
<1>27. HoldNoWord'
  <2>1. stream'.refs = r3.buffer /\ stream'.thinking = f.filter
    BY ONLY <1>1, <1>22 DEF ChatLocals
  <2>2. turn' \in Turns /\ turn'.thinking = turn.thinking
    BY ONLY <1>1, <1>26, reasoned \in Seq(Toks), chunks \in Seq(Toks) DEF Turns
  <2> QED
    BY ONLY <1>1, <1>4, <1>15, <2>1, <2>2, EmptySeq DEF HoldNoWord
<1>28. SUFFICES ASSUME "reasoning" \notin edits'
                PROVE  Reasoned(out') = Words(turn'.reasoning)
  BY <1>22, <1>27, ReasonKept
<1>29. "reasoning" \notin edits /\ more = <<>> /\ again = <<>>
  <2>1. edits' = edits \cup (IF via = "repeat" THEN {"repeat"}
                             ELSE IF repeated # <<>> THEN {"reasoning"} ELSE {})
    BY DEF ChatContentFrame
  <2>2. via = "edit" => repeated = <<>>
    BY <1>28, <2>1
  <2>3. via = "edit" => whole = <<>>
    BY <1>2, <2>2 DEF Text
  <2>4. via = "edit" => IncrementalThinking(whole, last) = <<>>
                        /\ IncrementalThinking(whole, turn.last) = <<>>
    BY <1>1, <2>3, NoMoreThinking
  <2> QED
    BY <1>6, <1>7, <1>28, <2>1, <2>4 DEF When
<1>30. Reasoned(out) = Words(turn.reasoning)
  BY <1>29 DEF ReasonInv, SameReasoning
<1>31. Words(turn'.reasoning) = Words(turn.reasoning)
  <2>1. turn'.reasoning = reasoned
    BY ONLY <1>1, <1>26 DEF Turns
  <2>2. turn.reasoning \o found \in Seq(Toks)
        /\ Words(turn.reasoning \o found) = Words(turn.reasoning)
    BY <1>1, <1>23, AddsNoWord
  <2>3. \A z \in Seq(Toks) : z \o <<>> = z
    BY ConcatEmptySeq
  <2> QED
    BY ONLY <1>24, <1>29, <2>1, <2>2, <2>3
<1>32. /\ SentContent(m1) \in Seq(ChatChunks) /\ Reasoned(SentContent(m1)) = <<>>
       /\ SentContent(m2) \in Seq(ChatChunks) /\ Reasoned(SentContent(m2)) = <<>>
       /\ o5 \in Seq(ChatChunks) /\ Reasoned(o5) = <<>>
  <2>1. SentContent(m1) \in Seq(Spoken) /\ SentContent(m2) \in Seq(Spoken)
    BY TellsText
  <2>2. \A o \in Seq(Spoken) : o \in Seq(ChatChunks) /\ Reasoned(o) = <<>>
    <3>1. Spoken \subseteq ChatChunks
      BY DEF Spoken
    <3> QED
      BY <3>1, SeqWithin, ReasonedSpoken
  <2> QED
    BY ONLY <2>1, <2>2, o5 \in Seq(Spoken)
<1>33. /\ SentReasoning(r1.out) \in Seq(ChatChunks) /\ Reasoned(SentReasoning(r1.out)) = <<>>
       /\ SentReasoning(said) \in Seq(ChatChunks) /\ Reasoned(SentReasoning(said)) = <<>>
  <2>1. said \in Seq(Toks) /\ Words(said) = <<>>
    BY <1>11, <1>29, EmptySeq, ThoseEmpty DEF When, Words
  <2> QED
    BY <1>9, <2>1, TellsText, ReasonedText
<1>34. Reasoned(out') = Reasoned(out)
  <2>1. \A a, b \in Seq(ChatChunks) : Reasoned(b) = <<>> =>
            a \o b \in Seq(ChatChunks) /\ Reasoned(a \o b) = Reasoned(a)
    BY SaysNoWord
  <2>2. PICK o1 : o1 = out \o SentContent(m1)
    OBVIOUS
  <2>3. PICK o2 : o2 = o1 \o SentContent(m2)
    OBVIOUS
  <2>4. PICK o3 : o3 = o2 \o SentReasoning(r1.out)
    OBVIOUS
  <2>5. PICK o4 : o4 = o3 \o SentReasoning(said)
    OBVIOUS
  <2>6. o1 \in Seq(ChatChunks) /\ Reasoned(o1) = Reasoned(out)
    BY ONLY <1>1, <1>32, <2>1, <2>2
  <2>7. o2 \in Seq(ChatChunks) /\ Reasoned(o2) = Reasoned(out)
    BY ONLY <1>32, <2>1, <2>3, <2>6
  <2>8. o3 \in Seq(ChatChunks) /\ Reasoned(o3) = Reasoned(out)
    BY ONLY <1>33, <2>1, <2>4, <2>7
  <2>9. o4 \in Seq(ChatChunks) /\ Reasoned(o4) = Reasoned(out)
    BY ONLY <1>33, <2>1, <2>5, <2>8
  <2>10. Reasoned(o4 \o o5) = Reasoned(out)
    BY ONLY <1>32, <2>1, <2>9
  <2>11. out' = o4 \o o5
    BY ONLY <1>22, <2>2, <2>3, <2>4, <2>5
  <2> QED
    BY ONLY <2>10, <2>11
<1> QED
  BY ONLY <1>30, <1>31, <1>34

\* At the end the stream sends calls and content, and the turn's reasoning is its result.
LEMMA EndReason ==
    ASSUME ReasonInv, ChatInv', ChatEndOfBody
    PROVE  ReasonInv'
<1>1. /\ stream \in ChatLocals /\ stream.buffer \in Seq(Toks) /\ stream.refs \in Seq(Toks)
      /\ stream.thinking.buffer \in Seq(Quiet) /\ turn.thinking.buffer \in Seq(Quiet)
      /\ stream.thinking.seen = turn.thinking.seen
      /\ turn \in Turns /\ turn.reasoning \in Seq(Toks) /\ out \in Seq(ChatChunks)
      /\ "reasoning" \notin edits => Reasoned(out) = Words(turn.reasoning)
  BY DEF ReasonInv, ChatInv, ChatLocals, HoldNoWord, SameReasoning, Turns
<1>2. PICK x : x = ExtractPromptToolCalls(stream.buffer)
  OBVIOUS
<1>3. x.clean \in Seq(Toks) /\ x.calls \in Seq(Toks)
  <2>1. x \in Results(Toks)
    BY <1>1, <1>2, ExtractOf
  <2> QED
    BY <2>1 DEF Results
<1>4. PICK r \in Seq(Toks) : r = FlushRefs(stream.refs, known).out
  BY <1>1, RefsWithin
<1>5. PICK now : now = stream.calls \o x.calls
  OBVIOUS
<1>6. /\ out' = out \o SentCalls(x.calls) \o SentContent(x.clean) \o SentContent(r)
      /\ stream' = [stream EXCEPT !.calls = now, !.buffer = <<>>, !.refs = <<>>]
      /\ UNCHANGED <<turn, edits>>
      /\ result'.reasoning = ResolveCitations(turn.reasoning, known)
  BY <1>2, <1>4, <1>5 DEF ChatEndOfBody, StreamEnds, TurnEnds
<1>7. HoldNoWord'
  <2>1. stream'.refs = <<>> /\ stream'.thinking = stream.thinking
    BY ONLY <1>1, <1>6 DEF ChatLocals
  <2> QED
    BY ONLY <1>1, <1>6, <2>1, EmptySeq DEF HoldNoWord
<1>8. Words(result'.reasoning) = Words(turn.reasoning)
  BY ONLY <1>1, <1>6, WordsResolved
<1>9. Reasoned(out') = Reasoned(out)
  <2>1. \A a, b \in Seq(ChatChunks) : Reasoned(b) = <<>> =>
            a \o b \in Seq(ChatChunks) /\ Reasoned(a \o b) = Reasoned(a)
    BY SaysNoWord
  <2>2. /\ SentCalls(x.calls) \in Seq(Spoken) /\ SentContent(x.clean) \in Seq(Spoken)
        /\ SentContent(r) \in Seq(Spoken)
    BY <1>3, TellsCalls, TellsText
  <2>3. \A o \in Seq(Spoken) : o \in Seq(ChatChunks) /\ Reasoned(o) = <<>>
    <3>1. Spoken \subseteq ChatChunks
      BY DEF Spoken
    <3> QED
      BY <3>1, SeqWithin, ReasonedSpoken
  <2>4. PICK o1 : o1 = out \o SentCalls(x.calls)
    OBVIOUS
  <2>5. PICK o2 : o2 = o1 \o SentContent(x.clean)
    OBVIOUS
  <2>6. o1 \in Seq(ChatChunks) /\ Reasoned(o1) = Reasoned(out)
    BY ONLY <1>1, <2>1, <2>2, <2>3, <2>4
  <2>7. o2 \in Seq(ChatChunks) /\ Reasoned(o2) = Reasoned(out)
    BY ONLY <2>1, <2>2, <2>3, <2>5, <2>6
  <2>8. Reasoned(o2 \o SentContent(r)) = Reasoned(out)
    BY ONLY <2>1, <2>2, <2>3, <2>7
  <2>9. out' = o2 \o SentContent(r)
    BY ONLY <1>6, <2>4, <2>5
  <2> QED
    BY ONLY <2>8, <2>9
<1>10. SameReasoning'
  <2>1. "reasoning" \notin edits' => Reasoned(out') = Words(turn'.reasoning)
    BY ONLY <1>1, <1>6, <1>9
  <2>2. Words(result'.reasoning) = Words(turn'.reasoning)
    BY ONLY <1>6, <1>8
  <2> QED
    BY ONLY <2>1, <2>2 DEF SameReasoning, Reasoned, Words
<1> QED
  BY <1>7, <1>10 DEF ReasonInv

LEMMA NextReason ==
    ASSUME ReasonInv, ChatNext
    PROVE  ReasonInv'
<1>1. ChatInv /\ ChatInv'
  BY NextChat DEF ReasonInv
<1>2. CASE \E delta \in ThinkingTexts[hasTools] : ChatThinkingFrame(delta)
  BY <1>1, <1>2, ThinkingReason
<1>3. CASE \E phase \in ChatPhases : ChatSearchResultFrame(phase) \/ ChatSkippedFrame(phase)
  <2>1. ChatReadFrame /\ UNCHANGED <<stream, turn, edits, out>>
    BY <1>3 DEF ChatSearchResultFrame, ChatSkippedFrame, ChatOtherFrame
  <2> QED
    BY <1>1, <2>1, SkippedReason
<1>4. CASE \E before \in AnswerTexts[hasTools], image \in BOOLEAN, phase \in ChatPhases :
              ChatBlockFrame(before, image, phase)
  BY <1>1, <1>4, BlockReason
<1>5. CASE \E n \in 1 .. MaxCalls : ChatFunctionCallFrame(n)
  BY <1>1, <1>5, CallsReason
<1>6. CASE ChatEndOfBody
  BY <1>1, <1>6, EndReason
<1>7. ASSUME NEW text \in AnswerTexts[hasTools],
             \/ ChatContentFrame("delta", "answer", <<>>, text)
             \/ ChatContentFrame("repeat", "other", <<>>, text)
             \/ \E whole \in EditThinking[hasTools] :
                   ChatContentFrame("edit", "answer", whole, text)
      PROVE  ReasonInv'
  <2>1. text \in Seq(Strings) /\ <<>> \in Seq(Strings)
    BY <1>1, ChatTexts
  <2>2. \A whole \in EditThinking[hasTools] : whole \in Seq(Strings)
    BY <1>1, ChatTexts
  <2>3. CASE ChatContentFrame("delta", "answer", <<>>, text)
    BY <1>1, <2>1, <2>3, ContentReason
  <2>4. CASE ChatContentFrame("repeat", "other", <<>>, text)
    BY <1>1, <2>1, <2>4, ContentReason
  <2>5. CASE \E whole \in EditThinking[hasTools] :
                ChatContentFrame("edit", "answer", whole, text)
    BY <1>1, <2>1, <2>2, <2>5, ContentReason
  <2> QED
    BY <1>7, <2>3, <2>4, <2>5
<1>8. ASSUME NEW phase, ChatContentFrame("delta", phase, <<>>, <<>>)
      PROVE  ReasonInv'
  <2>1. <<>> \in Seq(Strings)
    BY <1>1, ChatTexts
  <2> QED
    BY <1>1, <1>8, <2>1, ContentReason
<1> QED
  BY <1>2, <1>3, <1>4, <1>5, <1>6, <1>7, <1>8 DEF ChatNext

\* A client of the OpenAI API is told the same words of reasoning, in the same order,
\* with "stream" (handleStreamResponse) and without (collectAssistantTurn), in however
\* many rounds, unless an edit repeats reasoning: what the two thinking filters hold
\* back, and what is lost with them at the end, is never a word.
THEOREM ReasoningAgreesHolds == ChatSpec => []ReasoningAgrees
<1>1. ReasonInv /\ UNCHANGED chatVars => ReasonInv'
  <2> SUFFICES ASSUME ReasonInv, UNCHANGED chatVars PROVE ReasonInv'
    OBVIOUS
  <2>1. ChatInv'
    BY DEF ReasonInv, ChatInv, ChatLocals, Tells, chatVars
  <2>2. HoldNoWord' /\ SameReasoning'
    BY DEF ReasonInv, HoldNoWord, SameReasoning, chatVars, Reasoned, Words
  <2> QED
    BY <2>1, <2>2 DEF ReasonInv
<1>2. ReasonInv /\ [ChatNext]_chatVars => ReasonInv'
  BY <1>1, NextReason
<1>3. ReasonInv => ReasoningAgrees
  BY DEF ReasonInv, SameReasoning, ReasoningAgrees, Reasoned, Words
<1> QED
  BY <1>2, <1>3, InitReason, PTL DEF ChatSpec
=============================================================================
