--------------------------- MODULE UpstreamFrames ---------------------------
(***************************************************************************)
(* An SSE response of the chat service, frame by frame, as the readers of  *)
(* AnthropicStream and ChatStream are given it, and the locals which they  *)
(* have in common.                                                         *)
(*                                                                         *)
(* Text is a sequence of tokens; src says which kind of upstream text the  *)
(* token came from, at which frame brought it and pos where in its text.   *)
(***************************************************************************)
EXTENDS SearchRefFilter, ThinkingFilter, PromptTools, FiniteSets

\* The bounds may differ for responses with and without tools.
CONSTANTS Declared,       \* the values of len(tools) > 0
          ThinkingTexts,  \* reasoning deltas, sequences of syms
          AnswerTexts,    \* answer deltas and edit contents
          MaxFrames,      \* bound: frames of the upstream response
          MaxCalls        \* bound: function calls in one tool_call frame

ASSUME DeclaredAssumption == Declared \subseteq BOOLEAN
ASSUME BoundsAssumption ==
    MaxCalls \in Nat /\ \A tools \in Declared : MaxFrames[tools] \in Nat
ASSUME TextsAssumption ==
    \A tools \in Declared : ThinkingTexts[tools] \cup AnswerTexts[tools] \subseteq Seq(STRING)

VARIABLES
    hasTools,   \* len(tools) > 0
    pc,         \* where the handler is
    frames,     \* frames read
    lastPhase, rounds,   \* ThinkingFilter: LastPhase, ThinkingRoundCount
    known,      \* SearchRefFilter: the cited reference is among the search results
    out         \* what was sent

Text(syms, src) == [i \in DOMAIN syms |-> [sym |-> syms[i], src |-> src,
                                           at |-> frames + 1, pos |-> i]]
=============================================================================
