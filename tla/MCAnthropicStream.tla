------------------------- MODULE MCAnthropicStream -------------------------
(***************************************************************************)
(* Deltas for TLC.  Reasoning: a quoted opening, plain text, text that     *)
(* ends in a line break or in the beginning of a citation.  Answers: plain *)
(* text, the parts of a citation, and tool calls whole and in pieces.      *)
(***************************************************************************)
EXTENDS AnthropicStream

ReasoningDeltas == {<<"gt", "sp", "word">>, <<"word", "nl">>, <<"word", "bra">>}
PlainAnswers == {<<"word">>, <<"word", "bra">>, <<"ref", "ket">>, <<>>}
ToolAnswers == {<<"word">>, <<"bra">>, <<"open">>, <<"call", "close">>,
                <<"word", "open", "call">>, <<"close", "open", "bad", "think">>}
OneReasoning == {<<"gt", "sp", "word">>}

Reasoning == [tools \in BOOLEAN |-> IF tools THEN OneReasoning ELSE ReasoningDeltas]
Answers == [tools \in BOOLEAN |-> IF tools THEN ToolAnswers ELSE PlainAnswers]
Frames == [tools \in BOOLEAN |-> IF tools THEN 3 ELSE 4]
=============================================================================
