---------------------------- MODULE MCChatStream ----------------------------
(***************************************************************************)
(* Deltas for TLC: reasoning with a heading before its quote, plain text,  *)
(* and text that ends in a line break or in the beginning of a citation;   *)
(* answers with the parts of a citation, and tool calls whole and in       *)
(* pieces.                                                                 *)
(***************************************************************************)
EXTENDS ChatStream

ReasoningDeltas == {<<"word", "gt", "sp", "word">>, <<"word", "nl">>, <<"word", "bra">>}
PlainAnswers == {<<"word", "bra">>, <<"ref", "ket">>, <<>>}
ToolAnswers == {<<"word">>, <<"open">>, <<"call", "close">>,
                <<"word", "open", "call">>, <<"close", "open", "bad", "think">>}
OneReasoning == {<<"word", "gt", "sp", "word">>}

Reasoning_ == [tools \in BOOLEAN |-> IF tools THEN OneReasoning ELSE ReasoningDeltas]
Retold == [tools \in BOOLEAN |-> IF tools THEN {<<>>} ELSE {<<>>, <<"word", "nl", "word">>}]
Answers == [tools \in BOOLEAN |-> IF tools THEN ToolAnswers ELSE PlainAnswers]
Frames == [tools \in BOOLEAN |-> 4]
=============================================================================
