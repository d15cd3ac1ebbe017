-------------------------- MODULE MCCodexExchange --------------------------
(***************************************************************************)
(* Requests for TLC: long answers for one tool; lists of names that meet   *)
(* when they are cut, with an answer of one item and a second request;     *)
(* conversations with every order of results and texts; and all ways to    *)
(* set the effort.                                                         *)
(***************************************************************************)
EXTENDS CodexExchange

Names == {<<"a">>, <<"a", "b", "c", "d">>, <<"a", "b", "c", "e">>, <<"a", "b", "_1">>,
          <<"mcp__", "s", "__", "d">>, <<"mcp__", "t", "__", "d">>, <<"mcp__", "d">>}
Long == <<"a", "b", "c", "d">>
Longer == <<"a", "b", "c", "e">>
MCEndings == <<"_1", "_2", "_3">>

NoEffort == [suffix |-> "", budget |-> 0, reasoning |-> "", reasoning_effort |-> "", variant |-> ""]
Efforts == {e \in [suffix : {"", "high", "auto"}, budget : {0, 5, 600}, reasoning : {"", "low"},
                   reasoning_effort : {"", "medium"}, variant : {"", "xhigh"}] :
               e.budget # 0 => e.suffix = ""}

Plain(api, tools, n) ==
    [api |-> api, tools |-> tools, choice |-> tools[1], effort |-> NoEffort, json |-> FALSE,
     history |-> <<>>, items |-> n, again |-> FALSE, used |-> <<>>]

Text(id) == Block("text", id, Empty)
Image(id) == Block("image", id, Empty)
Use(id, name) == Block("tool_use", id, name)
Result(id) == Block("tool_result", id, Empty)
Message(role, blocks) == [role |-> role, blocks |-> blocks]
ChatMessage(role, parts, calls) ==
    [role |-> role, parts |-> parts, calls |-> calls, answers |-> 0]

Openings == {<<Message("user", <<Text(1), Image(2)>>)>>,
             <<Message("system", <<Text(9)>>), Message("user", <<Text(1)>>)>>}
Answers == {<<Block("thinking", 3, Empty), Text(4), Use(5, Long), Use(6, Longer)>>,
            <<Use(5, Longer), Text(4), Use(6, <<"b">>)>>}
Replies == {<<Result(5), Result(6)>>, <<Result(6), Text(7), Result(5)>>,
            <<Text(7), Result(5), Result(6)>>, <<Result(5), Result(6), Text(7), Image(8)>>}

ClaudeHistories ==
    {open \o <<Message("assistant", answer), Message("user", reply)>> :
        open \in Openings, answer \in Answers, reply \in Replies}
ChatHistories ==
    {<<ChatMessage("system", <<Block(type, 9, Empty)>>, <<>>),
       ChatMessage("user", <<Text(1), Image(2)>>, <<>>),
       ChatMessage("assistant", parts, <<Use(5, Long), Use(6, Longer)>>),
       ToolMessage(Result(6)), ToolMessage(Result(5)),
       ChatMessage("user", <<Text(7)>>, <<>>)>> : parts \in {<<>>, <<Text(4)>>}, type \in Texts}
ItemHistories ==
    {<<[type |-> "message", role |-> "system", parts |-> <<Block(type, 9, Empty)>>],
       [type |-> "message", role |-> "user", parts |-> <<Text(1)>>],
       [type |-> "function_call", id |-> 5, name |-> Long],
       [type |-> "function_call_output", id |-> 5]>> : type \in Texts}

MCRequests ==
    {Plain("chat", <<<<"a">>>>, 3)}
    \cup {[Plain(api, tools, 1) EXCEPT !.again = TRUE] :
             api \in {"chat", "claude"},
             tools \in [1 .. 2 -> Names] \cup {t \in [1 .. 3 -> Names] : t[1] \in {Long, Longer}}}
    \cup {[Plain("claude", <<Long, Longer>>, 0) EXCEPT !.history = h] : h \in ClaudeHistories}
    \cup {[Plain("chat", <<Long, Longer>>, 0) EXCEPT !.history = h, !.json = json] :
             h \in ChatHistories, json \in BOOLEAN}
    \cup {[Plain("responses", <<Long>>, 0) EXCEPT !.history = h, !.json = json] :
             h \in ItemHistories, json \in BOOLEAN}
    \cup {[Plain("chat", <<<<"a">>>>, 0) EXCEPT !.effort = e] : e \in Efforts}
=============================================================================
