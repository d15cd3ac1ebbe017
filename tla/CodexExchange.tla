--------------------------- MODULE CodexExchange ---------------------------
(***************************************************************************)
(* One client of codex-proxy and its conversation: the request goes        *)
(* through CodexInput to the upstream, the response comes back through     *)
(* CodexStream, and the client asks again with the answer and the results  *)
(* of the calls in its history.                                            *)
(***************************************************************************)
EXTENDS CodexStream

\* The input items of ConvertOpenAIRequestToCodex.
Input ==
    LET input == CASE request.api = "claude" ->
                          ChatToInput(ClaudeToChat(request.history), request.tools)
                   [] request.api = "chat" -> ChatToInput(request.history, request.tools)
                   [] request.api = "responses" -> ResponsesInput(request.history)
    IN  IF request.json THEN EnsureInputContainsJSON(input) ELSE input

-----------------------------------------------------------------------------
(***************************************************************************)
(* The client.  The n-th block or call of the answer has the id 100 + n,   *)
(* what the user adds has the id 100.                                      *)
(***************************************************************************)
Block(type, id, name) == [type |-> type, id |-> id, name |-> name]
Said == Block("text", 100, Empty)

BlockTypes == Texts \cup {"image", "thinking", "tool_use", "tool_result", "call"}
Blocks == [type : BlockTypes, id : Nat \ {0}, name : Seq(STRING)]
\* Only assistants call tools.
ClaudeMessages ==
    {m \in [role : {"system", "user", "assistant"}, blocks : Seq(Blocks)] :
        \A i \in DOMAIN m.blocks : m.blocks[i].type = "tool_use" => m.role = "assistant"}
ChatMessages ==
    {m \in [role : {"system", "user", "assistant", "tool"}, parts : Seq(Blocks),
            calls : Seq(Blocks), answers : Nat] :
        /\ m.role # "assistant" => m.calls = <<>>
        /\ m.role = "tool" => m.parts = <<>>}
ClientItems ==
    [type : {"message"}, role : STRING, parts : Seq(Blocks)]
    \cup [type : {"function_call"}, id : Nat, name : Seq(STRING)]
    \cup [type : {"function_call_output"}, id : Nat]

Elements(api) == CASE api = "claude" -> ClaudeMessages
                   [] api = "chat" -> ChatMessages
                   [] api = "responses" -> ClientItems

\* The calls that an element of the history makes, and those it has the results of.
Made(api, m) == CASE api = "claude" -> {b.id : b \in {b \in ToSet(m.blocks) : b.type = "tool_use"}}
                  [] api = "chat" -> {b.id : b \in ToSet(m.calls)}
                  [] api = "responses" -> IF m.type = "function_call" THEN {m.id} ELSE {}
Answered(api, m) ==
    CASE api = "claude" -> {b.id : b \in {b \in ToSet(m.blocks) : b.type = "tool_result"}}
      [] api = "chat" -> IF m.role = "tool" THEN {m.answers} ELSE {}
      [] api = "responses" -> IF m.type = "function_call_output" THEN {m.id} ELSE {}

\* Clients send the results of calls after the calls.  Bound: the ids from 100 on
\* are those of the answer.
ASSUME HistoriesAssumption ==
    \A r \in Requests :
        /\ r.api \in {"claude", "chat", "responses"} /\ r.used = <<>>
        /\ r.history \in Seq(Elements(r.api))
        /\ \A i \in DOMAIN r.history :
              /\ Answered(r.api, r.history[i])
                    \subseteq UNION {Made(r.api, r.history[j]) : j \in 1 .. i - 1}
              /\ r.again => \A id \in Made(r.api, r.history[i]) : id < 100

ClaudeTurn(resultsFirst) ==
    LET blocks  == claude.client.blocks
        uses    == Those([i \in DOMAIN blocks |-> i], ToolUses)
        results == [i \in DOMAIN uses |-> Block("tool_result", 100 + uses[i], Empty)]
    IN  << [role |-> "assistant",
            blocks |-> [i \in DOMAIN blocks |->
                           Block(blocks[i].kind, 100 + i, blocks[i].name)]],
           [role |-> "user",
            blocks |-> IF resultsFirst THEN Append(results, Said) ELSE <<Said>> \o results] >>

ChatTurn ==
    LET calls == chat.client.calls
    IN  <<[role |-> "assistant",
           parts |-> IF chat.client.content = Empty THEN <<>> ELSE <<Said>>,
           calls |-> [i \in DOMAIN calls |-> Block("call", 100 + i, calls[i].name)],
           answers |-> 0]>>
        \o [i \in DOMAIN calls |-> ToolMessage([id |-> 100 + i])]

Turn(resultsFirst) ==
    IF request.api = "claude" THEN ClaudeTurn(resultsFirst) ELSE ChatTurn

\* The upstream's name of each call that the client has been sent.
UpstreamNames ==
    IF request.api = "claude"
    THEN [id \in {100 + i : i \in ToolUses} |-> claude.client.blocks[id - 100].name]
    ELSE [id \in {100 + i : i \in DOMAIN Calls} |-> Calls[id - 100].name]

\* Bound: nothing is begun in the answer to the second request.
AskAgain ==
    /\ stage = "end" /\ request.again
    /\ \/ request.api = "claude" /\ claude.outcome = "success" /\ ToolUses # {}
       \/ request.api = "chat" /\ chat.outcome = "success" /\ chat.client.calls # <<>>
    /\ \E resultsFirst \in BOOLEAN :
          request' = [request EXCEPT !.items = 0, !.again = FALSE, !.used = UpstreamNames,
                                     !.history = @ \o Turn(resultsFirst)]
    /\ stage' = "start" /\ items' = <<>> /\ step' = "none" /\ sent' = 0
    /\ claude' = NewClaude /\ chat' = NewChat
    /\ UNCHANGED summaries

ExchangeNext == Next \/ AskAgain

ExchangeSpec == Init /\ [][ExchangeNext]_vars

-----------------------------------------------------------------------------
OfItem(type) == OfType(Input, {type})
Ids(parts) == [i \in DOMAIN parts |-> parts[i].id]
AllOf(messages, Part(_)) == FlattenSeq([i \in DOMAIN messages |-> Part(messages[i])])

\* The conversation reaches the upstream as the client has it: every text, and
\* every image of the user, once and in order, every call and every result once
\* and in order, a result after its call, whatever the order of the blocks inside
\* a message.  And the upstream can take it: no message is the system's, and if
\* the answer is to be JSON, a message says so.  Calls of an answer that comes back
\* have the names that the upstream gave them: the Anthropic client is sent the cut
\* name, which is the upstream's again unless another tool bears it.
HistoryKept ==
    LET h == request.history
        Own(m) == IF request.api = "claude" THEN m.blocks ELSE m.parts
        Kept(m) == Ids(OfType(Own(m), IF m.role = "user" THEN Texts \cup {"image"} ELSE Texts))
        CallsOf(m) == Ids(IF request.api = "claude" THEN OfType(m.blocks, {"tool_use"})
                          ELSE m.calls)
        ResultsOf(m) == IF request.api = "claude" THEN Ids(OfType(m.blocks, {"tool_result"}))
                        ELSE IF m.role = "tool" THEN <<m.answers>> ELSE <<>>
        Given(item) ==
            LET ids == Ids(item.parts) IN Those(ids, {i \in DOMAIN ids : ids[i] # 0})
    IN  stage = "start" =>
        /\ request.api # "responses" =>
              /\ AllOf(OfItem("message"), Given) = AllOf(h, Kept)
              /\ Ids(OfItem("function_call")) = AllOf(h, CallsOf)
              /\ Ids(OfItem("function_call_output")) = AllOf(h, ResultsOf)
        /\ \A i \in DOMAIN Input :
              /\ Input[i].type = "message" => Input[i].role # "system"
              /\ Input[i].type = "function_call_output" =>
                    \E j \in 1 .. i - 1 : /\ Input[j].type = "function_call"
                                          /\ Input[j].id = Input[i].id
        /\ request.json => \E i \in DOMAIN Input : MentionsJSON(Input[i])
        /\ \A i \in DOMAIN OfItem("function_call") :
              LET call == OfItem("function_call")[i]
              IN  /\ call.id \in DOMAIN request.used
                  /\ request.api = "claude" =>
                        request.used[call.id] \notin ToSet(request.tools)
                  => call.name = request.used[call.id]

\* Names cut for the request come back whole: an OpenAI client sees the calls of
\* the tools it declared under the names it gave them, and two tools are never
\* taken for each other.  A tool that must be called is one of those the upstream
\* is told of.
NamesRestored ==
    /\ \A i \in DOMAIN chat.client.calls :
          chat.client.calls[i].name \in ToSet(request.tools)
    /\ \A a, b \in ToSet(request.tools) :
          a # b => ShortName(request.tools, a) # ShortName(request.tools, b)
    /\ stage = "start" /\ request.choice \in ToSet(request.tools) \ {Empty} =>
          ToolChoice(request.tools, request.choice) \in ToSet(UpstreamTools(request.tools))

\* "No suffix and no parameter: nothing is written" (README); else the upstream is
\* asked for a level that the client set, and for the same one by messages and by
\* input, unless variant comes with another setting: after it on one path, before
\* it on the other.
EffortAsAsked ==
    LET e == request.effort
        asked == {SuffixEffort(e), e.reasoning, e.reasoning_effort, e.variant} \ {""}
    IN  stage = "start" =>
        /\ \A path \in {"messages", "input"} :
              Effort(e, path) \in (IF asked = {} THEN {""} ELSE asked)
        /\ e.variant = "" => Effort(e, "messages") = Effort(e, "input")
=============================================================================
