----------------------------- MODULE CodexInput -----------------------------
(***************************************************************************)
(* What codex-proxy asks the upstream: the conversation of an Anthropic    *)
(* client as messages of the OpenAI API (ConvertClaudeRequestToOpenAI),    *)
(* those as the input items of the Responses API                           *)
(* (ConvertOpenAIRequestToCodex), and the reasoning effort, which may be   *)
(* set in four ways (package thinking and both of the translators).        *)
(*                                                                         *)
(* An Anthropic message is [role, blocks], the system prompt one of role   *)
(* "system"; a message of the OpenAI API is [role, parts, calls, answers]. *)
(* A block, part or call is [type, id, name]; "json" is the type of a text *)
(* that mentions JSON.  A request of the Responses API brings the items.   *)
(***************************************************************************)
EXTENDS ToolNames

Texts == {"text", "json"}
\* The elements of a list at some of its places.
Those(list, places) ==
    FlattenSeq([i \in DOMAIN list |-> IF i \in places THEN <<list[i]>> ELSE <<>>])
OfType(parts, types) == Those(parts, {i \in DOMAIN parts : parts[i].type \in types})

ToolMessage(result) ==
    [role |-> "tool", parts |-> <<>>, calls |-> <<>>, answers |-> result.id]

\* Mutant of ClaudeMessage: a user's message counts as results if it begins with one.
ClaudeMessageFirstBlock(m) ==
    LET results == OfType(m.blocks, {"tool_result"})
    IN  [i \in DOMAIN results |-> ToolMessage(results[i])]
        \o (IF m.role = "user" /\ m.blocks[1].type = "tool_result" THEN <<>>
            ELSE <<[role |-> m.role, parts |-> OfType(m.blocks, Texts \cup {"image"}),
                    calls |-> OfType(m.blocks, {"tool_use"}), answers |-> 0]>>)

\* Results become messages of their own, ahead of the rest of the message, which
\* is left out if a user's has nothing else.  Thinking is dropped.
ClaudeMessage(m) ==
    LET results == OfType(m.blocks, {"tool_result"})
    IN  [i \in DOMAIN results |-> ToolMessage(results[i])]
        \o (IF m.role = "user" /\ Len(results) = Len(m.blocks) THEN <<>>
            ELSE <<[role |-> m.role, parts |-> OfType(m.blocks, Texts \cup {"image"}),
                    calls |-> OfType(m.blocks, {"tool_use"}), answers |-> 0]>>)

ClaudeToChat(messages) ==
    FlattenSeq([i \in DOMAIN messages |-> ClaudeMessage(messages[i])])

-----------------------------------------------------------------------------
ToolName(tools, name) ==
    IF name \in ToSet(tools) THEN ShortName(tools, name) ELSE BaseCandidate(name)

UpstreamRole(role) == IF role = "system" THEN "developer" ELSE role

\* The calls of an assistant's message follow it; only users send images.
InputItems(m, tools) ==
    IF m.role = "tool" THEN <<[type |-> "function_call_output", id |-> m.answers]>>
    ELSE <<[type |-> "message", role |-> UpstreamRole(m.role),
            parts |-> OfType(m.parts, IF m.role = "user" THEN Texts \cup {"image"} ELSE Texts)]>>
         \o (IF m.role = "assistant"
             THEN [i \in DOMAIN m.calls |->
                      [type |-> "function_call", id |-> m.calls[i].id,
                       name |-> ToolName(tools, m.calls[i].name)]]
             ELSE <<>>)

ChatToInput(messages, tools) ==
    FlattenSeq([i \in DOMAIN messages |-> InputItems(messages[i], tools)])

\* convertSystemRoleToDeveloper, for a request that brings its input
ResponsesInput(items) ==
    [i \in DOMAIN items |-> IF items[i].type = "message"
                            THEN [items[i] EXCEPT !.role = UpstreamRole(@)] ELSE items[i]]

MentionsJSON(item) == item.type = "message" /\ OfType(item.parts, {"json"}) # <<>>

EnsureInputContainsJSON(items) ==
    IF \E i \in DOMAIN items : MentionsJSON(items[i]) THEN items
    ELSE <<[type |-> "message", role |-> "developer",
            parts |-> <<[type |-> "json", id |-> 0, name |-> <<>>]>>]>> \o items

\* The tools as the upstream is told of them, and the one it is told to call.
UpstreamTools(tools) == [i \in DOMAIN tools |-> ToolName(tools, tools[i])]
ToolChoice(tools, choice) == IF choice = <<>> THEN <<>> ELSE ToolName(tools, choice)

-----------------------------------------------------------------------------
(***************************************************************************)
(* Reasoning effort; "" where it is not set.  e.suffix is what follows the *)
(* last dash of the model's name: a level or a number of tokens.           *)
(***************************************************************************)
BudgetToLevel(n) ==
    IF n <= 512 THEN "auto" ELSE IF n <= 1024 THEN "low" ELSE IF n <= 8192 THEN "medium"
    ELSE IF n <= 24576 THEN "high" ELSE "xhigh"

\* Numbers up to 100 are part of the name: gpt-5.
SuffixEffort(e) ==
    IF e.budget > 100 THEN BudgetToLevel(e.budget)
    ELSE IF e.suffix = "auto" THEN "medium" ELSE e.suffix

\* The first of the settings that is set.
FirstSet(settings) ==
    LET set == {i \in DOMAIN settings : settings[i] # ""}
    IN  IF set = {} THEN "" ELSE settings[Min(set)]

\* ApplyThinking: the suffix, or one of the three fields, becomes reasoning.effort.
ApplyThinking(e) ==
    IF SuffixEffort(e) # "" THEN SuffixEffort(e)
    ELSE FirstSet(<<e.reasoning, e.reasoning_effort, e.variant>>)

\* Mutant of Effort: the fast path does not look at the field of the other API.
EffortOfOwnField(e, path) ==
    IF path = "messages"
    THEN FirstSet(<<e.reasoning_effort, ApplyThinking(e), e.variant>>)
    ELSE FirstSet(<<e.variant, e.reasoning>>)

\* Then the translator looks at the fields again, on each path in its own order.
Effort(e, path) ==
    IF path = "messages"
    THEN FirstSet(<<e.reasoning_effort, ApplyThinking(e), e.variant>>)
    ELSE FirstSet(<<e.reasoning_effort, e.variant, ApplyThinking(e)>>)
=============================================================================
