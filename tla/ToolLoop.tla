------------------------------ MODULE ToolLoop ------------------------------
(***************************************************************************)
(* One request of /v1/chat/completions or /v1/messages from its intake to  *)
(* its reply: HandleChatCompletions and HandleMessages, the tools resolved *)
(* for it (ResolveEffectiveTools) and runAutoToolLoop, which asks the      *)
(* model again and again with the results of the builtin tools it called,  *)
(* until a turn has to go to the client.                                   *)
(*                                                                         *)
(* A tool call is its name and where it comes from (the ID the code gives  *)
(* it): the pos-th call of the turn of a round.  Content and arguments are *)
(* left out; collectAssistantTurn is what it does with calls.              *)
(***************************************************************************)
EXTENDS Naturals, Sequences, FiniteSets, SequencesExt

CONSTANTS Names,      \* tool names a model may call
          Builtins,   \* those GetBuiltinTools defines
          MaxRounds,  \* maxAutomaticBuiltinToolRounds
          MaxCalls,   \* bound: calls of one frame, and calls written as text
          MaxFrames   \* bound: tool frames of one response

ASSUME ToolsAssumption == Builtins \subseteq Names
ASSUME LimitsAssumption == MaxRounds \in Nat /\ MaxCalls \in Nat /\ MaxFrames \in Nat

VARIABLES
    request,   \* tools the client declared, -tools model, stream
    pc, round,
    messages,  \* what the loop added to the client's messages
    frames,    \* tool frames of the response being collected
    collected, \* collectedToolCalls
    written,   \* calls written into the text of the response
    todo,      \* calls of the accepted turn still to be executed
    executed,  \* calls executed for this request
    reply      \* "none", "error", or the calls given to the client

vars == <<request, pc, round, messages, frames, collected, written, todo, executed, reply>>

Calls == [name : Names, round : 0 .. MaxRounds, pos : 1 .. MaxCalls]
Turns == UNION {[1 .. n -> Names] : n \in 0 .. MaxCalls}

\* ResolveEffectiveTools: the builtins fill in what the client did not declare.
Injected == IF request.toolsModel THEN Builtins \ request.clientTools ELSE {}
EffectiveTools == request.clientTools \cup Injected

\* assignToolCallMetadata
Numbered(names, from) ==
    [i \in DOMAIN names |-> [name |-> names[i], round |-> round, pos |-> from + i]]

Init ==
    /\ request \in [clientTools : SUBSET Names, toolsModel : BOOLEAN, stream : BOOLEAN]
    /\ pc = "intake" /\ round = 0 /\ messages = <<>>
    /\ frames = 0 /\ collected = <<>> /\ written = <<>> /\ todo = <<>>
    /\ executed = {} /\ reply = [kind |-> "none", calls |-> <<>>]

Answer(kind, calls) == pc' = "done" /\ reply' = [kind |-> kind, calls |-> calls]

\* No token, no anonymous token to be had, or a body that does not decode.
Reject ==
    /\ pc = "intake"
    /\ Answer("error", <<>>)
    /\ UNCHANGED <<request, round, messages, frames, collected, written, todo, executed>>

\* A stream without builtins is passed through; all else goes through the loop.
Accept ==
    /\ pc = "intake"
    /\ pc' = IF request.stream /\ Injected = {} THEN "direct" ELSE "ask"
    /\ UNCHANGED <<request, round, messages, frames, collected, written, todo, executed, reply>>

\* handleStreamResponse and handleAnthropicStream send on every call they find.
PassThrough(names) ==
    /\ pc = "direct"
    /\ EffectiveTools = {} => names = <<>>
    /\ Answer(IF names = <<>> THEN "stop" ELSE "tool_calls", Numbered(names, 0))
    /\ UNCHANGED <<request, round, messages, frames, collected, written, todo, executed>>

\* makeUpstreamRequest fails, or the upstream answers with another status than 200.
AskFails ==
    /\ pc \in {"direct", "ask"}
    /\ Answer("error", <<>>)
    /\ UNCHANGED <<request, round, messages, frames, collected, written, todo, executed>>

AskSucceeds ==
    /\ pc = "ask"
    /\ pc' = "collect"
    /\ frames' = 0 /\ collected' = <<>> /\ written' = <<>>
    /\ UNCHANGED <<request, round, messages, todo, executed, reply>>

\* The calls of a frame take the place of those of the frame before.
CallFrame(names) ==
    /\ pc = "collect" /\ frames < MaxFrames
    /\ EffectiveTools # {} /\ names # <<>>
    /\ frames' = frames + 1
    /\ collected' = Numbered(names, 0)
    /\ UNCHANGED <<request, pc, round, messages, written, todo, executed, reply>>

\* Text in which the model wrote a call.
TextFrame(name) ==
    /\ pc = "collect" /\ Len(written) < MaxCalls
    /\ written' = written \o Numbered(<<name>>, Len(written))
    /\ UNCHANGED <<request, pc, round, messages, frames, collected, todo, executed, reply>>

\* scanner.Err(): what was collected is thrown away.
BodyFails ==
    /\ pc = "collect"
    /\ Answer("error", <<>>)
    /\ UNCHANGED <<request, round, messages, frames, collected, written, todo, executed>>

\* Calls in the text count only without calls of their own frames.
Turn == IF EffectiveTools # {} /\ collected = <<>> THEN written ELSE collected

\* Mutant of AllAutoExecutable: one builtin call is enough.
AnyAutoExecutable(calls) == \E i \in DOMAIN calls : calls[i].name \in Injected

AllAutoExecutable(calls) == calls # <<>> /\ \A i \in DOMAIN calls : calls[i].name \in Injected

ReturnTurn ==
    /\ pc = "collect"
    /\ ~AllAutoExecutable(Turn)
    /\ Answer(IF Turn = <<>> THEN "stop" ELSE "tool_calls", Turn)
    /\ UNCHANGED <<request, round, messages, frames, collected, written, todo, executed>>

TooManyRounds ==
    /\ pc = "collect"
    /\ AllAutoExecutable(Turn) /\ round = MaxRounds
    /\ Answer("error", <<>>)
    /\ UNCHANGED <<request, round, messages, frames, collected, written, todo, executed>>

\* Mutant of AcceptTurn: the check of the round is off by one.
AcceptTurnOneMore ==
    /\ pc = "collect"
    /\ AllAutoExecutable(Turn) /\ round <= MaxRounds
    /\ messages' = Append(messages, [role |-> "assistant", calls |-> Turn])
    /\ todo' = Turn /\ pc' = "execute"
    /\ UNCHANGED <<request, round, frames, collected, written, executed, reply>>

AcceptTurn ==
    /\ pc = "collect"
    /\ AllAutoExecutable(Turn) /\ round < MaxRounds
    /\ messages' = Append(messages, [role |-> "assistant", calls |-> Turn])
    /\ todo' = Turn /\ pc' = "execute"
    /\ UNCHANGED <<request, round, frames, collected, written, executed, reply>>

\* Mutants of ExecuteBuiltin: the message that is sent first is that of the last
\* call; the last permitted turn goes to the client as well.
ExecuteBuiltinLastFirst ==
    /\ pc = "execute"
    /\ executed' = executed \cup {Last(todo)}
    /\ messages' = Append(messages, [role |-> "tool", calls |-> <<Last(todo)>>])
    /\ todo' = Front(todo)
    /\ IF Len(todo) = 1 THEN pc' = "ask" /\ round' = round + 1 ELSE UNCHANGED <<pc, round>>
    /\ UNCHANGED <<request, frames, collected, written, reply>>

ExecuteBuiltinAndReturn ==
    /\ pc = "execute"
    /\ executed' = executed \cup {Head(todo)}
    /\ messages' = Append(messages, [role |-> "tool", calls |-> <<Head(todo)>>])
    /\ todo' = Tail(todo)
    /\ IF Len(todo) > 1 THEN UNCHANGED <<pc, round, reply>>
       ELSE IF round + 1 = MaxRounds THEN Answer("tool_calls", Turn) /\ UNCHANGED round
       ELSE pc' = "ask" /\ round' = round + 1 /\ UNCHANGED reply
    /\ UNCHANGED <<request, frames, collected, written>>

\* ExecuteBuiltinTool always gives a result, be it an error, and the result is
\* the next message.
ExecuteBuiltin ==
    /\ pc = "execute"
    /\ executed' = executed \cup {Head(todo)}
    /\ messages' = Append(messages, [role |-> "tool", calls |-> <<Head(todo)>>])
    /\ todo' = Tail(todo)
    /\ IF Len(todo) = 1 THEN pc' = "ask" /\ round' = round + 1 ELSE UNCHANGED <<pc, round>>
    /\ UNCHANGED <<request, frames, collected, written, reply>>

Next ==
    \/ Reject \/ Accept \/ AskFails \/ AskSucceeds \/ BodyFails
    \/ \E names \in Turns : PassThrough(names) \/ CallFrame(names)
    \/ \E name \in Names : TextFrame(name)
    \/ ReturnTurn \/ TooManyRounds \/ AcceptTurn \/ ExecuteBuiltin

Spec == Init /\ [][Next]_vars

-----------------------------------------------------------------------------
TypeOK ==
    /\ request \in [clientTools : SUBSET Names, toolsModel : BOOLEAN, stream : BOOLEAN]
    /\ pc \in {"intake", "direct", "ask", "collect", "execute", "done"}
    /\ round \in 0 .. MaxRounds
    /\ frames \in 0 .. MaxFrames
    /\ collected \in Seq(Calls) /\ written \in Seq(Calls) /\ todo \in Seq(Calls)
    /\ executed \subseteq Calls
    /\ reply.kind \in {"none", "error", "stop", "tool_calls"} /\ reply.calls \in Seq(Calls)

\* A tool the client declared is the client's, even under the name of a builtin,
\* and without the -tools model there are no builtins: the proxy executes
\* injected tools only (ResolveEffectiveTools, allToolCallsAutoExecutable).
OnlyInjectedExecuted == \A call \in executed : call.name \in Injected

\* No call is carried out twice: what the proxy executed, in any round, is never
\* among the calls the client is asked to execute (runAutoToolLoop).
NeverTwice == \A i \in DOMAIN reply.calls : reply.calls[i] \notin executed

\* Whenever the model is asked, each assistant message is followed by the results
\* of exactly its calls, in its order, and every result stands under the message
\* that asked for it; there are as many turns as rounds.
Answered(from) ==
    LET calls == messages[from].calls
    IN  /\ from + Len(calls) <= Len(messages)
        /\ \A i \in DOMAIN calls :
              messages[from + i] = [role |-> "tool", calls |-> <<calls[i]>>]

Asking == {i \in DOMAIN messages : messages[i].role = "assistant"}

ConversationWellFormed ==
    pc = "ask" =>
        /\ \A i \in Asking : Answered(i)
        /\ \A i \in DOMAIN messages \ Asking :
              \E j \in Asking : j < i /\ i <= j + Len(messages[j].calls)
        /\ Cardinality(Asking) = round

\* The promise of CallDisposition, kept step by step.
TakenCalls == UNION {ToSet(messages[i].calls) : i \in Asking}

Disposition ==
    INSTANCE CallDisposition WITH
        taken <- TakenCalls, handed <- ToSet(reply.calls), over <- pc = "done"

OneFate == Disposition!Spec
=============================================================================
