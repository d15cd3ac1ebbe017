---------------------------- MODULE HandlerProofs ----------------------------
(***************************************************************************)
(* Proofs about the handlers of zai-proxy: the tool loop, for every set of *)
(* names and builtins and every limit, and the counters behind /stats, for *)
(* every finite set of requests.                                           *)
(***************************************************************************)
EXTENDS ToolLoop, RequestStats, FiniteSetTheorems, SequenceTheorems, TLAPS

(***************************************************************************)
(* ToolLoop.                                                               *)
(*                                                                         *)
(* The argument is about rounds: what was executed before the model is     *)
(* asked again carries an earlier round than any call it can still make    *)
(* (Past), and within a round the calls still to be executed are distinct  *)
(* and not among the executed (Pending).  What is executed passed          *)
(* AllAutoExecutable, of which Pending keeps the names.  The conversation  *)
(* needs to know which message is being answered and how far (Partly).     *)
(***************************************************************************)

Messages == [role : {"assistant", "tool"}, calls : Seq(Calls)]

\* A sequence numbered by assignToolCallMetadata in this round.
OfRound(calls) == \A i \in DOMAIN calls : calls[i].round = round /\ calls[i].pos = i

Past ==
    \A call \in executed :
        call.round < round \/ (pc = "execute" /\ call.round = round)

Pending ==
    pc = "execute" =>
        /\ todo # <<>> /\ round < MaxRounds
        /\ \A i \in DOMAIN todo :
              todo[i].round = round /\ todo[i].name \in Injected /\ todo[i] \notin executed
        /\ \A i, j \in DOMAIN todo : todo[i] = todo[j] => i = j

Owed == IF pc = "execute" THEN executed \cup ToSet(todo) ELSE executed

IInv ==
    /\ TypeOK
    /\ messages \in Seq(Messages)
    /\ pc \in {"intake", "direct"} => executed = {}
    /\ pc = "collect" => OfRound(collected) /\ OfRound(written)
    /\ pc # "done" => reply.calls = <<>>
    /\ Past /\ Pending
    /\ OnlyInjectedExecuted /\ NeverTwice
    /\ TakenCalls = Owed

-----------------------------------------------------------------------------
(***************************************************************************)
(* The operators on calls and messages.                                    *)
(***************************************************************************)

\* Numbering gives calls of this round, in their positions.
LEMMA NumberedOK ==
    ASSUME TypeOK, NEW names, names \in Turns, NEW from \in Nat,
           from + Len(names) <= MaxCalls
    PROVE  /\ Numbered(names, from) \in Seq(Calls)
           /\ Len(Numbered(names, from)) = Len(names)
           /\ \A i \in 1 .. Len(names) :
                 /\ Numbered(names, from)[i].round = round
                 /\ Numbered(names, from)[i].pos = from + i
<1> DEFINE s == Numbered(names, from)
<1>1. PICK n \in 0 .. MaxCalls : names \in [1 .. n -> Names]
  BY DEF Turns
<1>2. n \in Nat /\ names \in Seq(Names) /\ Len(names) = n
  BY <1>1, LimitsAssumption
<1>3. s = [i \in 1 .. n |-> [name |-> names[i], round |-> round, pos |-> from + i]]
  BY <1>1 DEF Numbered
<1>4. \A i \in 1 .. n : [name |-> names[i], round |-> round, pos |-> from + i] \in Calls
  BY <1>1, <1>2, LimitsAssumption DEF Calls, TypeOK
<1>5. s \in [1 .. n -> Calls]
  BY <1>3, <1>4
<1>6. s \in Seq(Calls) /\ Len(s) = n
  BY <1>2, <1>5
<1> QED
  BY <1>2, <1>3, <1>6

\* What is taken is what the assistant messages ask for.
LEMMA TakenByElement ==
    \A call : call \in TakenCalls
        <=> \E i \in DOMAIN messages :
                messages[i].role = "assistant" /\ call \in ToSet(messages[i].calls)
  BY DEF TakenCalls, Asking

LEMMA AppendTaken ==
    ASSUME messages \in Seq(Messages), NEW new \in Messages,
           messages' = Append(messages, new)
    PROVE  TakenCalls' = IF new.role = "assistant" THEN TakenCalls \cup ToSet(new.calls)
                         ELSE TakenCalls
<1> DEFINE n == Len(messages)
<1>1. /\ DOMAIN messages = 1 .. n /\ DOMAIN messages' = 1 .. n + 1 /\ n \in Nat
      /\ \A i \in 1 .. n : messages'[i] = messages[i]
      /\ messages'[n + 1] = new
  BY AppendProperties
<1>2. \A call : call \in TakenCalls'
          <=> \E i \in DOMAIN messages' :
                  messages'[i].role = "assistant" /\ call \in ToSet(messages'[i].calls)
  BY DEF TakenCalls, Asking
<1>3. ASSUME NEW call
      PROVE  call \in TakenCalls'
          <=> call \in TakenCalls \/ (new.role = "assistant" /\ call \in ToSet(new.calls))
  <2>1. ASSUME NEW i \in 1 .. n + 1
        PROVE  i \in 1 .. n \/ i = n + 1
    BY <1>1
  <2> HIDE DEF n
  <2>2. ASSUME call \in TakenCalls'
        PROVE  call \in TakenCalls \/ (new.role = "assistant" /\ call \in ToSet(new.calls))
    <3>1. PICK i \in 1 .. n + 1 :
              messages'[i].role = "assistant" /\ call \in ToSet(messages'[i].calls)
      BY <1>1, <1>2, <2>2
    <3>2. CASE i \in 1 .. n
      BY <1>1, <3>1, <3>2, TakenByElement
    <3>3. CASE i = n + 1
      BY <1>1, <3>1, <3>3
    <3> QED
      BY <2>1, <3>2, <3>3
  <2>3. ASSUME call \in TakenCalls
        PROVE  call \in TakenCalls'
    <3>1. PICK i \in 1 .. n :
              messages[i].role = "assistant" /\ call \in ToSet(messages[i].calls)
      BY <1>1, <2>3, TakenByElement
    <3>2. i \in 1 .. n + 1 /\ messages'[i] = messages[i]
      BY <1>1
    <3> QED
      BY <1>1, <1>2, <3>1, <3>2
  <2>4. ASSUME new.role = "assistant", call \in ToSet(new.calls)
        PROVE  call \in TakenCalls'
    <3>1. n + 1 \in DOMAIN messages'
      BY <1>1
    <3> QED
      BY <1>1, <1>2, <2>4, <3>1
  <2> QED
    BY <2>2, <2>3, <2>4
<1> HIDE DEF n
<1> QED
  BY <1>3

\* The turn that was collected has its calls, of this round, in their positions.
LEMMA TurnOK ==
    ASSUME IInv, pc = "collect"
    PROVE  Turn \in Seq(Calls) /\ OfRound(Turn)
  BY DEF IInv, TypeOK, Turn

-----------------------------------------------------------------------------
LEMMA InitOK == Init => IInv
<1> SUFFICES ASSUME Init PROVE IInv
  OBVIOUS
<1>1. <<>> \in Seq(Calls) /\ <<>> \in Seq(Messages) /\ DOMAIN <<>> = {}
  OBVIOUS
<1>2. TypeOK
  BY <1>1, LimitsAssumption DEF Init, TypeOK
<1>3. TakenCalls = {}
  BY TakenByElement DEF Init
<1> QED
  BY <1>1, <1>2, <1>3
     DEF Init, IInv, Past, Pending, OnlyInjectedExecuted, NeverTwice, Owed

\* The steps that end the request without calls, and those that only move pc.
LEMMA PlainStep ==
    ASSUME IInv, Reject \/ Accept \/ AskFails \/ AskSucceeds \/ BodyFails \/ TooManyRounds
    PROVE  IInv'
<1>1. /\ UNCHANGED <<request, round, messages, todo, executed>>
      /\ pc # "execute" /\ pc' # "execute"
      /\ reply'.calls = <<>>
      /\ reply'.kind \in {"none", "error", "stop", "tool_calls"}
      /\ \/ UNCHANGED <<frames, collected, written>> /\ pc' # "collect"
         \/ frames' = 0 /\ collected' = <<>> /\ written' = <<>> /\ pc' = "collect"
      /\ pc' \in {"direct", "ask", "collect", "done"}
      /\ pc' = "direct" => pc = "intake"
  BY DEF IInv, TypeOK, Reject, Accept, AskFails, AskSucceeds, BodyFails, TooManyRounds, Answer
<1>2. <<>> \in Seq(Calls) /\ DOMAIN <<>> = {}
  OBVIOUS
<1>3. TypeOK'
  <2>1. TypeOK /\ 0 \in 0 .. MaxFrames /\ reply'.calls \in Seq(Calls)
    BY <1>1, <1>2, LimitsAssumption DEF IInv
  <2>2. frames' \in 0 .. MaxFrames /\ collected' \in Seq(Calls) /\ written' \in Seq(Calls)
    BY <1>1, <1>2, <2>1 DEF TypeOK
  <2>3. pc' \in {"intake", "direct", "ask", "collect", "execute", "done"}
    BY <1>1
  <2> QED
    BY <1>1, <2>1, <2>2, <2>3 DEF TypeOK
<1>4. Injected' = Injected /\ TakenCalls' = TakenCalls /\ Owed' = Owed
  BY <1>1 DEF Injected, TakenCalls, Asking, Owed
<1>5. (OfRound(collected)' /\ OfRound(written)') \/ pc' # "collect"
  BY <1>1, <1>2 DEF OfRound
<1> QED
  BY <1>1, <1>2, <1>3, <1>4, <1>5
     DEF IInv, Past, Pending, OnlyInjectedExecuted, NeverTwice

\* A turn of Names fits the positions of calls.
LEMMA TurnLength == \A names \in Turns : Len(names) \in Nat /\ Len(names) <= MaxCalls
<1> SUFFICES ASSUME NEW names \in Turns PROVE Len(names) \in Nat /\ Len(names) <= MaxCalls
  OBVIOUS
<1>1. PICK n \in 0 .. MaxCalls : names \in [1 .. n -> Names]
  BY DEF Turns
<1>2. n \in Nat /\ Len(names) = n
  BY <1>1, LimitsAssumption
<1> QED
  BY <1>2, LimitsAssumption

LEMMA PassThroughOK ==
    ASSUME IInv, NEW names \in Turns, PassThrough(names)
    PROVE  IInv'
<1>1. Numbered(names, 0) \in Seq(Calls)
  BY NumberedOK, TurnLength DEF IInv
<1>2. /\ pc' = "done" /\ executed = {}
      /\ UNCHANGED <<request, round, messages, frames, collected, written, todo, executed>>
      /\ reply'.calls = Numbered(names, 0) /\ reply'.kind \in {"stop", "tool_calls"}
  BY DEF PassThrough, Answer, IInv
<1>3. TypeOK'
  BY <1>1, <1>2 DEF IInv, TypeOK
<1>4. TakenCalls' = Owed'
  BY <1>2 DEF IInv, TakenCalls, Asking, Owed, PassThrough
<1> QED
  BY <1>2, <1>3, <1>4 DEF IInv, Past, Pending, OnlyInjectedExecuted, NeverTwice

LEMMA CallFrameOK ==
    ASSUME IInv, NEW names \in Turns, CallFrame(names)
    PROVE  IInv'
<1>1. /\ Numbered(names, 0) \in Seq(Calls)
      /\ \A i \in DOMAIN Numbered(names, 0) :
            Numbered(names, 0)[i].round = round /\ Numbered(names, 0)[i].pos = i
  <2>1. TypeOK /\ 0 + Len(names) <= MaxCalls /\ 0 \in Nat /\ Len(names) \in Nat
    BY TurnLength DEF IInv
  <2>2. /\ Numbered(names, 0) \in Seq(Calls)
        /\ Len(Numbered(names, 0)) = Len(names)
        /\ \A i \in 1 .. Len(names) :
              /\ Numbered(names, 0)[i].round = round
              /\ Numbered(names, 0)[i].pos = 0 + i
    BY <2>1, NumberedOK
  <2>3. DOMAIN Numbered(names, 0) = 1 .. Len(names)
    BY <2>2
  <2> QED
    BY <2>1, <2>2, <2>3
<1>2. /\ pc = "collect"
      /\ UNCHANGED <<request, pc, round, messages, written, todo, executed, reply>>
      /\ collected' = Numbered(names, 0)
      /\ frames' \in 0 .. MaxFrames
  BY LimitsAssumption DEF CallFrame, IInv, TypeOK
<1>3. TypeOK'
  BY <1>1, <1>2 DEF IInv, TypeOK
<1>4. TakenCalls' = Owed' /\ Injected' = Injected
  BY <1>2 DEF IInv, TakenCalls, Asking, Owed, Injected
<1>5. OfRound(collected)' /\ OfRound(written)'
  BY <1>1, <1>2 DEF IInv, OfRound
<1> QED
  BY <1>2, <1>3, <1>4, <1>5 DEF IInv, Past, Pending, OnlyInjectedExecuted, NeverTwice

LEMMA TextFrameOK ==
    ASSUME IInv, NEW name \in Names, TextFrame(name)
    PROVE  IInv'
<1> DEFINE n == Len(written)
           new == Numbered(<<name>>, n)
           call == [name |-> name, round |-> round, pos |-> n + 1]
<1>1. /\ pc = "collect" /\ n < MaxCalls /\ n \in Nat
      /\ written \in Seq(Calls) /\ round \in 0 .. MaxRounds
      /\ UNCHANGED <<request, pc, round, messages, frames, collected, todo, executed, reply>>
      /\ written' = written \o new
  BY DEF TextFrame, IInv, TypeOK
<1>2. call \in Calls
  BY <1>1, LimitsAssumption DEF Calls
<1>3. new = <<call>>
  BY <1>1 DEF Numbered
<1>4. /\ written' \in Seq(Calls) /\ DOMAIN written' = 1 .. n + 1
      /\ \A i \in 1 .. n : written'[i] = written[i]
      /\ written'[n + 1] = call
  <2>1. written' = Append(written, call)
    BY <1>1, <1>2, <1>3, AppendIsConcat
  <2>2. written \in Seq(Calls)
    BY <1>1
  <2> HIDE DEF call
  <2>3. /\ Append(written, call) \in Seq(Calls)
        /\ Len(Append(written, call)) = n + 1
        /\ \A i \in 1 .. n : Append(written, call)[i] = written[i]
        /\ Append(written, call)[n + 1] = call
    BY <1>2, <2>2, AppendProperties
  <2>4. DOMAIN Append(written, call) = 1 .. n + 1
    BY <2>3
  <2> QED
    BY <2>1, <2>3, <2>4
<1>5. TypeOK'
  BY <1>1, <1>4 DEF IInv, TypeOK
<1>6. OfRound(written)'
  <2>1. DOMAIN written = 1 .. n /\ OfRound(written)
    BY <1>1 DEF IInv
  <2>2. ASSUME NEW i \in 1 .. n + 1
        PROVE  written'[i].round = round /\ written'[i].pos = i
    <3>1. CASE i \in 1 .. n
      BY <1>4, <2>1, <3>1 DEF OfRound
    <3>2. CASE i = n + 1
      BY <1>4, <3>2
    <3>3. n \in Nat
      BY <1>1
    <3> HIDE DEF n
    <3>4. i \in 1 .. n \/ i = n + 1
      BY <3>3
    <3> QED
      BY <3>1, <3>2, <3>4
  <2> QED
    BY <1>1, <1>4, <2>2 DEF OfRound
<1>7. TakenCalls' = Owed' /\ Injected' = Injected /\ OfRound(collected)'
  BY <1>1 DEF IInv, TakenCalls, Asking, Owed, Injected, OfRound
<1> QED
  BY <1>1, <1>5, <1>6, <1>7 DEF IInv, Past, Pending, OnlyInjectedExecuted, NeverTwice

\* The calls of the client are of this round, the executed ones of earlier rounds.
LEMMA ReturnTurnOK ==
    ASSUME IInv, ReturnTurn
    PROVE  IInv'
<1>1. /\ pc = "collect" /\ pc' = "done"
      /\ UNCHANGED <<request, round, messages, frames, collected, written, todo, executed>>
      /\ reply'.calls = Turn /\ reply'.kind \in {"stop", "tool_calls"}
  BY DEF ReturnTurn, Answer
<1>2. Turn \in Seq(Calls) /\ OfRound(Turn)
  BY <1>1, TurnOK
<1>3. TypeOK'
  BY <1>1, <1>2 DEF IInv, TypeOK
<1>4. NeverTwice'
  <2>1. \A call \in executed : call.round < round
    BY <1>1 DEF IInv, Past
  <2>2. \A i \in DOMAIN Turn : Turn[i].round = round
    BY <1>2 DEF OfRound
  <2>3. round \in Nat /\ ~(round < round)
    BY LimitsAssumption DEF IInv, TypeOK
  <2>4. reply'.calls = Turn /\ executed' = executed
    BY <1>1
  <2> HIDE DEF Turn
  <2> QED
    BY <2>1, <2>2, <2>3, <2>4 DEF NeverTwice
<1>5. TakenCalls' = Owed' /\ Injected' = Injected
  BY <1>1 DEF IInv, TakenCalls, Asking, Owed, Injected
<1> QED
  BY <1>1, <1>3, <1>4, <1>5 DEF IInv, Past, Pending, OnlyInjectedExecuted

LEMMA AcceptTurnOK ==
    ASSUME IInv, AcceptTurn
    PROVE  IInv'
<1> DEFINE new == [role |-> "assistant", calls |-> Turn]
<1>1. /\ pc = "collect" /\ pc' = "execute" /\ round < MaxRounds
      /\ UNCHANGED <<request, round, frames, collected, written, executed, reply>>
      /\ messages' = Append(messages, new) /\ todo' = Turn
      /\ Turn # <<>> /\ \A i \in DOMAIN Turn : Turn[i].name \in Injected
  BY DEF AcceptTurn, AllAutoExecutable
<1>2. Turn \in Seq(Calls) /\ OfRound(Turn)
  BY <1>1, TurnOK
<1>3. new \in Messages /\ messages \in Seq(Messages)
  BY <1>2 DEF IInv, Messages
<1>4. TypeOK' /\ messages' \in Seq(Messages)
  BY <1>1, <1>2, <1>3, AppendProperties DEF IInv, TypeOK
<1>5. Injected' = Injected
  BY <1>1 DEF Injected
<1>6. Pending' /\ Past'
  <2>1. /\ round \in Nat /\ ~(round < round)
        /\ \A call \in executed : call.round < round
    BY <1>1, LimitsAssumption DEF IInv, TypeOK, Past
  <2>2. \A i \in DOMAIN Turn : Turn[i].round = round /\ Turn[i].pos = i
    BY <1>2 DEF OfRound
  <2>3. \A i, j \in DOMAIN Turn : Turn[i] = Turn[j] => i = j
    BY <2>2
  <2> HIDE DEF Turn
  <2> QED
    BY <1>1, <1>5, <2>1, <2>2, <2>3 DEF Pending, Past
<1>7. TakenCalls' = Owed'
  <2>1. TakenCalls' = TakenCalls \cup ToSet(Turn)
    BY <1>1, <1>3, AppendTaken
  <2> QED
    BY <1>1, <2>1 DEF IInv, Owed
<1> QED
  BY <1>1, <1>4, <1>5, <1>6, <1>7 DEF IInv, OnlyInjectedExecuted, NeverTwice

\* The first of the pending calls joins the executed; the rest stay pending, or
\* the round is over.
LEMMA ExecuteBuiltinOK ==
    ASSUME IInv, ExecuteBuiltin
    PROVE  IInv'
<1> DEFINE call == Head(todo)
           new == [role |-> "tool", calls |-> <<call>>]
<1>1. /\ pc = "execute"
      /\ executed' = executed \cup {call}
      /\ messages' = Append(messages, new) /\ todo' = Tail(todo)
      /\ IF Len(todo) = 1 THEN pc' = "ask" /\ round' = round + 1 ELSE UNCHANGED <<pc, round>>
      /\ UNCHANGED <<request, frames, collected, written, reply>>
  BY DEF ExecuteBuiltin
<1>2. /\ todo \in Seq(Calls) /\ todo # <<>> /\ round < MaxRounds
      /\ round \in Nat /\ MaxRounds \in Nat
      /\ \A i \in DOMAIN todo :
            todo[i].round = round /\ todo[i].name \in Injected /\ todo[i] \notin executed
      /\ \A i, j \in DOMAIN todo : todo[i] = todo[j] => i = j
  BY <1>1, LimitsAssumption DEF IInv, TypeOK, Pending
<1>3. /\ Len(todo) \in Nat /\ Len(todo) >= 1 /\ DOMAIN todo = 1 .. Len(todo)
      /\ call = todo[1] /\ 1 \in DOMAIN todo /\ call \in Calls
      /\ todo' \in Seq(Calls) /\ DOMAIN todo' = 1 .. Len(todo) - 1
      /\ \A i \in 1 .. Len(todo) - 1 : todo'[i] = todo[i + 1] /\ i + 1 \in DOMAIN todo
      /\ Len(todo) = 1 <=> todo' = <<>>
  <2>1. /\ Len(todo) \in Nat /\ Len(todo) >= 1 /\ DOMAIN todo = 1 .. Len(todo)
        /\ Head(todo) = todo[1] /\ 1 \in DOMAIN todo
    BY <1>2
  <2>2. /\ Tail(todo) \in Seq(Calls) /\ Len(Tail(todo)) = Len(todo) - 1
        /\ \A i \in 1 .. Len(todo) - 1 : Tail(todo)[i] = todo[i + 1]
    BY <1>2, HeadTailProperties
  <2> QED
    BY <1>1, <1>2, <2>1, <2>2
<1> HIDE DEF call
<1>4. new \in Messages /\ messages \in Seq(Messages)
  BY <1>3 DEF IInv, Messages
<1>5. messages' \in Seq(Messages)
  BY <1>1, <1>4, AppendProperties
<1>6. TypeOK'
  <2>1. executed' \subseteq Calls
    BY <1>1, <1>3 DEF IInv, TypeOK
  <2>2. pc' \in {"execute", "ask"} /\ round' \in 0 .. MaxRounds
    BY <1>1, <1>2 DEF IInv, TypeOK
  <2>3. todo' \in Seq(Calls) /\ UNCHANGED <<request, frames, collected, written, reply>>
    BY <1>1, <1>3
  <2> QED
    BY <2>1, <2>2, <2>3 DEF IInv, TypeOK
<1>7. Injected' = Injected
  BY <1>1 DEF Injected
<1>8. Past'
  <2>1. \A c \in executed : c.round < round \/ c.round = round
    BY <1>1 DEF IInv, Past
  <2>2. call.round = round /\ \A c \in executed : c.round \in Nat
    <3>1. call.round = round
      BY <1>2, <1>3
    <3>2. executed \subseteq Calls /\ \A c \in Calls : c.round \in Nat
      BY LimitsAssumption DEF IInv, TypeOK, Calls
    <3> QED
      BY <3>1, <3>2
  <2>3. \A c \in executed' : c.round \in Nat /\ (c.round < round \/ c.round = round)
    BY <1>1, <1>2, <2>1, <2>2
  <2>4. (pc' = "execute" /\ round' = round) \/ round' = round + 1
    BY <1>1
  <2> QED
    BY <1>2, <2>3, <2>4 DEF Past
<1>9. Pending'
  <2>1. ASSUME NEW i \in DOMAIN todo'
        PROVE  /\ todo'[i].round = round /\ todo'[i].name \in Injected
               /\ todo'[i] \notin executed'
    <3>1. todo'[i] = todo[i + 1] /\ i + 1 \in DOMAIN todo /\ i + 1 # 1
      BY <1>3
    <3>2. todo[i + 1] # todo[1]
      BY <1>2, <1>3, <3>1
    <3> QED
      BY <1>1, <1>2, <1>3, <3>1, <3>2
  <2>2. ASSUME NEW i \in DOMAIN todo', NEW j \in DOMAIN todo', todo'[i] = todo'[j]
        PROVE  i = j
    <3>1. i + 1 = j + 1
      BY <1>2, <1>3, <2>2
    <3> QED
      BY <1>3, <3>1
  <2>3. CASE Len(todo) = 1
    BY <1>1, <2>3 DEF Pending
  <2>4. CASE Len(todo) # 1
    BY <1>1, <1>2, <1>3, <1>7, <2>1, <2>2, <2>4 DEF Pending
  <2> QED
    BY <2>3, <2>4
<1>10. TakenCalls' = Owed'
  <2>1. TakenCalls' = TakenCalls /\ TakenCalls = executed \cup ToSet(todo)
    BY <1>1, <1>4, AppendTaken DEF IInv, Owed
  <2>2. ToSet(todo) = {call} \cup ToSet(todo')
    <3>1. \A i \in DOMAIN todo : i = 1 \/ (i - 1 \in DOMAIN todo' /\ todo[i] = todo'[i - 1])
      BY <1>3
    <3> QED
      BY <1>3, <3>1 DEF ToSet
  <2>3. CASE Len(todo) = 1
    <3>1. ToSet(todo') = {}
      BY <1>3, <2>3 DEF ToSet
    <3> QED
      BY <1>1, <2>1, <2>2, <2>3, <3>1 DEF Owed
  <2>4. CASE Len(todo) # 1
    BY <1>1, <2>1, <2>2, <2>4 DEF Owed
  <2> QED
    BY <2>3, <2>4
<1>11. OnlyInjectedExecuted'
  BY <1>1, <1>2, <1>3, <1>7 DEF IInv, OnlyInjectedExecuted
<1>12. NeverTwice' /\ reply'.calls = <<>> /\ pc' \in {"execute", "ask"}
  BY <1>1 DEF IInv, NeverTwice
<1> QED
  BY <1>5, <1>6, <1>8, <1>9, <1>10, <1>11, <1>12 DEF IInv

LEMMA StepOK == IInv /\ [Next]_vars => IInv'
<1> SUFFICES ASSUME IInv, [Next]_vars PROVE IInv'
  OBVIOUS
<1>1. CASE Reject \/ Accept \/ AskFails \/ AskSucceeds \/ BodyFails \/ TooManyRounds
  BY <1>1, PlainStep
<1>2. ASSUME NEW names \in Turns, PassThrough(names) \/ CallFrame(names)
      PROVE  IInv'
  BY <1>2, PassThroughOK, CallFrameOK
<1>3. ASSUME NEW name \in Names, TextFrame(name)
      PROVE  IInv'
  BY <1>3, TextFrameOK
<1>4. CASE ReturnTurn
  BY <1>4, ReturnTurnOK
<1>5. CASE AcceptTurn
  BY <1>5, AcceptTurnOK
<1>6. CASE ExecuteBuiltin
  BY <1>6, ExecuteBuiltinOK
<1>7. CASE UNCHANGED vars
  BY <1>7 DEF vars, IInv, TypeOK, Past, Pending, OfRound, OnlyInjectedExecuted, NeverTwice,
     Injected, TakenCalls, Asking, Owed
<1> QED
  BY <1>1, <1>2, <1>3, <1>4, <1>5, <1>6, <1>7 DEF Next

\* Requests keep their types, and no request asks the model more than
\* maxAutomaticBuiltinToolRounds + 1 times (the rounds of runAutoToolLoop).
THEOREM TypeCorrect == Spec => []TypeOK
<1>1. IInv => TypeOK
  BY DEF IInv
<1> QED
  BY <1>1, InitOK, StepOK, PTL DEF Spec

\* Only tools the proxy injected are executed by it (OnlyInjectedExecuted).
THEOREM OnlyInjected == Spec => []OnlyInjectedExecuted
<1>1. IInv => OnlyInjectedExecuted
  BY DEF IInv
<1> QED
  BY <1>1, InitOK, StepOK, PTL DEF Spec

\* What the proxy executed is never handed to the client (NeverTwice).
THEOREM ExecutedOrHanded == Spec => []NeverTwice
<1>1. IInv => NeverTwice
  BY DEF IInv
<1> QED
  BY <1>1, InitOK, StepOK, PTL DEF Spec

-----------------------------------------------------------------------------
(***************************************************************************)
(* The conversation, as far as it got: while a turn is executed the first  *)
(* results of its message are given, todo are the calls without one.       *)
(***************************************************************************)
Partly(last) ==
    LET calls == messages[last].calls
        given == Len(messages) - last
    IN  /\ Len(calls) = given + Len(todo)
        /\ \A i \in 1 .. given : messages[last + i] = [role |-> "tool", calls |-> <<calls[i]>>]
        /\ \A k \in DOMAIN todo : todo[k] = calls[given + k]

Conversation ==
    /\ \A i \in DOMAIN messages \ Asking :
          \E j \in Asking : j < i /\ i <= j + Len(messages[j].calls)
    /\ IF pc = "execute"
       THEN \E last \in Asking : Partly(last) /\ \A i \in Asking \ {last} : Answered(i)
       ELSE \A i \in Asking : Answered(i)
    /\ Cardinality(Asking) = IF pc = "execute" THEN round + 1 ELSE round

LEMMA ConversationInit == Init => Conversation
<1> SUFFICES ASSUME Init PROVE Conversation
  OBVIOUS
<1>1. messages = <<>> /\ DOMAIN messages = {} /\ pc = "intake" /\ round = 0
  BY DEF Init
<1>2. Asking = {}
  BY <1>1 DEF Asking
<1> QED
  BY <1>1, <1>2, FS_EmptySet DEF Conversation

LEMMA AppendAsking ==
    ASSUME messages \in Seq(Messages), NEW new \in Messages,
           messages' = Append(messages, new),
           NEW n, n = Len(messages)
    PROVE  /\ n \in Nat /\ Len(messages') = n + 1
           /\ DOMAIN messages = 1 .. n /\ DOMAIN messages' = 1 .. n + 1
           /\ Asking \subseteq 1 .. n /\ IsFiniteSet(Asking)
           /\ \A i \in 1 .. n : messages'[i] = messages[i] /\ messages[i].calls \in Seq(Calls)
           /\ messages'[n + 1] = new
           /\ Asking' = IF new.role = "assistant" THEN Asking \cup {n + 1} ELSE Asking
<1>1. /\ n \in Nat /\ Len(messages') = n + 1
      /\ DOMAIN messages = 1 .. n /\ DOMAIN messages' = 1 .. n + 1
      /\ \A i \in 1 .. n : messages'[i] = messages[i]
      /\ messages'[n + 1] = new
  BY AppendProperties
<1>2. \A i \in 1 .. n : messages[i].calls \in Seq(Calls)
  <2>1. \A i \in 1 .. n : messages[i] \in Messages
    BY <1>1
  <2> QED
    BY <2>1 DEF Messages
<1>3. Asking = {i \in 1 .. n : messages[i].role = "assistant"}
  BY <1>1 DEF Asking
<1>4. Asking' = {i \in 1 .. n + 1 : messages'[i].role = "assistant"}
  BY <1>1 DEF Asking
<1>5. Asking' = IF new.role = "assistant" THEN Asking \cup {n + 1} ELSE Asking
  <2>1. \A i \in 1 .. n + 1 : i \in 1 .. n \/ i = n + 1
    BY <1>1
  <2>2. \A i \in 1 .. n : i \in 1 .. n + 1 /\ i # n + 1
    BY <1>1
  <2>3. n + 1 \in 1 .. n + 1
    BY <1>1
  <2> QED
    BY <1>1, <1>3, <1>4, <2>1, <2>2, <2>3
<1>6. IsFiniteSet(Asking)
  <2>1. IsFiniteSet(1 .. n) /\ Asking \subseteq 1 .. n
    BY <1>1, <1>3, FS_Interval
  <2> QED
    BY <2>1, FS_Subset
<1> QED
  BY <1>1, <1>2, <1>3, <1>5, <1>6

LEMMA ConversationKept ==
    ASSUME Conversation, UNCHANGED <<messages, todo, round>>,
           (pc = "execute") = (pc' = "execute")
    PROVE  Conversation'
<1>1. Asking' = Asking
  BY DEF Asking
<1>2. \A i : (Partly(i)' <=> Partly(i)) /\ (Answered(i)' <=> Answered(i))
  BY DEF Partly, Answered
<1> QED
  BY <1>1, <1>2 DEF Conversation

\* What was answered stays answered, what was asked for stays asked for.
LEMMA AppendAnswered ==
    ASSUME messages \in Seq(Messages), NEW new \in Messages,
           messages' = Append(messages, new), NEW i \in Asking, Answered(i)
    PROVE  Answered(i)'
<1> DEFINE n == Len(messages)
<1>1. /\ n \in Nat /\ Len(messages') = n + 1
      /\ i \in 1 .. n /\ messages'[i] = messages[i]
      /\ messages[i].calls \in Seq(Calls)
      /\ \A k \in 1 .. n : messages'[k] = messages[k]
  BY AppendAsking
<1>2. PICK calls \in Seq(Calls) : calls = messages[i].calls
  BY <1>1
<1>3. /\ i + Len(calls) <= n /\ Len(calls) \in Nat /\ DOMAIN calls = 1 .. Len(calls)
      /\ \A k \in 1 .. Len(calls) : messages[i + k] = [role |-> "tool", calls |-> <<calls[k]>>]
  <2>1. DOMAIN calls = 1 .. Len(calls) /\ Len(calls) \in Nat
    OBVIOUS
  <2> QED
    BY <1>2, <2>1 DEF Answered
<1> HIDE DEF n
<1>4. \A k \in 1 .. Len(calls) : i + k \in 1 .. n
  BY <1>1, <1>3
<1>5. \A k \in 1 .. Len(calls) : messages'[i + k] = [role |-> "tool", calls |-> <<calls[k]>>]
  BY <1>1, <1>3, <1>4
<1>6. i + Len(calls) <= n + 1
  BY <1>1, <1>3
<1> QED
  BY <1>1, <1>2, <1>5, <1>6 DEF Answered

LEMMA ConversationAccept ==
    ASSUME IInv, Conversation, AcceptTurn
    PROVE  Conversation'
<1> DEFINE new == [role |-> "assistant", calls |-> Turn]
<1>1. /\ pc = "collect" /\ pc' = "execute" /\ round' = round
      /\ messages' = Append(messages, new) /\ todo' = Turn
  BY DEF AcceptTurn
<1>2. Turn \in Seq(Calls) /\ round \in Nat
  BY <1>1, TurnOK, LimitsAssumption DEF IInv, TypeOK
<1>3. new \in Messages /\ messages \in Seq(Messages) /\ new.role = "assistant"
  BY <1>2 DEF IInv, Messages
<1>4. new.calls = Turn
  OBVIOUS
<1> HIDE DEF new
<1> DEFINE n == Len(messages)
<1>5. /\ n \in Nat /\ Len(messages') = n + 1
      /\ DOMAIN messages = 1 .. n /\ DOMAIN messages' = 1 .. n + 1
      /\ Asking \subseteq 1 .. n /\ IsFiniteSet(Asking)
      /\ \A i \in 1 .. n : messages'[i] = messages[i]
      /\ messages'[n + 1] = new
      /\ Asking' = Asking \cup {n + 1}
  BY <1>1, <1>3, AppendAsking
<1> HIDE DEF n
<1>6. n + 1 \notin Asking
  BY <1>5
<1>7. \A i \in Asking' \ {n + 1} : Answered(i)'
  BY <1>1, <1>3, <1>5, AppendAnswered DEF Conversation
<1>8. PICK last : last = n + 1
  OBVIOUS
<1>9. Partly(last)'
  <2>1. Len(messages') - last = 0
    BY <1>5, <1>8
  <2>2. messages'[last].calls = Turn
    BY <1>4, <1>5, <1>8
  <2>3. \A k \in DOMAIN Turn : Turn[k] = Turn[0 + k]
    BY <1>2
  <2>4. Len(Turn) = 0 + Len(Turn) /\ 1 .. 0 = {}
    BY <1>2
  <2> HIDE DEF Turn
  <2> QED
    BY <1>1, <2>1, <2>2, <2>3, <2>4 DEF Partly
<1>10. Cardinality(Asking') = round + 1
  BY <1>1, <1>5, <1>6, FS_AddElement DEF Conversation
<1>11. ASSUME NEW i \in DOMAIN messages' \ Asking'
       PROVE  \E j \in Asking' : j < i /\ i <= j + Len(messages'[j].calls)
  <2>1. i \in DOMAIN messages \ Asking
    BY <1>5, <1>11
  <2>2. PICK j \in Asking : j < i /\ i <= j + Len(messages[j].calls)
    BY <2>1 DEF Conversation
  <2>3. messages'[j] = messages[j] /\ j \in Asking'
    BY <1>5
  <2> QED
    BY <2>2, <2>3
<1> QED
  BY <1>1, <1>5, <1>7, <1>8, <1>9, <1>10, <1>11 DEF Conversation

LEMMA ConversationExecute ==
    ASSUME IInv, Conversation, ExecuteBuiltin
    PROVE  Conversation'
<1> DEFINE new == [role |-> "tool", calls |-> <<Head(todo)>>]
           n == Len(messages)
<1>1. /\ pc = "execute"
      /\ messages' = Append(messages, new) /\ todo' = Tail(todo)
      /\ IF Len(todo) = 1 THEN pc' = "ask" /\ round' = round + 1 ELSE UNCHANGED <<pc, round>>
  BY DEF ExecuteBuiltin
<1>2. todo \in Seq(Calls) /\ todo # <<>>
  BY <1>1 DEF IInv, TypeOK, Pending
<1>3. PICK m \in Nat :
          /\ Len(todo) = m + 1 /\ DOMAIN todo = 1 .. m + 1
          /\ Head(todo) = todo[1] /\ todo[1] \in Calls
          /\ DOMAIN todo' = 1 .. m /\ Len(todo') = m
          /\ \A k \in 1 .. m : todo'[k] = todo[k + 1]
  <2>1. /\ Len(todo) \in Nat /\ Len(todo) >= 1 /\ DOMAIN todo = 1 .. Len(todo)
        /\ Head(todo) = todo[1] /\ todo[1] \in Calls
    BY <1>2
  <2>2. /\ Tail(todo) \in Seq(Calls) /\ Len(Tail(todo)) = Len(todo) - 1
        /\ \A i \in 1 .. Len(todo) - 1 : Tail(todo)[i] = todo[i + 1]
    BY <1>2, HeadTailProperties
  <2>3. PICK m \in Nat : Len(todo) = m + 1
    <3>1. Len(todo) - 1 \in Nat /\ Len(todo) = (Len(todo) - 1) + 1
      BY <2>1
    <3> QED
      BY <3>1
  <2>4. Len(todo) - 1 = m
    BY <2>1, <2>3
  <2>5. DOMAIN Tail(todo) = 1 .. m
    <3>1. DOMAIN Tail(todo) = 1 .. Len(Tail(todo))
      BY <2>2
    <3> QED
      BY <2>2, <2>4, <3>1
  <2> QED
    BY <1>1, <2>1, <2>2, <2>3, <2>4, <2>5
<1>4. new \in Messages /\ messages \in Seq(Messages) /\ new.role # "assistant"
      /\ new = [role |-> "tool", calls |-> <<todo[1]>>]
  BY <1>3 DEF IInv, Messages
<1> HIDE DEF new
<1>5. /\ n \in Nat /\ Len(messages') = n + 1
      /\ DOMAIN messages = 1 .. n /\ DOMAIN messages' = 1 .. n + 1
      /\ Asking \subseteq 1 .. n /\ IsFiniteSet(Asking)
      /\ \A i \in 1 .. n : messages'[i] = messages[i] /\ messages[i].calls \in Seq(Calls)
      /\ messages'[n + 1] = new
      /\ Asking' = Asking
  BY <1>1, <1>4, AppendAsking
<1>6. PICK last \in Asking : Partly(last) /\ \A i \in Asking \ {last} : Answered(i)
  BY <1>1 DEF Conversation
<1>7. PICK calls \in Seq(Calls) : calls = messages[last].calls
  BY <1>5, <1>6
<1>8. PICK given \in Nat : n = last + given
  <2>1. last \in 1 .. n
    BY <1>5, <1>6
  <2>2. n - last \in Nat /\ n = last + (n - last)
    BY <1>5, <2>1
  <2> QED
    BY <2>2
<1>9. /\ last \in Nat /\ last > 0
      /\ Len(messages) - last = given /\ Len(messages') - last = given + 1
      /\ messages'[last].calls = calls
  BY <1>5, <1>6, <1>7, <1>8
<1>10. /\ Len(calls) = given + (m + 1) /\ DOMAIN calls = 1 .. given + (m + 1)
       /\ \A i \in 1 .. given : messages[last + i] = [role |-> "tool", calls |-> <<calls[i]>>]
       /\ \A k \in 1 .. m + 1 : todo[k] = calls[given + k]
  <2>1. Len(calls) = given + Len(todo) /\ DOMAIN calls = 1 .. Len(calls)
    BY <1>6, <1>7, <1>9 DEF Partly
  <2>2. \A i \in 1 .. given : messages[last + i] = [role |-> "tool", calls |-> <<calls[i]>>]
    BY <1>6, <1>7, <1>9 DEF Partly
  <2>3. \A k \in DOMAIN todo : todo[k] = calls[given + k]
    BY <1>6, <1>7, <1>9 DEF Partly
  <2> QED
    BY <1>3, <2>1, <2>2, <2>3
<1> HIDE DEF n
<1>11. \A i \in 1 .. given + 1 : messages'[last + i] = [role |-> "tool", calls |-> <<calls[i]>>]
  <2> SUFFICES ASSUME NEW i \in 1 .. given + 1
               PROVE  messages'[last + i] = [role |-> "tool", calls |-> <<calls[i]>>]
    OBVIOUS
  <2>1. CASE i \in 1 .. given
    <3>1. last + i \in 1 .. n
      BY <1>8, <1>9, <2>1
    <3> QED
      BY <1>5, <1>10, <2>1, <3>1
  <2>2. CASE i = given + 1
    <3>1. last + i = n + 1
      BY <1>8, <1>9, <2>2
    <3>2. 1 \in 1 .. m + 1
      BY <1>3
    <3>3. todo[1] = calls[given + 1]
      BY <1>10, <3>2
    <3> QED
      BY <1>4, <1>5, <2>2, <3>1, <3>3
  <2> QED
    BY <2>1, <2>2
<1>12. \A i \in Asking \ {last} : Answered(i)'
  BY <1>1, <1>4, <1>6, AppendAnswered
<1>13. Cardinality(Asking') = round + 1
  BY <1>1, <1>5 DEF Conversation
<1>14. ASSUME NEW i \in DOMAIN messages' \ Asking'
       PROVE  \E j \in Asking' : j < i /\ i <= j + Len(messages'[j].calls)
  <2>1. CASE i \in 1 .. n
    <3>1. PICK j \in Asking : j < i /\ i <= j + Len(messages[j].calls)
      BY <1>5, <1>14, <2>1 DEF Conversation
    <3> QED
      BY <1>5, <3>1
  <2>2. CASE i = n + 1
    <3>1. last < i /\ i <= last + Len(calls)
      BY <1>8, <1>9, <1>10, <2>2
    <3> QED
      BY <1>5, <1>6, <1>9, <3>1
  <2> QED
    <3>1. i \in 1 .. n + 1
      BY <1>5, <1>14
    <3> QED
      BY <1>5, <2>1, <2>2, <3>1
<1>15. CASE m = 0
  <2>1. pc' = "ask" /\ round' = round + 1
    BY <1>1, <1>3, <1>15
  <2>2. Answered(last)'
    <3>1. last + Len(calls) <= Len(messages') /\ DOMAIN calls = 1 .. given + 1
      BY <1>5, <1>8, <1>9, <1>10, <1>15
    <3> QED
      BY <1>9, <1>11, <3>1 DEF Answered
  <2> QED
    BY <1>5, <1>12, <1>13, <1>14, <2>1, <2>2 DEF Conversation
<1>16. CASE m # 0
  <2>1. pc' = "execute" /\ round' = round
    BY <1>1, <1>3, <1>16
  <2>2. Partly(last)'
    <3>1. Len(calls) = (given + 1) + m
      BY <1>3, <1>8, <1>10
    <3>2. \A k \in 1 .. m : todo'[k] = calls[(given + 1) + k]
      <4> SUFFICES ASSUME NEW k \in 1 .. m PROVE todo'[k] = calls[(given + 1) + k]
        OBVIOUS
      <4>1. k + 1 \in 1 .. m + 1 /\ given + (k + 1) = (given + 1) + k
        BY <1>3, <1>8
      <4> QED
        BY <1>3, <1>10, <4>1
    <3> QED
      BY <1>3, <1>9, <1>11, <3>1, <3>2 DEF Partly
  <2> QED
    BY <1>5, <1>6, <1>12, <1>13, <1>14, <2>1, <2>2 DEF Conversation
<1> QED
  BY <1>15, <1>16

LEMMA ConversationStep == IInv /\ Conversation /\ [Next]_vars => Conversation'
<1> SUFFICES ASSUME IInv, Conversation, [Next]_vars PROVE Conversation'
  OBVIOUS
<1>1. CASE Reject \/ Accept \/ AskFails \/ AskSucceeds \/ BodyFails \/ TooManyRounds
           \/ ReturnTurn
  BY <1>1, ConversationKept
     DEF Reject, Accept, AskFails, AskSucceeds, BodyFails, TooManyRounds, ReturnTurn, Answer
<1>2. ASSUME NEW names \in Turns, PassThrough(names) \/ CallFrame(names)
      PROVE  Conversation'
  BY <1>2, ConversationKept DEF PassThrough, CallFrame, Answer
<1>3. ASSUME NEW name \in Names, TextFrame(name)
      PROVE  Conversation'
  BY <1>3, ConversationKept DEF TextFrame
<1>4. CASE AcceptTurn
  BY <1>4, ConversationAccept
<1>5. CASE ExecuteBuiltin
  BY <1>5, ConversationExecute
<1>6. CASE UNCHANGED vars
  BY <1>6, ConversationKept DEF vars
<1> QED
  BY <1>1, <1>2, <1>3, <1>4, <1>5, <1>6 DEF Next

\* The model is always asked with a conversation it can take: each call of an
\* assistant message is answered by exactly one result, in its place
\* (ConversationWellFormed; the messages of runAutoToolLoop).
THEOREM ConversationHolds == Spec => []ConversationWellFormed
<1>1. IInv /\ Conversation => ConversationWellFormed
  BY DEF Conversation, ConversationWellFormed
<1> QED
  BY <1>1, InitOK, StepOK, ConversationInit, ConversationStep, PTL DEF Spec

-----------------------------------------------------------------------------
(***************************************************************************)
(* ToolLoop implements CallDisposition.                                    *)
(***************************************************************************)
LEMMA MappedInit == Init => Disposition!Init
<1> SUFFICES ASSUME Init PROVE Disposition!Init
  OBVIOUS
<1>1. TakenCalls = {}
  BY TakenByElement DEF Init
<1>2. ToSet(reply.calls) = {} /\ executed = {} /\ pc = "intake"
  BY DEF Init, ToSet
<1> QED
  BY <1>1, <1>2 DEF Disposition!Init

\* Without calls taken on, executed or handed over the request goes on or is given up.
LEMMA MappedPlain ==
    ASSUME UNCHANGED <<messages, executed, reply>>, pc' # "done", pc # "done"
    PROVE  UNCHANGED Disposition!vars
<1>1. TakenCalls' = TakenCalls
  BY DEF TakenCalls, Asking
<1>2. ToSet(reply.calls)' = ToSet(reply.calls)
  OBVIOUS
<1>3. (pc = "done")' = (pc = "done")
  OBVIOUS
<1> QED
  BY <1>1, <1>2, <1>3 DEF Disposition!vars

LEMMA MappedGiveUp ==
    ASSUME UNCHANGED <<messages, executed>>, pc # "done", pc' = "done",
           reply'.calls = reply.calls
    PROVE  Disposition!GiveUp
<1>1. TakenCalls' = TakenCalls
  BY DEF TakenCalls, Asking
<1>2. ToSet(reply.calls)' = ToSet(reply.calls)
  OBVIOUS
<1> QED
  BY <1>1, <1>2 DEF Disposition!GiveUp

LEMMA MappedHandOver ==
    ASSUME IInv, IInv', UNCHANGED <<messages, executed>>,
           pc \notin {"execute", "done"}, pc' = "done"
    PROVE  Disposition!HandOver
<1>1. TakenCalls' = TakenCalls /\ TakenCalls = executed
  BY DEF TakenCalls, Asking, IInv, Owed
<1>2. ToSet(reply.calls)' \in SUBSET Calls
  <2>1. reply'.calls \in Seq(Calls)
    BY DEF IInv, TypeOK
  <2> QED
    BY <2>1 DEF ToSet
<1>3. ToSet(reply.calls)' \cap TakenCalls = {}
  BY <1>1 DEF ToSet, IInv, NeverTwice
<1> QED
  BY <1>1, <1>2, <1>3 DEF Disposition!HandOver

LEMMA MappedTake ==
    ASSUME IInv, IInv', AcceptTurn
    PROVE  Disposition!Take
<1>1. /\ pc = "collect" /\ pc' = "execute"
      /\ UNCHANGED <<executed, reply>>
      /\ TakenCalls = executed /\ TakenCalls' = executed' \cup ToSet(todo')
  BY DEF AcceptTurn, IInv, Owed
<1>2. executed' \subseteq Calls /\ todo' \in Seq(Calls)
  BY DEF IInv, TypeOK
<1>3. ToSet(todo') \subseteq Calls
  BY <1>2 DEF ToSet
<1>4. ToSet(reply.calls)' = ToSet(reply.calls) /\ (pc = "done")' = (pc = "done")
  BY <1>1
<1> QED
  BY <1>1, <1>2, <1>3, <1>4 DEF Disposition!Take

LEMMA MappedExecute ==
    ASSUME IInv, IInv', ExecuteBuiltin
    PROVE  \E call \in Calls : Disposition!Execute(call)
<1> DEFINE call == Head(todo)
<1>1. /\ pc = "execute" /\ pc' \in {"execute", "ask"} /\ reply' = reply
      /\ executed' = executed \cup {call}
      /\ messages' = Append(messages, [role |-> "tool", calls |-> <<call>>])
  BY DEF ExecuteBuiltin
<1>2. todo \in Seq(Calls) /\ todo # <<>> /\ todo[1] \notin executed
  BY <1>1 DEF IInv, TypeOK, Pending
<1>3. call \in Calls /\ call \in ToSet(todo) /\ call \notin executed
  BY <1>2 DEF ToSet
<1> HIDE DEF call
<1>4. [role |-> "tool", calls |-> <<call>>] \in Messages /\ messages \in Seq(Messages)
  BY <1>3 DEF IInv, Messages
<1>5. TakenCalls' = TakenCalls
  BY <1>1, <1>4, AppendTaken
<1>6. call \in TakenCalls
  BY <1>1, <1>3 DEF IInv, Owed
<1>7. ToSet(reply.calls)' = ToSet(reply.calls) /\ (pc = "done")' = (pc = "done")
  BY <1>1
<1>8. Disposition!Execute(call)
  BY <1>1, <1>3, <1>5, <1>6, <1>7 DEF Disposition!Execute
<1> QED
  BY <1>3, <1>8

LEMMA MappedStep ==
    IInv /\ IInv' /\ [Next]_vars => [Disposition!Next]_(Disposition!vars)
<1> SUFFICES ASSUME IInv, IInv', [Next]_vars
             PROVE  Disposition!Next \/ UNCHANGED Disposition!vars
  BY DEF Disposition!vars
<1> USE DEF Disposition!Next
<1>1. CASE Accept \/ AskSucceeds
  BY <1>1, MappedPlain DEF Accept, AskSucceeds
<1>2. CASE Reject \/ AskFails \/ BodyFails \/ TooManyRounds
  BY <1>2, MappedGiveUp DEF Reject, AskFails, BodyFails, TooManyRounds, Answer, IInv
<1>3. ASSUME NEW names \in Turns, PassThrough(names)
      PROVE  Disposition!Next
  BY <1>3, MappedHandOver DEF PassThrough, Answer
<1>4. ASSUME NEW names \in Turns, CallFrame(names)
      PROVE  UNCHANGED Disposition!vars
  BY <1>4, MappedPlain DEF CallFrame
<1>5. ASSUME NEW name \in Names, TextFrame(name)
      PROVE  UNCHANGED Disposition!vars
  BY <1>5, MappedPlain DEF TextFrame
<1>6. CASE ReturnTurn
  BY <1>6, MappedHandOver DEF ReturnTurn, Answer
<1>7. CASE AcceptTurn
  BY <1>7, MappedTake
<1>8. CASE ExecuteBuiltin
  BY <1>8, MappedExecute
<1>9. CASE UNCHANGED vars
  BY <1>9 DEF vars, Disposition!vars, TakenCalls, Asking
<1> QED
  BY <1>1, <1>2, <1>3, <1>4, <1>5, <1>6, <1>7, <1>8, <1>9 DEF Next

\* The loop keeps the promise of CallDisposition: a call is executed after it was
\* taken on, once; handed over only if it never was; or given up (OneFate).
THEOREM Implements == Spec => OneFate
<1>1. IInv /\ IInv' /\ [Next]_vars => [Disposition!Next]_(Disposition!vars)
  BY MappedStep
<1> QED
  BY <1>1, InitOK, StepOK, MappedInit, PTL DEF Spec, OneFate, Disposition!Spec

-----------------------------------------------------------------------------
(***************************************************************************)
(* RequestStats.                                                           *)
(*                                                                         *)
(* The counters are cardinalities: inFlight is the number of requests that *)
(* are served, totalRequests the number that are past CountTotal (Exact).  *)
(* These sets are disjoint, and a request moves from the first to the      *)
(* second and never back; hence a total read before is at most the total   *)
(* at the moment the flight is read.                                       *)
(***************************************************************************)
Counted == Labels \ {"idle", "serving", "left"}
Begun == Labels \ {"idle"}
N(labels) == Cardinality(At(labels))

Exact == inFlight = N({"serving"}) /\ totalRequests = N(Counted)

\* If the minute's count is 0 though requests are done, a reset is being followed
\* by the add of the request that made it.
Opening == At({"done"}) # {} /\ lastMinuteCount = 0 => At({"add"}) # {}

StatsInv ==
    /\ StatsTypeOK /\ Exact
    /\ lastMinuteCount <= N({"done"}) /\ snap.rpm <= totalRequests
    /\ reader = "total" => snap.total <= totalRequests
    /\ CountedOnce /\ Opening

LEMMA Finite == \A labels : IsFiniteSet(At(labels)) /\ N(labels) \in Nat
<1> SUFFICES ASSUME NEW labels PROVE IsFiniteSet(At(labels)) /\ N(labels) \in Nat
  OBVIOUS
<1>1. At(labels) \in SUBSET Requests
  BY DEF At
<1>2. IsFiniteSet(At(labels))
  BY <1>1, RequestsAssumption, FS_Subset
<1> QED
  BY <1>2, FS_CardinalityType DEF N

\* The step of one request changes the size of a set of labels by its coming and going.
LEMMA GotoCounts ==
    ASSUME place \in [Requests -> Labels], NEW r \in Requests, NEW from, NEW to,
           Goto(r, from, to), NEW labels
    PROVE  /\ from \in labels /\ to \in labels => N(labels)' = N(labels)
           /\ from \notin labels /\ to \notin labels => N(labels)' = N(labels)
           /\ from \notin labels /\ to \in labels => N(labels)' = N(labels) + 1
           /\ from \in labels /\ to \notin labels => N(labels)' = N(labels) - 1
<1>1. place[r] = from /\ place' = [place EXCEPT ![r] = to]
  BY DEF Goto
<1>2. place'[r] = to /\ \A q \in Requests \ {r} : place'[q] = place[q]
  BY <1>1
<1>3. CASE from \in labels <=> to \in labels
  <2>1. At(labels)' = At(labels)
    BY <1>1, <1>2, <1>3 DEF At
  <2> QED
    BY <1>3, <2>1 DEF N
<1>4. CASE from \notin labels /\ to \in labels
  <2>1. At(labels)' = At(labels) \cup {r} /\ r \notin At(labels)
    BY <1>1, <1>2, <1>4 DEF At
  <2> QED
    BY <1>4, <2>1, Finite, FS_AddElement DEF N
<1>5. CASE from \in labels /\ to \notin labels
  <2>1. At(labels)' = At(labels) \ {r} /\ r \in At(labels)
    BY <1>1, <1>2, <1>5 DEF At
  <2> QED
    BY <1>5, <2>1, Finite, FS_RemoveElement DEF N
<1> QED
  BY <1>3, <1>4, <1>5

\* Served and counted requests are different ones, and have begun.
LEMMA Sizes ==
    ASSUME StatsTypeOK
    PROVE  /\ N({"serving"}) + N(Counted) <= N(Begun)
           /\ N({"done"}) <= N(Counted)
<1>1. At({"done"}) \in SUBSET At(Counted)
  BY DEF At, Counted, Labels
<1>2. N({"done"}) <= N(Counted)
  BY <1>1, Finite, FS_Subset DEF N
<1> DEFINE both == At({"serving"}) \cup At(Counted)
<1>3. both \in SUBSET At(Begun) /\ At({"serving"}) \cap At(Counted) = {}
  BY DEF At, Counted, Begun, Labels
<1>4. Cardinality(both) = N({"serving"}) + N(Counted) - 0
  <2>1. IsFiniteSet(At({"serving"})) /\ IsFiniteSet(At(Counted))
    BY Finite
  <2>2. Cardinality(both) = N({"serving"}) + N(Counted)
                            - Cardinality(At({"serving"}) \cap At(Counted))
    BY <2>1, FS_Union DEF N
  <2> QED
    BY <1>3, <2>2, FS_EmptySet
<1>5. Cardinality(both) <= N(Begun)
  BY <1>3, Finite, FS_Subset DEF N
<1> QED
  BY <1>2, <1>4, <1>5, Finite

LEMMA StatsInitOK == StatsInit => StatsInv
<1> SUFFICES ASSUME StatsInit PROVE StatsInv
  OBVIOUS
<1>1. \A labels : "idle" \notin labels => At(labels) = {}
  BY DEF StatsInit, At
<1>2. At({"serving"}) = {} /\ At(Counted) = {} /\ At({"done"}) = {}
  BY <1>1 DEF Counted
<1>3. N({"serving"}) = 0 /\ N(Counted) = 0 /\ N({"done"}) = 0
  BY <1>2, FS_EmptySet DEF N
<1>4. StatsTypeOK
  BY MinuteAssumption DEF StatsInit, StatsTypeOK, Labels
<1> QED
  BY <1>2, <1>3, <1>4 DEF StatsInit, StatsInv, Exact, CountedOnce, Opening

-----------------------------------------------------------------------------
LEMMA TypeStep ==
    ASSUME StatsTypeOK, Exact, NEW r \in Requests, BeginRequest(r) \/ EndRequest(r)
    PROVE  /\ place' \in [Requests -> Labels]
           /\ minute' \in [Requests -> 0 .. MaxMinute] /\ prev' \in [Requests -> 0 .. MaxMinute]
           /\ lastMinuteStart' \in 0 .. MaxMinute /\ lastMinuteCount' \in Nat
           /\ UNCHANGED <<clock, reader, snap>>
<1> USE DEF StatsTypeOK
<1>1. CASE BeginRequest(r) \/ LeaveFlight(r) \/ CountTotal(r) \/ ResetCount(r) \/ AddCount(r)
  BY <1>1 DEF BeginRequest, LeaveFlight, CountTotal, ResetCount, AddCount, Goto, Labels
<1>2. CASE ReadClock(r)
  BY <1>2, MinuteAssumption DEF ReadClock, Goto, Labels, counters
<1>3. CASE LoadStart(r)
  BY <1>3 DEF LoadStart, Goto, Labels, counters
<1>4. CASE SwapStart(r)
  BY <1>4 DEF SwapStart, Goto, Labels
<1> QED
  BY <1>1, <1>2, <1>3, <1>4 DEF EndRequest

\* What a step of a request does to the counters, and to the sizes behind them.
LEMMA CounterStep ==
    ASSUME StatsTypeOK, Exact, NEW r \in Requests, BeginRequest(r) \/ EndRequest(r)
    PROVE  /\ Exact'
           /\ totalRequests' \in {totalRequests, totalRequests + 1}
           /\ N(Begun)' \in {N(Begun), N(Begun) + 1}
           /\ \/ lastMinuteCount' \in {0, lastMinuteCount} /\ N({"done"})' = N({"done"})
              \/ lastMinuteCount' = lastMinuteCount + 1 /\ N({"done"})' = N({"done"}) + 1
<1> USE DEF StatsTypeOK, Exact, Counted, Begun, Labels
<1>1. CASE BeginRequest(r)
  BY <1>1, GotoCounts DEF BeginRequest
<1>2. CASE LeaveFlight(r)
  BY <1>2, GotoCounts DEF LeaveFlight
<1>3. CASE CountTotal(r)
  BY <1>3, GotoCounts DEF CountTotal
<1>4. CASE ReadClock(r)
  BY <1>4, GotoCounts DEF ReadClock, counters
<1>5. CASE LoadStart(r)
  BY <1>5, GotoCounts DEF LoadStart, counters
<1>6. CASE SwapStart(r)
  BY <1>6, GotoCounts DEF SwapStart
<1>7. CASE ResetCount(r)
  BY <1>7, GotoCounts DEF ResetCount
<1>8. CASE AddCount(r)
  BY <1>8, GotoCounts DEF AddCount
<1> QED
  BY <1>1, <1>2, <1>3, <1>4, <1>5, <1>6, <1>7, <1>8 DEF EndRequest

LEMMA OpeningStep ==
    ASSUME StatsTypeOK, Opening, NEW r \in Requests, BeginRequest(r) \/ EndRequest(r)
    PROVE  Opening'
<1>1. place \in [Requests -> Labels] /\ lastMinuteCount \in Nat
  BY DEF StatsTypeOK
<1>2. ASSUME NEW from, NEW to, Goto(r, from, to), from \notin {"add", "done"},
             to # "done", lastMinuteCount' = lastMinuteCount
      PROVE  Opening'
  BY <1>1, <1>2 DEF Goto, Opening, At
<1>3. CASE BeginRequest(r) \/ LeaveFlight(r) \/ CountTotal(r)
  BY <1>2, <1>3 DEF BeginRequest, LeaveFlight, CountTotal
<1>4. CASE ReadClock(r)
  BY <1>2, <1>4 DEF ReadClock, counters
<1>5. CASE LoadStart(r)
  BY <1>2, <1>5 DEF LoadStart, counters
<1>6. CASE SwapStart(r)
  BY <1>2, <1>6 DEF SwapStart
<1>7. CASE ResetCount(r)
  <2>1. place'[r] = "add"
    BY <1>1, <1>7 DEF ResetCount, Goto
  <2> QED
    BY <2>1 DEF Opening, At
<1>8. CASE AddCount(r)
  BY <1>1, <1>8 DEF AddCount, Opening
<1> QED
  BY <1>3, <1>4, <1>5, <1>6, <1>7, <1>8 DEF EndRequest

LEMMA RequestStep ==
    ASSUME StatsInv, NEW r \in Requests, BeginRequest(r) \/ EndRequest(r)
    PROVE  StatsInv'
<1>1. StatsTypeOK /\ Exact /\ Opening
  BY DEF StatsInv
<1>2. /\ Exact' /\ Opening'
      /\ totalRequests' \in {totalRequests, totalRequests + 1}
      /\ N(Begun)' \in {N(Begun), N(Begun) + 1}
      /\ \/ lastMinuteCount' \in {0, lastMinuteCount} /\ N({"done"})' = N({"done"})
         \/ lastMinuteCount' = lastMinuteCount + 1 /\ N({"done"})' = N({"done"}) + 1
  BY <1>1, CounterStep, OpeningStep
<1>3. UNCHANGED <<clock, reader, snap>>
  BY <1>1, TypeStep
<1>4. inFlight' \in Nat
  <2>1. \A labels : N(labels)' \in Nat
    <3>1. \A labels : At(labels)' \in SUBSET Requests
      BY DEF At
    <3>2. \A labels : IsFiniteSet(At(labels)')
      BY <3>1, RequestsAssumption, FS_Subset
    <3> QED
      BY <3>2, FS_CardinalityType DEF N
  <2> QED
    BY <1>2, <2>1 DEF Exact
<1>5. StatsTypeOK'
  BY <1>1, <1>2, <1>3, <1>4, TypeStep DEF StatsTypeOK
<1>6. /\ totalRequests \in Nat /\ lastMinuteCount \in Nat
      /\ snap.rpm \in Nat /\ snap.total \in Nat /\ snap.inFlight \in Nat
      /\ N(Begun) \in Nat /\ N({"done"}) \in Nat
  BY <1>1, Finite DEF StatsTypeOK
<1>7. lastMinuteCount' <= N({"done"})'
  BY <1>2, <1>6 DEF StatsInv
<1>8. snap'.rpm <= totalRequests' /\ (reader' = "total" => snap'.total <= totalRequests')
  BY <1>2, <1>3, <1>6 DEF StatsInv
<1>9. CountedOnce'
  <2>1. CountedOnce /\ N(Begun) = Cardinality(At(Labels \ {"idle"}))
    BY DEF StatsInv, N, Begun
  <2>2. N(Begun)' = Cardinality(At(Labels \ {"idle"}))'
    BY DEF N, Begun
  <2> QED
    BY <1>2, <1>3, <1>6, <2>1, <2>2 DEF CountedOnce
<1> QED
  BY <1>2, <1>5, <1>7, <1>8, <1>9 DEF StatsInv

LEMMA SnapshotStep ==
    ASSUME StatsInv, Snapshot
    PROVE  StatsInv'
<1>1. UNCHANGED <<clock, locals, counters>>
  BY DEF Snapshot, ReadTotal, ReadInFlight, ReadMinute, ReadStart, ReadCount, NewSnapshot, Reads
<1>2. /\ UNCHANGED <<clock, place, minute, prev, inFlight, totalRequests>>
      /\ UNCHANGED <<lastMinuteStart, lastMinuteCount>>
  BY <1>1 DEF locals, counters
<1>3. \A labels : At(labels)' = At(labels)
  BY <1>2 DEF At
<1>4. \A labels : N(labels)' = N(labels)
  BY <1>3 DEF N
<1>5. StatsTypeOK /\ Exact /\ CountedOnce /\ totalRequests \in Nat /\ inFlight \in Nat
      /\ lastMinuteCount \in Nat /\ lastMinuteCount <= totalRequests
  BY Sizes, Finite DEF StatsInv, StatsTypeOK, Exact
<1>6. /\ snap' \in [total : Nat, inFlight : Nat, minute : 0 .. MaxMinute, rpm : Nat]
      /\ reader' \in {"idle", "total", "flight", "minute", "count", "taken"}
  BY <1>5, MinuteAssumption
     DEF StatsTypeOK, Snapshot, ReadTotal, ReadInFlight, ReadMinute, ReadStart, ReadCount,
         NewSnapshot, Reads
<1>7. StatsTypeOK'
  BY <1>2, <1>5, <1>6 DEF StatsTypeOK
<1>8. snap'.rpm <= totalRequests'
  BY <1>2, <1>5
     DEF StatsInv, StatsTypeOK, Snapshot, ReadTotal, ReadInFlight, ReadMinute, ReadStart, ReadCount,
         NewSnapshot, Reads
<1>9. reader' = "total" => snap'.total <= totalRequests'
  BY <1>2, <1>5
     DEF StatsTypeOK, Snapshot, ReadTotal, ReadInFlight, ReadMinute, ReadStart, ReadCount,
         NewSnapshot, Reads
<1>10. CountedOnce'
  <2>1. Cardinality(At(Labels \ {"idle"}))' = Cardinality(At(Labels \ {"idle"}))
    BY <1>3
  <2>2. CASE ReadInFlight
    <3>1. snap.total <= totalRequests /\ snap'.total = snap.total /\ snap'.inFlight = inFlight
      BY <2>2, <1>5 DEF StatsInv, ReadInFlight, Reads, StatsTypeOK
    <3>2. totalRequests = N(Counted) /\ inFlight = N({"serving"})
      BY <1>5 DEF Exact
    <3>3. N({"serving"}) + N(Counted) <= Cardinality(At(Labels \ {"idle"}))
      BY <1>5, Sizes DEF N, Begun
    <3>4. /\ Cardinality(At(Labels \ {"idle"})) \in Nat /\ N(Counted) \in Nat
          /\ N({"serving"}) \in Nat /\ snap.total \in Nat
      BY Finite, <1>5 DEF N, StatsTypeOK
    <3> QED
      BY <2>1, <3>1, <3>2, <3>3, <3>4 DEF CountedOnce
  <2>3. CASE ReadMinute \/ ReadStart \/ ReadCount
    <3>1. /\ reader \in {"flight", "minute", "count", "taken"}
          /\ snap'.total = snap.total /\ snap'.inFlight = snap.inFlight
      BY <2>3, <1>5 DEF ReadMinute, ReadStart, ReadCount, Reads, StatsTypeOK
    <3> QED
      BY <1>5, <2>1, <3>1 DEF CountedOnce
  <2>4. CASE ReadTotal \/ NewSnapshot
    BY <2>4 DEF ReadTotal, NewSnapshot, Reads, CountedOnce
  <2> QED
    BY <2>2, <2>3, <2>4 DEF Snapshot
<1>11. Exact' /\ lastMinuteCount' <= N({"done"})' /\ Opening'
  BY <1>2, <1>3, <1>4, <1>5 DEF StatsInv, Exact, Opening
<1> QED
  BY <1>7, <1>8, <1>9, <1>10, <1>11 DEF StatsInv

LEMMA StatsStepOK == StatsInv /\ [StatsNext]_statsVars => StatsInv'
<1> SUFFICES ASSUME StatsInv, [StatsNext]_statsVars PROVE StatsInv'
  OBVIOUS
<1>1. ASSUME NEW r \in Requests, BeginRequest(r) \/ EndRequest(r)
      PROVE  StatsInv'
  BY <1>1, RequestStep
<1>2. CASE Snapshot
  BY <1>2, SnapshotStep
<1>3. CASE Tick \/ UNCHANGED statsVars
  <2>1. /\ UNCHANGED <<place, minute, prev, inFlight, totalRequests>>
        /\ UNCHANGED <<lastMinuteStart, lastMinuteCount, reader, snap>>
    BY <1>3 DEF Tick, statsVars, locals, counters
  <2>2. clock' \in 1 .. MaxMinute
    BY <1>3, MinuteAssumption DEF Tick, statsVars, StatsInv, StatsTypeOK
  <2>3. \A labels : At(labels)' = At(labels)
    BY <2>1 DEF At
  <2>4. \A labels : N(labels)' = N(labels)
    BY <2>3 DEF N
  <2>5. StatsTypeOK'
    BY <2>1, <2>2 DEF StatsInv, StatsTypeOK
  <2>6. CountedOnce' /\ Opening'
    BY <2>1, <2>3 DEF StatsInv, CountedOnce, Opening
  <2> QED
    BY <2>1, <2>4, <2>5, <2>6 DEF StatsInv, Exact
<1> QED
  BY <1>1, <1>2, <1>3 DEF StatsNext

\* The counters keep their types: inFlight is never negative (StatsTypeOK).
THEOREM CountersTyped == StatsSpec => []StatsTypeOK
<1>1. StatsInv => StatsTypeOK
  BY DEF StatsInv
<1> QED
  BY <1>1, StatsInitOK, StatsStepOK, PTL DEF StatsSpec

\* No snapshot counts a request twice (CountedOnce).
THEOREM SnapshotCountsOnce == StatsSpec => []CountedOnce
<1>1. StatsInv => CountedOnce
  BY DEF StatsInv
<1> QED
  BY <1>1, StatsInitOK, StatsStepOK, PTL DEF StatsSpec

\* The count of the minute stays within the total (MinuteWithinTotal).
THEOREM RateWithinTotal == StatsSpec => []MinuteWithinTotal
<1>1. StatsInv => MinuteWithinTotal
  BY Sizes, Finite DEF StatsInv, MinuteWithinTotal, Exact, StatsTypeOK
<1> QED
  BY <1>1, StatsInitOK, StatsStepOK, PTL DEF StatsSpec

\* When all requests have ended the last reset has been followed by an add (LastOneCounts).
THEOREM LastRequestCounts == StatsSpec => []LastOneCounts
<1>1. StatsInv => LastOneCounts
  <2> SUFFICES ASSUME StatsInv, At(Labels \ {"idle", "done"}) = {}, At({"done"}) # {}
               PROVE  lastMinuteCount > 0
    BY DEF LastOneCounts
  <2>1. At({"add"}) = {}
    BY DEF At, Labels
  <2> QED
    BY <2>1 DEF StatsInv, Opening, StatsTypeOK
<1> QED
  BY <1>1, StatsInitOK, StatsStepOK, PTL DEF StatsSpec
=============================================================================
