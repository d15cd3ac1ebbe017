------------------------- MODULE CodexExchangeProofs -------------------------
(***************************************************************************)
(* What the clients of codex-proxy get, whatever the upstream sends and    *)
(* however often the client asks again: content blocks in order for an     *)
(* Anthropic client, the effort that was asked for, the names of the tools *)
(* as they were declared, and for either client the same answer streamed   *)
(* as in one piece.                                                        *)
(***************************************************************************)
EXTENDS CodexExchange, SequenceTheorems, FiniteSetTheorems, WellFoundedInduction, TLAPS

IsSeq(q) == \E S : q \in Seq(S)

StateFields == {"index", "started", "inThinking", "hasText", "hasToolUse", "hasThinking",
                "completed", "begun", "outcome", "client"}
ClientFields == {"blocks", "fault", "stops"}
BlockFields == {"kind", "name", "body", "open"}

\* The translator's state and its client's: the translator knows the number of blocks.
Shape(s) ==
    /\ DOMAIN s = StateFields /\ DOMAIN s.client = ClientFields
    /\ IsSeq(s.client.blocks) /\ IsSeq(s.client.stops)
    /\ \A i \in DOMAIN s.client.blocks : DOMAIN s.client.blocks[i] = BlockFields
    /\ s.index + 1 = Len(s.client.blocks)

\* No fault so far; only the last block may be open, and it is of kind k ("none":
\* no block is open).
Tidy(s, k) ==
    LET blocks == s.client.blocks
    IN  /\ s.client.fault = "none"
        /\ \A i \in DOMAIN blocks : blocks[i].open => i = Len(blocks) /\ k # "none"
        /\ k # "none" => /\ Len(blocks) \in DOMAIN blocks
                         /\ blocks[Len(blocks)].open = TRUE
                         /\ blocks[Len(blocks)].kind = k

\* The flags say which.
Agree(s, k) ==
    Tidy(s, k) /\ (s.inThinking <=> k = "thinking") /\ (s.started <=> k = "text")

\* What no event about a block changes.
Keeps(s, t) ==
    /\ Shape(t)
    /\ t.completed = s.completed /\ t.outcome = s.outcome /\ t.client.stops = s.client.stops
    /\ s.client.fault # "none" => t.client.fault # "none"

-----------------------------------------------------------------------------
LEMMA AppendAny ==
    ASSUME NEW q, IsSeq(q), NEW e
    PROVE  /\ IsSeq(Append(q, e)) /\ Len(q) \in Nat /\ Len(Append(q, e)) = Len(q) + 1
           /\ DOMAIN q = 1 .. Len(q) /\ DOMAIN Append(q, e) = 1 .. Len(q) + 1
           /\ Append(q, e)[Len(q) + 1] = e
           /\ \A i \in 1 .. Len(q) : Append(q, e)[i] = q[i]
<1>1. PICK S : q \in Seq(S)
    BY DEF IsSeq
<1>2. q \in Seq(S \cup {e})
    BY <1>1
<1>3. Append(q, e) \in Seq(S \cup {e})
    BY <1>2
<1> QED BY <1>1, <1>2, <1>3, AppendProperties DEF IsSeq

LEMMA ReplaceAny ==
    ASSUME NEW q, IsSeq(q), NEW i \in DOMAIN q, NEW e
    PROVE  LET r == [q EXCEPT ![i] = e]
           IN  IsSeq(r) /\ DOMAIN r = DOMAIN q /\ Len(r) = Len(q)
<1>1. PICK S : q \in Seq(S)
    BY DEF IsSeq
<1>2. [q EXCEPT ![i] = e] \in Seq(S \cup {e})
    BY <1>1
<1> QED BY <1>1, <1>2 DEF IsSeq

LEMMA BlocksNumbered ==
    ASSUME NEW s, Shape(s)
    PROVE  /\ Len(s.client.blocks) \in Nat
           /\ DOMAIN s.client.blocks = 1 .. Len(s.client.blocks)
BY AppendAny DEF Shape

LEMMA StartBlockFacts ==
    ASSUME NEW s, Shape(s), NEW kind, kind # "none", NEW name,
           NEW t, t = StartBlock(s, kind, name)
    PROVE  /\ Keeps(s, t) /\ t.inThinking = s.inThinking /\ t.started = s.started
           /\ Tidy(s, "none") => Tidy(t, kind)
           /\ \A k : k # "none" /\ Tidy(s, k) => t.client.fault # "none"
<1> DEFINE c == SeeStart(s.client, s.index + 1, kind, name)
           b == [kind |-> kind, name |-> name, body |-> Empty, open |-> TRUE]
           n == Len(s.client.blocks)
<1>0. DOMAIN b = BlockFields /\ b.open = TRUE /\ b.kind = kind
    BY DEF BlockFields
<1>1. /\ DOMAIN t = StateFields /\ t.index = s.index + 1 /\ t.client = c
      /\ t.inThinking = s.inThinking /\ t.started = s.started
      /\ t.completed = s.completed /\ t.outcome = s.outcome
    BY DEF StartBlock, Shape, StateFields
<1>2. /\ DOMAIN c = ClientFields /\ c.stops = s.client.stops
      /\ c.blocks = Append(s.client.blocks, b)
      /\ c.fault = IF s.client.fault # "none" THEN s.client.fault
                   ELSE IF s.index + 1 # n THEN "bad index"
                   ELSE IF \E i \in DOMAIN s.client.blocks : s.client.blocks[i].open
                        THEN "started inside another" ELSE "none"
    BY DEF SeeStart, Shape, ClientFields
<1> HIDE DEF b, c
<1>3. /\ IsSeq(c.blocks) /\ n \in Nat /\ Len(c.blocks) = n + 1
      /\ DOMAIN s.client.blocks = 1 .. n /\ DOMAIN c.blocks = 1 .. n + 1
      /\ c.blocks[n + 1] = b
      /\ \A i \in 1 .. n : c.blocks[i] = s.client.blocks[i]
    <2>1. IsSeq(s.client.blocks)
        BY DEF Shape
    <2>2. LET q == s.client.blocks
          IN  /\ IsSeq(Append(q, b)) /\ Len(q) \in Nat /\ Len(Append(q, b)) = Len(q) + 1
              /\ DOMAIN q = 1 .. Len(q) /\ DOMAIN Append(q, b) = 1 .. Len(q) + 1
              /\ Append(q, b)[Len(q) + 1] = b
              /\ \A i \in 1 .. Len(q) : Append(q, b)[i] = q[i]
        BY <2>1, AppendAny
    <2> QED BY <1>2, <2>2
<1>4. Shape(t)
    <2>2. \A i \in DOMAIN c.blocks : DOMAIN c.blocks[i] = BlockFields
        <3>1. \A i \in 1 .. n : DOMAIN s.client.blocks[i] = BlockFields
            BY <1>3 DEF Shape
        <3>2. \A i \in 1 .. n + 1 : i = n + 1 \/ i \in 1 .. n
            BY <1>3
        <3> QED BY <1>0, <1>3, <3>1, <3>2
    <2>3. t.index + 1 = Len(c.blocks)
        BY <1>1, <1>3 DEF Shape
    <2> QED BY <1>1, <1>2, <1>3, <2>2, <2>3 DEF Shape
<1>5. Keeps(s, t)
    BY <1>1, <1>2, <1>4 DEF Keeps
<1>6. Tidy(s, "none") => Tidy(t, kind)
    <2> SUFFICES ASSUME Tidy(s, "none")
                 PROVE  Tidy(t, kind)
        OBVIOUS
    <2>1. c.fault = "none" /\ \A i \in 1 .. n : ~s.client.blocks[i].open
        BY <1>2, <1>3 DEF Tidy, Shape
    <2>2. \A i \in DOMAIN c.blocks : c.blocks[i].open => i = n + 1
        <3>1. \A i \in 1 .. n : ~c.blocks[i].open
            BY <1>3, <2>1
        <3>2. \A i \in 1 .. n + 1 : i = n + 1 \/ i \in 1 .. n
            BY <1>3
        <3> QED BY <1>3, <3>1, <3>2
    <2>3. n + 1 \in DOMAIN c.blocks /\ c.blocks[n + 1].open = TRUE /\ c.blocks[n + 1].kind = kind
        BY <1>0, <1>3
    <2>4. t.client = c /\ Len(c.blocks) = n + 1 /\ c.fault = "none"
        BY <1>1, <1>3, <2>1
    <2> HIDE DEF n
    <2> QED BY <2>2, <2>3, <2>4 DEF Tidy
<1>7. ASSUME NEW k, k # "none", Tidy(s, k)
      PROVE  t.client.fault # "none"
    BY <1>1, <1>2, <1>7 DEF Tidy
<1> QED BY <1>1, <1>5, <1>6, <1>7

LEMMA DeltaOfFacts ==
    ASSUME NEW s, Shape(s), NEW kind \in {"thinking", "text", "tool_use"}, NEW token,
           NEW t, t = DeltaOf(s, kind, token)
    PROVE  /\ Keeps(s, t) /\ t.inThinking = s.inThinking /\ t.started = s.started
           /\ Tidy(s, kind) => Tidy(t, kind)
<1> DEFINE c == SeeDelta(s.client, s.index, kind, token)
           n == Len(s.client.blocks)
           body == Append(s.client.blocks[n].body, token)
           b == [s.client.blocks[n] EXCEPT !.body = body]
<1>1. /\ DOMAIN t = StateFields /\ t.index = s.index /\ t.client = c
      /\ t.inThinking = s.inThinking /\ t.started = s.started
      /\ t.completed = s.completed /\ t.outcome = s.outcome
    BY DEF DeltaOf, Shape, StateFields
<1>2. n \in Nat /\ DOMAIN s.client.blocks = 1 .. n /\ s.index + 1 = n
    BY BlocksNumbered DEF Shape
<1>3. CASE Fits(s.client, s.index, kind)
    <2>1. n \in DOMAIN s.client.blocks
        BY <1>2, <1>3 DEF Fits
    <2>2. /\ DOMAIN c = ClientFields /\ c.stops = s.client.stops /\ c.fault = s.client.fault
          /\ c.blocks = [s.client.blocks EXCEPT ![n] = b]
        BY <1>2, <1>3 DEF SeeDelta, Shape, ClientFields
    <2>3. /\ DOMAIN b = BlockFields /\ b.kind = s.client.blocks[n].kind
          /\ b.open = s.client.blocks[n].open
        BY <2>1 DEF Shape, BlockFields
    <2> HIDE DEF b, c
    <2>4. IsSeq(c.blocks) /\ DOMAIN c.blocks = DOMAIN s.client.blocks /\ Len(c.blocks) = n
        BY <2>1, <2>2, ReplaceAny DEF Shape
    <2>5. c.blocks[n] = b /\ \A i \in DOMAIN s.client.blocks \ {n} : c.blocks[i] = s.client.blocks[i]
        BY <2>1, <2>2 DEF Shape
    <2>6. Keeps(s, t)
        BY <1>1, <1>2, <2>2, <2>3, <2>4, <2>5 DEF Keeps, Shape
    <2>7. Tidy(s, kind) => Tidy(t, kind)
        BY <1>1, <1>2, <2>2, <2>3, <2>4, <2>5 DEF Tidy
    <2> QED BY <1>1, <2>6, <2>7
<1>4. CASE ~Fits(s.client, s.index, kind)
    <2>1. /\ DOMAIN c = ClientFields /\ c.stops = s.client.stops /\ c.blocks = s.client.blocks
          /\ s.client.fault # "none" => c.fault # "none"
        BY <1>4 DEF SeeDelta, Shape, ClientFields
    <2>2. ~Tidy(s, kind)
        BY <1>2, <1>4 DEF Tidy, Fits
    <2> HIDE DEF b, c
    <2> QED BY <1>1, <1>2, <2>1, <2>2 DEF Keeps, Shape
<1> QED BY <1>3, <1>4

LEMMA StopBlockFacts ==
    ASSUME NEW s, Shape(s), NEW t, t = StopBlock(s)
    PROVE  /\ Keeps(s, t) /\ t.inThinking = s.inThinking /\ t.started = s.started
           /\ \A k : k # "none" /\ Tidy(s, k) => Tidy(t, "none")
<1> DEFINE c == SeeStop(s.client, s.index)
           n == Len(s.client.blocks)
           b == [s.client.blocks[n] EXCEPT !.open = FALSE]
<1>1. /\ DOMAIN t = StateFields /\ t.index = s.index /\ t.client = c
      /\ t.inThinking = s.inThinking /\ t.started = s.started
      /\ t.completed = s.completed /\ t.outcome = s.outcome
    BY DEF StopBlock, Shape, StateFields
<1>2. n \in Nat /\ DOMAIN s.client.blocks = 1 .. n /\ s.index + 1 = n
    BY BlocksNumbered DEF Shape
<1>3. CASE Fits(s.client, s.index, "any")
    <2>1. n \in DOMAIN s.client.blocks
        BY <1>2, <1>3 DEF Fits
    <2>2. /\ DOMAIN c = ClientFields /\ c.stops = s.client.stops /\ c.fault = s.client.fault
          /\ c.blocks = [s.client.blocks EXCEPT ![n] = b]
        BY <1>2, <1>3 DEF SeeStop, Shape, ClientFields
    <2>3. DOMAIN b = BlockFields /\ b.open = FALSE
        BY <2>1 DEF Shape, BlockFields
    <2> HIDE DEF b, c
    <2>4. IsSeq(c.blocks) /\ DOMAIN c.blocks = DOMAIN s.client.blocks /\ Len(c.blocks) = n
        BY <2>1, <2>2, ReplaceAny DEF Shape
    <2>5. c.blocks[n] = b /\ \A i \in DOMAIN s.client.blocks \ {n} : c.blocks[i] = s.client.blocks[i]
        BY <2>1, <2>2 DEF Shape
    <2>6. Keeps(s, t)
        BY <1>1, <1>2, <2>2, <2>3, <2>4, <2>5 DEF Keeps, Shape
    <2>7. \A k : Tidy(s, k) => Tidy(t, "none")
        BY <1>1, <1>2, <2>2, <2>3, <2>4, <2>5 DEF Tidy
    <2> QED BY <1>1, <2>6, <2>7
<1>4. CASE ~Fits(s.client, s.index, "any")
    <2>1. /\ DOMAIN c = ClientFields /\ c.stops = s.client.stops /\ c.blocks = s.client.blocks
          /\ s.client.fault # "none" => c.fault # "none"
        BY <1>4 DEF SeeStop, Shape, ClientFields
    <2>2. \A k : k # "none" => ~Tidy(s, k)
        BY <1>2, <1>4 DEF Tidy, Fits
    <2> HIDE DEF b, c
    <2> QED BY <1>1, <1>2, <2>1, <2>2 DEF Keeps, Shape
<1> QED BY <1>3, <1>4

\* The flags may be set without the client.
LEMMA FlagsFacts ==
    ASSUME NEW s, Shape(s), NEW t, DOMAIN t = DOMAIN s, t.index = s.index, t.client = s.client
    PROVE  Shape(t) /\ \A k : Tidy(s, k) <=> Tidy(t, k)
BY DEF Shape, Tidy

LEMMA LeaveThinkingFacts ==
    ASSUME NEW s, Shape(s), NEW t, t = LeaveThinking(s)
    PROVE  /\ Keeps(s, t) /\ t.started = s.started /\ ~t.inThinking
           /\ \A k : Agree(s, k) => Agree(t, IF k = "thinking" THEN "none" ELSE k)
<1>1. CASE s.inThinking
    <2> DEFINE u == StopBlock(s)
    <2>1. /\ Keeps(s, u) /\ u.inThinking = s.inThinking /\ u.started = s.started
          /\ \A k : k # "none" /\ Tidy(s, k) => Tidy(u, "none")
        BY StopBlockFacts
    <2>2. t = [u EXCEPT !.inThinking = FALSE]
        BY <1>1 DEF LeaveThinking
    <2> HIDE DEF u
    <2>3. /\ DOMAIN t = DOMAIN u /\ t.index = u.index /\ t.client = u.client
          /\ t.inThinking = FALSE /\ t.started = u.started
          /\ t.completed = u.completed /\ t.outcome = u.outcome
        BY <2>1, <2>2 DEF Keeps, Shape, StateFields
    <2>4. Shape(t) /\ \A k : Tidy(u, k) <=> Tidy(t, k)
        BY <2>1, <2>3, FlagsFacts DEF Keeps
    <2>5. Keeps(s, t)
        BY <2>1, <2>3, <2>4 DEF Keeps
    <2>6. \A k : Agree(s, k) => k = "thinking" /\ Agree(t, "none")
        BY <1>1, <2>1, <2>3, <2>4 DEF Agree
    <2> QED BY <2>1, <2>3, <2>5, <2>6
<1>2. CASE ~s.inThinking
    BY <1>2 DEF LeaveThinking, Keeps, Agree
<1> QED BY <1>1, <1>2

LEMMA LeaveTextFacts ==
    ASSUME NEW s, Shape(s), NEW t, t = LeaveText(s)
    PROVE  /\ Keeps(s, t) /\ t.inThinking = s.inThinking /\ ~t.started
           /\ \A k : Agree(s, k) => Agree(t, IF k = "text" THEN "none" ELSE k)
<1>1. CASE s.started
    <2> DEFINE u == StopBlock(s)
    <2>1. /\ Keeps(s, u) /\ u.inThinking = s.inThinking /\ u.started = s.started
          /\ \A k : k # "none" /\ Tidy(s, k) => Tidy(u, "none")
        BY StopBlockFacts
    <2>2. t = [u EXCEPT !.started = FALSE]
        BY <1>1 DEF LeaveText
    <2> HIDE DEF u
    <2>3. /\ DOMAIN t = DOMAIN u /\ t.index = u.index /\ t.client = u.client
          /\ t.started = FALSE /\ t.inThinking = u.inThinking
          /\ t.completed = u.completed /\ t.outcome = u.outcome
        BY <2>1, <2>2 DEF Keeps, Shape, StateFields
    <2>4. Shape(t) /\ \A k : Tidy(u, k) <=> Tidy(t, k)
        BY <2>1, <2>3, FlagsFacts DEF Keeps
    <2>5. Keeps(s, t)
        BY <2>1, <2>3, <2>4 DEF Keeps
    <2>6. \A k : Agree(s, k) => k = "text" /\ Agree(t, "none")
        BY <1>1, <2>1, <2>3, <2>4 DEF Agree
    <2> QED BY <2>1, <2>3, <2>5, <2>6
<1>2. CASE ~s.started
    BY <1>2 DEF LeaveText, Keeps, Agree
<1> QED BY <1>1, <1>2

LEMMA KeepsTransitive ==
    ASSUME NEW s, NEW t, NEW u, Keeps(s, t), Keeps(t, u)
    PROVE  Keeps(s, u)
BY DEF Keeps

\* A reasoning delta, after which a thinking block is open; in a text block it is a fault.
LEMMA ReasoningFacts ==
    ASSUME NEW s, Shape(s), NEW token, NEW t, t = ClaudeReasoning(s, token)
    PROVE  /\ Keeps(s, t) /\ t.started = s.started
           /\ Agree(s, "thinking") \/ Agree(s, "none") => Agree(t, "thinking")
           /\ Agree(s, "text") => t.client.fault # "none"
<1> DEFINE u == IF s.inThinking THEN s
                ELSE [StartBlock(s, "thinking", Empty) EXCEPT !.inThinking = TRUE]
           v == [u EXCEPT !.hasThinking = TRUE]
<1>1. /\ Keeps(s, u) /\ u.started = s.started
      /\ Agree(s, "thinking") \/ Agree(s, "none") => Agree(u, "thinking")
      /\ Agree(s, "text") => u.client.fault # "none"
    <2>1. CASE s.inThinking
        BY <2>1 DEF Keeps, Agree
    <2>2. CASE ~s.inThinking
        <3> DEFINE w == StartBlock(s, "thinking", Empty)
        <3>1. /\ Keeps(s, w) /\ w.inThinking = s.inThinking /\ w.started = s.started
              /\ Tidy(s, "none") => Tidy(w, "thinking")
              /\ \A k : k # "none" /\ Tidy(s, k) => w.client.fault # "none"
            BY StartBlockFacts
        <3>2. u = [w EXCEPT !.inThinking = TRUE]
            BY <2>2
        <3> HIDE DEF u, v, w
        <3>3. /\ DOMAIN u = DOMAIN w /\ u.index = w.index /\ u.client = w.client
              /\ u.inThinking = TRUE /\ u.started = w.started
              /\ u.completed = w.completed /\ u.outcome = w.outcome
            BY <3>1, <3>2 DEF Keeps, Shape, StateFields
        <3>4. Shape(u) /\ \A k : Tidy(w, k) <=> Tidy(u, k)
            BY <3>1, <3>3, FlagsFacts DEF Keeps
        <3>5. Keeps(s, u)
            BY <3>1, <3>3, <3>4 DEF Keeps
        <3>6. Agree(s, "thinking") \/ Agree(s, "none") => Agree(u, "thinking")
            BY <2>2, <3>1, <3>3, <3>4 DEF Agree
        <3>7. Agree(s, "text") => u.client.fault # "none"
            BY <3>1, <3>3 DEF Agree
        <3> QED BY <3>1, <3>3, <3>5, <3>6, <3>7
    <2> QED BY <2>1, <2>2
<1>2. t = DeltaOf(v, "thinking", token)
    BY DEF ClaudeReasoning
<1> HIDE DEF u
<1>3. /\ DOMAIN v = DOMAIN u /\ v.index = u.index /\ v.client = u.client
      /\ v.inThinking = u.inThinking /\ v.started = u.started
      /\ v.completed = u.completed /\ v.outcome = u.outcome
    BY <1>1 DEF Keeps, Shape, StateFields
<1> HIDE DEF v
<1>4. Shape(v) /\ \A k : Tidy(u, k) <=> Tidy(v, k)
    BY <1>1, <1>3, FlagsFacts DEF Keeps
<1>5. /\ Keeps(v, t) /\ t.inThinking = v.inThinking /\ t.started = v.started
      /\ Tidy(v, "thinking") => Tidy(t, "thinking")
    BY <1>2, <1>4, DeltaOfFacts
<1>6. Keeps(s, v)
    BY <1>1, <1>3, <1>4 DEF Keeps
<1>7. Keeps(s, t)
    BY <1>5, <1>6, KeepsTransitive
<1>8. Agree(u, "thinking") => Agree(t, "thinking")
    BY <1>3, <1>4, <1>5 DEF Agree
<1>9. u.client.fault # "none" => t.client.fault # "none"
    BY <1>3, <1>5 DEF Keeps
<1> QED BY <1>1, <1>3, <1>5, <1>7, <1>8, <1>9

\* A delta of the answer's text, after which a text block is open.
LEMMA TextFacts ==
    ASSUME NEW s, Shape(s), NEW token, NEW t, t = ClaudeText(s, token)
    PROVE  /\ Keeps(s, t)
           /\ \A k \in {"thinking", "text", "none"} : Agree(s, k) => Agree(t, "text")
<1> DEFINE w == LeaveThinking(s)
           u == IF w.started THEN w
                ELSE [StartBlock(w, "text", Empty) EXCEPT !.started = TRUE]
           v == [u EXCEPT !.hasText = TRUE]
<1>1. /\ Keeps(s, w) /\ w.started = s.started /\ ~w.inThinking
      /\ \A k : Agree(s, k) => Agree(w, IF k = "thinking" THEN "none" ELSE k)
    BY LeaveThinkingFacts
<1>2. t = DeltaOf(v, "text", token)
    BY DEF ClaudeText
<1> HIDE DEF w
<1>3. Keeps(w, u) /\ (Agree(w, "text") \/ Agree(w, "none") => Agree(u, "text"))
    <2>1. CASE w.started
        BY <1>1, <2>1 DEF Keeps, Agree
    <2>2. CASE ~w.started
        <3> DEFINE x == StartBlock(w, "text", Empty)
        <3>1. /\ Keeps(w, x) /\ x.inThinking = w.inThinking /\ x.started = w.started
              /\ Tidy(w, "none") => Tidy(x, "text")
            BY <1>1, StartBlockFacts DEF Keeps
        <3>2. u = [x EXCEPT !.started = TRUE]
            BY <2>2
        <3> HIDE DEF u, v, x
        <3>3. /\ DOMAIN u = DOMAIN x /\ u.index = x.index /\ u.client = x.client
              /\ u.started = TRUE /\ u.inThinking = x.inThinking
              /\ u.completed = x.completed /\ u.outcome = x.outcome
            BY <3>1, <3>2 DEF Keeps, Shape, StateFields
        <3>4. Shape(u) /\ \A k : Tidy(x, k) <=> Tidy(u, k)
            BY <3>1, <3>3, FlagsFacts DEF Keeps
        <3>5. Keeps(w, u)
            BY <3>1, <3>3, <3>4 DEF Keeps
        <3>6. Agree(w, "text") \/ Agree(w, "none") => Agree(u, "text")
            BY <2>2, <1>1, <3>1, <3>3, <3>4 DEF Agree
        <3> QED BY <3>5, <3>6
    <2> QED BY <2>1, <2>2
<1> HIDE DEF u
<1>4. /\ DOMAIN v = DOMAIN u /\ v.index = u.index /\ v.client = u.client
      /\ v.inThinking = u.inThinking /\ v.started = u.started
      /\ v.completed = u.completed /\ v.outcome = u.outcome
    BY <1>3 DEF Keeps, Shape, StateFields
<1> HIDE DEF v
<1>5. Shape(v) /\ \A k : Tidy(u, k) <=> Tidy(v, k)
    BY <1>3, <1>4, FlagsFacts DEF Keeps
<1>6. /\ Keeps(v, t) /\ t.inThinking = v.inThinking /\ t.started = v.started
      /\ Tidy(v, "text") => Tidy(t, "text")
    BY <1>2, <1>5, DeltaOfFacts
<1>7. Keeps(s, t)
    <2>1. Keeps(u, v)
        BY <1>4, <1>5 DEF Keeps
    <2> QED BY <1>1, <1>3, <1>6, <2>1, KeepsTransitive
<1>8. Agree(u, "text") => Agree(t, "text")
    BY <1>4, <1>5, <1>6 DEF Agree
<1>9. \A k \in {"thinking", "text", "none"} : Agree(s, k) => Agree(w, "text") \/ Agree(w, "none")
    BY <1>1
<1> QED BY <1>3, <1>7, <1>8, <1>9

\* Both flags are down, and no block is open unless it is a call's.
LEMMA LeaveBothFacts ==
    ASSUME NEW s, Shape(s), NEW t, t = LeaveText(LeaveThinking(s))
    PROVE  /\ Keeps(s, t) /\ ~t.inThinking /\ ~t.started
           /\ \A k \in {"thinking", "text", "none"} : Agree(s, k) => Agree(t, "none")
           /\ Agree(s, "tool_use") => Agree(t, "tool_use")
<1> DEFINE w == LeaveThinking(s)
<1>1. /\ Keeps(s, w) /\ w.started = s.started /\ ~w.inThinking
      /\ \A k : Agree(s, k) => Agree(w, IF k = "thinking" THEN "none" ELSE k)
    BY LeaveThinkingFacts
<1>2. t = LeaveText(w)
    OBVIOUS
<1> HIDE DEF w
<1>3. /\ Keeps(w, t) /\ t.inThinking = w.inThinking /\ ~t.started
      /\ \A k : Agree(w, k) => Agree(t, IF k = "text" THEN "none" ELSE k)
    BY <1>1, <1>2, LeaveTextFacts DEF Keeps
<1>4. Keeps(s, t)
    BY <1>1, <1>3, KeepsTransitive
<1>5. /\ Agree(s, "thinking") => Agree(w, "none")
      /\ Agree(s, "text") => Agree(w, "text")
      /\ Agree(s, "none") => Agree(w, "none")
      /\ Agree(s, "tool_use") => Agree(w, "tool_use")
    BY <1>1
<1>6. /\ Agree(w, "none") => Agree(t, "none")
      /\ Agree(w, "text") => Agree(t, "none")
      /\ Agree(w, "tool_use") => Agree(t, "tool_use")
    BY <1>3
<1> QED BY <1>1, <1>3, <1>4, <1>5, <1>6

LEMMA CallFacts ==
    ASSUME NEW s, Shape(s), NEW short, NEW t, t = ClaudeCall(s, short)
    PROVE  /\ Keeps(s, t) /\ ~t.started
           /\ \A k \in {"thinking", "text", "none"} : Agree(s, k) => Agree(t, "tool_use")
<1> DEFINE w == LeaveText(LeaveThinking(s))
           u == StartBlock(w, "tool_use", short)
<1>1. /\ Keeps(s, w) /\ ~w.inThinking /\ ~w.started
      /\ \A k \in {"thinking", "text", "none"} : Agree(s, k) => Agree(w, "none")
    BY LeaveBothFacts
<1>2. t = [u EXCEPT !.hasToolUse = TRUE]
    BY DEF ClaudeCall
<1> HIDE DEF w
<1>3. /\ Keeps(w, u) /\ u.inThinking = w.inThinking /\ u.started = w.started
      /\ Tidy(w, "none") => Tidy(u, "tool_use")
    BY <1>1, StartBlockFacts DEF Keeps
<1> HIDE DEF u
<1>4. /\ DOMAIN t = DOMAIN u /\ t.index = u.index /\ t.client = u.client
      /\ t.inThinking = u.inThinking /\ t.started = u.started
      /\ t.completed = u.completed /\ t.outcome = u.outcome
    BY <1>2, <1>3 DEF Keeps, Shape, StateFields
<1>5. Shape(t) /\ \A k : Tidy(u, k) <=> Tidy(t, k)
    BY <1>3, <1>4, FlagsFacts DEF Keeps
<1>6. Keeps(s, t)
    <2>1. Keeps(u, t)
        BY <1>4, <1>5 DEF Keeps
    <2> QED BY <1>1, <1>3, <2>1, KeepsTransitive
<1>7. Agree(w, "none") => Agree(t, "tool_use")
    BY <1>3, <1>4, <1>5 DEF Agree
<1> QED BY <1>1, <1>3, <1>4, <1>6, <1>7

\* The end of a message: one stop more, and the flags down.
LEMMA CloseFacts ==
    ASSUME NEW s, Shape(s), s.client.stops = <<>>, NEW t, t = CloseEvents(s)
    PROVE  /\ Shape(t) /\ ~t.inThinking /\ ~t.started
           /\ t.completed = s.completed /\ t.outcome = s.outcome
           /\ Len(t.client.stops) = 1
           /\ s.client.fault # "none" => t.client.fault # "none"
           /\ \A k \in {"thinking", "text", "none"} : Agree(s, k) => Agree(t, "none")
           /\ Agree(s, "tool_use") => Agree(t, "tool_use")
<1> DEFINE w == LeaveText(LeaveThinking(s))
           stop == IF s.hasToolUse THEN "tool_use" ELSE "end_turn"
<1>1. /\ Keeps(s, w) /\ ~w.inThinking /\ ~w.started
      /\ \A k \in {"thinking", "text", "none"} : Agree(s, k) => Agree(w, "none")
      /\ Agree(s, "tool_use") => Agree(w, "tool_use")
    BY LeaveBothFacts
<1>2. t = [w EXCEPT !.client.stops = Append(w.client.stops, stop)]
    BY DEF CloseEvents
<1> HIDE DEF w, stop
<1>3. /\ DOMAIN t = StateFields /\ t.index = w.index
      /\ t.inThinking = w.inThinking /\ t.started = w.started
      /\ t.completed = w.completed /\ t.outcome = w.outcome
      /\ DOMAIN t.client = ClientFields /\ t.client.blocks = w.client.blocks
      /\ t.client.fault = w.client.fault
      /\ t.client.stops = Append(w.client.stops, stop)
    BY <1>1, <1>2 DEF Keeps, Shape, StateFields, ClientFields
<1>4. IsSeq(t.client.stops) /\ Len(t.client.stops) = 1
    <2>1. w.client.stops = <<>> /\ IsSeq(w.client.stops)
        BY <1>1 DEF Keeps, Shape
    <2>2. /\ IsSeq(Append(w.client.stops, stop))
          /\ Len(Append(w.client.stops, stop)) = Len(w.client.stops) + 1
        BY <2>1, AppendAny
    <2>3. Len(w.client.stops) = 0
        BY <2>1
    <2> QED BY <1>3, <2>2, <2>3
<1>5. Shape(t)
    BY <1>1, <1>3, <1>4 DEF Keeps, Shape
<1>6. \A k : Agree(w, k) => Agree(t, k)
    BY <1>3 DEF Agree, Tidy
<1>7. s.client.fault # "none" => t.client.fault # "none"
    BY <1>1, <1>3 DEF Keeps
<1>8. t.completed = s.completed /\ t.outcome = s.outcome
    BY <1>1, <1>3 DEF Keeps
<1> QED BY <1>1, <1>3, <1>4, <1>5, <1>6, <1>7, <1>8

-----------------------------------------------------------------------------
\* The inductive invariant: where the response is, which block is open, and why a
\* fault is the one that BlocksInOrder excepts.
Stages == {"start", "items", "completed", "cut", "end"}

ItemsOK ==
    /\ IsSeq(items) /\ stage \in Stages
    /\ step # "none" => Len(items) \in DOMAIN items

CallOpen == step = "body" /\ Current.kind = "call" /\ Current.announced

BlockOK ==
    /\ Shape(claude)
    /\ claude.started => \E i \in DOMAIN items : items[i].kind = "message"
    /\ IF claude.client.fault # "none" THEN ReasoningAfterText
       ELSE \E k \in {"thinking", "text", "tool_use", "none"} :
               Agree(claude, k) /\ (CallOpen <=> k = "tool_use")

EndsOK ==
    /\ stage \in {"start", "items", "cut"} =>
          claude.completed = FALSE /\ claude.client.stops = <<>> /\ claude.outcome = "none"
    /\ stage = "completed" =>
          /\ claude.completed = TRUE /\ Len(claude.client.stops) = 1 /\ claude.outcome = "none"
          /\ ~claude.inThinking /\ ~claude.started
    /\ stage = "end" =>
          /\ Len(claude.client.stops) = IF claude.outcome = "success" THEN 1 ELSE 0
          /\ claude.outcome = "success" => ~claude.inThinking /\ ~claude.started

IInv == ItemsOK /\ BlockOK /\ EndsOK

LEMMA NewClaudeFacts ==
    /\ Shape(NewClaude) /\ Agree(NewClaude, "none") /\ ~NewClaude.started
    /\ NewClaude.client.fault = "none" /\ NewClaude.completed = FALSE
    /\ NewClaude.client.stops = <<>> /\ NewClaude.outcome = "none"
<1>1. IsSeq(<<>>)
    <2>1. <<>> \in Seq({})
        OBVIOUS
    <2> QED BY <2>1 DEF IsSeq
<1>2. /\ DOMAIN NewClaude = StateFields /\ DOMAIN NewClaude.client = ClientFields
      /\ NewClaude.client.blocks = <<>> /\ NewClaude.client.stops = <<>>
      /\ NewClaude.client.fault = "none" /\ NewClaude.index = -1
      /\ NewClaude.inThinking = FALSE /\ NewClaude.started = FALSE
      /\ NewClaude.completed = FALSE /\ NewClaude.outcome = "none"
    BY DEF NewClaude, StateFields, ClientFields
<1>3. Len(<<>>) = 0 /\ DOMAIN <<>> = {}
    OBVIOUS
<1> HIDE DEF NewClaude
<1>4. Shape(NewClaude)
    BY <1>1, <1>2, <1>3 DEF Shape
<1>5. Tidy(NewClaude, "none")
    BY <1>2, <1>3 DEF Tidy
<1> QED BY <1>2, <1>4, <1>5 DEF Agree

LEMMA InitHolds == Init => IInv
<1> SUFFICES ASSUME Init PROVE IInv
    OBVIOUS
<1>1. IsSeq(<<>>)
    <2>1. <<>> \in Seq({})
        OBVIOUS
    <2> QED BY <2>1 DEF IsSeq
<1>2. ItemsOK
    BY <1>1 DEF Init, ItemsOK, Stages
<1>3. BlockOK
    BY NewClaudeFacts DEF Init, BlockOK, CallOpen
<1>4. EndsOK
    BY NewClaudeFacts DEF Init, EndsOK
<1> QED BY <1>2, <1>3, <1>4 DEF IInv

LEMMA InvImplies == IInv => BlocksInOrder
<1> SUFFICES ASSUME IInv, claude.client.fault = "none"
             PROVE  /\ claude.outcome = "success" =>
                          \A i \in DOMAIN claude.client.blocks :
                              claude.client.blocks[i].open =>
                                  /\ i = Len(claude.client.blocks)
                                  /\ step = "body" /\ Current.kind = "call"
                    /\ claude.outcome # "none" =>
                          Len(claude.client.stops) = IF claude.outcome = "success" THEN 1 ELSE 0
    BY DEF IInv, BlockOK, BlocksInOrder
<1>1. PICK k \in {"thinking", "text", "tool_use", "none"} :
          Agree(claude, k) /\ (CallOpen <=> k = "tool_use")
    BY DEF IInv, BlockOK
<1>2. claude.outcome # "none" => stage = "end"
    BY DEF IInv, ItemsOK, EndsOK, Stages
<1>3. claude.outcome = "success" => k \in {"tool_use", "none"}
    BY <1>1, <1>2 DEF IInv, EndsOK, Agree
<1>4. ASSUME claude.outcome = "success", NEW i \in DOMAIN claude.client.blocks,
             claude.client.blocks[i].open
      PROVE  i = Len(claude.client.blocks) /\ step = "body" /\ Current.kind = "call"
    <2>1. i = Len(claude.client.blocks) /\ k # "none"
        BY <1>1, <1>4 DEF Agree, Tidy
    <2>2. CallOpen
        BY <1>1, <1>3, <1>4, <2>1
    <2> QED BY <2>1, <2>2 DEF CallOpen
<1> QED BY <1>2, <1>4 DEF IInv, EndsOK

\* A step between events about blocks: the items and the call under way stay.
LEMMA SameItems ==
    ASSUME ItemsOK, UNCHANGED items, step' \in {step, "none"}, stage' \in Stages
    PROVE  ItemsOK' /\ (ReasoningAfterText => ReasoningAfterText')
BY DEF ItemsOK, ReasoningAfterText

LEMMA EndsKept ==
    ASSUME EndsOK, stage \in {"start", "items"}, stage' \in {"start", "items", "cut"},
           Keeps(claude, claude')
    PROVE  EndsOK'
BY DEF EndsOK, Keeps

\* Beginning an item adds it to those there are.
LEMMA BeginFacts ==
    ASSUME IInv, NEW kind, NEW len, NEW name, NEW announced, Begin(kind, len, name, announced)
    PROVE  /\ ItemsOK' /\ (ReasoningAfterText => ReasoningAfterText')
           /\ stage = "items" /\ step = "none" /\ step' = "body" /\ stage' = "items"
           /\ Current'.kind = kind /\ Current'.announced = announced
           /\ \A i \in DOMAIN items : i \in DOMAIN items' /\ items'[i] = items[i]
<1> DEFINE e == [kind |-> kind, name |-> name, announced |-> announced,
                 text |-> [p \in 1 .. len |-> <<Len(items) + 1, p>>]]
<1>1. /\ items' = Append(items, e) /\ e.kind = kind /\ e.announced = announced
      /\ stage = "items" /\ step = "none" /\ step' = "body" /\ stage' = "items"
    BY DEF Begin
<1> HIDE DEF e
<1>2. /\ IsSeq(items') /\ Len(items) \in Nat /\ Len(items') = Len(items) + 1
      /\ DOMAIN items = 1 .. Len(items) /\ DOMAIN items' = 1 .. Len(items) + 1
      /\ items'[Len(items) + 1] = e
      /\ \A i \in 1 .. Len(items) : items'[i] = items[i]
    <2>1. IsSeq(items)
        BY DEF IInv, ItemsOK
    <2>2. LET q == items
          IN  /\ IsSeq(Append(q, e)) /\ Len(q) \in Nat /\ Len(Append(q, e)) = Len(q) + 1
              /\ DOMAIN q = 1 .. Len(q) /\ DOMAIN Append(q, e) = 1 .. Len(q) + 1
              /\ Append(q, e)[Len(q) + 1] = e
              /\ \A i \in 1 .. Len(q) : Append(q, e)[i] = q[i]
        BY <2>1, AppendAny
    <2> QED BY <1>1, <2>2
<1>3. ItemsOK'
    BY <1>1, <1>2 DEF ItemsOK, Stages
<1>4. \A i \in DOMAIN items : i \in DOMAIN items' /\ items'[i] = items[i]
    BY <1>2
<1>5. ReasoningAfterText => ReasoningAfterText'
    BY <1>4 DEF ReasoningAfterText
<1>6. Current' = e
    BY <1>2 DEF Current
<1> QED BY <1>1, <1>3, <1>4, <1>5, <1>6

LEMMA CreatedKeeps == IInv /\ Created => IInv'
<1> SUFFICES ASSUME IInv, Created PROVE IInv'
    OBVIOUS
<1>1. /\ DOMAIN claude' = DOMAIN claude /\ claude'.index = claude.index
      /\ claude'.client = claude.client
      /\ claude'.inThinking = claude.inThinking /\ claude'.started = claude.started
      /\ claude'.completed = claude.completed /\ claude'.outcome = claude.outcome
    BY DEF Created, IInv, BlockOK, Shape, StateFields
<1>2. Shape(claude') /\ \A k : Tidy(claude, k) <=> Tidy(claude', k)
    BY <1>1, FlagsFacts DEF IInv, BlockOK
<1>3. Keeps(claude, claude') /\ \A k : Agree(claude, k) => Agree(claude', k)
    BY <1>1, <1>2 DEF Keeps, Agree
<1>4. stage = "start" /\ stage' = "items" /\ UNCHANGED <<items, step>>
    BY DEF Created
<1>5. ItemsOK' /\ (ReasoningAfterText => ReasoningAfterText')
    BY <1>4, SameItems DEF IInv, Stages
<1>6. BlockOK'
    BY <1>1, <1>2, <1>3, <1>4, <1>5 DEF IInv, BlockOK, CallOpen, Current
<1>7. EndsOK'
    BY <1>3, <1>4, EndsKept DEF IInv
<1> QED BY <1>5, <1>6, <1>7 DEF IInv

LEMMA BeginTextKeeps == ASSUME IInv, NEW kind, NEW len, BeginText(kind, len) PROVE IInv'
<1>1. /\ Begin(kind, len, Empty, TRUE) /\ UNCHANGED claude
      /\ kind \in {"summary", "reasoning", "message"}
    BY DEF BeginText
<1>2. /\ ItemsOK' /\ (ReasoningAfterText => ReasoningAfterText')
      /\ stage = "items" /\ step = "none" /\ step' = "body" /\ stage' = "items"
      /\ Current'.kind = kind
      /\ \A i \in DOMAIN items : i \in DOMAIN items' /\ items'[i] = items[i]
    BY <1>1, BeginFacts
<1>3. ~CallOpen /\ ~CallOpen'
    BY <1>1, <1>2 DEF CallOpen
<1>4. BlockOK'
    BY <1>1, <1>2, <1>3 DEF IInv, BlockOK
<1>5. EndsOK'
    BY <1>1, <1>2 DEF IInv, EndsOK
<1> QED BY <1>2, <1>4, <1>5 DEF IInv

LEMMA BeginCallKeeps ==
    ASSUME IInv, NEW tool, NEW len, NEW announced \in BOOLEAN, BeginCall(tool, len, announced)
    PROVE  IInv'
<1> DEFINE short == ShortName(request.tools, tool)
<1>1. /\ Begin("call", len, short, announced)
      /\ claude' = IF announced THEN ClaudeCall(claude, short) ELSE claude
    BY DEF BeginCall
<1> HIDE DEF short
<1>2. /\ ItemsOK' /\ (ReasoningAfterText => ReasoningAfterText')
      /\ stage = "items" /\ step = "none" /\ step' = "body" /\ stage' = "items"
      /\ Current'.kind = "call" /\ Current'.announced = announced
      /\ \A i \in DOMAIN items : i \in DOMAIN items' /\ items'[i] = items[i]
    BY <1>1, BeginFacts
<1>3. ~CallOpen /\ (CallOpen' <=> announced)
    BY <1>2 DEF CallOpen
<1>4. CASE announced
    <2>1. /\ Keeps(claude, claude') /\ ~claude'.started
          /\ \A k \in {"thinking", "text", "none"} : Agree(claude, k) => Agree(claude', "tool_use")
        BY <1>1, <1>4, CallFacts DEF IInv, BlockOK
    <2>3. claude'.client.fault # "none" => ReasoningAfterText
        BY <1>3, <2>1 DEF IInv, BlockOK, Agree, Tidy
    <2>4. claude'.client.fault = "none" => Agree(claude', "tool_use")
        BY <1>3, <2>1 DEF IInv, BlockOK, Keeps
    <2>5. BlockOK'
        BY <1>2, <1>3, <1>4, <2>1, <2>3, <2>4 DEF BlockOK, Keeps
    <2>6. EndsOK'
        BY <1>2, <2>1, EndsKept DEF IInv
    <2> QED BY <1>2, <2>5, <2>6 DEF IInv
<1>5. CASE ~announced
    <2>1. UNCHANGED claude
        BY <1>1, <1>5
    <2>2. BlockOK'
        BY <1>2, <1>3, <1>5, <2>1 DEF IInv, BlockOK
    <2>3. EndsOK'
        BY <1>2, <2>1 DEF IInv, EndsOK
    <2> QED BY <1>2, <2>2, <2>3 DEF IInv
<1> QED BY <1>4, <1>5

LEMMA DeltaKeeps == IInv /\ Delta => IInv'
<1> SUFFICES ASSUME IInv, Delta PROVE IInv'
    OBVIOUS
<1> DEFINE token == Current.text[sent + 1]
<1>1. /\ stage = "items" /\ step = "body" /\ stage' = stage /\ UNCHANGED <<items, step>>
      /\ \/ Current.kind \in {"summary", "reasoning"} /\ claude' = ClaudeReasoning(claude, token)
         \/ Current.kind = "message" /\ claude' = ClaudeText(claude, token)
         \/ CallOpen /\ claude' = DeltaOf(claude, "tool_use", token)
    BY DEF Delta, CallOpen
<1> HIDE DEF token
<1>2. ItemsOK' /\ (ReasoningAfterText => ReasoningAfterText') /\ (CallOpen' <=> CallOpen)
    BY <1>1, SameItems DEF IInv, Stages, CallOpen, Current
<1>3. Shape(claude) /\ Len(items) \in DOMAIN items
    BY <1>1 DEF IInv, BlockOK, ItemsOK
<1>4. CASE Current.kind \in {"summary", "reasoning"} /\ claude' = ClaudeReasoning(claude, token)
    <2>1. /\ Keeps(claude, claude') /\ claude'.started = claude.started
          /\ Agree(claude, "thinking") \/ Agree(claude, "none") => Agree(claude', "thinking")
          /\ Agree(claude, "text") => claude'.client.fault # "none"
        BY <1>3, <1>4, ReasoningFacts
    <2>2. ~CallOpen
        BY <1>4 DEF CallOpen
    <2>3. claude.started => ReasoningAfterText
        <3>1. SUFFICES ASSUME NEW i \in DOMAIN items, items[i].kind = "message"
                       PROVE  ReasoningAfterText
            BY DEF IInv, BlockOK
        <3>2. i # Len(items) /\ items[Len(items)].kind \in {"summary", "reasoning"}
            BY <1>4, <3>1 DEF Current
        <3>3. i < Len(items)
            <4>1. Len(items) \in Nat /\ DOMAIN items = 1 .. Len(items)
                BY AppendAny DEF IInv, ItemsOK
            <4> QED BY <3>1, <3>2, <4>1
        <3> QED BY <1>3, <3>1, <3>2, <3>3 DEF ReasoningAfterText
    <2>4. claude'.client.fault # "none" => ReasoningAfterText
        <3>1. SUFFICES ASSUME claude'.client.fault # "none", ~ReasoningAfterText
                       PROVE  FALSE
            OBVIOUS
        <3>2. Agree(claude, "thinking") \/ Agree(claude, "none")
            BY <2>2, <2>3, <3>1 DEF IInv, BlockOK, Agree
        <3> QED BY <2>1, <3>1, <3>2 DEF Agree, Tidy
    <2>5. claude'.client.fault = "none" => Agree(claude', "thinking")
        BY <2>1, <2>2 DEF IInv, BlockOK, Keeps
    <2>6. BlockOK'
        BY <1>1, <1>2, <2>1, <2>2, <2>4, <2>5 DEF IInv, BlockOK, Keeps
    <2>7. EndsOK'
        BY <1>1, <2>1, EndsKept DEF IInv
    <2> QED BY <1>2, <2>6, <2>7 DEF IInv
<1>5. CASE Current.kind = "message" /\ claude' = ClaudeText(claude, token)
    <2>1. /\ Keeps(claude, claude')
          /\ \A k \in {"thinking", "text", "none"} : Agree(claude, k) => Agree(claude', "text")
        BY <1>3, <1>5, TextFacts
    <2>2. ~CallOpen /\ \E i \in DOMAIN items' : items'[i].kind = "message"
        BY <1>1, <1>3, <1>5 DEF CallOpen, Current
    <2>3. claude'.client.fault # "none" => ReasoningAfterText
        BY <2>1, <2>2 DEF IInv, BlockOK, Agree, Tidy
    <2>4. claude'.client.fault = "none" => Agree(claude', "text")
        BY <2>1, <2>2 DEF IInv, BlockOK, Keeps
    <2>5. BlockOK'
        BY <1>2, <2>1, <2>2, <2>3, <2>4 DEF BlockOK, Keeps
    <2>6. EndsOK'
        BY <1>1, <2>1, EndsKept DEF IInv
    <2> QED BY <1>2, <2>5, <2>6 DEF IInv
<1>6. CASE CallOpen /\ claude' = DeltaOf(claude, "tool_use", token)
    <2>1. /\ Keeps(claude, claude') /\ claude'.inThinking = claude.inThinking
          /\ claude'.started = claude.started
          /\ Tidy(claude, "tool_use") => Tidy(claude', "tool_use")
        BY <1>3, <1>6, DeltaOfFacts
    <2>2. claude.client.fault = "none" => Agree(claude', "tool_use")
        BY <1>6, <2>1 DEF IInv, BlockOK, Agree
    <2>3. claude'.client.fault # "none" => ReasoningAfterText
        BY <2>2 DEF IInv, BlockOK, Agree, Tidy
    <2>4. claude'.client.fault = "none" => Agree(claude', "tool_use")
        BY <2>1, <2>2 DEF Keeps
    <2>5. BlockOK'
        BY <1>1, <1>2, <1>6, <2>1, <2>3, <2>4 DEF IInv, BlockOK, Keeps
    <2>6. EndsOK'
        BY <1>1, <2>1, EndsKept DEF IInv
    <2> QED BY <1>2, <2>5, <2>6 DEF IInv
<1> QED BY <1>1, <1>4, <1>5, <1>6

LEMMA TextDoneKeeps == IInv /\ TextDone => IInv'
<1> SUFFICES ASSUME IInv, TextDone PROVE IInv'
    OBVIOUS
<1>1. /\ stage = "items" /\ step = "body" /\ stage' = stage /\ step' = "none" /\ UNCHANGED items
      /\ Current.kind # "call"
      /\ claude' = LeaveThinking(claude) \/ UNCHANGED claude
    BY DEF TextDone
<1>2. ItemsOK' /\ (ReasoningAfterText => ReasoningAfterText') /\ ~CallOpen /\ ~CallOpen'
    BY <1>1, SameItems DEF IInv, Stages, CallOpen
<1>3. Shape(claude)
    BY DEF IInv, BlockOK
<1>4. CASE claude' = LeaveThinking(claude)
    <2>1. /\ Keeps(claude, claude') /\ claude'.started = claude.started
          /\ \A k : Agree(claude, k) => Agree(claude', IF k = "thinking" THEN "none" ELSE k)
        BY <1>3, <1>4, LeaveThinkingFacts
    <2>2. claude.client.fault = "none" => Agree(claude', "none") \/ Agree(claude', "text")
        BY <1>2, <2>1 DEF IInv, BlockOK
    <2>3. claude'.client.fault # "none" => ReasoningAfterText
        BY <2>2 DEF IInv, BlockOK, Agree, Tidy
    <2>4. claude'.client.fault = "none" => Agree(claude', "none") \/ Agree(claude', "text")
        BY <2>1, <2>2 DEF Keeps
    <2>5. BlockOK'
        BY <1>1, <1>2, <2>1, <2>3, <2>4 DEF IInv, BlockOK, Keeps
    <2>6. EndsOK'
        BY <1>1, <2>1, EndsKept DEF IInv
    <2> QED BY <1>2, <2>5, <2>6 DEF IInv
<1>5. CASE UNCHANGED claude
    <2>1. BlockOK'
        BY <1>1, <1>2, <1>5 DEF IInv, BlockOK
    <2>2. EndsOK'
        BY <1>1, <1>5 DEF IInv, EndsOK
    <2> QED BY <1>2, <2>1, <2>2 DEF IInv
<1> QED BY <1>1, <1>4, <1>5

LEMMA ArgsDoneKeeps == IInv /\ ArgsDone => IInv'
<1> SUFFICES ASSUME IInv, ArgsDone PROVE IInv'
    OBVIOUS
<1>1. /\ stage = "items" /\ stage' = stage /\ step' = "args" /\ UNCHANGED items
      /\ step = "body" /\ CallOpen /\ claude' = StopBlock(claude)
    BY DEF ArgsDone, CallOpen
<1>2. ItemsOK' /\ (ReasoningAfterText => ReasoningAfterText') /\ ~CallOpen'
    BY <1>1 DEF IInv, ItemsOK, Stages, CallOpen, ReasoningAfterText
<1>3. /\ Keeps(claude, claude') /\ claude'.inThinking = claude.inThinking
      /\ claude'.started = claude.started
      /\ \A k : k # "none" /\ Tidy(claude, k) => Tidy(claude', "none")
    BY <1>1, StopBlockFacts DEF IInv, BlockOK
<1>4. claude.client.fault = "none" => Agree(claude', "none")
    BY <1>1, <1>3 DEF IInv, BlockOK, Agree
<1>5. claude'.client.fault # "none" => ReasoningAfterText
    BY <1>4 DEF IInv, BlockOK, Agree, Tidy
<1>6. claude'.client.fault = "none" => Agree(claude', "none")
    BY <1>3, <1>4 DEF Keeps
<1>7. BlockOK'
    BY <1>1, <1>2, <1>3, <1>5, <1>6 DEF IInv, BlockOK, Keeps
<1>8. EndsOK'
    BY <1>1, <1>3, EndsKept DEF IInv
<1> QED BY <1>2, <1>7, <1>8 DEF IInv

LEMMA CallDoneKeeps == IInv /\ CallDone => IInv'
<1> SUFFICES ASSUME IInv, CallDone PROVE IInv'
    OBVIOUS
<1>1. /\ stage = "items" /\ stage' = stage /\ step' = "none" /\ UNCHANGED <<items, claude>>
      /\ ~CallOpen
    BY DEF CallDone, CallOpen
<1>2. ItemsOK' /\ (ReasoningAfterText => ReasoningAfterText') /\ ~CallOpen'
    BY <1>1, SameItems DEF IInv, Stages, CallOpen
<1>3. BlockOK'
    BY <1>1, <1>2 DEF IInv, BlockOK
<1>4. EndsOK'
    BY <1>1 DEF IInv, EndsOK
<1> QED BY <1>2, <1>3, <1>4 DEF IInv

LEMMA CompletedKeeps == IInv /\ Completed => IInv'
<1> SUFFICES ASSUME IInv, Completed PROVE IInv'
    OBVIOUS
<1> DEFINE c == CloseEvents(claude)
<1>1. /\ stage = "items" /\ step = "none" /\ stage' = "completed" /\ UNCHANGED <<items, step>>
      /\ claude' = [c EXCEPT !.completed = TRUE]
    BY DEF Completed
<1>2. ItemsOK' /\ (ReasoningAfterText => ReasoningAfterText') /\ ~CallOpen /\ ~CallOpen'
    BY <1>1, SameItems DEF IInv, Stages, CallOpen
<1>3. /\ Shape(claude) /\ claude.client.stops = <<>> /\ claude.outcome = "none"
    BY <1>1 DEF IInv, BlockOK, EndsOK
<1>4. /\ Shape(c) /\ ~c.inThinking /\ ~c.started
      /\ c.completed = claude.completed /\ c.outcome = claude.outcome
      /\ Len(c.client.stops) = 1
      /\ claude.client.fault # "none" => c.client.fault # "none"
      /\ \A k \in {"thinking", "text", "none"} : Agree(claude, k) => Agree(c, "none")
      /\ Agree(claude, "tool_use") => Agree(c, "tool_use")
    BY <1>3, CloseFacts
<1>5. SUFFICES ASSUME NEW d, d = c, /\ claude' = [d EXCEPT !.completed = TRUE]
               PROVE  IInv'
    BY <1>1
<1> HIDE DEF c
<1>6. /\ DOMAIN claude' = DOMAIN d /\ claude'.index = d.index /\ claude'.client = d.client
      /\ claude'.inThinking = d.inThinking /\ claude'.started = d.started
      /\ claude'.completed = TRUE /\ claude'.outcome = d.outcome
    BY <1>4, <1>5 DEF Shape, StateFields
<1>7. Shape(claude') /\ \A k : Tidy(d, k) <=> Tidy(claude', k)
    BY <1>4, <1>5, <1>6, FlagsFacts
<1>8. claude.client.fault = "none" => Agree(claude', "none")
    BY <1>2, <1>4, <1>5, <1>6, <1>7 DEF IInv, BlockOK, Agree
<1>9. BlockOK'
    BY <1>2, <1>4, <1>5, <1>6, <1>7, <1>8 DEF IInv, BlockOK, Agree, Tidy
<1>10. EndsOK'
    BY <1>1, <1>3, <1>4, <1>5, <1>6 DEF EndsOK
<1> QED BY <1>2, <1>9, <1>10 DEF IInv

LEMMA EndOfBodyKeeps == IInv /\ EndOfBody => IInv'
<1> SUFFICES ASSUME IInv, EndOfBody PROVE IInv'
    OBVIOUS
<1>1. /\ stage \in {"start", "items"} /\ stage' = "cut" /\ UNCHANGED <<items, step, claude>>
    BY DEF EndOfBody
<1>2. ItemsOK' /\ (ReasoningAfterText => ReasoningAfterText') /\ (CallOpen' <=> CallOpen)
    BY <1>1, SameItems DEF IInv, Stages, CallOpen, Current
<1>3. BlockOK'
    BY <1>1, <1>2 DEF IInv, BlockOK
<1>4. EndsOK'
    BY <1>1 DEF IInv, EndsOK
<1> QED BY <1>2, <1>3, <1>4 DEF IInv

LEMMA ReadFailsKeeps == IInv /\ ReadFails => IInv'
<1> SUFFICES ASSUME IInv, ReadFails PROVE IInv'
    OBVIOUS
<1>1. /\ stage \in {"start", "items"} /\ stage' = "end" /\ UNCHANGED <<items, step>>
      /\ claude' = [claude EXCEPT !.outcome = "error"]
    BY DEF ReadFails
<1>2. ItemsOK' /\ (ReasoningAfterText => ReasoningAfterText') /\ (CallOpen' <=> CallOpen)
    BY <1>1, SameItems DEF IInv, Stages, CallOpen, Current
<1>3. /\ DOMAIN claude' = DOMAIN claude /\ claude'.index = claude.index
      /\ claude'.client = claude.client
      /\ claude'.inThinking = claude.inThinking /\ claude'.started = claude.started
      /\ claude'.outcome = "error"
    BY <1>1 DEF IInv, BlockOK, Shape, StateFields
<1>4. Shape(claude') /\ \A k : Agree(claude, k) => Agree(claude', k)
    BY <1>3, FlagsFacts DEF IInv, BlockOK, Agree
<1>5. BlockOK'
    BY <1>1, <1>2, <1>3, <1>4 DEF IInv, BlockOK
<1>6. Len(claude'.client.stops) = 0
    <2>1. claude.client.stops = <<>>
        BY <1>1 DEF IInv, EndsOK
    <2> QED BY <1>3, <2>1
<1>7. EndsOK'
    BY <1>1, <1>3, <1>6 DEF EndsOK
<1> QED BY <1>2, <1>5, <1>7 DEF IInv

LEMMA FinishKeeps == IInv /\ Finish => IInv'
<1> SUFFICES ASSUME IInv, Finish PROVE IInv'
    OBVIOUS
<1>1. /\ stage \in {"completed", "cut"} /\ stage' = "end" /\ UNCHANGED <<items, step>>
      /\ claude' = ClaudeEnd(claude)
    BY DEF Finish
<1>2. ItemsOK' /\ (ReasoningAfterText => ReasoningAfterText') /\ (CallOpen' <=> CallOpen)
    BY <1>1, SameItems DEF IInv, Stages, CallOpen, Current
<1>3. \E d, o : /\ claude' = [d EXCEPT !.outcome = o] /\ Shape(d)
                /\ \/ d = claude /\ o = "empty" /\ stage = "cut"
                   \/ d = claude /\ o = "success" /\ stage = "completed"
                   \/ d = CloseEvents(claude) /\ o = "success" /\ stage = "cut"
    <2>1. Shape(claude) /\ (stage = "completed" <=> claude.completed = TRUE)
          /\ claude.completed \in BOOLEAN
          /\ (stage = "cut" => claude.client.stops = <<>>)
        BY <1>1 DEF IInv, BlockOK, EndsOK
    <2>2. stage = "cut" => Shape(CloseEvents(claude))
        BY <2>1, CloseFacts
    <2> QED BY <1>1, <2>1, <2>2 DEF ClaudeEnd
<1>4. PICK d, o : /\ claude' = [d EXCEPT !.outcome = o] /\ Shape(d)
                  /\ \/ d = claude /\ o = "empty" /\ stage = "cut"
                     \/ d = claude /\ o = "success" /\ stage = "completed"
                     \/ d = CloseEvents(claude) /\ o = "success" /\ stage = "cut"
    BY <1>3
<1>5. /\ DOMAIN claude' = DOMAIN d /\ claude'.index = d.index /\ claude'.client = d.client
      /\ claude'.inThinking = d.inThinking /\ claude'.started = d.started
      /\ claude'.outcome = o
    BY <1>4 DEF Shape, StateFields
<1>6. Shape(claude') /\ \A k : Agree(d, k) => Agree(claude', k)
    BY <1>4, <1>5, FlagsFacts DEF Agree
<1>7. ASSUME stage = "cut", o = "success"
      PROVE  /\ ~d.started /\ ~d.inThinking /\ Len(d.client.stops) = 1
             /\ claude.client.fault # "none" => d.client.fault # "none"
             /\ \A k \in {"thinking", "text", "none"} : Agree(claude, k) => Agree(d, "none")
             /\ Agree(claude, "tool_use") => Agree(d, "tool_use")
    <2>1. d = CloseEvents(claude)
        BY <1>4, <1>7
    <2>2. Shape(claude) /\ claude.client.stops = <<>>
        BY <1>7 DEF IInv, BlockOK, EndsOK
    <2> QED BY <2>1, <2>2, CloseFacts
<1>8. BlockOK'
    <2>1. CASE d = claude
        BY <1>1, <1>2, <1>5, <1>6, <2>1 DEF IInv, BlockOK
    <2>2. CASE stage = "cut" /\ o = "success"
        <3>1. claude.client.fault = "none" =>
                 \E k \in {"tool_use", "none"} : Agree(d, k) /\ (CallOpen <=> k = "tool_use")
            BY <1>7, <2>2 DEF IInv, BlockOK
        <3>2. claude'.client.fault # "none" => ReasoningAfterText
            BY <1>5, <3>1 DEF IInv, BlockOK, Agree, Tidy
        <3>3. claude'.client.fault = "none" => claude.client.fault = "none"
            BY <1>5, <1>7, <2>2
        <3> QED BY <1>2, <1>5, <1>6, <1>7, <2>2, <3>1, <3>2, <3>3 DEF BlockOK
    <2> QED BY <1>4, <2>1, <2>2
<1>9. EndsOK'
    <2>1. stage = "completed" => /\ Len(claude.client.stops) = 1
                                 /\ ~claude.inThinking /\ ~claude.started
        BY DEF IInv, EndsOK
    <2>2. stage = "cut" => Len(claude.client.stops) = 0
        <3>1. stage = "cut" => claude.client.stops = <<>>
            BY DEF IInv, EndsOK
        <3> QED BY <3>1
    <2>3. CASE stage = "completed"
        BY <1>1, <1>4, <1>5, <2>1, <2>3 DEF EndsOK
    <2>4. CASE stage = "cut" /\ o = "success"
        BY <1>1, <1>5, <1>7, <2>4 DEF EndsOK
    <2>5. CASE stage = "cut" /\ o = "empty"
        BY <1>1, <1>4, <1>5, <2>2, <2>5 DEF EndsOK
    <2> QED BY <1>4, <2>3, <2>4, <2>5
<1> QED BY <1>2, <1>8, <1>9 DEF IInv

LEMMA AskAgainKeeps == AskAgain => IInv'
<1> SUFFICES ASSUME AskAgain PROVE IInv'
    OBVIOUS
<1>1. stage' = "start" /\ items' = <<>> /\ step' = "none" /\ claude' = NewClaude
    BY DEF AskAgain
<1>2. IsSeq(<<>>)
    <2>1. <<>> \in Seq({})
        OBVIOUS
    <2> QED BY <2>1 DEF IsSeq
<1>3. ItemsOK'
    BY <1>1, <1>2 DEF ItemsOK, Stages
<1>4. BlockOK'
    BY <1>1, NewClaudeFacts DEF BlockOK, CallOpen
<1>5. EndsOK'
    BY <1>1, NewClaudeFacts DEF EndsOK
<1> QED BY <1>3, <1>4, <1>5 DEF IInv

LEMMA StepKeeps == IInv /\ [ExchangeNext]_vars => IInv'
<1> SUFFICES ASSUME IInv, [ExchangeNext]_vars PROVE IInv'
    OBVIOUS
<1>1. CASE Created
    BY <1>1, CreatedKeeps
<1>2. ASSUME NEW len \in 0 .. MaxTokens, NEW kind \in {"summary", "reasoning", "message"},
             BeginText(kind, len)
      PROVE  IInv'
    BY <1>2, BeginTextKeeps
<1>3. ASSUME NEW len \in 0 .. MaxTokens, NEW tool \in ToSet(request.tools),
             NEW announced \in BOOLEAN, BeginCall(tool, len, announced)
      PROVE  IInv'
    BY <1>3, BeginCallKeeps
<1>4. CASE Delta
    BY <1>4, DeltaKeeps
<1>5. CASE TextDone
    BY <1>5, TextDoneKeeps
<1>6. CASE ArgsDone
    BY <1>6, ArgsDoneKeeps
<1>7. CASE CallDone
    BY <1>7, CallDoneKeeps
<1>8. CASE Completed
    BY <1>8, CompletedKeeps
<1>9. CASE EndOfBody
    BY <1>9, EndOfBodyKeeps
<1>10. CASE ReadFails
    BY <1>10, ReadFailsKeeps
<1>11. CASE Finish
    BY <1>11, FinishKeeps
<1>12. CASE AskAgain
    BY <1>12, AskAgainKeeps
<1>13. CASE UNCHANGED vars
    <2>1. UNCHANGED <<stage, items, step, claude>>
        BY <1>13 DEF vars
    <2> QED BY <2>1 DEF IInv, ItemsOK, BlockOK, EndsOK, CallOpen, Current, ReasoningAfterText
<1> QED BY <1>1, <1>2, <1>3, <1>4, <1>5, <1>6, <1>7, <1>8, <1>9, <1>10, <1>11, <1>12, <1>13
        DEF ExchangeNext, Next

\* However long the response and in whatever order its items and events come, and
\* however often the client asks again: no event the Anthropic client is sent is
\* out of place but those after reasoning that followed text, and an answer that
\* was not broken off closes its blocks and stops once.
THEOREM ClaudeBlocksInOrder == ExchangeSpec => []BlocksInOrder
<1>1. Init => IInv
    BY InitHolds
<1>2. IInv /\ [ExchangeNext]_vars => IInv'
    BY StepKeeps
<1>3. IInv => BlocksInOrder
    BY InvImplies
<1> QED BY <1>1, <1>2, <1>3, PTL DEF ExchangeSpec

-----------------------------------------------------------------------------
(***************************************************************************)
(* The reasoning effort.                                                   *)
(***************************************************************************)
\* Of three settings the first that is set counts.
LEMMA FirstOfThree ==
    ASSUME NEW a, NEW b, NEW c
    PROVE  FirstSet(<<a, b, c>>) = IF a # "" THEN a ELSE IF b # "" THEN b ELSE c
<1> DEFINE none == ""
           s == <<a, b, c>>
           set == {i \in DOMAIN s : s[i] # none}
           m == Min(set)
<1>1. DOMAIN s = {1, 2, 3} /\ s[1] = a /\ s[2] = b /\ s[3] = c
  OBVIOUS
<1>2. FirstSet(s) = IF set = {} THEN none ELSE s[m]
  BY DEF FirstSet
<1> SUFFICES FirstSet(s) = IF a # none THEN a ELSE IF b # none THEN b ELSE c
  OBVIOUS
<1> HIDE DEF s, none
<1>3. \A i : i \in set <=> i \in {1, 2, 3} /\ s[i] # none
  BY <1>1
<1>4. ASSUME set # {}
      PROVE  m \in set /\ \A i \in set : m <= i
  <2>1. \E n \in set : \A i \in set : n <= i
    <3>1. CASE 1 \in set
      BY <1>3, <3>1
    <3>2. CASE 1 \notin set /\ 2 \in set
      BY <1>3, <3>2
    <3>3. CASE 1 \notin set /\ 2 \notin set
      BY <1>3, <1>4, <3>3
    <3> QED
      BY <3>1, <3>2, <3>3
  <2> HIDE DEF set
  <2> QED
    BY <2>1 DEF Min
<1> HIDE DEF set, m
<1>5. CASE a # none
  <2>1. 1 \in set
    BY <1>1, <1>3, <1>5
  <2>2. m \in set /\ m <= 1
    BY <1>4, <2>1
  <2>3. m = 1
    BY <1>3, <2>2
  <2> QED
    BY <1>1, <1>2, <1>5, <2>1, <2>3
<1>6. CASE a = none /\ b # none
  <2>1. 2 \in set /\ 1 \notin set
    BY <1>1, <1>3, <1>6
  <2>2. m \in set /\ m <= 2
    BY <1>4, <2>1
  <2>3. m = 2
    BY <1>3, <2>1, <2>2
  <2> QED
    BY <1>1, <1>2, <1>6, <2>1, <2>3
<1>7. CASE a = none /\ b = none /\ c # none
  <2>1. 3 \in set /\ 1 \notin set /\ 2 \notin set
    BY <1>1, <1>3, <1>7
  <2>2. m = 3
    BY <1>3, <1>4, <2>1
  <2> QED
    BY <1>1, <1>2, <1>7, <2>1, <2>2
<1>8. CASE a = none /\ b = none /\ c = none
  <2>1. set = {}
    BY <1>1, <1>3, <1>8
  <2> QED
    BY <1>2, <1>8, <2>1
<1> QED
  BY <1>5, <1>6, <1>7, <1>8

\* However the effort is set in its four ways, the two translators and
\* ApplyThinking ask for a level the client set, and for the same one unless
\* variant comes with another setting.
THEOREM EffortIsTheClients == ExchangeSpec => []EffortAsAsked
<1>1. EffortAsAsked
  <2> DEFINE none == ""
             e == request.effort
             suffix == SuffixEffort(e)
             asked == {suffix, e.reasoning, e.reasoning_effort, e.variant} \ {none}
             applied == ApplyThinking(e)
  <2>1. applied = IF suffix # none THEN suffix ELSE IF e.reasoning # none THEN e.reasoning
                  ELSE IF e.reasoning_effort # none THEN e.reasoning_effort ELSE e.variant
    BY FirstOfThree DEF ApplyThinking
  <2>2. Effort(e, "messages") = IF e.reasoning_effort # none THEN e.reasoning_effort
                                ELSE IF applied # none THEN applied ELSE e.variant
    BY FirstOfThree DEF Effort
  <2>3. Effort(e, "input") = IF e.reasoning_effort # none THEN e.reasoning_effort
                             ELSE IF e.variant # none THEN e.variant ELSE applied
    BY FirstOfThree DEF Effort
  <2> HIDE DEF e, suffix, applied, none
  <2>4. \A path \in {"messages", "input"} :
           Effort(e, path) \in (IF asked = {} THEN {none} ELSE asked)
    BY <2>1, <2>2, <2>3
  <2>5. e.variant = none => Effort(e, "messages") = Effort(e, "input")
    BY <2>2, <2>3
  <2> QED
    BY <2>4, <2>5 DEF EffortAsAsked, e, suffix, none
<1> QED
  BY <1>1, PTL

-----------------------------------------------------------------------------
(***************************************************************************)
(* Induction.                                                              *)
(***************************************************************************)
\* A set of natural numbers that is not empty has a least one.
LEMMA LeastNatural ==
    ASSUME NEW T, T \subseteq Nat, T # {}
    PROVE  \E n \in T : \A m \in T : n <= m
<1> DEFINE R == OpToRel(<, Nat)
<1>1. \A m, n \in Nat : <<m, n>> \in R <=> m < n
  BY DEF OpToRel
<1>2. IsWellFoundedOn(R, Nat)
  BY NatLessThanWellFounded
<1> HIDE DEF R
<1>3. PICK n \in T : \A m \in T : <<m, n>> \notin R
  BY <1>2, WFMin
<1>4. \A m \in T : ~(m < n) /\ m \in Nat /\ n \in Nat
  BY <1>1, <1>3
<1>5. \A m \in T : n <= m
  BY <1>4
<1> QED
  BY <1>5

\* Induction: a set that has 0, and with n also n + 1, has every number.
LEMMA AllNaturals ==
    ASSUME NEW T, 0 \in T, \A n \in Nat : n \in T => n + 1 \in T
    PROVE  Nat \subseteq T
<1> SUFFICES ASSUME Nat \ T # {} PROVE FALSE
  OBVIOUS
<1>1. PICK n \in Nat \ T : \A m \in Nat \ T : n <= m
  <2>1. Nat \ T \subseteq Nat
    OBVIOUS
  <2> QED
    BY <2>1, LeastNatural
<1>2. n # 0 /\ n \in Nat
  BY <1>1
<1>3. n - 1 \in Nat /\ (n - 1) + 1 = n /\ ~(n <= n - 1)
  BY <1>2
<1>4. n - 1 \in T
  BY <1>1, <1>3
<1>5. n \in T
  BY <1>3, <1>4
<1> QED
  BY <1>1, <1>5
\* A set of numbers up to n has a greatest one.
LEMMA GreatestNatural ==
    ASSUME NEW n \in Nat, NEW I, I \subseteq 1 .. n, I # {}
    PROVE  Max(I) \in I /\ \A j \in I : Max(I) >= j
<1> DEFINE T == {n - i : i \in I}
<1>1. T \subseteq Nat /\ T # {}
  <2>1. \A i \in I : n - i \in Nat
    OBVIOUS
  <2>2. PICK i \in I : TRUE
    OBVIOUS
  <2>3. n - i \in T
    BY <2>2
  <2> QED
    BY <2>1, <2>3
<1>2. PICK t \in T : \A m \in T : t <= m
  BY <1>1, LeastNatural
<1>3. PICK i \in I : t = n - i
  OBVIOUS
<1>4. \A j \in I : i >= j
  <2> SUFFICES ASSUME NEW j \in I PROVE i >= j
    OBVIOUS
  <2>1. n - i <= n - j
    BY <1>2, <1>3
  <2> QED
    BY <2>1
<1>5. \E x \in I : \A y \in I : x >= y
  BY <1>4
<1> QED
  BY <1>5 DEF Max

-----------------------------------------------------------------------------
(***************************************************************************)
(* Lists put together from lists, and lists with elements left out.        *)
(***************************************************************************)
\* FlattenSeq goes from list to list, keeping what it has.
Flattened(f, qs) ==
    f = [i \in 1 .. Len(qs) |-> IF i = 1 THEN qs[i] ELSE f[i - 1] \o qs[i]]

LEMMA FlattenedExists ==
    ASSUME NEW S, NEW qs \in Seq(Seq(S))
    PROVE  \E f : Flattened(f, qs) /\ \A i \in 1 .. Len(qs) : f[i] \in Seq(S)
<1> DEFINE G(f, k) == /\ f = [i \in 1 .. k |-> IF i = 1 THEN qs[i] ELSE f[i - 1] \o qs[i]]
                      /\ \A i \in 1 .. k : f[i] \in Seq(S)
           T == {k \in Nat : k <= Len(qs) => \E f : G(f, k)}
<1>0. Len(qs) \in Nat /\ \A i \in 1 .. Len(qs) : qs[i] \in Seq(S)
  OBVIOUS
<1>1. 0 \in T
  <2>1. G(<<>>, 0)
    OBVIOUS
  <2> QED
    BY <2>1, Zenon
<1>2. ASSUME NEW k \in Nat, k \in T, k + 1 <= Len(qs)
      PROVE  \E f : G(f, k + 1)
  <2>0. k <= Len(qs)
    BY <1>0, <1>2
  <2>1. PICK f : G(f, k)
    BY <1>2, <2>0, Zenon
  <2>2. /\ \A i \in 1 .. k : f[i] = IF i = 1 THEN qs[i] ELSE f[i - 1] \o qs[i]
        /\ \A i \in 1 .. k : f[i] \in Seq(S)
    BY <2>1
  <2> DEFINE g == [i \in 1 .. k + 1 |-> IF i <= k THEN f[i]
                                         ELSE IF i = 1 THEN qs[i] ELSE f[k] \o qs[i]]
  <2>3. \A i \in 1 .. k + 1 : g[i] = IF i <= k THEN f[i]
                                      ELSE IF i = 1 THEN qs[i] ELSE f[k] \o qs[i]
    OBVIOUS
  <2>4. g = [i \in 1 .. k + 1 |-> g[i]]
    OBVIOUS
  <2> HIDE DEF g
  <2>5. \A i \in 1 .. k + 1 : /\ g[i] = IF i = 1 THEN qs[i] ELSE g[i - 1] \o qs[i]
                              /\ g[i] \in Seq(S)
    <3> SUFFICES ASSUME NEW i \in 1 .. k + 1
                 PROVE  /\ g[i] = IF i = 1 THEN qs[i] ELSE g[i - 1] \o qs[i]
                        /\ g[i] \in Seq(S)
      OBVIOUS
    <3> HIDE DEF G, T
    <3>1. CASE i <= k
      <4>1. i \in 1 .. k /\ g[i] = f[i]
        BY <2>3, <3>1
      <4>2. i # 1 => i - 1 \in 1 .. k + 1 /\ i - 1 <= k
        BY <3>1
      <4>3. i # 1 => g[i - 1] = f[i - 1]
        BY <2>3, <4>2
      <4> QED
        BY <2>2, <4>1, <4>3
    <3>2. CASE i = k + 1 /\ k = 0
      BY <1>0, <1>2, <2>3, <3>2
    <3>3. CASE i = k + 1 /\ k # 0
      <4>1. k \in 1 .. k + 1 /\ k <= k /\ k \in 1 .. k /\ i - 1 = k /\ i # 1 /\ ~(i <= k)
            /\ i \in 1 .. Len(qs)
        BY <1>0, <1>2, <3>3
      <4>2. g[k] = f[k] /\ f[k] \in Seq(S) /\ qs[i] \in Seq(S)
        BY <1>0, <2>2, <2>3, <4>1
      <4>3. g[i] = f[k] \o qs[i]
        BY <2>3, <4>1
      <4>4. f[k] \o qs[i] \in Seq(S)
        BY <4>2
      <4>5. g[i - 1] = f[k]
        BY <4>1, <4>2
      <4> QED
        BY <4>1, <4>3, <4>4, <4>5
    <3> QED
      BY <3>1, <3>2, <3>3
  <2>6. g = [i \in 1 .. k + 1 |-> IF i = 1 THEN qs[i] ELSE g[i - 1] \o qs[i]]
    BY <2>4, <2>5
  <2>7. G(g, k + 1)
    BY <2>5, <2>6
  <2> QED
    BY <2>7, Zenon
<1>3. ASSUME NEW k \in Nat, k \in T PROVE k + 1 \in T
  <2>1. k + 1 \in Nat
    OBVIOUS
  <2> QED
    BY <1>2, <1>3, <2>1, Zenon
<1>4. \E f : G(f, Len(qs))
  <2>1. Len(qs) \in T
    <3> HIDE DEF T
    <3> QED
      BY <1>0, <1>1, <1>3, AllNaturals
  <2>2. Len(qs) <= Len(qs)
    BY <1>0
  <2> QED
    BY <2>1, <2>2, Zenon
<1> QED
  BY <1>4 DEF Flattened

LEMMA FlattenOf ==
    ASSUME NEW S, NEW qs \in Seq(Seq(S)), Len(qs) # 0
    PROVE  \E f : /\ Flattened(f, qs) /\ FlattenSeq(qs) = f[Len(qs)]
                  /\ \A i \in 1 .. Len(qs) : f[i] \in Seq(S)
<1> DEFINE f == CHOOSE f : f = [i \in 1 .. Len(qs) |-> IF i = 1 THEN qs[i] ELSE f[i - 1] \o qs[i]]
<1>1. FlattenSeq(qs) = f[Len(qs)]
  BY DEF FlattenSeq
<1>2. PICK g : Flattened(g, qs) /\ \A i \in 1 .. Len(qs) : g[i] \in Seq(S)
  BY FlattenedExists
<1>3. f = [i \in 1 .. Len(qs) |-> IF i = 1 THEN qs[i] ELSE f[i - 1] \o qs[i]]
  BY <1>2, Zenon DEF Flattened
<1> HIDE DEF f
<1>4. Flattened(f, qs)
  BY <1>3 DEF Flattened
<1>5. \A i \in 1 .. Len(qs) : f[i] = g[i]
  <2> DEFINE T == {k \in Nat : k \in 1 .. Len(qs) => f[k] = g[k]}
  <2>1. 0 \in T
    OBVIOUS
  <2>2. ASSUME NEW k \in Nat, k \in T
        PROVE  k + 1 \in T
    <3> SUFFICES ASSUME k + 1 \in 1 .. Len(qs) PROVE f[k + 1] = g[k + 1]
      OBVIOUS
    <3>1. /\ f[k + 1] = IF k + 1 = 1 THEN qs[k + 1] ELSE f[(k + 1) - 1] \o qs[k + 1]
          /\ g[k + 1] = IF k + 1 = 1 THEN qs[k + 1] ELSE g[(k + 1) - 1] \o qs[k + 1]
      BY <1>2, <1>4 DEF Flattened
    <3>2. (k + 1) - 1 = k /\ (k + 1 # 1 => k \in 1 .. Len(qs))
      OBVIOUS
    <3>3. k + 1 # 1 => f[k] = g[k]
      BY <2>2, <3>2
    <3> QED
      BY <3>1, <3>2, <3>3
  <2> HIDE DEF T
  <2>3. Nat \subseteq T
    BY <2>1, <2>2, AllNaturals
  <2> QED
    BY <2>3 DEF T
<1> QED
  BY <1>1, <1>2, <1>4, <1>5

LEMMA FlattenSnoc ==
    ASSUME NEW S, NEW qs \in Seq(Seq(S)), NEW q \in Seq(S)
    PROVE  FlattenSeq(Append(qs, q)) = FlattenSeq(qs) \o q /\ FlattenSeq(qs) \in Seq(S)
<1> DEFINE rs == Append(qs, q)
           n == Len(qs)
<1>1. /\ rs \in Seq(Seq(S)) /\ Len(rs) = n + 1 /\ n \in Nat /\ rs[n + 1] = q
      /\ \A i \in 1 .. n : rs[i] = qs[i]
  OBVIOUS
<1> HIDE DEF rs
<1>2. PICK g : /\ Flattened(g, rs) /\ FlattenSeq(rs) = g[Len(rs)]
               /\ \A i \in 1 .. Len(rs) : g[i] \in Seq(S)
  <2>1. Len(rs) # 0
    BY <1>1
  <2> QED
    BY <1>1, <2>1, FlattenOf
<1>3. \A i \in 1 .. n + 1 : g[i] = IF i = 1 THEN rs[i] ELSE g[i - 1] \o rs[i]
  BY <1>1, <1>2 DEF Flattened
<1>4. CASE n = 0
  <2>1. qs = <<>> /\ FlattenSeq(qs) = <<>>
    BY <1>4 DEF FlattenSeq
  <2>2. FlattenSeq(rs) = q
    BY <1>1, <1>2, <1>3, <1>4
  <2>3. <<>> \o q = q
    OBVIOUS
  <2>4. <<>> \in Seq(S)
    OBVIOUS
  <2>5. FlattenSeq(rs) = FlattenSeq(qs) \o q /\ FlattenSeq(qs) \in Seq(S)
    BY <2>1, <2>2, <2>3, <2>4
  <2> QED
    BY <2>5 DEF rs
<1>5. CASE n # 0
  <2>1. PICK f : /\ Flattened(f, qs) /\ FlattenSeq(qs) = f[Len(qs)]
                 /\ \A i \in 1 .. Len(qs) : f[i] \in Seq(S)
    BY <1>5, FlattenOf
  <2>2. \A i \in 1 .. n : f[i] = IF i = 1 THEN qs[i] ELSE f[i - 1] \o qs[i]
    BY <2>1 DEF Flattened
  <2>3. \A i \in 1 .. n : f[i] = g[i]
    <3> DEFINE T == {k \in Nat : k \in 1 .. n => f[k] = g[k]}
    <3>1. 0 \in T
      OBVIOUS
    <3>2. ASSUME NEW k \in Nat, k \in T
          PROVE  k + 1 \in T
      <4> SUFFICES ASSUME k + 1 \in 1 .. n PROVE f[k + 1] = g[k + 1]
        OBVIOUS
      <4>1. /\ f[k + 1] = IF k + 1 = 1 THEN qs[k + 1] ELSE f[(k + 1) - 1] \o qs[k + 1]
            /\ g[k + 1] = IF k + 1 = 1 THEN rs[k + 1] ELSE g[(k + 1) - 1] \o rs[k + 1]
            /\ rs[k + 1] = qs[k + 1]
        BY <1>1, <1>3, <2>2
      <4>2. (k + 1) - 1 = k /\ (k + 1 # 1 => k \in 1 .. n)
        BY <1>1
      <4>3. k + 1 # 1 => f[k] = g[k]
        BY <3>2, <4>2
      <4> QED
        BY <4>1, <4>2, <4>3
    <3> HIDE DEF T
    <3>3. Nat \subseteq T
      BY <3>1, <3>2, AllNaturals
    <3> QED
      BY <1>1, <3>3 DEF T
  <2>4. n + 1 \in 1 .. n + 1 /\ n + 1 # 1 /\ (n + 1) - 1 = n /\ n \in 1 .. n
    BY <1>1, <1>5
  <2>5. g[n + 1] = g[n] \o q /\ g[n] = f[n]
    BY <1>1, <1>3, <2>3, <2>4
  <2>6. FlattenSeq(qs) = f[n] /\ FlattenSeq(rs) = g[n + 1] /\ f[n] \in Seq(S)
    BY <1>1, <1>2, <2>1, <2>4
  <2> QED
    BY <2>5, <2>6 DEF rs
<1> QED
  BY <1>4, <1>5

LEMMA FlattenEmpty == FlattenSeq(<<>>) = <<>>
BY DEF FlattenSeq

\* A list that is longer by one list.
LEMMA FlattenLonger ==
    ASSUME NEW S, NEW n \in Nat, NEW qs, NEW rs,
           DOMAIN qs = 1 .. n, DOMAIN rs = 1 .. n + 1,
           qs = [i \in 1 .. n |-> qs[i]], rs = [i \in 1 .. n + 1 |-> rs[i]],
           \A i \in 1 .. n + 1 : rs[i] \in Seq(S),
           \A i \in 1 .. n : qs[i] = rs[i]
    PROVE  FlattenSeq(rs) = FlattenSeq(qs) \o rs[n + 1] /\ FlattenSeq(qs) \in Seq(S)
<1>1. qs \in Seq(Seq(S)) /\ Len(qs) = n
  <2>1. \A i \in 1 .. n : qs[i] \in Seq(S)
    <3> SUFFICES ASSUME NEW i \in 1 .. n PROVE qs[i] \in Seq(S)
      OBVIOUS
    <3>1. i \in 1 .. n + 1
      OBVIOUS
    <3>2. qs[i] = rs[i] /\ rs[i] \in Seq(S)
      BY <3>1, Zenon
    <3> QED
      BY ONLY <3>2
  <2>2. [i \in 1 .. n |-> qs[i]] \in Seq(Seq(S)) /\ Len([i \in 1 .. n |-> qs[i]]) = n
    BY <2>1
  <2> QED
    BY <2>2
<1>2. rs \in Seq(Seq(S)) /\ Len(rs) = n + 1 /\ rs[n + 1] \in Seq(S)
  <2>1. /\ [i \in 1 .. n + 1 |-> rs[i]] \in Seq(Seq(S))
        /\ Len([i \in 1 .. n + 1 |-> rs[i]]) = n + 1
    <3>1. \A i \in 1 .. n + 1 : rs[i] \in Seq(S)
      OBVIOUS
    <3>2. n + 1 \in Nat
      OBVIOUS
    <3> QED
      BY ONLY <3>1, <3>2
  <2>2. n + 1 \in 1 .. n + 1
    OBVIOUS
  <2> QED
    BY <2>1, <2>2
<1>3. rs = Append(qs, rs[n + 1])
  <2> DEFINE a == Append(qs, rs[n + 1])
  <2>1. /\ a \in Seq(Seq(S)) /\ Len(a) = n + 1 /\ a[n + 1] = rs[n + 1]
        /\ \A i \in 1 .. n : a[i] = qs[i]
    BY <1>1, <1>2, AppendProperties
  <2> HIDE DEF a
  <2>2. \A i \in 1 .. n + 1 : a[i] = rs[i]
    <3> SUFFICES ASSUME NEW i \in 1 .. n + 1 PROVE a[i] = rs[i]
      OBVIOUS
    <3>1. i \in 1 .. n \/ i = n + 1
      OBVIOUS
    <3> QED
      BY <2>1, <3>1
  <2>3. a = rs
    BY <1>2, <2>1, <2>2, SeqEqual
  <2> QED
    BY <2>3 DEF a
<1>4. FlattenSeq(Append(qs, rs[n + 1])) = FlattenSeq(qs) \o rs[n + 1] /\ FlattenSeq(qs) \in Seq(S)
  BY <1>1, <1>2, FlattenSnoc
<1> QED
  BY <1>3, <1>4

LEMMA ThoseLonger ==
    ASSUME NEW S, NEW q \in Seq(S), NEW e \in S, NEW K, NEW L,
           \A i \in 1 .. Len(q) : i \in K <=> i \in L
    PROVE  /\ Those(Append(q, e), L) = IF Len(q) + 1 \in L THEN Append(Those(q, K), e)
                                       ELSE Those(q, K)
           /\ Those(q, K) \in Seq(S)
<1> DEFINE n == Len(q)
           r == Append(q, e)
           qs == [i \in 1 .. n |-> IF i \in K THEN <<q[i]>> ELSE <<>>]
           rs == [i \in 1 .. n + 1 |-> IF i \in L THEN <<r[i]>> ELSE <<>>]
<1>1. /\ n \in Nat /\ DOMAIN q = 1 .. n /\ DOMAIN r = 1 .. n + 1 /\ r[n + 1] = e
      /\ \A i \in 1 .. n : r[i] = q[i]
      /\ \A i \in 1 .. n + 1 : r[i] \in S
  OBVIOUS
<1>2. Those(q, K) = FlattenSeq(qs) /\ Those(r, L) = FlattenSeq(rs)
  BY <1>1 DEF Those
<1> HIDE DEF r, n
<1>3. \A x \in S : <<x>> \in Seq(S)
  OBVIOUS
<1>4. <<>> \in Seq(S)
  OBVIOUS
<1>5. /\ DOMAIN qs = 1 .. n /\ DOMAIN rs = 1 .. n + 1
      /\ qs = [i \in 1 .. n |-> qs[i]] /\ rs = [i \in 1 .. n + 1 |-> rs[i]]
  OBVIOUS
<1>6. \A i \in 1 .. n + 1 : rs[i] = IF i \in L THEN <<r[i]>> ELSE <<>>
  OBVIOUS
<1>7. \A i \in 1 .. n : qs[i] = IF i \in K THEN <<q[i]>> ELSE <<>>
  OBVIOUS
<1> HIDE DEF qs, rs
<1>8. \A i \in 1 .. n + 1 : rs[i] \in Seq(S)
  BY <1>1, <1>3, <1>4, <1>6
<1>9. \A i \in 1 .. n : i \in 1 .. n + 1 /\ (i \in K <=> i \in L)
  BY <1>1 DEF n
<1>10. \A i \in 1 .. n : qs[i] = rs[i]
  BY <1>1, <1>6, <1>7, <1>9
<1>11. FlattenSeq(rs) = FlattenSeq(qs) \o rs[n + 1] /\ FlattenSeq(qs) \in Seq(S)
  BY <1>1, <1>5, <1>8, <1>10, FlattenLonger
<1>12. n + 1 \in 1 .. n + 1
  BY <1>1
<1>13. CASE n + 1 \in L
  <2>1. rs[n + 1] = <<e>>
    BY <1>1, <1>6, <1>12, <1>13
  <2>2. FlattenSeq(qs) \o <<e>> = Append(FlattenSeq(qs), e)
    BY <1>11, AppendIsConcat
  <2> QED
    BY <1>2, <1>11, <1>13, <2>1, <2>2 DEF r, n
<1>14. CASE n + 1 \notin L
  <2>1. rs[n + 1] = <<>>
    BY <1>6, <1>12, <1>14
  <2>2. FlattenSeq(qs) \o <<>> = FlattenSeq(qs)
    BY <1>11
  <2> QED
    BY <1>2, <1>11, <1>14, <2>1, <2>2 DEF r, n
<1> QED
  BY <1>13, <1>14

LEMMA ThoseEmpty == \A K : Those(<<>>, K) = <<>>
<1> SUFFICES ASSUME NEW K PROVE Those(<<>>, K) = <<>>
  OBVIOUS
<1>1. [i \in DOMAIN <<>> |-> IF i \in K THEN <<<<>>[i]>> ELSE <<>>] = <<>>
  OBVIOUS
<1> QED
  BY <1>1, FlattenEmpty DEF Those

\* A text cut in two.
LEMMA CutInTwo ==
    ASSUME NEW S, NEW t \in Seq(S), NEW k \in 0 .. Len(t)
    PROVE  /\ SubSeq(t, 1, k) \in Seq(S) /\ SubSeq(t, k + 1, Len(t)) \in Seq(S)
           /\ SubSeq(t, 1, k) \o SubSeq(t, k + 1, Len(t)) = t
           /\ Len(SubSeq(t, 1, k)) = k
           /\ k = 0 => SubSeq(t, 1, k) = <<>> /\ SubSeq(t, k + 1, Len(t)) = t
           /\ k = Len(t) => SubSeq(t, 1, k) = t /\ SubSeq(t, k + 1, Len(t)) = <<>>
<1> DEFINE a == SubSeq(t, 1, k)
           b == SubSeq(t, k + 1, Len(t))
<1>1. Len(t) \in Nat /\ k \in Int /\ \A i \in 1 .. Len(t) : t[i] \in S
  OBVIOUS
<1>2. /\ a \in Seq(S) /\ Len(a) = IF 1 <= k THEN k - 1 + 1 ELSE 0
      /\ \A i \in 1 .. k - 1 + 1 : a[i] = t[1 + i - 1]
  <2>1. \A i \in 1 .. k : t[i] \in S
    BY <1>1
  <2> QED
    BY <1>1, <2>1, SubSeqProperties
<1>3. /\ b \in Seq(S) /\ Len(b) = IF k + 1 <= Len(t) THEN Len(t) - (k + 1) + 1 ELSE 0
      /\ \A i \in 1 .. Len(t) - (k + 1) + 1 : b[i] = t[(k + 1) + i - 1]
  <2>1. \A i \in k + 1 .. Len(t) : t[i] \in S
    BY <1>1
  <2>2. k + 1 \in Int /\ Len(t) \in Int
    BY <1>1
  <2> QED
    BY <2>1, <2>2, SubSeqProperties
<1> HIDE DEF a, b
<1>4. Len(a) = k /\ \A i \in 1 .. k : a[i] = t[i]
  BY <1>1, <1>2
<1>5. Len(b) = Len(t) - k /\ \A i \in 1 .. Len(t) - k : b[i] = t[k + i]
  BY <1>1, <1>3
<1>6. /\ a \o b \in Seq(S) /\ Len(a \o b) = Len(t)
      /\ \A i \in 1 .. Len(t) : (a \o b)[i] = IF i <= k THEN a[i] ELSE b[i - k]
  <2>1. k + (Len(t) - k) = Len(t)
    BY <1>1
  <2>2. /\ a \o b \in Seq(S) /\ Len(a \o b) = k + (Len(t) - k)
        /\ \A i \in 1 .. k + (Len(t) - k) : (a \o b)[i] = IF i <= k THEN a[i] ELSE b[i - k]
    <3>1. /\ a \o b \in Seq(S) /\ Len(a \o b) = Len(a) + Len(b)
          /\ \A i \in 1 .. Len(a) + Len(b) :
                (a \o b)[i] = IF i <= Len(a) THEN a[i] ELSE b[i - Len(a)]
      BY <1>2, <1>3, ConcatProperties
    <3>2. Len(a) = k /\ Len(b) = Len(t) - k
      BY <1>4, <1>5
    <3> QED
      BY ONLY <3>1, <3>2
  <2> QED
    BY <2>1, <2>2
<1>7. \A i \in 1 .. Len(t) : (a \o b)[i] = t[i]
  <2> SUFFICES ASSUME NEW i \in 1 .. Len(t) PROVE (a \o b)[i] = t[i]
    OBVIOUS
  <2>1. CASE i <= k
    BY <1>4, <1>6, <2>1
  <2>2. CASE ~(i <= k)
    <3>1. i - k \in 1 .. Len(t) - k /\ k + (i - k) = i
      BY <1>1, <2>2
    <3>2. b[i - k] = t[k + (i - k)]
      BY <1>5, <3>1
    <3> QED
      BY <1>6, <2>2, <3>1, <3>2
  <2> QED
    BY <2>1, <2>2
<1>8. a \o b = t
  BY <1>6, <1>7, SeqEqual
<1>9. k = 0 => a = <<>> /\ b = t
  <2> SUFFICES ASSUME k = 0 PROVE a = <<>> /\ b = t
    OBVIOUS
  <2>1. a = <<>>
    BY <1>2, <1>4
  <2>2. a \o b = b
    BY <1>3, <2>1
  <2> QED
    BY <1>8, <2>1, <2>2
<1>10. k = Len(t) => a = t /\ b = <<>>
  <2> SUFFICES ASSUME k = Len(t) PROVE a = t /\ b = <<>>
    OBVIOUS
  <2>1. b = <<>>
    BY <1>1, <1>3, <1>5
  <2>2. a \o b = a
    BY <1>2, <2>1
  <2> QED
    BY <1>8, <2>1, <2>2
<1> QED
  BY <1>2, <1>3, <1>4, <1>8, <1>9, <1>10 DEF a, b

\* One token further.
LEMMA OneFurther ==
    ASSUME NEW S, NEW t \in Seq(S), NEW k \in Nat, k < Len(t)
    PROVE  /\ t[k + 1] \in S /\ k + 1 \in 0 .. Len(t)
           /\ SubSeq(t, 1, k + 1) = Append(SubSeq(t, 1, k), t[k + 1])
           /\ SubSeq(t, k + 1, Len(t)) = <<t[k + 1]>> \o SubSeq(t, k + 2, Len(t))
<1>1. /\ Len(t) \in Nat /\ k + 1 \in 1 .. Len(t) /\ k + 1 \in 0 .. Len(t) /\ k \in 0 .. Len(t)
      /\ (k + 1) + 1 = k + 2
  OBVIOUS
<1>2. t[k + 1] \in S
  BY <1>1
<1>3. SubSeq(t, 1, k + 1) = Append(SubSeq(t, 1, k), t[k + 1])
  <2> DEFINE a == SubSeq(t, 1, k)
             c == SubSeq(t, 1, k + 1)
  <2>1. a \in Seq(S) /\ Len(a) = k /\ c \in Seq(S) /\ Len(c) = k + 1
    BY <1>1, CutInTwo
  <2>2. \A i \in 1 .. k : a[i] = t[i]
    <3>1. \A i \in 1 .. k - 1 + 1 : a[i] = t[1 + i - 1]
      BY <1>1, SubSeqProperties
    <3> HIDE DEF a
    <3> QED
      BY <3>1
  <2>3. \A i \in 1 .. k + 1 : c[i] = t[i]
    <3>1. \A i \in 1 .. (k + 1) - 1 + 1 : c[i] = t[1 + i - 1]
      BY <1>1, SubSeqProperties
    <3> HIDE DEF c
    <3> QED
      BY <3>1
  <2> HIDE DEF a, c
  <2>4. /\ Append(a, t[k + 1]) \in Seq(S) /\ Len(Append(a, t[k + 1])) = k + 1
        /\ Append(a, t[k + 1])[k + 1] = t[k + 1]
        /\ \A i \in 1 .. k : Append(a, t[k + 1])[i] = a[i]
    BY <1>2, <2>1, AppendProperties
  <2>5. \A i \in 1 .. k + 1 : c[i] = Append(a, t[k + 1])[i]
    <3> SUFFICES ASSUME NEW i \in 1 .. k + 1 PROVE c[i] = Append(a, t[k + 1])[i]
      OBVIOUS
    <3>1. i \in 1 .. k \/ i = k + 1
      OBVIOUS
    <3> QED
      BY <2>2, <2>3, <2>4, <3>1
  <2>6. c = Append(a, t[k + 1])
    BY <2>1, <2>4, <2>5, SeqEqual
  <2> QED
    BY <2>6 DEF a, c
<1>4. SubSeq(t, k + 1, Len(t)) = <<t[k + 1]>> \o SubSeq(t, k + 2, Len(t))
  <2> DEFINE a == SubSeq(t, 1, k)
             b == SubSeq(t, k + 1, Len(t))
             c == SubSeq(t, 1, k + 1)
             d == SubSeq(t, k + 2, Len(t))
             e == <<t[k + 1]>>
  <2>1. /\ a \in Seq(S) /\ b \in Seq(S) /\ a \o b = t
    BY <1>1, CutInTwo
  <2>2. c \in Seq(S) /\ d \in Seq(S) /\ c \o d = t
    <3>1. /\ SubSeq(t, 1, k + 1) \in Seq(S) /\ SubSeq(t, (k + 1) + 1, Len(t)) \in Seq(S)
          /\ SubSeq(t, 1, k + 1) \o SubSeq(t, (k + 1) + 1, Len(t)) = t
      BY <1>1, CutInTwo
    <3> QED
      BY <1>1, <3>1
  <2>3. e \in Seq(S)
    BY <1>2
  <2>4. c = a \o e
    <3>1. c = Append(a, t[k + 1]) /\ t[k + 1] \in S
      BY <1>2, <1>3
    <3>2. a \in Seq(S)
      BY <2>1
    <3> HIDE DEF a, c
    <3>3. Append(a, t[k + 1]) = a \o <<t[k + 1]>>
      BY ONLY <3>1, <3>2, AppendIsConcat
    <3> QED
      BY <3>1, <3>3
  <2> HIDE DEF a, b, c, d, e
  <2>5. (a \o e) \o d = a \o (e \o d)
    <3>1. a \in Seq(S) /\ d \in Seq(S)
      BY <2>1, <2>2
    <3> QED
      BY ONLY <2>3, <3>1, ConcatAssociative
  <2>6. a \o b = a \o (e \o d)
    BY <2>1, <2>2, <2>4, <2>5
  <2>7. e \o d \in Seq(S)
    BY <2>2, <2>3
  <2>8. b = e \o d
    BY <2>1, <2>6, <2>7, ConcatSimplifications
  <2> QED
    BY <2>8 DEF b, d, e
<1> QED
  BY <1>1, <1>2, <1>3, <1>4

-----------------------------------------------------------------------------
(***************************************************************************)
(* The names of tools: short ones are different, and lead back.            *)
(***************************************************************************)
\* Names as a client declares them, no more than there are endings.
IsNames(names) == names \in Seq(Seq(STRING)) /\ Len(names) <= Len(Endings)

LEMMA CutIsName ==
    ASSUME NEW q \in Seq(STRING), NEW n \in Nat
    PROVE  Cut(q, n) \in Seq(STRING) /\ Len(Cut(q, n)) <= n
<1>1. PICK k \in Nat : k <= Len(q) /\ k <= n /\ Cut(q, n) = SubSeq(q, 1, k)
  <2>1. Len(q) \in Nat
    OBVIOUS
  <2> QED
    BY <2>1 DEF Cut
<1>2. \A i \in 1 .. k : q[i] \in STRING
  BY <1>1
<1> QED
  BY <1>1, <1>2, SubSeqProperties

LEMMA CandidateIsName ==
    ASSUME NEW name \in Seq(STRING)
    PROVE  BaseCandidate(name) \in Seq(STRING) /\ Len(BaseCandidate(name)) <= Limit
<1>2. \A q \in Seq(STRING) : Cut(q, Limit) \in Seq(STRING) /\ Len(Cut(q, Limit)) <= Limit
  BY CutIsName, NamesAssumption
<1>3. CASE Len(name) > Limit /\ name[1] = "mcp__"
  <2> DEFINE last == LastSeparator(name)
             rest == SubSeq(name, last + 1, Len(name))
             head == <<name[1]>>
  <2>1. last \in Nat
    <3> DEFINE I == {i \in 1 .. Len(name) : name[i] \in {"mcp__", "__"}}
    <3>1. last = IF I # {} THEN Max(I) ELSE 0
      BY DEF LastSeparator, SelectLastInSeq
    <3>2. I \subseteq 1 .. Len(name) /\ Len(name) \in Nat
      OBVIOUS
    <3> HIDE DEF I, last
    <3>3. CASE I # {}
      <4>1. Max(I) \in I
        BY <3>2, <3>3, GreatestNatural
      <4>2. last = Max(I)
        BY <3>1, <3>3
      <4>3. last \in 1 .. Len(name)
        BY <3>2, <4>1, <4>2
      <4> QED
        BY <3>2, <4>3
    <3>4. CASE I = {}
      BY <3>1, <3>4
    <3> QED
      BY <3>3, <3>4
  <2> HIDE DEF last
  <2>2. \A i \in last + 1 .. Len(name) : name[i] \in STRING
    BY <2>1
  <2>3. rest \in Seq(STRING)
    BY <2>1, <2>2, SubSeqProperties
  <2>4. head \in Seq(STRING)
    <3>1. 1 \in 1 .. Len(name)
      BY <1>3, NamesAssumption
    <3>2. name[1] \in STRING
      BY <3>1
    <3> QED
      BY <3>2
  <2> HIDE DEF rest, head
  <2>5. head \o rest \in Seq(STRING)
    BY <2>3, <2>4
  <2>6. BaseCandidate(name) = Cut(head \o rest, Limit)
    BY <1>3, NamesAssumption DEF BaseCandidate, head, rest, last
  <2> QED
    BY <1>2, <2>5, <2>6
<1>4. CASE Len(name) > Limit /\ name[1] # "mcp__"
  BY <1>2, <1>4, NamesAssumption DEF BaseCandidate
<1>5. CASE ~(Len(name) > Limit)
  BY <1>5, NamesAssumption DEF BaseCandidate
<1> QED
  BY <1>3, <1>4, <1>5

\* Of the numbered names one is not used.
LEMMA FreeEnding ==
    ASSUME NEW cand \in Seq(STRING), NEW used, IsFiniteSet(used),
           Cardinality(used) < Len(Endings)
    PROVE  \E i \in DOMAIN Endings : Numbered(cand, i) \notin used
<1> SUFFICES ASSUME \A i \in DOMAIN Endings : Numbered(cand, i) \in used PROVE FALSE
  OBVIOUS
<1> DEFINE n == Len(Endings)
           cut == Cut(cand, Limit - 1)
           f == [i \in 1 .. n |-> Numbered(cand, i)]
<1>1. n \in Nat /\ DOMAIN Endings = 1 .. n /\ \A i \in 1 .. n : Endings[i] \in STRING
  BY NamesAssumption
<1>2. cut \in Seq(STRING)
  BY CutIsName, NamesAssumption
<1> HIDE DEF cut
<1>3. \A i, j \in 1 .. n : Numbered(cand, i) = Numbered(cand, j) => i = j
  <2> SUFFICES ASSUME NEW i \in 1 .. n, NEW j \in 1 .. n,
                      Append(cut, Endings[i]) = Append(cut, Endings[j])
               PROVE  i = j
    BY DEF Numbered, cut
  <2>1. /\ Append(cut, Endings[i])[Len(cut) + 1] = Endings[i]
        /\ Append(cut, Endings[j])[Len(cut) + 1] = Endings[j]
    BY <1>1, <1>2, AppendProperties
  <2> QED
    BY <1>1, <2>1, NamesAssumption
<1>4. f \in Injection(1 .. n, used)
  BY <1>1, <1>3 DEF Injection, IsInjective
<1>5. Cardinality(1 .. n) <= Cardinality(used)
  BY <1>4, FS_Injection
<1>6. Cardinality(1 .. n) = n
  <2>1. 1 \in Int /\ n \in Int
    BY <1>1
  <2>2. Cardinality(1 .. n) = IF 1 > n THEN 0 ELSE n - 1 + 1
    BY <2>1, FS_Interval
  <2> QED
    BY <1>1, <2>2
<1>7. Cardinality(used) \in Nat
  BY FS_CardinalityType
<1> QED
  BY <1>1, <1>5, <1>6, <1>7

LEMMA UniqueIsNew ==
    ASSUME NEW cand \in Seq(STRING), NEW used, IsFiniteSet(used),
           Cardinality(used) < Len(Endings)
    PROVE  MakeUnique(cand, used) \notin used
<1> DEFINE free == {i \in DOMAIN Endings : Numbered(cand, i) \notin used}
           least == CHOOSE i \in free : \A j \in free : i <= j
<1>1. free # {} /\ free \subseteq Nat
  <2>1. DOMAIN Endings = 1 .. Len(Endings) /\ Len(Endings) \in Nat
    BY NamesAssumption
  <2> QED
    BY <2>1, FreeEnding
<1>2. least \in free
  <2> HIDE DEF free
  <2>1. \E i \in free : \A j \in free : i <= j
    BY <1>1, LeastNatural
  <2> QED
    BY <2>1
<1>3. MakeUnique(cand, used) = IF cand \notin used THEN cand ELSE Numbered(cand, least)
  BY DEF MakeUnique
<1> HIDE DEF least
<1> QED
  BY <1>2, <1>3

\* The short names are given one after another.
LEMMA ShortNamesOf ==
    ASSUME NEW names, IsNames(names)
    PROVE  LET s == ShortNames(names)
           IN  /\ DOMAIN s = 1 .. Len(names)
               /\ \A i \in 1 .. Len(names) :
                     s[i] = MakeUnique(BaseCandidate(names[i]), {s[j] : j \in 1 .. i - 1})
<1> DEFINE n == Len(names)
           Short(i, used) == MakeUnique(BaseCandidate(names[i]), used)
           T == {k \in Nat : \E f : f = [i \in 1 .. k |-> Short(i, {f[j] : j \in 1 .. i - 1})]}
<1>1. n \in Nat /\ DOMAIN names = 1 .. n
  BY DEF IsNames
<1> HIDE DEF Short
<1>2. 0 \in T
  <2>1. <<>> = [i \in 1 .. 0 |-> Short(i, {<<>>[j] : j \in 1 .. i - 1})]
    OBVIOUS
  <2> QED
    BY <2>1
<1>3. ASSUME NEW k \in Nat, k \in T
      PROVE  k + 1 \in T
  <2>1. PICK f : f = [i \in 1 .. k |-> Short(i, {f[j] : j \in 1 .. i - 1})]
    BY <1>3
  <2> DEFINE g == [i \in 1 .. k + 1 |-> IF i <= k THEN f[i]
                                         ELSE Short(k + 1, {f[j] : j \in 1 .. k})]
  <2>2. \A i \in 1 .. k + 1 : {g[j] : j \in 1 .. i - 1} = {f[j] : j \in 1 .. i - 1}
    <3> SUFFICES ASSUME NEW i \in 1 .. k + 1
                 PROVE  {g[j] : j \in 1 .. i - 1} = {f[j] : j \in 1 .. i - 1}
      OBVIOUS
    <3>1. \A j \in 1 .. i - 1 : j \in 1 .. k + 1 /\ j <= k
      OBVIOUS
    <3>2. \A j \in 1 .. i - 1 : g[j] = f[j]
      BY <3>1
    <3> HIDE DEF g
    <3> QED
      BY <3>2
  <2>3. \A i \in 1 .. k + 1 : g[i] = Short(i, {g[j] : j \in 1 .. i - 1})
    <3> SUFFICES ASSUME NEW i \in 1 .. k + 1
                 PROVE  g[i] = Short(i, {f[j] : j \in 1 .. i - 1})
      BY <2>2
    <3>1. CASE i <= k
      <4>1. i \in 1 .. k /\ g[i] = f[i]
        BY <3>1
      <4> HIDE DEF g
      <4> QED
        BY <2>1, <4>1
    <3>2. CASE ~(i <= k)
      <4>1. i = k + 1 /\ i - 1 = k
        BY <3>2
      <4>2. g[i] = Short(k + 1, {f[j] : j \in 1 .. k})
        BY <3>2
      <4> HIDE DEF g
      <4> QED
        BY <4>1, <4>2
    <3> QED
      BY <3>1, <3>2
  <2>4. g = [i \in 1 .. k + 1 |-> Short(i, {g[j] : j \in 1 .. i - 1})]
    <3>1. g = [i \in 1 .. k + 1 |-> g[i]]
      OBVIOUS
    <3> HIDE DEF g
    <3> QED
      BY <2>3, <3>1
  <2>5. \E f2 : f2 = [i \in 1 .. k + 1 |-> Short(i, {f2[j] : j \in 1 .. i - 1})]
    <3> HIDE DEF g
    <3> QED
      BY <2>4
  <2>6. k + 1 \in Nat
    OBVIOUS
  <2> HIDE DEF g
  <2> QED
    BY <2>5, <2>6, Zenon
<1>4. n \in T
  <2> HIDE DEF T
  <2>1. Nat \subseteq T
    BY <1>2, <1>3, AllNaturals
  <2> QED
    BY <1>1, <2>1
<1> DEFINE s == ShortNames(names)
           D == 1 .. n
<1>5. \E f : f = [i \in D |-> Short(i, {f[j] : j \in 1 .. i - 1})]
  BY <1>4
<1>6. s = CHOOSE f : f = [i \in D |-> Short(i, {f[j] : j \in 1 .. i - 1})]
  BY <1>1 DEF ShortNames, Short
<1> HIDE DEF s
<1>7. s = [i \in D |-> Short(i, {s[j] : j \in 1 .. i - 1})]
  BY <1>5, <1>6
<1>8. DOMAIN s = D /\ \A i \in D : s[i] = Short(i, {s[j] : j \in 1 .. i - 1})
  BY <1>7
<1> QED
  BY <1>8 DEF s, Short

\* The names given before are fewer than the endings.
LEMMA UsedFew ==
    ASSUME NEW names, IsNames(names), NEW j \in 1 .. Len(names), NEW s
    PROVE  LET used == {s[k] : k \in 1 .. j - 1}
           IN  IsFiniteSet(used) /\ Cardinality(used) < Len(Endings)
<1> DEFINE used == {s[k] : k \in 1 .. j - 1}
<1>1. 1 \in Int /\ j - 1 \in Int /\ Len(Endings) \in Nat /\ Len(names) \in Nat
      /\ j - 1 < Len(Endings)
  BY NamesAssumption DEF IsNames
<1>2. IsFiniteSet(1 .. j - 1) /\ Cardinality(1 .. j - 1) = j - 1
  <2>1. IsFiniteSet(1 .. j - 1)
        /\ Cardinality(1 .. j - 1) = IF 1 > j - 1 THEN 0 ELSE (j - 1) - 1 + 1
    BY <1>1, FS_Interval
  <2> QED
    BY <1>1, <2>1
<1> DEFINE f == [k \in 1 .. j - 1 |-> s[k]]
<1>3. f \in Surjection(1 .. j - 1, used)
  BY DEF Surjection
<1>4. IsFiniteSet(used) /\ Cardinality(used) <= Cardinality(1 .. j - 1)
  BY <1>2, <1>3, FS_Surjection
<1>5. Cardinality(used) \in Nat
  BY <1>4, FS_CardinalityType
<1> QED
  BY <1>1, <1>2, <1>4, <1>5
LEMMA ShortNamesApart ==
    ASSUME NEW names, IsNames(names), NEW i \in 1 .. Len(names), NEW j \in 1 .. Len(names),
           i < j
    PROVE  ShortNames(names)[i] # ShortNames(names)[j]
<1> DEFINE s == ShortNames(names)
           used == {s[k] : k \in 1 .. j - 1}
           cand == BaseCandidate(names[j])
<1>1. s[j] = MakeUnique(cand, used)
  BY ShortNamesOf
<1>2. cand \in Seq(STRING)
  <2>1. names[j] \in Seq(STRING)
    BY DEF IsNames
  <2> QED
    BY <2>1, CandidateIsName
<1>3. IsFiniteSet(used) /\ Cardinality(used) < Len(Endings)
  BY UsedFew
<1>4. s[i] \in used
  <2>1. i \in 1 .. j - 1
    BY DEF IsNames
  <2> QED
    BY <2>1
<1> HIDE DEF s, used, cand
<1>5. s[j] \notin used
  BY <1>1, <1>2, <1>3, UniqueIsNew
<1>6. s[i] # s[j]
  BY <1>4, <1>5
<1> QED
  BY <1>6 DEF s

\* The last place of a name in the list.
LEMMA PlaceOf ==
    ASSUME NEW names, IsNames(names), NEW name \in ToSet(names)
    PROVE  \E k \in 1 .. Len(names) :
              names[k] = name /\ ShortName(names, name) = ShortNames(names)[k]
<1> DEFINE I == {i \in 1 .. Len(names) : names[i] = name}
<1>1. Len(names) \in Nat /\ DOMAIN names = 1 .. Len(names)
  BY DEF IsNames
<1>2. I # {} /\ I \subseteq 1 .. Len(names)
  BY <1>1 DEF ToSet
<1>3. ShortName(names, name) = ShortNames(names)[Max(I)]
  BY <1>2 DEF ShortName, SelectLastInSeq
<1>4. Max(I) \in I
  <2> HIDE DEF I
  <2> QED
    BY <1>1, <1>2, GreatestNatural
<1> HIDE DEF ShortName
<1> QED
  BY <1>3, <1>4

\* A short name is a name that the upstream takes.
LEMMA UniqueIsName ==
    ASSUME NEW cand \in Seq(STRING), Len(cand) <= Limit, NEW used, IsFiniteSet(used),
           Cardinality(used) < Len(Endings)
    PROVE  MakeUnique(cand, used) \in Seq(STRING) /\ Len(MakeUnique(cand, used)) <= Limit
<1> DEFINE free == {i \in DOMAIN Endings : Numbered(cand, i) \notin used}
           least == CHOOSE i \in free : \A j \in free : i <= j
<1>1. DOMAIN Endings = 1 .. Len(Endings) /\ Len(Endings) \in Nat
      /\ \A i \in DOMAIN Endings : Endings[i] \in STRING
  BY NamesAssumption
<1>2. free # {} /\ free \subseteq Nat
  BY <1>1, FreeEnding
<1>3. least \in free
  <2> HIDE DEF free
  <2>1. \E i \in free : \A j \in free : i <= j
    BY <1>2, LeastNatural
  <2> QED
    BY <2>1
<1>4. MakeUnique(cand, used) = IF cand \notin used THEN cand ELSE Numbered(cand, least)
  BY DEF MakeUnique
<1>5. Endings[least] \in STRING
  BY <1>1, <1>3
<1> HIDE DEF least
<1>6. Numbered(cand, least) \in Seq(STRING) /\ Len(Numbered(cand, least)) <= Limit
  <2> DEFINE cut == Cut(cand, Limit - 1)
  <2>1. Limit - 1 \in Nat /\ Limit \in Nat
    BY NamesAssumption
  <2>2. cut \in Seq(STRING) /\ Len(cut) <= Limit - 1
    BY <2>1, CutIsName
  <2> HIDE DEF cut
  <2>3. /\ Append(cut, Endings[least]) \in Seq(STRING)
        /\ Len(Append(cut, Endings[least])) = Len(cut) + 1 /\ Len(cut) \in Nat
    BY <1>5, <2>2
  <2> QED
    BY <2>1, <2>2, <2>3 DEF Numbered, cut
<1> QED
  BY <1>4, <1>6

LEMMA ShortIsName ==
    ASSUME NEW names, IsNames(names), NEW name \in ToSet(names)
    PROVE  ShortName(names, name) \in Seq(STRING) /\ Len(ShortName(names, name)) <= Limit
<1> DEFINE s == ShortNames(names)
<1>1. PICK k \in 1 .. Len(names) : ShortName(names, name) = s[k]
  BY PlaceOf
<1> DEFINE used == {s[j] : j \in 1 .. k - 1}
           cand == BaseCandidate(names[k])
<1>2. s[k] = MakeUnique(cand, used)
  BY ShortNamesOf
<1>3. cand \in Seq(STRING) /\ Len(cand) <= Limit
  <2>1. names[k] \in Seq(STRING)
    BY DEF IsNames
  <2> QED
    BY <2>1, CandidateIsName
<1>4. IsFiniteSet(used) /\ Cardinality(used) < Len(Endings)
  BY UsedFew
<1> HIDE DEF s, used, cand
<1>5. MakeUnique(cand, used) \in Seq(STRING) /\ Len(MakeUnique(cand, used)) <= Limit
  BY <1>3, <1>4, UniqueIsName
<1> QED
  BY <1>1, <1>2, <1>5

LEMMA NamesApart ==
    ASSUME NEW names, IsNames(names), NEW a \in ToSet(names), NEW b \in ToSet(names), a # b
    PROVE  ShortName(names, a) # ShortName(names, b)
<1>1. PICK k \in 1 .. Len(names) :
         names[k] = a /\ ShortName(names, a) = ShortNames(names)[k]
  BY PlaceOf
<1>2. PICK l \in 1 .. Len(names) :
         names[l] = b /\ ShortName(names, b) = ShortNames(names)[l]
  BY PlaceOf
<1>3. k < l \/ l < k
  BY <1>1, <1>2 DEF IsNames
<1>4. CASE k < l
  BY <1>1, <1>2, <1>4, ShortNamesApart
<1>5. CASE l < k
  BY <1>1, <1>2, <1>5, ShortNamesApart
<1> QED
  BY <1>3, <1>4, <1>5

\* Whatever names a client declares, however they are alike when cut: the short
\* name that is sent for a tool is turned back into that tool's name and no other
\* (buildShortNameMap, BuildReverseToolNameMap).
THEOREM NamesComeBack ==
    \A names : IsNames(names) =>
        \A name \in ToSet(names) : OriginalName(names, ShortName(names, name)) = name
<1> SUFFICES ASSUME NEW names, IsNames(names), NEW name \in ToSet(names)
             PROVE  OriginalName(names, ShortName(names, name)) = name
  OBVIOUS
<1>1. {n \in ToSet(names) : ShortName(names, n) = ShortName(names, name)} = {name}
  BY NamesApart
<1> HIDE DEF ShortName, ToSet
<1> QED
  BY <1>1 DEF OriginalName

-----------------------------------------------------------------------------
(***************************************************************************)
(* What each event changes of StreamState and of the OpenAI client.        *)
(***************************************************************************)
ChatFields == {"calls", "hasText", "hasToolCall", "hasReasoning", "completed", "argsDelta",
               "announced", "summaryDelta", "byItem", "outcome", "client"}
ReaderFields == {"content", "reasoning", "calls", "finish", "chunks"}

ChatShape(s) == DOMAIN s = ChatFields /\ DOMAIN s.client = ReaderFields

\* Nothing but the flags fs and, at the client, the fields cs (and the chunks counted).
Changes(s, t, fs, cs) ==
    /\ ChatShape(t)
    /\ \A f \in ChatFields \ (fs \cup {"client"}) : t[f] = s[f]
    /\ \A c \in ReaderFields \ (cs \cup {"chunks"}) : t.client[c] = s.client[c]

LEMMA ChunkFacts ==
    ASSUME NEW s, ChatShape(s)
    PROVE  Changes(s, Chunk(s), {}, {})
BY DEF ChatShape, ChatFields, ReaderFields, Changes, Chunk

LEMMA AddReasoningFacts ==
    ASSUME NEW s, NEW text, ChatShape(s)
    PROVE  LET t == AddReasoning(s, text)
           IN  /\ Changes(s, t, {"hasReasoning"}, {"reasoning"})
               /\ t.hasReasoning = TRUE
               /\ t.client.reasoning = s.client.reasoning \o text
<1> DEFINE u == [s EXCEPT !.hasReasoning = TRUE, !.client.reasoning = @ \o text]
<1>1. /\ Changes(s, u, {"hasReasoning"}, {"reasoning"})
      /\ u.hasReasoning = TRUE /\ u.client.reasoning = s.client.reasoning \o text
  BY DEF ChatShape, ChatFields, ReaderFields, Changes
<1> HIDE DEF u
<1>2. Changes(u, Chunk(u), {}, {})
  BY <1>1, ChunkFacts DEF Changes
<1>3. AddReasoning(s, text) = Chunk(u)
  BY DEF AddReasoning, u
<1> QED
  BY <1>1, <1>2, <1>3 DEF Changes, ChatFields, ReaderFields

LEMMA SummaryDeltaFacts ==
    ASSUME NEW s, NEW token, ChatShape(s)
    PROVE  LET t == ChatSummaryDelta(s, token)
           IN  /\ Changes(s, t, {"hasReasoning", "summaryDelta"}, {"reasoning"})
               /\ t.hasReasoning = TRUE /\ t.summaryDelta = TRUE
               /\ t.client.reasoning = s.client.reasoning \o <<token>>
<1> DEFINE u == AddReasoning(s, <<token>>)
           v == [u EXCEPT !.summaryDelta = TRUE]
<1>1. /\ Changes(s, u, {"hasReasoning"}, {"reasoning"})
      /\ u.hasReasoning = TRUE /\ u.client.reasoning = s.client.reasoning \o <<token>>
  BY AddReasoningFacts
<1>2. ChatSummaryDelta(s, token) = v
  BY DEF ChatSummaryDelta
<1> HIDE DEF u
<1>3. Changes(u, v, {"summaryDelta"}, {}) /\ v.summaryDelta = TRUE
  BY <1>1 DEF ChatShape, ChatFields, ReaderFields, Changes
<1> HIDE DEF v
<1> QED
  BY <1>1, <1>2, <1>3 DEF Changes, ChatFields, ReaderFields

LEMMA SummaryDoneFacts ==
    ASSUME NEW s, NEW text, ChatShape(s)
    PROVE  LET t == ChatSummaryDone(s, text)
           IN  /\ Changes(s, t, {"hasReasoning"}, {"reasoning"})
               /\ IF text # Empty /\ ~s.summaryDelta
                  THEN t.hasReasoning = TRUE /\ t.client.reasoning = s.client.reasoning \o text
                  ELSE /\ t.hasReasoning = s.hasReasoning
                       /\ t.client.reasoning = Append(s.client.reasoning, Separator)
<1>1. CASE text # Empty /\ ~s.summaryDelta
  BY <1>1, AddReasoningFacts DEF ChatSummaryDone
<1>2. CASE ~(text # Empty /\ ~s.summaryDelta)
  <2> DEFINE u == [s EXCEPT !.client.reasoning = Append(@, Separator)]
  <2>1. Changes(s, u, {}, {"reasoning"}) /\ u.client.reasoning = Append(s.client.reasoning, Separator)
    BY DEF ChatShape, ChatFields, ReaderFields, Changes
  <2>2. ChatSummaryDone(s, text) = Chunk(u)
    BY <1>2 DEF ChatSummaryDone
  <2> HIDE DEF u
  <2>3. Changes(u, Chunk(u), {}, {})
    BY <2>1, ChunkFacts DEF Changes
  <2> QED
    BY <1>2, <2>1, <2>2, <2>3 DEF Changes, ChatFields, ReaderFields
<1> QED
  BY <1>1, <1>2

LEMMA ReasoningDeltaFacts ==
    ASSUME NEW s, NEW token, ChatShape(s)
    PROVE  LET t == ChatReasoningDelta(s, token)
           IN  /\ Changes(s, t, {"hasReasoning", "byItem"}, {"reasoning"})
               /\ t.hasReasoning = TRUE /\ t.byItem = Append(s.byItem, token)
               /\ t.client.reasoning = s.client.reasoning \o <<token>>
<1> DEFINE u == AddReasoning(s, <<token>>)
           v == [u EXCEPT !.byItem = Append(@, token)]
<1>1. /\ Changes(s, u, {"hasReasoning"}, {"reasoning"})
      /\ u.hasReasoning = TRUE /\ u.client.reasoning = s.client.reasoning \o <<token>>
  BY AddReasoningFacts
<1>2. ChatReasoningDelta(s, token) = v
  BY DEF ChatReasoningDelta
<1> HIDE DEF u
<1>3. Changes(u, v, {"byItem"}, {}) /\ v.byItem = Append(u.byItem, token)
  BY <1>1 DEF ChatShape, ChatFields, ReaderFields, Changes
<1> HIDE DEF v
<1> QED
  BY <1>1, <1>2, <1>3 DEF Changes, ChatFields, ReaderFields

\* What is left of a reasoning text when its deltas have been sent.
RestOf(full, acc) ==
    IF full = acc THEN Empty
    ELSE IF acc # Empty /\ IsPrefix(acc, full) THEN SubSeq(full, Len(acc) + 1, Len(full)) ELSE full

LEMMA ReasoningDoneFacts ==
    ASSUME NEW s, NEW full, ChatShape(s)
    PROVE  LET t == ChatReasoningDone(s, full)
               rest == RestOf(full, s.byItem)
           IN  /\ Changes(s, t, {"hasReasoning", "byItem"}, {"reasoning"})
               /\ t.byItem = <<>>
               /\ IF full = Empty \/ rest = Empty
                  THEN /\ t.hasReasoning = s.hasReasoning
                       /\ t.client.reasoning = s.client.reasoning
                  ELSE t.hasReasoning = TRUE /\ t.client.reasoning = s.client.reasoning \o rest
<1> DEFINE u == [s EXCEPT !.byItem = <<>>]
           rest == RestOf(full, s.byItem)
<1>1. /\ Changes(s, u, {"byItem"}, {}) /\ u.byItem = <<>> /\ u.hasReasoning = s.hasReasoning
      /\ u.client.reasoning = s.client.reasoning
  BY DEF ChatShape, ChatFields, ReaderFields, Changes
<1>2. ChatReasoningDone(s, full) = IF full = Empty \/ rest = Empty THEN u ELSE AddReasoning(u, rest)
  BY DEF ChatReasoningDone, RestOf
<1> HIDE DEF u, rest
<1>3. LET t == AddReasoning(u, rest)
      IN  /\ Changes(u, t, {"hasReasoning"}, {"reasoning"})
          /\ t.hasReasoning = TRUE
          /\ t.client.reasoning = u.client.reasoning \o rest
  BY <1>1, AddReasoningFacts, Zenon DEF Changes
<1>4. CASE full = Empty \/ rest = Empty
  BY <1>1, <1>2, <1>4 DEF Changes, ChatFields, ReaderFields, rest
<1>5. CASE ~(full = Empty \/ rest = Empty)
  BY <1>1, <1>2, <1>3, <1>5 DEF Changes, ChatFields, ReaderFields, rest
<1> QED
  BY <1>4, <1>5

LEMMA ChatTextFacts ==
    ASSUME NEW s, NEW token, ChatShape(s)
    PROVE  LET t == ChatText(s, token)
           IN  /\ Changes(s, t, {"hasText"}, {"content"})
               /\ t.hasText = TRUE /\ t.client.content = Append(s.client.content, token)
<1> DEFINE u == [s EXCEPT !.hasText = TRUE, !.client.content = Append(@, token)]
<1>1. /\ Changes(s, u, {"hasText"}, {"content"})
      /\ u.hasText = TRUE /\ u.client.content = Append(s.client.content, token)
  BY DEF ChatShape, ChatFields, ReaderFields, Changes
<1> HIDE DEF u
<1>2. Changes(u, Chunk(u), {}, {})
  BY <1>1, ChunkFacts DEF Changes
<1>3. ChatText(s, token) = Chunk(u)
  BY DEF ChatText, u
<1> QED
  BY <1>1, <1>2, <1>3 DEF Changes, ChatFields, ReaderFields

LEMMA NewCallFacts ==
    ASSUME NEW s, NEW name, NEW args, ChatShape(s)
    PROVE  LET t == NewCall(s, name, args)
           IN  /\ Changes(s, t, {"hasToolCall", "calls"}, {"calls"})
               /\ t.hasToolCall = TRUE /\ t.calls = s.calls + 1
               /\ t.client.calls = Append(s.client.calls, [name |-> name, args |-> args])
<1> DEFINE e == [name |-> name, args |-> args]
<1> HIDE DEF e
<1> DEFINE u == [s EXCEPT !.hasToolCall = TRUE, !.calls = @ + 1,
                          !.client.calls = Append(@, e)]
<1>1. /\ Changes(s, u, {"hasToolCall", "calls"}, {"calls"})
      /\ u.hasToolCall = TRUE /\ u.calls = s.calls + 1
      /\ u.client.calls = Append(s.client.calls, e)
  BY DEF ChatShape, ChatFields, ReaderFields, Changes
<1>3. NewCall(s, name, args) = Chunk(u)
  BY DEF NewCall, e
<1> HIDE DEF u
<1>2. Changes(u, Chunk(u), {}, {})
  BY <1>1, ChunkFacts DEF Changes
<1> QED
  BY <1>1, <1>2, <1>3 DEF Changes, ChatFields, ReaderFields, e

LEMMA ChatCallFacts ==
    ASSUME NEW s, NEW name, ChatShape(s)
    PROVE  LET t == ChatCall(s, name)
           IN  /\ Changes(s, t, {"hasToolCall", "calls", "argsDelta", "announced"}, {"calls"})
               /\ t.hasToolCall = TRUE /\ t.calls = s.calls + 1
               /\ t.argsDelta = FALSE /\ t.announced = TRUE
               /\ t.client.calls = Append(s.client.calls, [name |-> name, args |-> Empty])
<1> DEFINE u == NewCall(s, name, Empty)
           v == [u EXCEPT !.argsDelta = FALSE, !.announced = TRUE]
           e == [name |-> name, args |-> Empty]
<1> HIDE DEF e
<1>1. /\ Changes(s, u, {"hasToolCall", "calls"}, {"calls"})
      /\ u.hasToolCall = TRUE /\ u.calls = s.calls + 1 /\ u.client.calls = Append(s.client.calls, e)
  BY NewCallFacts DEF e
<1>2. ChatCall(s, name) = v
  BY DEF ChatCall
<1> HIDE DEF u
<1>3. Changes(u, v, {"argsDelta", "announced"}, {}) /\ v.argsDelta = FALSE /\ v.announced = TRUE
  BY <1>1 DEF ChatShape, ChatFields, ReaderFields, Changes
<1> HIDE DEF v
<1> QED
  BY <1>1, <1>2, <1>3 DEF Changes, ChatFields, ReaderFields, e

LEMMA AddArgsFacts ==
    ASSUME NEW s, NEW args, ChatShape(s)
    PROVE  LET t == AddArgs(s, args)
           IN  /\ Changes(s, t, {"hasToolCall"}, {"calls"})
               /\ t.hasToolCall = TRUE
               /\ t.client.calls = [s.client.calls EXCEPT ![s.calls].args = @ \o args]
<1> DEFINE u == [s EXCEPT !.hasToolCall = TRUE, !.client.calls[s.calls].args = @ \o args]
           calls == [s.client.calls EXCEPT ![s.calls].args = @ \o args]
<1>1. u = [s EXCEPT !.hasToolCall = TRUE, !.client.calls = calls]
  BY DEF ChatShape, ChatFields, ReaderFields
<1>2. AddArgs(s, args) = Chunk(u)
  BY DEF AddArgs
<1> HIDE DEF calls, u
<1>3. Changes(s, u, {"hasToolCall"}, {"calls"}) /\ u.hasToolCall = TRUE /\ u.client.calls = calls
  BY <1>1 DEF ChatShape, ChatFields, ReaderFields, Changes
<1>4. Changes(u, Chunk(u), {}, {})
  BY <1>3, ChunkFacts DEF Changes
<1> QED
  BY <1>2, <1>3, <1>4 DEF Changes, ChatFields, ReaderFields, calls

LEMMA ArgsDeltaFacts ==
    ASSUME NEW s, NEW token, ChatShape(s)
    PROVE  LET t == ChatArgsDelta(s, token)
           IN  /\ Changes(s, t, {"hasToolCall", "argsDelta"}, {"calls"})
               /\ t.hasToolCall = TRUE /\ t.argsDelta = TRUE
               /\ t.client.calls = [s.client.calls EXCEPT ![s.calls].args = @ \o <<token>>]
<1> DEFINE u == AddArgs(s, <<token>>)
           v == [u EXCEPT !.argsDelta = TRUE]
           calls == [s.client.calls EXCEPT ![s.calls].args = @ \o <<token>>]
<1>1. /\ Changes(s, u, {"hasToolCall"}, {"calls"})
      /\ u.hasToolCall = TRUE /\ u.client.calls = calls
  BY AddArgsFacts
<1>2. ChatArgsDelta(s, token) = v
  BY DEF ChatArgsDelta
<1> HIDE DEF u, calls
<1>3. Changes(u, v, {"argsDelta"}, {}) /\ v.argsDelta = TRUE
  BY <1>1 DEF ChatShape, ChatFields, ReaderFields, Changes
<1> HIDE DEF v
<1> QED
  BY <1>1, <1>2, <1>3 DEF Changes, ChatFields, ReaderFields, calls

LEMMA ArgsDoneFacts ==
    ASSUME NEW s, NEW args, ChatShape(s)
    PROVE  LET t == ChatArgsDone(s, args)
           IN  /\ Changes(s, t, {"hasToolCall"}, {"calls"})
               /\ t.hasToolCall = TRUE
               /\ t.client.calls = IF s.argsDelta THEN s.client.calls
                                   ELSE [s.client.calls EXCEPT ![s.calls].args = @ \o args]
<1>1. CASE s.argsDelta
  <2> DEFINE u == [s EXCEPT !.hasToolCall = TRUE]
  <2>1. Changes(s, u, {"hasToolCall"}, {}) /\ u.hasToolCall = TRUE
    BY DEF ChatShape, ChatFields, ReaderFields, Changes
  <2>2. ChatArgsDone(s, args) = u
    BY <1>1 DEF ChatArgsDone
  <2> HIDE DEF u
  <2> QED
    BY <1>1, <2>1, <2>2 DEF Changes, ChatFields, ReaderFields
<1>2. CASE ~s.argsDelta
  <2> DEFINE calls == [s.client.calls EXCEPT ![s.calls].args = @ \o args]
             u == AddArgs(s, args)
  <2>1. Changes(s, u, {"hasToolCall"}, {"calls"}) /\ u.hasToolCall = TRUE /\ u.client.calls = calls
    BY AddArgsFacts
  <2>2. ChatArgsDone(s, args) = u
    BY <1>2 DEF ChatArgsDone
  <2>3. calls = IF s.argsDelta THEN s.client.calls
                ELSE [s.client.calls EXCEPT ![s.calls].args = @ \o args]
    BY <1>2
  <2> HIDE DEF calls, u
  <2> QED
    BY <2>1, <2>2, <2>3
<1> QED
  BY <1>1, <1>2

LEMMA ChatCallDoneFacts ==
    ASSUME NEW s, NEW name, NEW args, ChatShape(s)
    PROVE  LET t == ChatCallDone(s, name, args)
           IN  /\ Changes(s, t, {"hasToolCall", "calls", "announced"}, {"calls"})
               /\ t.hasToolCall = TRUE
               /\ IF s.announced
                  THEN t.announced = FALSE /\ t.calls = s.calls /\ t.client.calls = s.client.calls
                  ELSE /\ t.announced = s.announced /\ t.calls = s.calls + 1
                       /\ t.client.calls = Append(s.client.calls, [name |-> name, args |-> args])
<1>1. CASE s.announced
  <2> DEFINE u == [s EXCEPT !.hasToolCall = TRUE, !.announced = FALSE]
  <2>1. /\ Changes(s, u, {"hasToolCall", "announced"}, {}) /\ u.hasToolCall = TRUE
        /\ u.announced = FALSE
    BY DEF ChatShape, ChatFields, ReaderFields, Changes
  <2>2. ChatCallDone(s, name, args) = u
    BY <1>1 DEF ChatCallDone
  <2> HIDE DEF u
  <2> QED
    BY <1>1, <2>1, <2>2 DEF Changes, ChatFields, ReaderFields
<1>2. CASE ~s.announced
  <2> DEFINE e == [name |-> name, args |-> args]
  <2> HIDE DEF e
  <2>1. LET t == NewCall(s, name, args)
        IN  /\ Changes(s, t, {"hasToolCall", "calls"}, {"calls"})
            /\ t.hasToolCall = TRUE /\ t.calls = s.calls + 1
            /\ t.client.calls = Append(s.client.calls, e)
    BY NewCallFacts DEF e
  <2>2. ChatCallDone(s, name, args) = NewCall(s, name, args)
    BY <1>2 DEF ChatCallDone
  <2> QED
    BY <1>2, <2>1, <2>2 DEF Changes, ChatFields, ReaderFields, e
<1> QED
  BY <1>1, <1>2

LEMMA FinishChunkFacts ==
    ASSUME NEW s, ChatShape(s)
    PROVE  LET t == FinishChunk(s)
           IN  /\ Changes(s, t, {}, {"finish"})
               /\ t.client.finish = Append(s.client.finish,
                                           IF s.calls # 0 THEN "tool_calls" ELSE "stop")
<1> DEFINE reason == IF s.calls # 0 THEN "tool_calls" ELSE "stop"
<1> HIDE DEF reason
<1> DEFINE u == [s EXCEPT !.client.finish = Append(@, reason)]
<1>1. Changes(s, u, {}, {"finish"}) /\ u.client.finish = Append(s.client.finish, reason)
  BY DEF ChatShape, ChatFields, ReaderFields, Changes
<1>3. FinishChunk(s) = Chunk(u)
  BY DEF FinishChunk, reason
<1> HIDE DEF u
<1>2. Changes(u, Chunk(u), {}, {})
  BY <1>1, ChunkFacts DEF Changes
<1> QED
  BY <1>1, <1>2, <1>3 DEF Changes, ChatFields, ReaderFields, reason

LEMMA ChatCompletedFacts ==
    ASSUME NEW s, ChatShape(s)
    PROVE  LET t == ChatCompleted(s)
           IN  /\ Changes(s, t, {"completed"}, {"finish"}) /\ t.completed = TRUE
               /\ t.client.finish = IF HasContent(s)
                                    THEN Append(s.client.finish,
                                                IF s.calls # 0 THEN "tool_calls" ELSE "stop")
                                    ELSE s.client.finish
<1> DEFINE reason == IF s.calls # 0 THEN "tool_calls" ELSE "stop"
           u == [s EXCEPT !.completed = TRUE]
<1>1. /\ Changes(s, u, {"completed"}, {}) /\ u.completed = TRUE /\ u.calls = s.calls
      /\ u.client.finish = s.client.finish
  BY DEF ChatShape, ChatFields, ReaderFields, Changes
<1>2. ChatCompleted(s) = IF HasContent(s) THEN FinishChunk(u) ELSE u
  BY DEF ChatCompleted
<1> HIDE DEF u
<1>3. LET t == FinishChunk(u)
      IN  /\ Changes(u, t, {}, {"finish"})
          /\ t.client.finish = Append(u.client.finish, reason)
  BY <1>1, FinishChunkFacts DEF Changes
<1> HIDE DEF reason
<1>4. CASE HasContent(s)
  BY <1>1, <1>2, <1>3, <1>4 DEF Changes, ChatFields, ReaderFields, reason
<1>5. CASE ~HasContent(s)
  BY <1>1, <1>2, <1>5 DEF Changes, ChatFields, ReaderFields
<1> QED
  BY <1>4, <1>5

LEMMA ChatEndFacts ==
    ASSUME NEW s, ChatShape(s)
    PROVE  LET t == ChatEnd(s)
           IN  /\ Changes(s, t, {"outcome"}, {"finish"})
               /\ t.outcome \in {"empty", "success"}
               /\ s.completed => t.client.finish = s.client.finish
<1> DEFINE last == IF s.completed THEN s ELSE FinishChunk(s)
           t == IF ~HasContent(s) /\ s.client.chunks = 0 THEN [s EXCEPT !.outcome = "empty"]
                ELSE [last EXCEPT !.outcome = "success"]
<1>1. Changes(s, last, {}, {"finish"}) /\ (s.completed => last.client.finish = s.client.finish)
  <2>1. CASE s.completed
    BY <2>1 DEF Changes, ChatShape
  <2>2. CASE ~s.completed
    BY <2>2, FinishChunkFacts
  <2> QED
    BY <2>1, <2>2
<1>2. ChatEnd(s) = t
  BY DEF ChatEnd
<1> HIDE DEF last
<1>3. CASE ~HasContent(s) /\ s.client.chunks = 0
  <2>1. t = [s EXCEPT !.outcome = "empty"]
    BY <1>3
  <2> HIDE DEF t
  <2> QED
    BY <1>2, <2>1 DEF Changes, ChatShape, ChatFields, ReaderFields
<1>4. CASE ~(~HasContent(s) /\ s.client.chunks = 0)
  <2>1. t = [last EXCEPT !.outcome = "success"]
    BY <1>4
  <2> HIDE DEF t
  <2>2. /\ Changes(last, t, {"outcome"}, {}) /\ t.outcome = "success"
        /\ t.client.finish = last.client.finish
    BY <1>1, <2>1 DEF Changes, ChatShape, ChatFields, ReaderFields
  <2> QED
    BY <1>1, <1>2, <2>2 DEF Changes, ChatFields, ReaderFields
<1> QED
  BY <1>3, <1>4

-----------------------------------------------------------------------------
(***************************************************************************)
(* What an OpenAI client has been told, and what is still to come.         *)
(***************************************************************************)
Tokens == Nat \X Nat
TextTokens == Tokens \ {Separator}
Reasoning == {"summary", "reasoning"}
WithoutSeparators(q) == Those(q, {i \in DOMAIN q : q[i] # Separator})

\* The text of the item under way that no delta has brought, if it is of these kinds.
ToCome(kinds) ==
    IF step = "body" /\ Current.kind \in kinds
    THEN SubSeq(Current.text, sent + 1, Len(Current.text)) ELSE <<>>

SentCalls == [name : Seq(STRING), args : Seq(Tokens)]
CallUnder == step # "none" /\ Current.kind = "call"
Reason(s) == IF s.calls # 0 THEN "tool_calls" ELSE "stop"

Asked ==
    /\ "tools" \in DOMAIN request /\ IsNames(request.tools)
    /\ summaries \in BOOLEAN

ItemRight(e, tools) ==
    /\ e.kind \in Reasoning \cup {"message", "call"}
    /\ e.announced \in BOOLEAN /\ e.text \in Seq(TextTokens)
    /\ e.kind = "call" => \E tool \in ToSet(tools) : e.name = ShortName(tools, tool)

ItemsRight ==
    /\ IsSeq(items) /\ \A i \in DOMAIN items : ItemRight(items[i], request.tools)
    /\ stage \in {"start", "items", "cut", "completed", "end"}
    /\ step \in {"none", "body", "args"}
    /\ stage = "start" => items = <<>> /\ step = "none"
    /\ step # "none" => Len(items) > 0 /\ sent \in 0 .. Len(Current.text)
    /\ step = "args" => Current.kind = "call" /\ Current.announced

TextRight ==
    /\ chat.client.content \in Seq(Tokens)
    /\ chat.client.content \o ToCome({"message"}) = Concat({"message"})
    /\ chat.hasText <=> chat.client.content # <<>>

ReasoningRight ==
    LET told == WithoutSeparators(chat.client.reasoning)
    IN  /\ chat.client.reasoning \in Seq(Tokens)
        /\ told \o ToCome(Reasoning) = Concat(Reasoning)
        /\ chat.hasReasoning <=> told # <<>>

\* What keeps a summary or a reasoning text from being told twice.
MarksRight ==
    /\ chat.summaryDelta => summaries
    /\ step = "body" /\ Current.kind = "summary" =>
          IF summaries THEN sent > 0 => chat.summaryDelta ELSE sent = 0
    /\ chat.byItem = IF step = "body" /\ Current.kind = "reasoning"
                     THEN SubSeq(Current.text, 1, sent) ELSE <<>>

\* The n-th call of the client is the n-th of the response, but for one under way
\* that was not announced, and what the one under way still lacks is to come.
CallsRight ==
    LET calls == chat.client.calls
    IN  /\ IsSeq(calls) /\ chat.calls = Len(calls) /\ IsSeq(Calls)
        /\ Len(calls) = IF CallUnder /\ ~Current.announced THEN Len(Calls) - 1 ELSE Len(Calls)
        /\ \A i \in DOMAIN calls :
              /\ calls[i] \in SentCalls
              /\ calls[i].name = OriginalName(request.tools, Calls[i].name)
              /\ calls[i].name \in ToSet(request.tools)
              /\ calls[i].args \in Seq(Tokens)
              /\ calls[i].args \o (IF i = Len(Calls) THEN ToCome({"call"}) ELSE <<>>)
                    = Calls[i].text
        /\ CallUnder => Len(Calls) > 0 /\ Calls[Len(Calls)] = Current
        /\ chat.announced <=> CallUnder /\ Current.announced
        /\ step = "body" /\ Current.kind = "call" /\ Current.announced =>
              (chat.argsDelta <=> sent > 0)
        /\ chat.hasToolCall <=> calls # <<>>

EndRight ==
    /\ chat.completed => stage \in {"completed", "end"} /\ step = "none"
    /\ stage # "end" \/ chat.completed =>
          chat.client.finish = IF chat.completed /\ HasContent(chat) THEN <<Reason(chat)>>
                               ELSE <<>>

CInv ==
    /\ Asked /\ ChatShape(chat) /\ ItemsRight
    /\ TextRight /\ ReasoningRight /\ MarksRight /\ CallsRight /\ EndRight

-----------------------------------------------------------------------------
\* The lists of the whole response, as they grow with its items.
ConcatOf(q, kinds) ==
    FlattenSeq([i \in DOMAIN q |-> IF q[i].kind \in kinds THEN q[i].text ELSE <<>>])
CallsOf(q) == Those(q, {i \in DOMAIN q : q[i].kind = "call"})

LEMMA ConcatLonger ==
    ASSUME NEW q, IsSeq(q), \A i \in DOMAIN q : q[i].text \in Seq(TextTokens),
           NEW e, e.text \in Seq(TextTokens), NEW kinds
    PROVE  /\ ConcatOf(Append(q, e), kinds)
                 = ConcatOf(q, kinds) \o (IF e.kind \in kinds THEN e.text ELSE <<>>)
           /\ ConcatOf(q, kinds) \in Seq(TextTokens)
<1> DEFINE r == Append(q, e)
           n == Len(q)
           Part(x) == IF x.kind \in kinds THEN x.text ELSE <<>>
           qs == [i \in 1 .. n |-> Part(q[i])]
           rs == [i \in 1 .. n + 1 |-> Part(r[i])]
<1>1. /\ n \in Nat /\ DOMAIN q = 1 .. n /\ DOMAIN r = 1 .. n + 1 /\ r[n + 1] = e
      /\ \A i \in 1 .. n : r[i] = q[i]
  BY AppendAny
<1>2. ConcatOf(q, kinds) = FlattenSeq(qs) /\ ConcatOf(r, kinds) = FlattenSeq(rs)
  BY <1>1 DEF ConcatOf
<1> HIDE DEF r, n
<1>3. <<>> \in Seq(TextTokens)
  OBVIOUS
<1>4. Part(e) \in Seq(TextTokens) /\ \A i \in 1 .. n : Part(q[i]) \in Seq(TextTokens)
  BY <1>1, <1>3
<1> HIDE DEF Part
<1>5. /\ DOMAIN qs = 1 .. n /\ DOMAIN rs = 1 .. n + 1
      /\ qs = [i \in 1 .. n |-> qs[i]] /\ rs = [i \in 1 .. n + 1 |-> rs[i]]
      /\ \A i \in 1 .. n + 1 : rs[i] = Part(r[i])
      /\ \A i \in 1 .. n : qs[i] = Part(q[i])
  OBVIOUS
<1> HIDE DEF qs, rs
<1>6. \A i \in 1 .. n + 1 : i \in 1 .. n \/ i = n + 1
  BY <1>1
<1>7. \A i \in 1 .. n : i \in 1 .. n + 1
  BY <1>1
<1>8. \A i \in 1 .. n + 1 : rs[i] \in Seq(TextTokens)
  BY <1>1, <1>4, <1>5, <1>6
<1>9. \A i \in 1 .. n : qs[i] = rs[i]
  BY <1>1, <1>5, <1>7
<1>10. FlattenSeq(rs) = FlattenSeq(qs) \o rs[n + 1] /\ FlattenSeq(qs) \in Seq(TextTokens)
  BY <1>1, <1>5, <1>8, <1>9, FlattenLonger
<1>11. rs[n + 1] = Part(e)
  <2>1. n + 1 \in 1 .. n + 1
    BY <1>1
  <2> QED
    BY <1>1, <1>5, <2>1
<1>12. /\ ConcatOf(r, kinds) = ConcatOf(q, kinds) \o Part(e)
       /\ ConcatOf(q, kinds) \in Seq(TextTokens)
  BY <1>2, <1>10, <1>11
<1> QED
  BY <1>12 DEF r, Part

LEMMA CallsLonger ==
    ASSUME NEW q, IsSeq(q), NEW e
    PROVE  /\ CallsOf(Append(q, e)) = IF e.kind = "call" THEN Append(CallsOf(q), e) ELSE CallsOf(q)
           /\ IsSeq(CallsOf(q))
<1> DEFINE r == Append(q, e)
           n == Len(q)
           K == {i \in DOMAIN q : q[i].kind = "call"}
           L == {i \in DOMAIN r : r[i].kind = "call"}
<1>1. /\ n \in Nat /\ DOMAIN q = 1 .. n /\ DOMAIN r = 1 .. n + 1 /\ r[n + 1] = e
      /\ \A i \in 1 .. n : r[i] = q[i]
  BY AppendAny
<1>2. PICK S : q \in Seq(S)
  BY DEF IsSeq
<1>3. q \in Seq(S \cup {e}) /\ e \in S \cup {e}
  BY <1>2
<1>4. CallsOf(q) = Those(q, K) /\ CallsOf(r) = Those(r, L)
  BY DEF CallsOf
<1>5. n + 1 \in L <=> e.kind = "call"
  <2>1. n + 1 \in 1 .. n + 1
    BY <1>1
  <2> QED
    BY <1>1, <2>1
<1>6. \A i \in 1 .. n : i \in K <=> i \in L
  <2>1. \A i \in 1 .. n : i \in 1 .. n + 1
    BY <1>1
  <2> QED
    BY <1>1, <2>1
<1> HIDE DEF K, L
<1>7. /\ Those(Append(q, e), L) = IF Len(q) + 1 \in L THEN Append(Those(q, K), e) ELSE Those(q, K)
      /\ Those(q, K) \in Seq(S \cup {e})
  BY <1>3, <1>6, ThoseLonger
<1>8. IsSeq(CallsOf(q))
  BY <1>4, <1>7 DEF IsSeq
<1> QED
  BY <1>4, <1>5, <1>7, <1>8

LEMMA NoItems ==
    ASSUME items = <<>>
    PROVE  Calls = <<>> /\ \A kinds : Concat(kinds) = <<>>
<1>1. Calls = <<>>
  BY ThoseEmpty DEF Calls
<1>2. ASSUME NEW kinds PROVE Concat(kinds) = <<>>
  <2>1. [i \in DOMAIN items |-> IF items[i].kind \in kinds THEN items[i].text ELSE <<>>] = <<>>
    OBVIOUS
  <2> QED
    BY <2>1, FlattenEmpty DEF Concat
<1> QED
  BY <1>1, <1>2

LEMMA WithoutLonger ==
    ASSUME NEW q \in Seq(Tokens), NEW e \in Tokens
    PROVE  /\ WithoutSeparators(Append(q, e))
                 = IF e = Separator THEN WithoutSeparators(q) ELSE Append(WithoutSeparators(q), e)
           /\ WithoutSeparators(q) \in Seq(Tokens)
<1> DEFINE r == Append(q, e)
           n == Len(q)
           K == {i \in DOMAIN q : q[i] # Separator}
           L == {i \in DOMAIN r : r[i] # Separator}
<1>1. /\ n \in Nat /\ DOMAIN q = 1 .. n /\ DOMAIN r = 1 .. n + 1 /\ r[n + 1] = e
      /\ \A i \in 1 .. n : r[i] = q[i]
  OBVIOUS
<1>4. WithoutSeparators(q) = Those(q, K) /\ WithoutSeparators(r) = Those(r, L)
  BY DEF WithoutSeparators
<1>5. n + 1 \in L <=> e # Separator
  <2>1. n + 1 \in 1 .. n + 1
    BY <1>1
  <2> QED
    BY <1>1, <2>1
<1>6. \A i \in 1 .. n : i \in K <=> i \in L
  <2>1. \A i \in 1 .. n : i \in 1 .. n + 1
    BY <1>1
  <2> QED
    BY <1>1, <2>1
<1> HIDE DEF K, L
<1>7. /\ Those(Append(q, e), L) = IF Len(q) + 1 \in L THEN Append(Those(q, K), e) ELSE Those(q, K)
      /\ Those(q, K) \in Seq(Tokens)
  BY <1>6, ThoseLonger
<1> QED
  BY <1>4, <1>5, <1>7

LEMMA WithoutEmpty == WithoutSeparators(<<>>) = <<>>
BY ThoseEmpty DEF WithoutSeparators

LEMMA WithoutMore ==
    ASSUME NEW q \in Seq(Tokens), NEW r \in Seq(TextTokens)
    PROVE  /\ WithoutSeparators(q \o r) = WithoutSeparators(q) \o r
           /\ WithoutSeparators(q) \in Seq(Tokens)
<1> DEFINE W(x) == WithoutSeparators(x)
           T == {k \in Nat : k <= Len(r) => W(q \o SubSeq(r, 1, k)) = W(q) \o SubSeq(r, 1, k)}
<1>1. /\ TextTokens \subseteq Tokens /\ Separator \notin TextTokens /\ Separator \in Tokens
      /\ Len(r) \in Nat /\ r \in Seq(Tokens)
  BY DEF TextTokens, Tokens, Separator
<1>2. W(q) \in Seq(Tokens)
  BY <1>1, WithoutLonger
<1> HIDE DEF W
<1>3. 0 \in T
  <2>1. SubSeq(r, 1, 0) = <<>>
    BY SubSeqEmpty
  <2>2. q \o <<>> = q /\ W(q) \o <<>> = W(q)
    BY <1>2
  <2> QED
    BY <2>1, <2>2
<1>4. ASSUME NEW k \in Nat, k \in T
      PROVE  k + 1 \in T
  <2> SUFFICES ASSUME k + 1 <= Len(r)
               PROVE  W(q \o SubSeq(r, 1, k + 1)) = W(q) \o SubSeq(r, 1, k + 1)
    OBVIOUS
  <2> DEFINE a == SubSeq(r, 1, k)
             e == r[k + 1]
  <2>1. k < Len(r) /\ k <= Len(r) /\ k \in 0 .. Len(r)
    BY <1>1
  <2>2. e \in TextTokens /\ SubSeq(r, 1, k + 1) = Append(a, e)
    BY <2>1, OneFurther
  <2>3. a \in Seq(Tokens)
    BY <1>1, <2>1, CutInTwo
  <2>4. W(q \o a) = W(q) \o a
    BY <1>4, <2>1
  <2> HIDE DEF a, e, T
  <2>5. e \in Tokens /\ e # Separator
    BY <1>1, <2>2
  <2>6. q \o a \in Seq(Tokens) /\ q \o Append(a, e) = Append(q \o a, e)
    BY <2>3, <2>5
  <2>7. W(Append(q \o a, e)) = Append(W(q \o a), e)
    BY <2>5, <2>6, WithoutLonger DEF W
  <2>8. Append(W(q) \o a, e) = W(q) \o Append(a, e)
    <3>1. W(q) \o a \in Seq(Tokens) /\ <<e>> \in Seq(Tokens)
      BY <1>2, <2>3, <2>5
    <3>2. Append(W(q) \o a, e) = (W(q) \o a) \o <<e>> /\ Append(a, e) = a \o <<e>>
      BY <2>3, <2>5, <3>1, AppendIsConcat
    <3>3. (W(q) \o a) \o <<e>> = W(q) \o (a \o <<e>>)
      BY <1>2, <2>3, <3>1, ConcatAssociative
    <3> QED
      BY ONLY <3>2, <3>3
  <2> QED
    BY <2>2, <2>4, <2>6, <2>7, <2>8
<1>5. Len(r) \in T
  <2> HIDE DEF T
  <2> QED
    BY <1>1, <1>3, <1>4, AllNaturals
<1>6. SubSeq(r, 1, Len(r)) = r
  BY <1>1, CutInTwo
<1>7. W(q \o r) = W(q) \o r
  <2>1. Len(r) <= Len(r)
    BY <1>1
  <2>2. W(q \o SubSeq(r, 1, Len(r))) = W(q) \o SubSeq(r, 1, Len(r))
    BY <1>5, <2>1, Zenon
  <2> QED
    BY <1>6, <2>2
<1> QED
  BY <1>2, <1>7 DEF W

LEMMA CurrentFacts ==
    ASSUME ItemsRight
    PROVE  /\ step # "none" => /\ ItemRight(Current, request.tools) /\ sent \in 0 .. Len(Current.text)
                               /\ Len(items) \in DOMAIN items
           /\ \A i \in DOMAIN items : items[i].text \in Seq(TextTokens)
<1>1. IsSeq(items) /\ \A i \in DOMAIN items : ItemRight(items[i], request.tools)
  BY DEF ItemsRight
<1>2. Len(items) \in Nat /\ DOMAIN items = 1 .. Len(items)
  BY <1>1 DEF IsSeq
<1>3. step # "none" => Len(items) > 0 /\ sent \in 0 .. Len(Current.text)
  BY DEF ItemsRight
<1>4. step # "none" => Len(items) \in DOMAIN items
  BY <1>2, <1>3
<1>5. step # "none" => ItemRight(Current, request.tools)
  BY <1>1, <1>4 DEF Current
<1> QED
  BY <1>1, <1>3, <1>4, <1>5 DEF ItemRight

LEMMA ListsTyped ==
    ASSUME ItemsRight, NEW kinds
    PROVE  Concat(kinds) \in Seq(TextTokens) /\ ToCome(kinds) \in Seq(TextTokens)
<1>1. IsSeq(items) /\ \A i \in DOMAIN items : items[i].text \in Seq(TextTokens)
  BY CurrentFacts DEF ItemsRight
<1>2. ConcatOf(items, kinds) \in Seq(TextTokens)
  <2> DEFINE e == [kind |-> "none", text |-> <<>>]
  <2>1. e.text \in Seq(TextTokens)
    OBVIOUS
  <2> HIDE DEF e
  <2> QED
    BY <1>1, <2>1, ConcatLonger
<1>3. Concat(kinds) \in Seq(TextTokens)
  BY <1>2 DEF Concat, ConcatOf
<1>4. CASE step = "body"
  <2>1. Current.text \in Seq(TextTokens) /\ sent \in 0 .. Len(Current.text)
    BY <1>4, CurrentFacts DEF ItemRight
  <2>2. SubSeq(Current.text, sent + 1, Len(Current.text)) \in Seq(TextTokens)
    BY <2>1, CutInTwo
  <2> QED
    BY <1>3, <2>2 DEF ToCome
<1>5. CASE step # "body"
  BY <1>3, <1>5 DEF ToCome
<1> QED
  BY <1>4, <1>5

\* The response stays as it is.
LEMMA SameResponse ==
    ASSUME UNCHANGED <<items, step, sent>>
    PROVE  /\ Calls' = Calls /\ CallUnder' = CallUnder /\ Current' = Current
           /\ \A kinds : Concat(kinds)' = Concat(kinds) /\ ToCome(kinds)' = ToCome(kinds)
BY DEF Calls, CallUnder, Current, Concat, ToCome

LEMMA BeginRight ==
    ASSUME ItemsRight, NEW kind \in Reasoning \cup {"message", "call"}, NEW len \in Nat, NEW name,
           NEW announced \in BOOLEAN, Begin(kind, len, name, announced),
           kind = "call" => \E tool \in ToSet(request.tools) : name = ShortName(request.tools, tool)
    PROVE  /\ ItemsRight' /\ step = "none" /\ step' = "body" /\ sent' = 0
           /\ stage = "items" /\ stage' = "items" /\ UNCHANGED <<request, summaries>>
           /\ Current'.kind = kind /\ Current'.announced = announced /\ Current'.name = name
           /\ Current'.text \in Seq(TextTokens)
           /\ Calls' = IF kind = "call" THEN Append(Calls, Current') ELSE Calls
           /\ IsSeq(Calls)
           /\ \A kinds :
                 LET d == IF kind \in kinds THEN Current'.text ELSE <<>>
                 IN  /\ Concat(kinds)' = Concat(kinds) \o d
                     /\ ToCome(kinds)' = d /\ ToCome(kinds) = <<>>
<1>0. IsSeq(items) /\ Len(items) \in Nat
      /\ \A i \in DOMAIN items : items[i].text \in Seq(TextTokens) /\ ItemRight(items[i], request.tools)
  BY CurrentFacts DEF ItemsRight, IsSeq
<1>1. PICK e : /\ items' = Append(items, e) /\ e.kind = kind /\ e.announced = announced
               /\ e.name = name /\ e.text = [p \in 1 .. len |-> <<Len(items) + 1, p>>]
  <2> DEFINE text == [p \in 1 .. len |-> <<Len(items) + 1, p>>]
             r == [kind |-> kind, name |-> name, announced |-> announced, text |-> text]
  <2>1. items' = Append(items, r)
    BY DEF Begin
  <2>2. r.kind = kind /\ r.announced = announced /\ r.name = name /\ r.text = text
    OBVIOUS
  <2> HIDE DEF r
  <2> QED
    BY <2>1, <2>2
<1>2. /\ stage = "items" /\ step = "none" /\ step' = "body" /\ stage' = "items" /\ sent' = 0
      /\ UNCHANGED <<request, summaries>>
  BY DEF Begin
<1>4. e.text \in Seq(TextTokens) /\ Len(e.text) \in Nat
  <2>1. \A p \in 1 .. len : <<Len(items) + 1, p>> \in TextTokens
    BY <1>0 DEF TextTokens, Tokens, Separator
  <2>2. [p \in 1 .. len |-> <<Len(items) + 1, p>>] \in Seq(TextTokens)
    BY <2>1
  <2>3. e.text \in Seq(TextTokens)
    BY <1>1, <2>2
  <2> QED
    BY <2>3
<1>5. /\ IsSeq(items') /\ Len(items') = Len(items) + 1
      /\ DOMAIN items = 1 .. Len(items) /\ DOMAIN items' = 1 .. Len(items) + 1
      /\ items'[Len(items) + 1] = e /\ \A i \in 1 .. Len(items) : items'[i] = items[i]
  BY <1>0, <1>1, AppendAny
<1>6. Current' = e
  BY <1>5 DEF Current
<1>7. ItemRight(e, request.tools)
  BY <1>1, <1>4 DEF ItemRight
<1>8. \A i \in DOMAIN items' : ItemRight(items'[i], request'.tools)
  <2>1. \A i \in 1 .. Len(items) : ItemRight(items'[i], request.tools)
    BY <1>0, <1>5
  <2>2. \A i \in 1 .. Len(items) + 1 : i \in 1 .. Len(items) \/ i = Len(items) + 1
    BY <1>0
  <2> QED
    BY <1>2, <1>5, <1>7, <2>1, <2>2
<1>9. ItemsRight'
  <2>1. Len(items') > 0 /\ sent' \in 0 .. Len(Current'.text)
    BY <1>0, <1>2, <1>4, <1>5, <1>6
  <2> QED
    BY <1>2, <1>5, <1>8, <2>1 DEF ItemsRight
<1>10. Calls' = IF kind = "call" THEN Append(Calls, Current') ELSE Calls
  <2>1. CallsOf(Append(items, e)) = IF e.kind = "call" THEN Append(CallsOf(items), e) ELSE CallsOf(items)
    BY <1>0, CallsLonger
  <2>2. CallsOf(items) = Calls /\ CallsOf(items') = Calls'
    BY DEF CallsOf, Calls
  <2> QED
    BY <1>1, <1>6, <2>1, <2>2
<1>11. IsSeq(Calls)
  BY <1>0, CallsLonger DEF CallsOf, Calls
<1>12. ASSUME NEW kinds
       PROVE  LET d == IF kind \in kinds THEN Current'.text ELSE <<>>
              IN  /\ Concat(kinds)' = Concat(kinds) \o d
                  /\ ToCome(kinds)' = d /\ ToCome(kinds) = <<>>
  <2>1. ConcatOf(Append(items, e), kinds) = ConcatOf(items, kinds) \o (IF e.kind \in kinds THEN e.text ELSE <<>>)
    BY <1>0, <1>1, <1>4, ConcatLonger
  <2>2. ConcatOf(items, kinds) = Concat(kinds) /\ ConcatOf(items', kinds) = Concat(kinds)'
    BY DEF ConcatOf, Concat
  <2>3. Concat(kinds)' = Concat(kinds) \o (IF kind \in kinds THEN Current'.text ELSE <<>>)
    BY <1>1, <1>6, <2>1, <2>2
  <2>4. SubSeq(e.text, 0 + 1, Len(e.text)) = e.text
    <3>1. 0 \in 0 .. Len(e.text)
      BY <1>4
    <3> QED
      BY <1>4, <3>1, CutInTwo
  <2>5. 0 + 1 = 1
    OBVIOUS
  <2>6. SubSeq(Current'.text, sent' + 1, Len(Current'.text)) = Current'.text
    BY <1>2, <1>6, <2>4
  <2> QED
    BY <1>1, <1>2, <1>6, <2>3, <2>6 DEF ToCome
<1> QED
  BY <1>1, <1>2, <1>4, <1>6, <1>9, <1>10, <1>11, <1>12

Messages == {"message"}

LEMMA TextKept ==
    ASSUME ItemsRight, TextRight, UNCHANGED <<chat.client.content, chat.hasText>>,
           NEW d \in Seq(TextTokens), Concat(Messages)' = Concat(Messages) \o d,
           ToCome(Messages)' = ToCome(Messages) \o d
    PROVE  TextRight'
<1> DEFINE content == chat.client.content
           come == ToCome(Messages)
<1>1. TextTokens \subseteq Tokens
  BY DEF TextTokens
<1>2. come \in Seq(Tokens) /\ d \in Seq(Tokens) /\ content \in Seq(Tokens)
  BY <1>1, ListsTyped DEF TextRight
<1>3. content \o come = Concat(Messages)
  BY DEF TextRight, Messages
<1>4. (content \o come) \o d = content \o (come \o d)
  <2> HIDE DEF content, come
  <2> QED
    BY ONLY <1>2, ConcatAssociative
<1>5. content' \o ToCome(Messages)' = Concat(Messages)'
  BY <1>3, <1>4
<1> QED
  BY <1>5 DEF TextRight, Messages

LEMMA ReasoningKept ==
    ASSUME ItemsRight, ReasoningRight, UNCHANGED <<chat.client.reasoning, chat.hasReasoning>>,
           NEW d \in Seq(TextTokens), Concat(Reasoning)' = Concat(Reasoning) \o d,
           ToCome(Reasoning)' = ToCome(Reasoning) \o d
    PROVE  ReasoningRight'
<1> DEFINE told == WithoutSeparators(chat.client.reasoning)
           come == ToCome(Reasoning)
<1>1. TextTokens \subseteq Tokens /\ chat.client.reasoning \in Seq(Tokens)
  BY DEF TextTokens, ReasoningRight
<1>2. come \in Seq(Tokens) /\ d \in Seq(Tokens) /\ told \in Seq(Tokens)
  BY <1>1, ListsTyped, WithoutMore
<1>3. told \o come = Concat(Reasoning)
  BY DEF ReasoningRight
<1>4. (told \o come) \o d = told \o (come \o d)
  <2> HIDE DEF told, come
  <2> QED
    BY ONLY <1>2, ConcatAssociative
<1>5. told' \o ToCome(Reasoning)' = Concat(Reasoning)'
  BY <1>3, <1>4
<1> QED
  BY <1>5 DEF ReasoningRight

LEMMA AllListsTyped == ItemsRight => \A kinds : ToCome(kinds) \in Seq(TextTokens)
BY ListsTyped

LEMMA ListsTypedAfter == ItemsRight' => \A kinds : ToCome(kinds)' \in Seq(TextTokens)
<1>1. (ItemsRight => \A kinds : ToCome(kinds) \in Seq(TextTokens))'
  BY AllListsTyped, PTL
<1> QED
  BY <1>1

LEMMA TextTold ==
    ASSUME ItemsRight, ItemsRight', TextRight, NEW token \in TextTokens,
           chat'.client.content = Append(chat.client.content, token), chat'.hasText = TRUE,
           Concat(Messages)' = Concat(Messages),
           ToCome(Messages) = <<token>> \o ToCome(Messages)'
    PROVE  TextRight'
<1> DEFINE content == chat.client.content
           come == ToCome(Messages)'
<1>1. TextTokens \subseteq Tokens /\ token \in Tokens
  BY DEF TextTokens
<1>2. content \in Seq(Tokens)
  BY DEF TextRight
<1>3. come \in Seq(Tokens)
  <2>1. ToCome(Messages)' \in Seq(TextTokens)
    BY ListsTypedAfter
  <2> QED
    BY <1>1, <2>1
<1>4. content \o (<<token>> \o come) = Concat(Messages)
  BY DEF TextRight, Messages
<1>5. Append(content, token) \in Seq(Tokens) /\ Append(content, token) # <<>>
  <2> HIDE DEF content
  <2>1. Append(content, token) \in Seq(Tokens) /\ Append(content, token)[Len(content) + 1] = token
        /\ Len(Append(content, token)) = Len(content) + 1
    BY <1>1, <1>2, AppendProperties
  <2>2. Len(content) \in Nat /\ Len(<<>>) = 0
    BY <1>2
  <2> QED
    BY <2>1, <2>2
<1>6. Append(content, token) \o come = content \o (<<token>> \o come)
  <2> HIDE DEF content, come
  <2>1. <<token>> \in Seq(Tokens)
    BY <1>1
  <2>2. Append(content, token) = content \o <<token>>
    BY <1>1, <1>2, AppendIsConcat
  <2>3. (content \o <<token>>) \o come = content \o (<<token>> \o come)
    BY ONLY <1>2, <1>3, <2>1, ConcatAssociative
  <2> QED
    BY <2>2, <2>3
<1>7. chat'.client.content \o ToCome(Messages)' = Concat(Messages)'
  BY <1>4, <1>6
<1> QED
  BY <1>5, <1>7 DEF TextRight, Messages

LEMMA ReasoningTold ==
    ASSUME ItemsRight, ItemsRight', ReasoningRight, NEW x \in Seq(TextTokens), x # <<>>,
           chat'.client.reasoning = chat.client.reasoning \o x, chat'.hasReasoning = TRUE,
           Concat(Reasoning)' = Concat(Reasoning),
           ToCome(Reasoning) = x \o ToCome(Reasoning)'
    PROVE  ReasoningRight'
<1> DEFINE q == chat.client.reasoning
           told == WithoutSeparators(q)
           come == ToCome(Reasoning)'
<1>1. TextTokens \subseteq Tokens /\ x \in Seq(Tokens)
  BY DEF TextTokens
<1>2. q \in Seq(Tokens)
  BY DEF ReasoningRight
<1>3. come \in Seq(Tokens)
  <2>1. ToCome(Reasoning)' \in Seq(TextTokens)
    BY ListsTypedAfter
  <2> QED
    BY <1>1, <2>1
<1>4. told \o (x \o come) = Concat(Reasoning)
  BY DEF ReasoningRight
<1>5. q \o x \in Seq(Tokens)
  BY <1>1, <1>2
<1>6. WithoutSeparators(q \o x) = told \o x /\ told \in Seq(Tokens)
  BY <1>2, WithoutMore
<1>7. (told \o x) \o come = told \o (x \o come)
  <2> HIDE DEF told, come
  <2> QED
    BY ONLY <1>1, <1>3, <1>6, ConcatAssociative
<1>8. told \o x # <<>>
  <2> HIDE DEF told
  <2> QED
    BY <1>1, <1>6, ConcatEqualIffEmpty
<1>9. WithoutSeparators(chat'.client.reasoning) = told \o x
  BY <1>6
<1>10. WithoutSeparators(chat'.client.reasoning) \o come = Concat(Reasoning)'
  BY <1>4, <1>7, <1>9
<1> QED
  BY <1>5, <1>8, <1>9, <1>10 DEF ReasoningRight

LEMMA ReasoningSeparated ==
    ASSUME ItemsRight, ReasoningRight, UNCHANGED chat.hasReasoning,
           chat'.client.reasoning = Append(chat.client.reasoning, Separator),
           Concat(Reasoning)' = Concat(Reasoning), ToCome(Reasoning)' = ToCome(Reasoning)
    PROVE  ReasoningRight'
<1>1. Separator \in Tokens /\ chat.client.reasoning \in Seq(Tokens)
  BY DEF Tokens, Separator, ReasoningRight
<1>2. WithoutSeparators(chat'.client.reasoning) = WithoutSeparators(chat.client.reasoning)
  BY <1>1, WithoutLonger
<1>3. chat'.client.reasoning \in Seq(Tokens)
  BY <1>1
<1> QED
  BY <1>2, <1>3 DEF ReasoningRight

LEMMA CallsKept ==
    ASSUME CallsRight, UNCHANGED <<request, Calls>>, ~CallUnder, ~CallUnder',
           UNCHANGED <<chat.client.calls, chat.calls, chat.announced, chat.hasToolCall>>
    PROVE  CallsRight'
<1>1. ToCome({"call"}) = <<>> /\ ToCome({"call"})' = <<>>
  BY DEF ToCome, CallUnder
<1> QED
  BY <1>1 DEF CallsRight, CallUnder

\* Arguments, one token or all, for the call under way.
LEMMA CallsTold ==
    ASSUME CallsRight, ItemsRight', UNCHANGED <<request, Calls, Current>>,
           CallUnder, CallUnder', Current.announced, NEW x \in Seq(TextTokens),
           chat'.client.calls = [chat.client.calls EXCEPT ![chat.calls].args = @ \o x],
           UNCHANGED <<chat.calls, chat.announced>>, chat'.hasToolCall = TRUE,
           ToCome({"call"}) = x \o ToCome({"call"})',
           step' = "body" => (chat'.argsDelta <=> sent' > 0)
    PROVE  CallsRight'
<1> DEFINE n == Len(Calls)
           calls == chat.client.calls
           rest == ToCome({"call"})'
<1>1. /\ IsSeq(calls) /\ IsSeq(Calls) /\ chat.calls = n /\ Len(calls) = n /\ n > 0
      /\ Calls[n] = Current
  BY DEF CallsRight
<1>2. n \in Nat /\ DOMAIN calls = 1 .. n /\ n \in DOMAIN calls
  BY <1>1 DEF IsSeq
<1>3. /\ calls[n] \in SentCalls
      /\ calls[n].name = OriginalName(request.tools, Calls[n].name)
      /\ calls[n].name \in ToSet(request.tools)
      /\ calls[n].args \in Seq(Tokens)
      /\ calls[n].args \o (x \o rest) = Calls[n].text
  BY <1>2 DEF CallsRight
<1>4. TextTokens \subseteq Tokens /\ x \in Seq(Tokens)
  BY DEF TextTokens
<1>5. rest \in Seq(Tokens)
  <2>1. ToCome({"call"})' \in Seq(TextTokens)
    BY ListsTypedAfter
  <2> QED
    BY <1>4, <2>1
<1> DEFINE args == calls[n].args \o x
           one == [calls[n] EXCEPT !.args = args]
<1>6. args \in Seq(Tokens) /\ args \o rest = Calls[n].text
  <2> DEFINE a == calls[n].args
  <2>0. a \o (x \o rest) = Calls[n].text
    BY <1>3
  <2>1. a \in Seq(Tokens)
    BY <1>3
  <2> HIDE DEF rest, calls, n, a
  <2>2. (a \o x) \o rest = a \o (x \o rest)
    BY ONLY <2>1, <1>4, <1>5, ConcatAssociative
  <2>3. a \o x \in Seq(Tokens)
    BY <2>1, <1>4
  <2> QED
    BY <2>0, <2>2, <2>3 DEF a
<1>7. /\ one \in SentCalls /\ one.name = calls[n].name /\ one.args = args
  <2> HIDE DEF args, calls, n
  <2> QED
    BY <1>3, <1>6 DEF SentCalls
<1>8. chat'.client.calls = [calls EXCEPT ![n] = one]
  BY <1>1
<1> HIDE DEF one, args
<1>9. /\ IsSeq(chat'.client.calls) /\ DOMAIN chat'.client.calls = 1 .. n
      /\ Len(chat'.client.calls) = n
  <2>1. LET r == [calls EXCEPT ![n] = one]
        IN  IsSeq(r) /\ DOMAIN r = DOMAIN calls /\ Len(r) = Len(calls)
    BY <1>1, <1>2, ReplaceAny
  <2> QED
    BY <1>1, <1>2, <1>8, <2>1
<1>10. chat'.client.calls[n] = one /\ \A i \in 1 .. n : i # n => chat'.client.calls[i] = calls[i]
  BY <1>2, <1>8, Zenon
<1>11. ASSUME NEW i \in 1 .. n
       PROVE  LET c == chat'.client.calls[i]
              IN  /\ c \in SentCalls
                  /\ c.name = OriginalName(request.tools, Calls[i].name)
                  /\ c.name \in ToSet(request.tools)
                  /\ c.args \in Seq(Tokens)
                  /\ c.args \o (IF i = n THEN rest ELSE <<>>) = Calls[i].text
  <2>1. CASE i = n
    BY <1>3, <1>6, <1>7, <1>10, <2>1, Zenon
  <2>2. CASE i # n
    <3>1. chat'.client.calls[i] = calls[i]
      BY <1>10, <2>2, Zenon
    <3>2. /\ calls[i] \in SentCalls
          /\ calls[i].name = OriginalName(request.tools, Calls[i].name)
          /\ calls[i].name \in ToSet(request.tools)
          /\ calls[i].args \in Seq(Tokens)
          /\ calls[i].args \o (IF i = n THEN ToCome({"call"}) ELSE <<>>) = Calls[i].text
      BY <1>2 DEF CallsRight
    <3> HIDE DEF calls, n, rest
    <3>3. calls[i].args \o <<>> = Calls[i].text
      BY ONLY <2>2, <3>2
    <3>4. calls[i].args \o (IF i = n THEN rest ELSE <<>>) = Calls[i].text
      BY ONLY <2>2, <3>3
    <3> QED
      BY ONLY <3>1, <3>2, <3>4, Zenon
  <2> QED
    BY <2>1, <2>2, Zenon
<1>12. chat'.client.calls # <<>>
  BY <1>1, <1>9
<1>13. chat'.announced <=> CallUnder' /\ Current'.announced
  BY DEF CallsRight
<1>14. chat'.calls = Len(chat'.client.calls) /\ Len(Calls') = n
  BY <1>1, <1>9
<1> HIDE DEF rest, calls
<1>15. /\ \A i \in DOMAIN chat'.client.calls :
              /\ chat'.client.calls[i] \in SentCalls
              /\ chat'.client.calls[i].name = OriginalName(request'.tools, Calls'[i].name)
              /\ chat'.client.calls[i].name \in ToSet(request'.tools)
              /\ chat'.client.calls[i].args \in Seq(Tokens)
              /\ chat'.client.calls[i].args \o (IF i = Len(Calls') THEN ToCome({"call"})' ELSE <<>>)
                    = Calls'[i].text
  BY <1>9, <1>11, <1>14, Zenon DEF rest
<1> QED
  BY <1>1, <1>9, <1>12, <1>13, <1>14, <1>15, Zenon DEF CallsRight

\* A call that the client learns of: it is added to its calls.
LEMMA CallsAdded ==
    ASSUME CallsRight, UNCHANGED request, NEW x \in Seq(Tokens), NEW c, IsSeq(Calls'),
           IsNames(request.tools),
           NEW tool \in ToSet(request.tools),
           Len(Calls') \in Nat, Len(Calls') = Len(chat.client.calls) + 1,
           Calls'[Len(Calls')] = c,
           \A i \in 1 .. Len(chat.client.calls) : i \in DOMAIN Calls /\ Calls'[i] = Calls[i],
           \A i \in 1 .. Len(chat.client.calls) : i = Len(Calls) => ToCome({"call"}) = <<>>,
           chat'.client.calls = Append(chat.client.calls,
                                       [name |-> OriginalName(request.tools, c.name), args |-> x]),
           OriginalName(request.tools, c.name) \in ToSet(request.tools),
           x \o ToCome({"call"})' = c.text,
           chat'.calls = chat.calls + 1, chat'.hasToolCall = TRUE,
           CallUnder' => Current'.announced /\ Current' = c,
           chat'.announced <=> CallUnder' /\ Current'.announced,
           step' = "body" /\ CallUnder' => (chat'.argsDelta <=> sent' > 0)
    PROVE  CallsRight'
<1> DEFINE calls == chat.client.calls
           n == Len(calls)
           one == [name |-> OriginalName(request.tools, c.name), args |-> x]
<1>1. IsSeq(calls) /\ chat.calls = n
  BY DEF CallsRight
<1>2. n \in Nat /\ DOMAIN calls = 1 .. n
  BY <1>1 DEF IsSeq
<1>3. /\ one \in SentCalls /\ one.args = x
      /\ one.name = OriginalName(request.tools, c.name)
  <2>1. OriginalName(request.tools, c.name) \in Seq(STRING)
    BY DEF IsNames, ToSet
  <2> QED
    BY <2>1 DEF SentCalls
<1> HIDE DEF one
<1>4. /\ IsSeq(chat'.client.calls) /\ Len(chat'.client.calls) = n + 1
      /\ DOMAIN chat'.client.calls = 1 .. n + 1 /\ chat'.client.calls[n + 1] = one
      /\ \A i \in 1 .. n : chat'.client.calls[i] = calls[i]
  <2>1. chat'.client.calls = Append(calls, one)
    BY DEF one
  <2> HIDE DEF calls
  <2>2. /\ IsSeq(Append(calls, one)) /\ Len(Append(calls, one)) = Len(calls) + 1
        /\ DOMAIN Append(calls, one) = 1 .. Len(calls) + 1
        /\ Append(calls, one)[Len(calls) + 1] = one
        /\ \A i \in 1 .. Len(calls) : Append(calls, one)[i] = calls[i]
    BY <1>1, AppendAny
  <2> QED
    BY <2>1, <2>2
<1>5. Len(Calls') = n + 1
  OBVIOUS
<1>6. ASSUME NEW i \in 1 .. n + 1
      PROVE  LET d == chat'.client.calls[i]
             IN  /\ d \in SentCalls
                 /\ d.name = OriginalName(request.tools, Calls'[i].name)
                 /\ d.name \in ToSet(request.tools)
                 /\ d.args \in Seq(Tokens)
                 /\ d.args \o (IF i = n + 1 THEN ToCome({"call"})' ELSE <<>>) = Calls'[i].text
  <2>1. CASE i = n + 1
    BY <1>3, <1>4, <1>5, <2>1
  <2>2. CASE i \in 1 .. n
    <3>1. /\ calls[i] \in SentCalls
          /\ calls[i].name = OriginalName(request.tools, Calls[i].name)
          /\ calls[i].name \in ToSet(request.tools)
          /\ calls[i].args \in Seq(Tokens)
          /\ calls[i].args \o (IF i = Len(Calls) THEN ToCome({"call"}) ELSE <<>>) = Calls[i].text
      BY <1>2, <2>2 DEF CallsRight
    <3>2. calls[i].args \o <<>> = Calls[i].text
      BY <2>2, <3>1
    <3>3. chat'.client.calls[i] = calls[i] /\ Calls'[i] = Calls[i] /\ i # n + 1
      BY <1>2, <1>4, <2>2
    <3> HIDE DEF calls, n
    <3>4. calls[i].args \o (IF i = n + 1 THEN ToCome({"call"})' ELSE <<>>) = Calls'[i].text
      BY ONLY <3>2, <3>3
    <3>5. calls[i].name = OriginalName(request.tools, Calls'[i].name)
      BY ONLY <3>1, <3>3
    <3> QED
      BY ONLY <3>1, <3>3, <3>4, <3>5
  <2>3. i = n + 1 \/ i \in 1 .. n
    BY <1>2
  <2> QED
    BY ONLY <2>1, <2>2, <2>3
<1>7. chat'.client.calls # <<>>
  <2>1. Len(chat'.client.calls) = n + 1
    BY <1>4
  <2> HIDE DEF n
  <2> QED
    BY ONLY <1>2, <2>1
<1>8. CallUnder' => Len(Calls') > 0 /\ Calls'[Len(Calls')] = Current'
  BY <1>2, <1>5
<1> HIDE DEF calls, n
<1>9. chat'.calls = Len(chat'.client.calls)
  BY <1>1, <1>4 DEF n
<1>10. /\ \A i \in DOMAIN chat'.client.calls :
              /\ chat'.client.calls[i] \in SentCalls
              /\ chat'.client.calls[i].name = OriginalName(request'.tools, Calls'[i].name)
              /\ chat'.client.calls[i].name \in ToSet(request'.tools)
              /\ chat'.client.calls[i].args \in Seq(Tokens)
              /\ chat'.client.calls[i].args \o (IF i = Len(Calls') THEN ToCome({"call"})' ELSE <<>>)
                    = Calls'[i].text
  BY <1>4, <1>5, <1>6
<1>11. Len(chat'.client.calls)
          = IF CallUnder' /\ ~Current'.announced THEN Len(Calls') - 1 ELSE Len(Calls')
  BY <1>4, <1>5
<1>12. step' = "body" /\ Current'.kind = "call" /\ Current'.announced => (chat'.argsDelta <=> sent' > 0)
  BY DEF CallUnder
<1> QED
  BY <1>4, <1>7, <1>8, <1>9, <1>10, <1>11, <1>12, Zenon DEF CallsRight

LEMMA StillGoing ==
    ASSUME EndRight, stage \in {"start", "items"}, stage' \in {"start", "items", "cut"},
           UNCHANGED <<chat.completed, chat.client.finish>>
    PROVE  EndRight'
BY DEF EndRight

\* The reader's fields that the response so far determines.
LEMMA OnlyTheEnd ==
    ASSUME CInv, UNCHANGED <<request, summaries, items, step, sent>>,
           Changes(chat, chat', {"completed", "outcome"}, {"finish"})
    PROVE  /\ Asked' /\ ChatShape(chat)' /\ TextRight' /\ ReasoningRight' /\ MarksRight' /\ CallsRight'
           /\ HasContent(chat)' = HasContent(chat) /\ Reason(chat)' = Reason(chat)
<1>1. /\ ChatShape(chat)'
      /\ UNCHANGED <<chat.calls, chat.hasText, chat.hasToolCall, chat.hasReasoning, chat.argsDelta>>
      /\ UNCHANGED <<chat.announced, chat.summaryDelta, chat.byItem, chat.client.content>>
      /\ UNCHANGED <<chat.client.reasoning, chat.client.calls>>
  BY DEF Changes, ChatFields, ReaderFields
<1>2. /\ Calls' = Calls /\ CallUnder' = CallUnder /\ Current' = Current
      /\ \A kinds : Concat(kinds)' = Concat(kinds) /\ ToCome(kinds)' = ToCome(kinds)
  BY SameResponse
<1>3. Asked'
  BY DEF CInv, Asked
<1>4. TextRight'
  BY <1>1, <1>2 DEF CInv, TextRight
<1>5. ReasoningRight'
  BY <1>1, <1>2 DEF CInv, ReasoningRight
<1>6. MarksRight'
  BY <1>1, <1>2 DEF CInv, MarksRight
<1>7. CallsRight'
  <2>1. /\ CallsRight /\ ToCome({"call"})' = ToCome({"call"})
        /\ Calls' = Calls /\ CallUnder' = CallUnder /\ Current' = Current
        /\ UNCHANGED <<request, sent, step, chat.client.calls, chat.calls,
                        chat.argsDelta, chat.announced, chat.hasToolCall>>
    BY <1>1, <1>2 DEF CInv
  <2> QED
    BY ONLY <2>1 DEF CallsRight
<1>8. HasContent(chat)' = HasContent(chat) /\ Reason(chat)' = Reason(chat)
  BY <1>1 DEF HasContent, Reason
<1> QED
  BY <1>1, <1>3, <1>4, <1>5, <1>6, <1>7, <1>8

\* No item has begun, and the client has been told of none.
Blank ==
    /\ Asked /\ ChatShape(chat) /\ stage \in {"start", "items"} /\ items = <<>> /\ step = "none"
    /\ chat.client.content = <<>> /\ chat.client.calls = <<>> /\ chat.client.finish = <<>>
    /\ chat.client.reasoning \in Seq(Tokens) /\ WithoutSeparators(chat.client.reasoning) = <<>>
    /\ chat.byItem = <<>> /\ chat.calls = 0 /\ ~chat.hasText /\ ~chat.hasReasoning
    /\ ~chat.hasToolCall /\ ~chat.completed /\ ~chat.announced /\ ~chat.summaryDelta

LEMMA NothingBegun == Blank => CInv
<1> SUFFICES ASSUME Blank PROVE CInv
  OBVIOUS
<1> USE DEF Blank
<1>1. Calls = <<>> /\ \A kinds : Concat(kinds) = <<>>
  BY NoItems
<1>2. \A kinds : ToCome(kinds) = <<>>
  BY DEF ToCome
<1>3. <<>> \o <<>> = <<>> /\ IsSeq(<<>>) /\ Len(<<>>) = 0 /\ DOMAIN <<>> = {}
      /\ <<>> \in Seq(Tokens)
  BY DEF IsSeq
<1>4. ItemsRight
  BY <1>3 DEF ItemsRight
<1>5. TextRight
  BY <1>1, <1>2, <1>3 DEF TextRight
<1>6. ReasoningRight
  BY <1>1, <1>2, <1>3, WithoutEmpty DEF ReasoningRight
<1>7. MarksRight
  BY DEF MarksRight
<1>8. CallsRight
  BY <1>1, <1>3 DEF CallsRight, CallUnder
<1>9. EndRight
  BY DEF EndRight
<1> QED
  BY <1>4, <1>5, <1>6, <1>7, <1>8, <1>9 DEF CInv

LEMMA NothingBegunYet == Blank' => CInv'
<1>1. (Blank => CInv)'
  BY NothingBegun, PTL
<1> QED
  BY <1>1

LEMMA NewChatFacts ==
    LET c == NewChat
    IN  /\ ChatShape(c) /\ c.client.content = <<>> /\ c.client.calls = <<>>
        /\ c.client.finish = <<>> /\ c.client.reasoning = <<>> /\ c.byItem = <<>> /\ c.calls = 0
        /\ ~c.hasText /\ ~c.hasReasoning /\ ~c.hasToolCall /\ ~c.completed
        /\ ~c.announced /\ ~c.summaryDelta
BY DEF NewChat, ChatShape, ChatFields, ReaderFields

LEMMA CInvInit == Init => CInv
<1> SUFFICES ASSUME Init PROVE CInv
  OBVIOUS
<1>1. /\ request \in Requests /\ summaries \in BOOLEAN /\ chat = NewChat
      /\ stage = "start" /\ items = <<>> /\ step = "none"
  BY DEF Init
<1>2. Asked
  BY <1>1, RequestsAssumption DEF Asked, IsNames
<1>3. <<>> \in Seq(Tokens) /\ WithoutSeparators(<<>>) = <<>>
  BY WithoutEmpty
<1>4. Blank
  BY <1>1, <1>2, <1>3, NewChatFacts DEF Blank
<1> QED
  BY <1>4, NothingBegun

LEMMA CInvAskAgain ==
    ASSUME CInv, AskAgain
    PROVE  CInv'
<1>1. /\ UNCHANGED summaries /\ chat' = NewChat
      /\ stage' = "start" /\ items' = <<>> /\ step' = "none"
  BY DEF AskAgain
<1>2. "tools" \in DOMAIN request' /\ request'.tools = request.tools
  BY DEF AskAgain, CInv, Asked
<1>3. Asked'
  BY <1>1, <1>2 DEF CInv, Asked
<1>4. <<>> \in Seq(Tokens) /\ WithoutSeparators(<<>>) = <<>>
  BY WithoutEmpty
<1>5. Blank'
  BY <1>1, <1>3, <1>4, NewChatFacts DEF Blank
<1> QED
  BY <1>5, NothingBegunYet

LEMMA CInvCreated ==
    ASSUME CInv, Created
    PROVE  CInv'
<1>1. /\ stage = "start" /\ stage' = "items" /\ UNCHANGED <<request, summaries, items, step, sent>>
      /\ chat' = [chat EXCEPT !.byItem = <<>>, !.hasReasoning = FALSE, !.summaryDelta = FALSE]
  BY DEF Created
<1>2. items = <<>> /\ step = "none"
  BY <1>1 DEF CInv, ItemsRight
<1>3. /\ ChatShape(chat') /\ chat'.byItem = <<>> /\ chat'.hasReasoning = FALSE
      /\ chat'.summaryDelta = FALSE
      /\ UNCHANGED <<chat.calls, chat.hasText, chat.hasToolCall, chat.completed, chat.announced>>
      /\ UNCHANGED chat.client
  BY <1>1 DEF CInv, ChatShape, ChatFields
<1>4. Calls = <<>> /\ (\A kinds : Concat(kinds) = <<>>) /\ \A kinds : ToCome(kinds) = <<>>
  BY <1>2, NoItems DEF ToCome
<1>5. chat.client.content = <<>> /\ ~chat.hasText
  BY <1>4 DEF CInv, TextRight
<1>6. /\ WithoutSeparators(chat.client.reasoning) = <<>> /\ chat.client.reasoning \in Seq(Tokens)
  <2> DEFINE told == WithoutSeparators(chat.client.reasoning)
  <2>1. told \o <<>> = <<>> /\ chat.client.reasoning \in Seq(Tokens)
    BY <1>4 DEF CInv, ReasoningRight
  <2>2. told \in Seq(Tokens)
    <3>1. Separator \in Tokens
      BY DEF Separator, Tokens
    <3> QED
      BY <2>1, <3>1, WithoutLonger
  <2> HIDE DEF told
  <2>3. told = <<>>
    BY <2>1, <2>2
  <2> QED
    BY <2>1, <2>3 DEF told
<1>7. chat.client.calls = <<>> /\ chat.calls = 0 /\ ~chat.hasToolCall /\ ~chat.announced
  <2>1. IsSeq(chat.client.calls) /\ chat.calls = Len(chat.client.calls)
        /\ Len(chat.client.calls) = Len(Calls)
    BY <1>2 DEF CInv, CallsRight, CallUnder
  <2>2. Len(chat.client.calls) = 0
    BY <1>4, <2>1
  <2>3. chat.client.calls = <<>>
    BY <2>1, <2>2 DEF IsSeq
  <2> QED
    BY <1>2, <2>1, <2>2, <2>3 DEF CInv, CallsRight, CallUnder
<1>8. ~chat.completed /\ chat.client.finish = <<>>
  BY <1>1 DEF CInv, EndRight
<1>9. Asked'
  BY <1>1 DEF CInv, Asked
<1>10. Blank'
  BY <1>1, <1>2, <1>3, <1>5, <1>6, <1>7, <1>8, <1>9 DEF Blank
<1> QED
  BY <1>10, NothingBegunYet

LEMMA CInvCompleted ==
    ASSUME CInv, Completed
    PROVE  CInv'
<1>1. /\ stage = "items" /\ step = "none" /\ stage' = "completed" /\ chat' = ChatCompleted(chat)
      /\ UNCHANGED <<request, summaries, items, step, sent>>
  BY DEF Completed
<1>2. /\ Changes(chat, chat', {"completed"}, {"finish"}) /\ chat'.completed = TRUE
      /\ chat'.client.finish = IF HasContent(chat) THEN Append(chat.client.finish, Reason(chat))
                               ELSE chat.client.finish
  BY <1>1, ChatCompletedFacts DEF CInv, Reason
<1>3. Changes(chat, chat', {"completed", "outcome"}, {"finish"})
  BY <1>2 DEF Changes
<1>4. /\ Asked' /\ ChatShape(chat)' /\ TextRight' /\ ReasoningRight' /\ MarksRight' /\ CallsRight'
      /\ HasContent(chat)' = HasContent(chat) /\ Reason(chat)' = Reason(chat)
  BY <1>1, <1>3, OnlyTheEnd
<1>5. ItemsRight'
  BY <1>1 DEF CInv, ItemsRight, Current
<1>6. chat.client.finish = <<>>
  BY <1>1 DEF CInv, EndRight
<1>7. chat'.client.finish = IF HasContent(chat)' THEN <<Reason(chat)'>> ELSE <<>>
  <2>1. Append(<<>>, Reason(chat)) = <<Reason(chat)>>
    OBVIOUS
  <2> QED
    BY <1>2, <1>4, <1>6, <2>1
<1>8. EndRight'
  BY <1>1, <1>2, <1>7 DEF EndRight
<1> QED
  BY <1>4, <1>5, <1>8 DEF CInv

LEMMA CInvEndOfBody ==
    ASSUME CInv, EndOfBody
    PROVE  CInv'
<1>1. /\ stage \in {"start", "items"} /\ stage' = "cut"
      /\ UNCHANGED <<request, summaries, items, step, sent, chat>>
  BY DEF EndOfBody
<1>2. Changes(chat, chat', {"completed", "outcome"}, {"finish"})
  BY <1>1 DEF Changes, CInv
<1>3. /\ Asked' /\ ChatShape(chat)' /\ TextRight' /\ ReasoningRight' /\ MarksRight' /\ CallsRight'
  BY <1>1, <1>2, OnlyTheEnd
<1>4. ItemsRight'
  BY <1>1 DEF CInv, ItemsRight, Current
<1>5. EndRight'
  BY <1>1, StillGoing DEF CInv
<1> QED
  BY <1>3, <1>4, <1>5 DEF CInv

LEMMA CInvReadFails ==
    ASSUME CInv, ReadFails
    PROVE  CInv'
<1>1. /\ stage \in {"start", "items"} /\ stage' = "end" /\ chat' = [chat EXCEPT !.outcome = "error"]
      /\ UNCHANGED <<request, summaries, items, step, sent>>
  BY DEF ReadFails
<1>2. ChatShape(chat)
  BY DEF CInv
<1>3. Changes(chat, chat', {"completed", "outcome"}, {"finish"}) /\ chat'.completed = chat.completed
      /\ chat'.client.finish = chat.client.finish
  BY <1>1, <1>2 DEF Changes, ChatShape, ChatFields, ReaderFields
<1>4. /\ Asked' /\ ChatShape(chat)' /\ TextRight' /\ ReasoningRight' /\ MarksRight' /\ CallsRight'
  BY <1>1, <1>3, OnlyTheEnd
<1>5. ItemsRight'
  BY <1>1 DEF CInv, ItemsRight, Current
<1>6. EndRight'
  BY <1>1, <1>3 DEF CInv, EndRight
<1> QED
  BY <1>4, <1>5, <1>6 DEF CInv

LEMMA CInvFinish ==
    ASSUME CInv, Finish
    PROVE  CInv'
<1>1. /\ stage \in {"completed", "cut"} /\ stage' = "end" /\ chat' = ChatEnd(chat)
      /\ UNCHANGED <<request, summaries, items, step, sent>>
  BY DEF Finish
<1>2. /\ Changes(chat, chat', {"outcome"}, {"finish"})
      /\ chat.completed => chat'.client.finish = chat.client.finish
  BY <1>1, ChatEndFacts DEF CInv
<1>3. Changes(chat, chat', {"completed", "outcome"}, {"finish"}) /\ chat'.completed = chat.completed
  BY <1>2 DEF Changes, ChatFields
<1>4. /\ Asked' /\ ChatShape(chat)' /\ TextRight' /\ ReasoningRight' /\ MarksRight' /\ CallsRight'
      /\ HasContent(chat)' = HasContent(chat) /\ Reason(chat)' = Reason(chat)
  BY <1>1, <1>3, OnlyTheEnd
<1>5. ItemsRight'
  BY <1>1 DEF CInv, ItemsRight, Current
<1>6. EndRight'
  BY <1>1, <1>2, <1>3, <1>4 DEF CInv, EndRight
<1> QED
  BY <1>4, <1>5, <1>6 DEF CInv

LEMMA TextSame ==
    ASSUME TextRight, UNCHANGED <<chat.client.content, chat.hasText>>,
           Concat(Messages)' = Concat(Messages), ToCome(Messages)' = ToCome(Messages)
    PROVE  TextRight'
BY DEF TextRight, Messages

LEMMA ReasoningSame ==
    ASSUME ReasoningRight, UNCHANGED <<chat.client.reasoning, chat.hasReasoning>>,
           Concat(Reasoning)' = Concat(Reasoning), ToCome(Reasoning)' = ToCome(Reasoning)
    PROVE  ReasoningRight'
BY DEF ReasoningRight

\* A call that was not announced is under way: the client does not know of it.
LEMMA CallsWait ==
    ASSUME CallsRight, UNCHANGED request, ~CallUnder, NEW c, IsSeq(Calls), Calls' = Append(Calls, c),
           CallUnder', Current' = c, ~Current'.announced,
           UNCHANGED <<chat.client.calls, chat.calls, chat.announced, chat.hasToolCall>>
    PROVE  CallsRight'
<1> DEFINE calls == chat.client.calls
           n == Len(Calls)
<1>1. /\ IsSeq(calls) /\ Len(calls) = n /\ chat.calls = n /\ ~chat.announced
      /\ chat.hasToolCall <=> calls # <<>>
  BY DEF CallsRight
<1>2. /\ IsSeq(Calls') /\ Len(Calls') = n + 1 /\ Calls'[n + 1] = c
      /\ \A i \in 1 .. n : Calls'[i] = Calls[i]
  BY AppendAny
<1>3. n \in Nat /\ DOMAIN calls = 1 .. n
  BY <1>1 DEF IsSeq
<1>4. ASSUME NEW i \in 1 .. n
      PROVE  /\ calls[i] \in SentCalls
             /\ calls[i].name = OriginalName(request.tools, Calls'[i].name)
             /\ calls[i].name \in ToSet(request.tools)
             /\ calls[i].args \in Seq(Tokens)
             /\ calls[i].args \o (IF i = n + 1 THEN ToCome({"call"})' ELSE <<>>) = Calls'[i].text
  <2>1. ToCome({"call"}) = <<>>
    BY DEF ToCome, CallUnder
  <2>2. /\ calls[i] \in SentCalls
        /\ calls[i].name = OriginalName(request.tools, Calls[i].name)
        /\ calls[i].name \in ToSet(request.tools)
        /\ calls[i].args \in Seq(Tokens)
        /\ calls[i].args \o (IF i = n THEN ToCome({"call"}) ELSE <<>>) = Calls[i].text
    BY <1>3 DEF CallsRight
  <2>3. i # n + 1 /\ Calls'[i] = Calls[i]
    BY <1>2, <1>3
  <2> HIDE DEF calls, n
  <2>4. calls[i].args \o <<>> = Calls[i].text
    BY ONLY <2>1, <2>2
  <2>5. calls[i].args \o (IF i = n + 1 THEN ToCome({"call"})' ELSE <<>>) = Calls'[i].text
    BY ONLY <2>3, <2>4
  <2> QED
    BY <2>2, <2>3, <2>5
<1>5. ~chat'.announced /\ (CallUnder' => Len(Calls') > 0 /\ Calls'[Len(Calls')] = Current')
  BY <1>1, <1>2, <1>3
<1> HIDE DEF calls, n
<1>6. /\ \A i \in DOMAIN chat'.client.calls :
              /\ chat'.client.calls[i] \in SentCalls
              /\ chat'.client.calls[i].name = OriginalName(request'.tools, Calls'[i].name)
              /\ chat'.client.calls[i].name \in ToSet(request'.tools)
              /\ chat'.client.calls[i].args \in Seq(Tokens)
              /\ chat'.client.calls[i].args \o (IF i = Len(Calls') THEN ToCome({"call"})' ELSE <<>>)
                    = Calls'[i].text
  BY <1>2, <1>3, <1>4 DEF calls
<1>7. /\ IsSeq(chat'.client.calls) /\ chat'.calls = Len(chat'.client.calls)
      /\ Len(chat'.client.calls) = Len(Calls') - 1
      /\ chat'.hasToolCall <=> chat'.client.calls # <<>>
  BY <1>1, <1>2, <1>3 DEF calls
<1> QED
  BY <1>2, <1>5, <1>6, <1>7 DEF CallsRight

LEMMA CInvBeginText ==
    ASSUME CInv, NEW kind, NEW len \in Nat, BeginText(kind, len)
    PROVE  CInv'
<1>1. /\ kind \in Reasoning \cup {"message"} /\ Begin(kind, len, Empty, TRUE)
      /\ chat' = IF kind = "summary" THEN chat ELSE Chunk(chat)
  BY DEF BeginText, ChatPartAdded, Reasoning
<1>2. ItemsRight /\ ChatShape(chat)
  BY DEF CInv
<1>3. /\ ItemsRight' /\ step = "none" /\ step' = "body" /\ sent' = 0
      /\ stage = "items" /\ stage' = "items" /\ UNCHANGED <<request, summaries>>
      /\ Current'.kind = kind /\ Current'.announced = TRUE
      /\ Current'.text \in Seq(TextTokens)
      /\ Calls' = IF kind = "call" THEN Append(Calls, Current') ELSE Calls
      /\ \A kinds :
            LET d == IF kind \in kinds THEN Current'.text ELSE <<>>
            IN  /\ Concat(kinds)' = Concat(kinds) \o d
                /\ ToCome(kinds)' = d /\ ToCome(kinds) = <<>>
  <2>1. kind \in Reasoning \cup {"message", "call"} /\ kind # "call"
    BY <1>1 DEF Reasoning
  <2> QED
    BY <1>1, <1>2, <2>1, BeginRight
<1>4. kind # "call"
  BY <1>1 DEF Reasoning
<1>5. Changes(chat, chat', {}, {})
  BY <1>1, <1>2, ChunkFacts DEF Changes
<1>6. /\ ChatShape(chat)'
      /\ UNCHANGED <<chat.calls, chat.hasText, chat.hasToolCall, chat.hasReasoning, chat.argsDelta>>
      /\ UNCHANGED <<chat.announced, chat.summaryDelta, chat.byItem, chat.client.content>>
      /\ UNCHANGED <<chat.client.reasoning, chat.client.calls, chat.completed, chat.client.finish>>
  BY <1>5 DEF Changes, ChatFields, ReaderFields
<1>7. Asked'
  BY <1>3 DEF CInv, Asked
<1>8. ASSUME NEW kinds
      PROVE  \E d \in Seq(TextTokens) :
                Concat(kinds)' = Concat(kinds) \o d /\ ToCome(kinds)' = ToCome(kinds) \o d
  <2> DEFINE d == IF kind \in kinds THEN Current'.text ELSE <<>>
  <2>1. Concat(kinds)' = Concat(kinds) \o d /\ ToCome(kinds)' = d /\ ToCome(kinds) = <<>>
    BY <1>3
  <2>2. d \in Seq(TextTokens)
    BY <1>3
  <2> HIDE DEF d
  <2>3. <<>> \o d = d
    BY <2>2
  <2> QED
    BY <2>1, <2>2, <2>3
<1>9. TextRight'
  <2>1. PICK d \in Seq(TextTokens) :
           Concat(Messages)' = Concat(Messages) \o d /\ ToCome(Messages)' = ToCome(Messages) \o d
    BY <1>8
  <2> QED
    BY <1>2, <1>6, <2>1, TextKept DEF CInv
<1>10. ReasoningRight'
  <2>1. PICK d \in Seq(TextTokens) :
           Concat(Reasoning)' = Concat(Reasoning) \o d /\ ToCome(Reasoning)' = ToCome(Reasoning) \o d
    BY <1>8
  <2> QED
    BY <1>2, <1>6, <2>1, ReasoningKept DEF CInv
<1>11. MarksRight'
  <2>1. chat.byItem = <<>> /\ (chat.summaryDelta => summaries)
    BY <1>3 DEF CInv, MarksRight
  <2>2. SubSeq(Current'.text, 1, 0) = <<>>
    BY SubSeqEmpty, <1>3
  <2> QED
    BY <1>3, <1>6, <2>1, <2>2 DEF MarksRight
<1>12. CallsRight'
  BY <1>3, <1>4, <1>6, CallsKept DEF CInv, CallUnder
<1>13. EndRight'
  BY <1>3, <1>6, StillGoing DEF CInv
<1> QED
  BY <1>3, <1>6, <1>7, <1>9, <1>10, <1>11, <1>12, <1>13 DEF CInv

LEMMA CInvBeginCall ==
    ASSUME CInv, NEW tool \in ToSet(request.tools), NEW len \in Nat, NEW announced \in BOOLEAN,
           BeginCall(tool, len, announced)
    PROVE  CInv'
<1> DEFINE short == ShortName(request.tools, tool)
<1>1. /\ Begin("call", len, short, announced)
      /\ chat' = IF announced THEN ChatCall(chat, OriginalName(request.tools, short)) ELSE chat
  BY DEF BeginCall
<1>2. ItemsRight /\ ChatShape(chat) /\ IsNames(request.tools)
  BY DEF CInv, Asked
<1>3. OriginalName(request.tools, short) = tool
  BY <1>2, NamesComeBack
<1> HIDE DEF short
<1>4. /\ ItemsRight' /\ step = "none" /\ step' = "body" /\ sent' = 0
      /\ stage = "items" /\ stage' = "items" /\ UNCHANGED <<request, summaries>>
      /\ Current'.kind = "call" /\ Current'.announced = announced /\ Current'.name = short
      /\ Current'.text \in Seq(TextTokens)
      /\ Calls' = Append(Calls, Current') /\ IsSeq(Calls)
      /\ \A kinds :
            LET d == IF "call" \in kinds THEN Current'.text ELSE <<>>
            IN  /\ Concat(kinds)' = Concat(kinds) \o d
                /\ ToCome(kinds)' = d /\ ToCome(kinds) = <<>>
  <2>1. \E t \in ToSet(request.tools) : short = ShortName(request.tools, t)
    BY DEF short
  <2> DEFINE kind == "call"
  <2>2. kind \in Reasoning \cup {"message", "call"} /\ Begin(kind, len, short, announced)
        /\ (kind = "call" => \E t \in ToSet(request.tools) : short = ShortName(request.tools, t))
    BY <1>1, <2>1
  <2> HIDE DEF kind
  <2>3. /\ ItemsRight' /\ step = "none" /\ step' = "body" /\ sent' = 0
        /\ stage = "items" /\ stage' = "items" /\ UNCHANGED <<request, summaries>>
        /\ Current'.kind = kind /\ Current'.announced = announced /\ Current'.name = short
        /\ Current'.text \in Seq(TextTokens)
        /\ Calls' = IF kind = "call" THEN Append(Calls, Current') ELSE Calls
        /\ IsSeq(Calls)
        /\ \A kinds :
              LET d == IF kind \in kinds THEN Current'.text ELSE <<>>
              IN  /\ Concat(kinds)' = Concat(kinds) \o d
                  /\ ToCome(kinds)' = d /\ ToCome(kinds) = <<>>
    BY <1>2, <2>2, BeginRight
  <2> QED
    BY <2>3 DEF kind
<1>5. Changes(chat, chat', {"hasToolCall", "calls", "argsDelta", "announced"}, {"calls"})
  <2>1. CASE announced
    BY <1>1, <1>2, <2>1, ChatCallFacts
  <2>2. CASE ~announced
    BY <1>1, <1>2, <2>2 DEF Changes
  <2> QED
    BY <2>1, <2>2
<1>6. /\ ChatShape(chat)' /\ UNCHANGED <<chat.hasText, chat.hasReasoning, chat.summaryDelta>>
      /\ UNCHANGED <<chat.byItem, chat.client.content, chat.client.reasoning>>
      /\ UNCHANGED <<chat.completed, chat.client.finish>>
  BY <1>5 DEF Changes, ChatFields, ReaderFields
<1>7. Asked'
  BY <1>4 DEF CInv, Asked
<1>8. ASSUME NEW kinds, "call" \notin kinds
      PROVE  Concat(kinds)' = Concat(kinds) /\ ToCome(kinds)' = ToCome(kinds)
  <2>1. Concat(kinds)' = Concat(kinds) \o <<>> /\ ToCome(kinds)' = ToCome(kinds)
    BY <1>4, <1>8
  <2>2. Concat(kinds) \in Seq(TextTokens)
    BY <1>2, ListsTyped
  <2> QED
    BY <2>1, <2>2
<1>9. TextRight'
  BY <1>6, <1>8, TextSame DEF CInv, Messages
<1>10. ReasoningRight'
  BY <1>6, <1>8, ReasoningSame DEF CInv, Reasoning
<1>11. MarksRight'
  BY <1>4, <1>6 DEF CInv, MarksRight
<1>12. CallsRight /\ ~CallUnder /\ CallUnder'
  BY <1>4 DEF CInv, CallUnder
<1>13. CallsRight'
  <2>1. CASE ~announced
    BY <1>1, <1>4, <1>12, <2>1, CallsWait
  <2>2. CASE announced
    <3> DEFINE c == Current'
               n == Len(Calls)
    <3>1. /\ Len(chat.client.calls) = n /\ IsSeq(Calls) /\ chat.calls = n /\ ~chat.announced
      BY <1>12 DEF CallsRight
    <3>2. /\ IsSeq(Calls') /\ Len(Calls') = n + 1 /\ Calls'[n + 1] = c
          /\ n \in Nat /\ DOMAIN Calls = 1 .. n /\ \A i \in 1 .. n : Calls'[i] = Calls[i]
      BY <1>4, AppendAny
    <3>3. /\ chat'.client.calls = Append(chat.client.calls,
                                         [name |-> OriginalName(request.tools, short), args |-> <<>>])
          /\ chat'.calls = chat.calls + 1 /\ chat'.hasToolCall = TRUE /\ chat'.announced = TRUE
          /\ chat'.argsDelta = FALSE
      BY <1>1, <1>2, <2>2, ChatCallFacts DEF Empty
    <3>4. ToCome({"call"})' = c.text /\ ToCome({"call"}) = <<>>
      BY <1>4
    <3>5. <<>> \o c.text = c.text /\ <<>> \in Seq(Tokens)
      BY <1>4
    <3>6. c.name = short /\ c.announced = TRUE /\ ~(sent' > 0) /\ request' = request
      BY <1>4, <2>2
    <3>7. PICK e : e = c
      OBVIOUS
    <3>8. /\ Len(Calls') \in Nat /\ Len(Calls') = Len(chat.client.calls) + 1
          /\ Calls'[Len(Calls')] = e /\ IsSeq(Calls')
          /\ \A i \in 1 .. Len(chat.client.calls) : i \in DOMAIN Calls /\ Calls'[i] = Calls[i]
          /\ \A i \in 1 .. Len(chat.client.calls) : i = Len(Calls) => ToCome({"call"}) = <<>>
      <4> HIDE DEF c, n
      <4>1. /\ Len(Calls') \in Nat /\ Len(Calls') = Len(chat.client.calls) + 1
            /\ Calls'[Len(Calls')] = e /\ IsSeq(Calls')
        BY ONLY <3>1, <3>2, <3>7
      <4>2. \A i \in 1 .. Len(chat.client.calls) : i \in DOMAIN Calls /\ Calls'[i] = Calls[i]
        BY ONLY <3>1, <3>2
      <4> QED
        BY <4>1, <4>2, <3>4
    <3>9. /\ OriginalName(request.tools, e.name) \in ToSet(request.tools)
          /\ chat'.client.calls = Append(chat.client.calls,
                                         [name |-> OriginalName(request.tools, e.name), args |-> <<>>])
          /\ <<>> \o ToCome({"call"})' = e.text /\ <<>> \in Seq(Tokens)
      BY <1>3, <3>3, <3>4, <3>5, <3>6, <3>7
    <3>10. /\ CallUnder' => Current'.announced /\ Current' = e
           /\ chat'.announced <=> CallUnder' /\ Current'.announced
           /\ step' = "body" /\ CallUnder' => (chat'.argsDelta <=> sent' > 0)
           /\ chat'.calls = chat.calls + 1 /\ chat'.hasToolCall = TRUE /\ request' = request
      BY <1>12, <3>3, <3>6, <3>7
    <3> HIDE DEF c, n
    <3> QED
      BY <1>2, <1>12, <3>8, <3>9, <3>10, CallsAdded
  <2> QED
    BY <2>1, <2>2
<1>14. EndRight'
  BY <1>4, <1>6, StillGoing DEF CInv
<1> QED
  BY <1>4, <1>6, <1>7, <1>9, <1>10, <1>11, <1>13, <1>14 DEF CInv

LEMMA ReaderUnchanged ==
    ASSUME NEW fs, NEW cs, Changes(chat, chat', fs, cs)
    PROVE  /\ ChatShape(chat)'
           /\ \A f \in ChatFields \ (fs \cup {"client"}) : chat'[f] = chat[f]
           /\ \A c \in ReaderFields \ (cs \cup {"chunks"}) : chat'.client[c] = chat.client[c]
BY DEF Changes

LEMMA DeltaPlace ==
    ASSUME ItemsRight, Delta
    PROVE  /\ stage = "items" /\ step = "body" /\ sent' = sent + 1 /\ sent \in Nat
           /\ UNCHANGED <<request, summaries, stage, items, step, Calls, Current, CallUnder>>
           /\ ItemsRight' /\ Current.text[sent + 1] \in TextTokens
           /\ SubSeq(Current.text, 1, sent + 1) = Append(SubSeq(Current.text, 1, sent), Current.text[sent + 1])
           /\ \A kinds : Concat(kinds)' = Concat(kinds)
           /\ \A kinds : IF Current.kind \in kinds
                         THEN ToCome(kinds) = <<Current.text[sent + 1]>> \o ToCome(kinds)'
                         ELSE ToCome(kinds) = <<>> /\ ToCome(kinds)' = <<>>
<1>1. /\ stage = "items" /\ step = "body" /\ sent' = sent + 1 /\ sent < Len(Current.text)
      /\ UNCHANGED <<request, summaries, stage, items, step>>
  BY DEF Delta
<1>2. UNCHANGED <<Calls, Current, CallUnder>> /\ \A kinds : Concat(kinds)' = Concat(kinds)
  BY <1>1 DEF Calls, Current, CallUnder, Concat
<1>3. Current.text \in Seq(TextTokens) /\ sent \in 0 .. Len(Current.text)
  BY <1>1, CurrentFacts DEF ItemRight
<1>4. sent \in Nat /\ Len(Current.text) \in Nat
  BY <1>3
<1> DEFINE text == Current.text
<1>5. /\ text[sent + 1] \in TextTokens /\ sent + 1 \in 0 .. Len(text)
      /\ SubSeq(text, 1, sent + 1) = Append(SubSeq(text, 1, sent), text[sent + 1])
      /\ SubSeq(text, sent + 1, Len(text)) = <<text[sent + 1]>> \o SubSeq(text, sent + 2, Len(text))
  BY <1>1, <1>3, <1>4, OneFurther
<1>6. ItemsRight'
  BY <1>1, <1>2, <1>5 DEF ItemsRight
<1>7. sent' + 1 = sent + 2
  BY <1>1, <1>4
<1>8. ASSUME NEW kinds
      PROVE  IF Current.kind \in kinds
             THEN ToCome(kinds) = <<text[sent + 1]>> \o ToCome(kinds)'
             ELSE ToCome(kinds) = <<>> /\ ToCome(kinds)' = <<>>
  <2>1. CASE Current.kind \in kinds
    <3>1. ToCome(kinds) = SubSeq(text, sent + 1, Len(text))
      BY <1>1, <2>1 DEF ToCome
    <3>2. ToCome(kinds)' = SubSeq(text, sent + 2, Len(text))
      BY <1>1, <1>2, <1>7, <2>1 DEF ToCome
    <3> QED
      BY <1>5, <2>1, <3>1, <3>2
  <2>2. CASE Current.kind \notin kinds
    BY <1>2, <2>2 DEF ToCome
  <2> QED
    BY <2>1, <2>2
<1> QED
  BY <1>1, <1>2, <1>4, <1>5, <1>6, <1>8

\* A delta of a summary or of a reasoning text, with what it marks.
LEMMA DeltaOfReasoning ==
    ASSUME CInv, Delta, Current.kind \in Reasoning,
           Changes(chat, chat', {"hasReasoning", "summaryDelta", "byItem"}, {"reasoning"}),
           chat'.hasReasoning = TRUE,
           chat'.client.reasoning = chat.client.reasoning \o <<Current.text[sent + 1]>>,
           MarksRight'
    PROVE  CInv'
<1>1. /\ ItemsRight /\ ItemsRight' /\ UNCHANGED <<request, summaries, stage, Calls>>
      /\ stage = "items" /\ Current.text[sent + 1] \in TextTokens
      /\ UNCHANGED CallUnder /\ ~CallUnder
      /\ \A kinds : Concat(kinds)' = Concat(kinds)
      /\ \A kinds : IF Current.kind \in kinds
                    THEN ToCome(kinds) = <<Current.text[sent + 1]>> \o ToCome(kinds)'
                    ELSE ToCome(kinds) = <<>> /\ ToCome(kinds)' = <<>>
  BY DeltaPlace DEF CInv, CallUnder, Reasoning
<1>2. /\ ChatShape(chat)' /\ UNCHANGED <<chat.calls, chat.hasText, chat.hasToolCall, chat.announced>>
      /\ UNCHANGED <<chat.client.content, chat.client.calls, chat.completed, chat.client.finish>>
  BY ReaderUnchanged DEF ChatFields, ReaderFields
<1>3. TextRight'
  <2>1. Current.kind \notin Messages
    BY DEF Messages, Reasoning
  <2> QED
    BY <1>1, <1>2, <2>1, TextSame DEF CInv
<1>4. ReasoningRight'
  <2> DEFINE x == <<Current.text[sent + 1]>>
  <2>1. x \in Seq(TextTokens) /\ x # <<>>
    BY <1>1
  <2>2. ToCome(Reasoning) = x \o ToCome(Reasoning)'
    BY <1>1
  <2>3. chat'.client.reasoning = chat.client.reasoning \o x
    OBVIOUS
  <2> HIDE DEF x
  <2> QED
    BY <1>1, <2>1, <2>2, <2>3, ReasoningTold DEF CInv
<1>5. CallsRight'
  BY <1>1, <1>2, CallsKept DEF CInv
<1>6. EndRight'
  BY <1>1, <1>2, StillGoing DEF CInv
<1>7. Asked'
  BY <1>1 DEF CInv, Asked
<1> QED
  BY <1>1, <1>2, <1>3, <1>4, <1>5, <1>6, <1>7 DEF CInv

LEMMA CInvDelta ==
    ASSUME CInv, Delta
    PROVE  CInv'
<1> DEFINE token == Current.text[sent + 1]
<1>1. /\ stage = "items" /\ step = "body" /\ sent' = sent + 1 /\ sent \in Nat
      /\ UNCHANGED <<request, summaries, stage, items, step, Calls, Current, CallUnder>>
      /\ ItemsRight' /\ Current.text[sent + 1] \in TextTokens
      /\ SubSeq(Current.text, 1, sent + 1) = Append(SubSeq(Current.text, 1, sent), Current.text[sent + 1])
      /\ \A kinds : Concat(kinds)' = Concat(kinds)
      /\ \A kinds : IF Current.kind \in kinds
                    THEN ToCome(kinds) = <<Current.text[sent + 1]>> \o ToCome(kinds)'
                    ELSE ToCome(kinds) = <<>> /\ ToCome(kinds)' = <<>>
  BY DeltaPlace DEF CInv
<1>2. ChatShape(chat) /\ ItemsRight
  BY DEF CInv
<1>3. CASE Current.kind = "summary" /\ summaries /\ chat' = ChatSummaryDelta(chat, token)
  <2>1. /\ Changes(chat, chat', {"hasReasoning", "summaryDelta"}, {"reasoning"})
        /\ chat'.hasReasoning = TRUE /\ chat'.summaryDelta = TRUE
        /\ chat'.client.reasoning = chat.client.reasoning \o <<token>>
    BY <1>2, <1>3, SummaryDeltaFacts
  <2>2. Changes(chat, chat', {"hasReasoning", "summaryDelta", "byItem"}, {"reasoning"})
    BY <2>1 DEF Changes
  <2>3. chat'.byItem = chat.byItem
    BY <2>1 DEF Changes, ChatFields
  <2>4. MarksRight'
    BY <1>1, <1>3, <2>1, <2>3 DEF CInv, MarksRight
  <2> QED
    BY <1>3, <2>1, <2>2, <2>4, DeltaOfReasoning DEF Reasoning
<1>4. CASE Current.kind = "reasoning" /\ chat' = ChatReasoningDelta(chat, token)
  <2>1. /\ Changes(chat, chat', {"hasReasoning", "byItem"}, {"reasoning"})
        /\ chat'.hasReasoning = TRUE /\ chat'.byItem = Append(chat.byItem, token)
        /\ chat'.client.reasoning = chat.client.reasoning \o <<token>>
    BY <1>2, <1>4, ReasoningDeltaFacts
  <2>2. Changes(chat, chat', {"hasReasoning", "summaryDelta", "byItem"}, {"reasoning"})
    BY <2>1 DEF Changes
  <2>3. chat'.summaryDelta = chat.summaryDelta
    BY <2>1 DEF Changes, ChatFields
  <2>4. chat'.byItem = SubSeq(Current.text, 1, sent + 1)
    BY <1>1, <1>4, <2>1 DEF CInv, MarksRight
  <2>5. MarksRight'
    BY <1>1, <1>4, <2>3, <2>4 DEF CInv, MarksRight
  <2> QED
    BY <1>4, <2>1, <2>2, <2>5, DeltaOfReasoning DEF Reasoning
<1>5. CASE Current.kind = "message" /\ chat' = ChatText(chat, token)
  <2>1. /\ Changes(chat, chat', {"hasText"}, {"content"})
        /\ chat'.hasText = TRUE /\ chat'.client.content = Append(chat.client.content, token)
    BY <1>2, <1>5, ChatTextFacts
  <2>2. /\ ChatShape(chat)' /\ UNCHANGED <<chat.calls, chat.hasReasoning, chat.hasToolCall, chat.announced>>
        /\ UNCHANGED <<chat.summaryDelta, chat.byItem, chat.client.reasoning, chat.client.calls>>
        /\ UNCHANGED <<chat.completed, chat.client.finish>>
    BY <2>1, ReaderUnchanged DEF ChatFields, ReaderFields
  <2>3. TextRight'
    <3>1. ToCome(Messages) = <<token>> \o ToCome(Messages)'
      BY <1>1, <1>5 DEF Messages
    <3> HIDE DEF token
    <3> QED
      BY <1>1, <1>2, <2>1, <3>1, TextTold DEF CInv, token
  <2>4. ReasoningRight'
    <3>1. Current.kind \notin Reasoning
      BY <1>5 DEF Reasoning
    <3> QED
      BY <1>1, <2>2, <3>1, ReasoningSame DEF CInv
  <2>5. MarksRight'
    BY <1>1, <1>5, <2>2 DEF CInv, MarksRight
  <2>6. CallsRight'
    BY <1>1, <1>5, <2>2, CallsKept DEF CInv, CallUnder
  <2>7. EndRight'
    BY <1>1, <2>2, StillGoing DEF CInv
  <2>8. Asked'
    BY <1>1 DEF CInv, Asked
  <2> QED
    BY <1>1, <2>2, <2>3, <2>4, <2>5, <2>6, <2>7, <2>8 DEF CInv
<1>6. CASE Current.kind = "call" /\ Current.announced /\ chat' = ChatArgsDelta(chat, token)
  <2>1. /\ Changes(chat, chat', {"hasToolCall", "argsDelta"}, {"calls"})
        /\ chat'.hasToolCall = TRUE /\ chat'.argsDelta = TRUE
        /\ chat'.client.calls = [chat.client.calls EXCEPT ![chat.calls].args = @ \o <<token>>]
    BY <1>2, <1>6, ArgsDeltaFacts
  <2>2. /\ ChatShape(chat)' /\ UNCHANGED <<chat.calls, chat.hasText, chat.hasReasoning, chat.announced>>
        /\ UNCHANGED <<chat.summaryDelta, chat.byItem, chat.client.reasoning, chat.client.content>>
        /\ UNCHANGED <<chat.completed, chat.client.finish>>
    BY <2>1, ReaderUnchanged DEF ChatFields, ReaderFields
  <2>3. TextRight'
    <3>1. Current.kind \notin Messages
      BY <1>6 DEF Messages
    <3> QED
      BY <1>1, <2>2, <3>1, TextSame DEF CInv
  <2>4. ReasoningRight'
    <3>1. Current.kind \notin Reasoning
      BY <1>6 DEF Reasoning
    <3> QED
      BY <1>1, <2>2, <3>1, ReasoningSame DEF CInv
  <2>5. MarksRight'
    BY <1>1, <1>6, <2>2 DEF CInv, MarksRight
  <2>6. CallsRight'
    <3> DEFINE x == <<token>>
    <3>1. x \in Seq(TextTokens)
      BY <1>1
    <3>2. ToCome({"call"}) = x \o ToCome({"call"})'
      BY <1>1, <1>6
    <3>3. CallUnder /\ CallUnder' /\ (step' = "body" => (chat'.argsDelta <=> sent' > 0))
      BY <1>1, <1>6, <2>1 DEF CallUnder
    <3>4. chat'.client.calls = [chat.client.calls EXCEPT ![chat.calls].args = @ \o x]
      BY <2>1
    <3> HIDE DEF x
    <3> QED
      BY <1>1, <1>6, <2>1, <2>2, <3>1, <3>2, <3>3, <3>4, CallsTold, Zenon DEF CInv
  <2>7. EndRight'
    BY <1>1, <2>2, StillGoing DEF CInv
  <2>8. Asked'
    BY <1>1 DEF CInv, Asked
  <2> QED
    BY <1>1, <2>2, <2>3, <2>4, <2>5, <2>6, <2>7, <2>8 DEF CInv
<1> QED
  BY <1>3, <1>4, <1>5, <1>6 DEF Delta

\* What is left of a reasoning text when its end brings the whole of it.
LEMMA RestIsToCome ==
    ASSUME NEW S, NEW t \in Seq(S), NEW k \in 0 .. Len(t)
    PROVE  RestOf(t, SubSeq(t, 1, k)) = SubSeq(t, k + 1, Len(t))
<1> DEFINE a == SubSeq(t, 1, k)
           b == SubSeq(t, k + 1, Len(t))
<1>1. /\ a \in Seq(S) /\ b \in Seq(S) /\ Len(a) = k
      /\ k = 0 => a = <<>> /\ b = t
      /\ k = Len(t) => a = t /\ b = <<>>
  BY CutInTwo
<1>2. Len(t) \in Nat /\ k \in Nat
  OBVIOUS
<1>3. SubSeq(a, 1, k) = a
  <2>1. k \in 0 .. Len(a) /\ k = Len(a)
    BY <1>1, <1>2
  <2> HIDE DEF a
  <2> QED
    BY <1>1, <2>1, CutInTwo
<1>4. IsPrefix(a, t)
  BY <1>1, <1>2, <1>3 DEF IsPrefix
<1> SUFFICES RestOf(t, a) = b
  OBVIOUS
<1> HIDE DEF a, b
<1>5. CASE k = Len(t)
  BY <1>1, <1>5 DEF RestOf, Empty
<1>6. CASE k = 0 /\ k # Len(t)
  <2>1. t # <<>>
    BY <1>6
  <2> QED
    BY <1>1, <1>6, <2>1 DEF RestOf, Empty
<1>7. CASE k # 0 /\ k # Len(t)
  <2>1. t # a /\ a # <<>>
    BY <1>1, <1>7
  <2> QED
    BY <1>1, <1>4, <2>1 DEF RestOf, Empty, b
<1> QED
  BY <1>5, <1>6, <1>7

\* The end of the item under way: nothing of it is to come any more.
LEMMA DonePlace ==
    ASSUME ItemsRight, stage = "items", step # "none",
           UNCHANGED <<request, stage, items, sent>>, step' \in {"none", "args"},
           step' = "args" => Current.kind = "call" /\ Current.announced
    PROVE  /\ ItemsRight' /\ UNCHANGED <<Calls, Current>>
           /\ \A kinds : Concat(kinds)' = Concat(kinds) /\ ToCome(kinds)' = <<>>
           /\ \A kinds : Current.kind \notin kinds => ToCome(kinds) = <<>>
           /\ Current.text \in Seq(TextTokens) /\ sent \in 0 .. Len(Current.text)
<1>1. UNCHANGED <<Calls, Current>> /\ \A kinds : Concat(kinds)' = Concat(kinds) /\ ToCome(kinds)' = <<>>
  BY DEF Calls, Current, Concat, ToCome
<1>2. Current.text \in Seq(TextTokens) /\ sent \in 0 .. Len(Current.text)
  BY CurrentFacts DEF ItemRight
<1>3. ItemsRight'
  BY <1>1 DEF ItemsRight
<1>4. \A kinds : Current.kind \notin kinds => ToCome(kinds) = <<>>
  BY DEF ToCome
<1> QED
  BY <1>1, <1>2, <1>3, <1>4

LEMMA CInvTextDone ==
    ASSUME CInv, TextDone
    PROVE  CInv'
<1> DEFINE text == Current.text
<1>1. /\ stage = "items" /\ step = "body" /\ step' = "none"
      /\ UNCHANGED <<request, summaries, stage, items, sent>>
  BY DEF TextDone
<1>2. ItemsRight /\ ChatShape(chat) /\ MarksRight /\ TextRight /\ ReasoningRight /\ CallsRight /\ EndRight
  BY DEF CInv
<1>3. /\ ItemsRight' /\ UNCHANGED <<Calls, Current>>
      /\ \A kinds : Concat(kinds)' = Concat(kinds) /\ ToCome(kinds)' = <<>>
      /\ \A kinds : Current.kind \notin kinds => ToCome(kinds) = <<>>
      /\ Current.text \in Seq(TextTokens) /\ sent \in 0 .. Len(Current.text)
  BY <1>1, <1>2, DonePlace
<1>4. Asked'
  BY <1>1 DEF CInv, Asked
<1>5. /\ SubSeq(text, sent + 1, Len(text)) \in Seq(TextTokens)
      /\ sent = 0 => SubSeq(text, sent + 1, Len(text)) = text
      /\ sent = Len(text) => SubSeq(text, sent + 1, Len(text)) = <<>>
      /\ RestOf(text, SubSeq(text, 1, sent)) = SubSeq(text, sent + 1, Len(text))
  BY <1>3, CutInTwo, RestIsToCome
<1>6. ASSUME NEW kinds, Current.kind \in kinds
      PROVE  ToCome(kinds) = SubSeq(text, sent + 1, Len(text))
  BY <1>1, <1>6 DEF ToCome
<1>7. ASSUME Current.kind \in Reasoning,
             Changes(chat, chat', {"hasReasoning", "byItem"}, {"reasoning"}),
             chat'.byItem = <<>>,
             \/ /\ ToCome(Reasoning) # <<>> /\ chat'.hasReasoning = TRUE
                /\ chat'.client.reasoning = chat.client.reasoning \o ToCome(Reasoning)
             \/ /\ ToCome(Reasoning) = <<>> /\ chat'.hasReasoning = chat.hasReasoning
                /\ \/ chat'.client.reasoning = Append(chat.client.reasoning, Separator)
                   \/ chat'.client.reasoning = chat.client.reasoning
      PROVE  CInv'
  <2>1. /\ ChatShape(chat)' /\ UNCHANGED <<chat.calls, chat.hasText, chat.hasToolCall, chat.announced>>
        /\ UNCHANGED <<chat.summaryDelta, chat.client.content, chat.client.calls>>
        /\ UNCHANGED <<chat.completed, chat.client.finish>>
    BY <1>7, ReaderUnchanged DEF ChatFields, ReaderFields
  <2>2. TextRight'
    <3>1. Current.kind \notin Messages
      BY <1>7 DEF Reasoning, Messages
    <3> QED
      BY <1>2, <1>3, <2>1, <3>1, TextSame
  <2>3. ReasoningRight'
    <3> DEFINE x == ToCome(Reasoning)
    <3>1. CASE ToCome(Reasoning) # <<>>
      <4>1. x \in Seq(TextTokens) /\ x # <<>>
        BY <1>2, <3>1, ListsTyped
      <4>2. ToCome(Reasoning) = x \o ToCome(Reasoning)'
        BY <1>3, <4>1
      <4>3. chat'.client.reasoning = chat.client.reasoning \o x /\ chat'.hasReasoning = TRUE
        BY <1>7, <3>1
      <4>4. PICK y : y = x
        OBVIOUS
      <4> HIDE DEF x
      <4> QED
        BY <1>2, <1>3, <4>1, <4>2, <4>3, <4>4, ReasoningTold
    <3>2. CASE ToCome(Reasoning) = <<>> /\ chat'.client.reasoning = chat.client.reasoning
      BY <1>2, <1>3, <1>7, <3>2, ReasoningSame
    <3>3. CASE ToCome(Reasoning) = <<>>
               /\ chat'.client.reasoning = Append(chat.client.reasoning, Separator)
      BY <1>2, <1>3, <1>7, <3>3, ReasoningSeparated
    <3> QED
      BY <1>7, <3>1, <3>2, <3>3
  <2>4. MarksRight'
    BY <1>1, <1>2, <1>7, <2>1 DEF MarksRight
  <2>5. CallsRight'
    BY <1>1, <1>2, <1>3, <1>7, <2>1, CallsKept DEF CallUnder, Reasoning
  <2>6. EndRight'
    BY <1>1, <1>2, <2>1, StillGoing
  <2> QED
    BY <1>3, <1>4, <2>1, <2>2, <2>3, <2>4, <2>5, <2>6 DEF CInv
<1>8. CASE /\ Current.kind = "summary" /\ (summaries => sent = Len(text))
           /\ chat' = ChatSummaryDone(chat, text)
  <2>1. /\ Changes(chat, chat', {"hasReasoning"}, {"reasoning"})
        /\ IF text # Empty /\ ~chat.summaryDelta
           THEN chat'.hasReasoning = TRUE /\ chat'.client.reasoning = chat.client.reasoning \o text
           ELSE /\ chat'.hasReasoning = chat.hasReasoning
                /\ chat'.client.reasoning = Append(chat.client.reasoning, Separator)
    BY <1>2, <1>8, SummaryDoneFacts
  <2>2. chat'.byItem = chat.byItem
    BY <2>1 DEF Changes, ChatFields
  <2>3. Changes(chat, chat', {"hasReasoning", "byItem"}, {"reasoning"})
    BY <2>1 DEF Changes
  <2>4. chat.byItem = <<>> /\ (chat.summaryDelta => summaries)
        /\ IF summaries THEN sent > 0 => chat.summaryDelta ELSE sent = 0
    BY <1>1, <1>2, <1>8 DEF MarksRight
  <2>5. Current.kind \in Reasoning /\ ToCome(Reasoning) = SubSeq(text, sent + 1, Len(text))
    BY <1>6, <1>8 DEF Reasoning
  <2>6. CASE text # Empty /\ ~chat.summaryDelta
    <3>1. ~summaries
      <4>1. text # <<>> => Len(text) > 0
        BY <1>3
      <4> QED
        BY <1>8, <2>4, <2>6, <4>1 DEF Empty
    <3> QED
      BY <1>5, <1>7, <2>1, <2>2, <2>3, <2>4, <2>5, <2>6, <3>1 DEF Empty
  <2>7. CASE ~(text # Empty /\ ~chat.summaryDelta)
    <3>1. ToCome(Reasoning) = <<>>
      <4>1. CASE text = <<>>
        BY <1>3, <1>5, <2>5, <4>1
      <4>2. CASE chat.summaryDelta
        BY <1>5, <1>8, <2>4, <2>5, <4>2
      <4> QED
        BY <2>7, <4>1, <4>2 DEF Empty
    <3> QED
      BY <1>7, <2>1, <2>2, <2>3, <2>4, <2>5, <2>7, <3>1
  <2> QED
    BY <2>6, <2>7
<1>9. CASE Current.kind = "reasoning" /\ chat' = ChatReasoningDone(chat, text)
  <2>1. chat.byItem = SubSeq(text, 1, sent)
    BY <1>1, <1>2, <1>9 DEF MarksRight
  <2>2. Current.kind \in Reasoning /\ ToCome(Reasoning) = RestOf(text, chat.byItem)
    BY <1>5, <1>6, <1>9, <2>1 DEF Reasoning
  <2>3. /\ Changes(chat, chat', {"hasReasoning", "byItem"}, {"reasoning"})
        /\ chat'.byItem = <<>>
        /\ IF text = Empty \/ RestOf(text, chat.byItem) = Empty
           THEN /\ chat'.hasReasoning = chat.hasReasoning
                /\ chat'.client.reasoning = chat.client.reasoning
           ELSE chat'.hasReasoning = TRUE
                /\ chat'.client.reasoning = chat.client.reasoning \o RestOf(text, chat.byItem)
    BY <1>2, <1>9, ReasoningDoneFacts
  <2>4. text = <<>> => ToCome(Reasoning) = <<>>
    BY <1>3, <1>5, <2>1, <2>2
  <2> QED
    BY <1>7, <2>2, <2>3, <2>4 DEF Empty
<1>10. CASE Current.kind = "reasoning" /\ sent = Len(text) /\ chat' = [chat EXCEPT !.byItem = <<>>]
  <2>1. Changes(chat, chat', {"hasReasoning", "byItem"}, {"reasoning"}) /\ chat'.byItem = <<>>
        /\ chat'.hasReasoning = chat.hasReasoning /\ chat'.client.reasoning = chat.client.reasoning
    BY <1>2, <1>10 DEF Changes, ChatShape, ChatFields, ReaderFields
  <2>2. Current.kind \in Reasoning /\ ToCome(Reasoning) = <<>>
    BY <1>5, <1>6, <1>10 DEF Reasoning
  <2> QED
    BY <1>7, <2>1, <2>2
<1>11. CASE Current.kind = "message" /\ sent = Len(text) /\ UNCHANGED chat
  <2>1. ToCome(Messages) = <<>>
    BY <1>5, <1>6, <1>11 DEF Messages
  <2>2. TextRight'
    BY <1>2, <1>3, <1>11, <2>1, TextSame
  <2>3. ReasoningRight'
    <3>1. Current.kind \notin Reasoning
      BY <1>11 DEF Reasoning
    <3> QED
      BY <1>2, <1>3, <1>11, <3>1, ReasoningSame
  <2>4. MarksRight'
    BY <1>1, <1>2, <1>11 DEF MarksRight
  <2>5. CallsRight'
    BY <1>1, <1>2, <1>3, <1>11, CallsKept DEF CallUnder
  <2>6. EndRight'
    BY <1>1, <1>2, <1>11, StillGoing
  <2> QED
    BY <1>2, <1>3, <1>4, <1>11, <2>2, <2>3, <2>4, <2>5, <2>6 DEF CInv
<1> QED
  BY <1>8, <1>9, <1>10, <1>11 DEF TextDone

\* The two events that end a call change nothing but the calls.
LEMMA DoneOfCall ==
    ASSUME CInv, stage = "items", step # "none", Current.kind = "call",
           UNCHANGED <<request, summaries, stage, items, sent>>, step' \in {"none", "args"},
           step' = "args" => Current.announced,
           Changes(chat, chat', {"hasToolCall", "calls", "announced"}, {"calls"}), CallsRight'
    PROVE  CInv'
<1>1. ItemsRight /\ MarksRight /\ TextRight /\ ReasoningRight /\ EndRight
  BY DEF CInv
<1>2. /\ ItemsRight' /\ UNCHANGED <<Calls, Current>>
      /\ \A kinds : Concat(kinds)' = Concat(kinds) /\ ToCome(kinds)' = <<>>
      /\ \A kinds : Current.kind \notin kinds => ToCome(kinds) = <<>>
  BY <1>1, DonePlace
<1>3. /\ ChatShape(chat)' /\ UNCHANGED <<chat.hasText, chat.hasReasoning, chat.summaryDelta>>
      /\ UNCHANGED <<chat.byItem, chat.client.content, chat.client.reasoning>>
      /\ UNCHANGED <<chat.completed, chat.client.finish>>
  BY ReaderUnchanged DEF ChatFields, ReaderFields
<1>4. Current.kind \notin Messages /\ Current.kind \notin Reasoning
  BY DEF Messages, Reasoning
<1>5. TextRight'
  BY <1>1, <1>2, <1>3, <1>4, TextSame
<1>6. ReasoningRight'
  BY <1>1, <1>2, <1>3, <1>4, ReasoningSame
<1>7. MarksRight'
  BY <1>1, <1>2, <1>3 DEF MarksRight
<1>8. EndRight'
  BY <1>1, <1>3, StillGoing
<1>9. Asked'
  BY DEF CInv, Asked
<1> QED
  BY <1>2, <1>3, <1>5, <1>6, <1>7, <1>8, <1>9 DEF CInv

LEMMA CInvArgsDone ==
    ASSUME CInv, ArgsDone
    PROVE  CInv'
<1>1. /\ stage = "items" /\ step = "body" /\ Current.kind = "call" /\ Current.announced
      /\ sent \in {0, Len(Current.text)} /\ chat' = ChatArgsDone(chat, Current.text)
      /\ step' = "args" /\ UNCHANGED <<request, summaries, stage, items, sent>>
  BY DEF ArgsDone
<1>2. ItemsRight /\ ChatShape(chat) /\ CallsRight
  BY DEF CInv
<1>3. /\ ItemsRight' /\ UNCHANGED <<Calls, Current>>
      /\ \A kinds : ToCome(kinds)' = <<>>
      /\ Current.text \in Seq(TextTokens) /\ sent \in 0 .. Len(Current.text)
  BY <1>1, <1>2, DonePlace
<1>4. /\ Changes(chat, chat', {"hasToolCall"}, {"calls"})
      /\ chat'.hasToolCall = TRUE
      /\ chat'.client.calls = IF chat.argsDelta THEN chat.client.calls
                              ELSE [chat.client.calls EXCEPT ![chat.calls].args = @ \o Current.text]
  BY <1>1, <1>2, ArgsDoneFacts
<1>5. chat'.calls = chat.calls /\ chat'.announced = chat.announced
  BY <1>4, ReaderUnchanged DEF ChatFields
<1>6. CallUnder /\ CallUnder' /\ (chat.argsDelta <=> sent > 0)
  BY <1>1, <1>2, <1>3 DEF CallUnder, CallsRight
<1>7. ToCome({"call"}) = SubSeq(Current.text, sent + 1, Len(Current.text))
  BY <1>1 DEF ToCome
<1>8. CallsRight'
  <2>1. CASE chat.argsDelta
    <3>1. sent = Len(Current.text)
      BY <1>1, <1>6, <2>1
    <3>2. ToCome({"call"}) = <<>> /\ ToCome({"call"})' = <<>>
      BY <1>3, <1>7, <3>1, CutInTwo
    <3>3. chat'.client.calls = chat.client.calls
      BY <1>4, <2>1
    <3>4. chat.client.calls # <<>>
      BY <1>1, <1>2, <1>6 DEF CallsRight
    <3> QED
      BY <1>1, <1>2, <1>3, <1>4, <1>5, <1>6, <3>2, <3>3, <3>4, Zenon DEF CallsRight
  <2>2. CASE ~chat.argsDelta
    <3>1. sent = 0
      BY <1>3, <1>6, <2>2
    <3>2. PICK x \in Seq(TextTokens) : x = Current.text
      BY <1>3
    <3>3. ToCome({"call"}) = x \o ToCome({"call"})'
      BY <1>3, <1>7, <3>1, <3>2, CutInTwo
    <3>4. chat'.client.calls = [chat.client.calls EXCEPT ![chat.calls].args = @ \o x]
      BY <1>4, <2>2, <3>2
    <3>5. step' = "body" => (chat'.argsDelta <=> sent' > 0)
      BY <1>1
    <3> QED
      BY <1>1, <1>2, <1>3, <1>4, <1>5, <1>6, <3>3, <3>4, <3>5, CallsTold, Zenon
  <2> QED
    BY <2>1, <2>2
<1>9. Changes(chat, chat', {"hasToolCall", "calls", "announced"}, {"calls"})
  BY <1>4 DEF Changes
<1> QED
  BY <1>1, <1>8, <1>9, DoneOfCall

LEMMA CInvCallDone ==
    ASSUME CInv, CallDone
    PROVE  CInv'
<1> DEFINE orig == OriginalName(request.tools, Current.name)
<1>1. /\ stage = "items" /\ step # "none" /\ Current.kind = "call"
      /\ step = IF Current.announced THEN "args" ELSE "body"
      /\ chat' = ChatCallDone(chat, orig, Current.text)
      /\ step' = "none" /\ UNCHANGED <<request, summaries, stage, items, sent>>
  BY DEF CallDone
<1>2. ItemsRight /\ ChatShape(chat) /\ CallsRight /\ IsNames(request.tools)
  BY DEF CInv, Asked
<1>3. /\ ItemsRight' /\ UNCHANGED <<Calls, Current>>
      /\ \A kinds : ToCome(kinds)' = <<>>
      /\ Current.text \in Seq(TextTokens) /\ sent \in 0 .. Len(Current.text)
  BY <1>1, <1>2, DonePlace
<1>4. orig \in ToSet(request.tools)
  <2>1. PICK tool \in ToSet(request.tools) : Current.name = ShortName(request.tools, tool)
    BY <1>1, <1>2, CurrentFacts DEF ItemRight
  <2> QED
    BY <1>2, <2>1, NamesComeBack
<1> HIDE DEF orig
<1>5. /\ Changes(chat, chat', {"hasToolCall", "calls", "announced"}, {"calls"})
      /\ chat'.hasToolCall = TRUE
      /\ chat.announced => /\ chat'.announced = FALSE /\ chat'.calls = chat.calls
                           /\ chat'.client.calls = chat.client.calls
      /\ ~chat.announced =>
            /\ chat'.announced = chat.announced /\ chat'.calls = chat.calls + 1
            /\ chat'.client.calls = Append(chat.client.calls, [name |-> orig, args |-> Current.text])
  <2>1. PICK x, y : x = orig /\ y = Current.text
    OBVIOUS
  <2>2. LET t == ChatCallDone(chat, x, y)
        IN  /\ Changes(chat, t, {"hasToolCall", "calls", "announced"}, {"calls"})
            /\ t.hasToolCall = TRUE
            /\ IF chat.announced
               THEN t.announced = FALSE /\ t.calls = chat.calls /\ t.client.calls = chat.client.calls
               ELSE /\ t.announced = chat.announced /\ t.calls = chat.calls + 1
                    /\ t.client.calls = Append(chat.client.calls, [name |-> x, args |-> y])
    BY <1>2, ChatCallDoneFacts
  <2>3. chat' = ChatCallDone(chat, x, y)
    BY <1>1, <2>1
  <2> QED
    BY ONLY <2>1, <2>2, <2>3
<1>6. CallUnder /\ ~CallUnder' /\ (chat.announced <=> Current.announced)
  BY <1>1, <1>2 DEF CallUnder, CallsRight
<1>7. /\ IsSeq(Calls) /\ Len(Calls) \in Nat /\ DOMAIN Calls = 1 .. Len(Calls)
      /\ Len(Calls) > 0 /\ Calls[Len(Calls)] = Current
  BY <1>2, <1>6 DEF CallsRight, IsSeq
<1>8. CallsRight'
  <2>1. CASE Current.announced
    <3>1. ToCome({"call"}) = <<>>
      BY <1>1, <2>1 DEF ToCome
    <3>2. chat.client.calls # <<>>
      BY <1>2, <1>6, <1>7, <2>1 DEF CallsRight
    <3>3. step' # "body" /\ ~chat'.announced
      BY <1>1, <1>5, <1>6, <2>1
    <3>4. /\ chat'.client.calls = chat.client.calls /\ chat'.calls = chat.calls
          /\ Calls' = Calls /\ ToCome({"call"})' = <<>> /\ request' = request
      BY <1>1, <1>3, <1>5, <1>6, <2>1
    <3>5. Len(chat.client.calls) = Len(Calls)
      BY <1>2, <1>6, <2>1 DEF CallsRight
    <3> QED
      BY <1>2, <1>5, <1>6, <3>1, <3>2, <3>3, <3>4, <3>5 DEF CallsRight
  <2>2. CASE ~Current.announced
    <3> DEFINE m == Len(chat.client.calls)
    <3>1. PICK e : e = Current
      OBVIOUS
    <3>2. m = Len(Calls) - 1 /\ ~chat.announced
      BY <1>2, <1>6, <2>2 DEF CallsRight
    <3>0. Calls' = Calls
      BY <1>3
    <3>3. /\ Len(Calls') \in Nat /\ Len(Calls') = m + 1
          /\ Calls'[Len(Calls')] = e /\ IsSeq(Calls')
      <4> HIDE DEF m
      <4> QED
        BY ONLY <3>0, <1>7, <3>1, <3>2
    <3>4. \A i \in 1 .. m : i \in DOMAIN Calls /\ Calls'[i] = Calls[i] /\ i # Len(Calls)
      <4> HIDE DEF m
      <4> QED
        <5>1. \A i \in 1 .. m : i \in 1 .. Len(Calls) /\ i # Len(Calls)
          <6>1. \A n \in Nat : m = n - 1 => \A i \in 1 .. m : i \in 1 .. n /\ i # n
            OBVIOUS
          <6> QED
            BY ONLY <1>7, <3>2, <6>1, Zenon
        <5> QED
          BY ONLY <3>0, <1>7, <5>1, Zenon
    <3>5. PICK x \in Seq(Tokens) : x = Current.text
      BY <1>3 DEF TextTokens
    <3>6. x \o ToCome({"call"})' = e.text
      BY <1>3, <3>1, <3>5
    <3>7. PICK tool \in ToSet(request.tools) : TRUE
      BY <1>4
    <3>8. /\ chat'.client.calls = Append(chat.client.calls,
                                         [name |-> OriginalName(request.tools, e.name), args |-> x])
          /\ OriginalName(request.tools, e.name) \in ToSet(request.tools)
          /\ chat'.calls = chat.calls + 1 /\ chat'.hasToolCall = TRUE
      BY <1>4, <1>5, <3>1, <3>2, <3>5 DEF orig
    <3>9. /\ CallUnder' => Current'.announced /\ Current' = e
          /\ chat'.announced <=> CallUnder' /\ Current'.announced
          /\ step' = "body" /\ CallUnder' => (chat'.argsDelta <=> sent' > 0)
      BY <1>5, <1>6, <3>2
    <3> HIDE DEF m
    <3>10. \A i \in 1 .. m : i = Len(Calls) => ToCome({"call"}) = <<>>
      BY <3>4
    <3> QED
      BY <1>1, <1>2, <3>3, <3>4, <3>6, <3>8, <3>9, <3>10, CallsAdded DEF m
  <2> QED
    BY <2>1, <2>2
<1> QED
  BY <1>1, <1>5, <1>8, DoneOfCall

LEMMA CInvNext == CInv /\ [ExchangeNext]_vars => CInv'
<1> SUFFICES ASSUME CInv, [ExchangeNext]_vars
             PROVE  CInv'
  OBVIOUS
<1>1. CASE Created
  BY <1>1, CInvCreated
<1>2. ASSUME NEW len \in 0 .. MaxTokens, NEW kind, BeginText(kind, len)
      PROVE  CInv'
  BY <1>2, RequestsAssumption, CInvBeginText
<1>3. ASSUME NEW len \in 0 .. MaxTokens, NEW tool \in ToSet(request.tools),
             NEW announced \in BOOLEAN, BeginCall(tool, len, announced)
      PROVE  CInv'
  BY <1>3, RequestsAssumption, CInvBeginCall
<1>4. CASE Delta
  BY <1>4, CInvDelta
<1>5. CASE TextDone
  BY <1>5, CInvTextDone
<1>6. CASE ArgsDone
  BY <1>6, CInvArgsDone
<1>7. CASE CallDone
  BY <1>7, CInvCallDone
<1>8. CASE Completed
  BY <1>8, CInvCompleted
<1>9. CASE EndOfBody
  BY <1>9, CInvEndOfBody
<1>10. CASE ReadFails
  BY <1>10, CInvReadFails
<1>11. CASE Finish
  BY <1>11, CInvFinish
<1>12. CASE AskAgain
  BY <1>12, CInvAskAgain
<1>13. CASE UNCHANGED vars
  <2>1. /\ UNCHANGED <<request, summaries, items, step, sent, stage, chat>>
    BY <1>13 DEF vars
  <2>2. Changes(chat, chat', {"completed", "outcome"}, {"finish"})
    BY <2>1 DEF Changes, CInv
  <2>3. /\ Asked' /\ ChatShape(chat)' /\ TextRight' /\ ReasoningRight' /\ MarksRight' /\ CallsRight'
    BY <2>1, <2>2, OnlyTheEnd
  <2>4. ItemsRight' /\ EndRight'
    BY <2>1 DEF CInv, ItemsRight, EndRight, Current, HasContent, Reason
  <2> QED
    BY <2>3, <2>4 DEF CInv
<1> QED
  BY <1>1, <1>2, <1>3, <1>4, <1>5, <1>6, <1>7, <1>8, <1>9, <1>10, <1>11, <1>12, <1>13
     DEF ExchangeNext, Next

LEMMA CInvNames == CInv => NamesRestored
<1> SUFFICES ASSUME CInv PROVE NamesRestored
  OBVIOUS
<1>1. IsNames(request.tools) /\ CallsRight
  BY DEF CInv, Asked
<1>2. \A i \in DOMAIN chat.client.calls : chat.client.calls[i].name \in ToSet(request.tools)
  BY <1>1 DEF CallsRight
<1>3. \A a, b \in ToSet(request.tools) :
         a # b => ShortName(request.tools, a) # ShortName(request.tools, b)
  BY <1>1, NamesApart
<1>4. ASSUME request.choice \in ToSet(request.tools) \ {Empty}
      PROVE  ToolChoice(request.tools, request.choice) \in ToSet(UpstreamTools(request.tools))
  <2>1. PICK k \in DOMAIN request.tools : request.tools[k] = request.choice
    BY <1>4 DEF ToSet
  <2>2. ToolChoice(request.tools, request.choice) = ToolName(request.tools, request.choice)
    BY <1>4 DEF ToolChoice, Empty
  <2>3. k \in DOMAIN UpstreamTools(request.tools)
        /\ UpstreamTools(request.tools)[k] = ToolName(request.tools, request.choice)
    BY <2>1 DEF UpstreamTools
  <2> QED
    BY <2>2, <2>3 DEF ToSet
<1> QED
  BY <1>2, <1>3, <1>4 DEF NamesRestored

\* Names cut for the request come back whole, for tools of any names and any
\* number, as many endings as tools being enough; two tools are never taken for
\* each other, and a tool that must be called is one the upstream is told of.
THEOREM NamesAreRestored == ExchangeSpec => []NamesRestored
<1>1. ExchangeSpec => []CInv
  BY CInvInit, CInvNext, PTL DEF ExchangeSpec
<1> QED
  BY <1>1, CInvNames, PTL

LEMMA CInvStream == CInv => ChatStreamIsFinal
<1> SUFFICES ASSUME CInv, chat.completed PROVE ChatStreamIsFinal
  BY DEF ChatStreamIsFinal
<1> DEFINE c == chat.client
           told == WithoutSeparators(chat.client.reasoning)
<1>1. TextRight /\ ReasoningRight /\ CallsRight /\ EndRight /\ ItemsRight
  BY DEF CInv
<1>2. step = "none"
  BY <1>1 DEF EndRight
<1>3. (\A kinds : ToCome(kinds) = <<>>) /\ ~CallUnder
  BY <1>2 DEF ToCome, CallUnder
<1>4. c.content = FinalChat.content
  <2>1. c.content \in Seq(Tokens) /\ c.content \o <<>> = Concat({"message"})
    BY <1>1, <1>3 DEF TextRight
  <2>2. c.content = Concat({"message"})
    <3> HIDE DEF c
    <3> QED
      BY <2>1
  <2> QED
    BY <2>2 DEF FinalChat
<1>5. told = FinalChat.reasoning
  <2>1. c.reasoning \in Seq(Tokens) /\ told \o <<>> = Concat(Reasoning)
    BY <1>1, <1>3 DEF ReasoningRight
  <2>2. told \in Seq(Tokens)
    <3>1. <<>> \in Seq(TextTokens)
      OBVIOUS
    <3> QED
      BY <2>1, <3>1, WithoutMore
  <2>3. told = Concat(Reasoning)
    <3> HIDE DEF told
    <3> QED
      BY <2>1, <2>2
  <2> QED
    BY <2>3 DEF FinalChat, Reasoning
<1>6. /\ IsSeq(c.calls) /\ IsSeq(Calls) /\ Len(c.calls) = Len(Calls) /\ chat.calls = Len(c.calls)
      /\ chat.hasToolCall <=> c.calls # <<>>
  BY <1>1, <1>3 DEF CallsRight
<1>7. DOMAIN c.calls = 1 .. Len(Calls) /\ DOMAIN Calls = 1 .. Len(Calls) /\ Len(Calls) \in Nat
      /\ c.calls = [i \in 1 .. Len(Calls) |-> c.calls[i]]
  BY <1>6 DEF IsSeq
<1>8. ASSUME NEW i \in 1 .. Len(Calls)
      PROVE  c.calls[i] = [name |-> OriginalName(request.tools, Calls[i].name),
                           args |-> Calls[i].text]
  <2>1. /\ c.calls[i] \in SentCalls
        /\ c.calls[i].name = OriginalName(request.tools, Calls[i].name)
        /\ c.calls[i].args \in Seq(Tokens)
        /\ c.calls[i].args \o (IF i = Len(Calls) THEN ToCome({"call"}) ELSE <<>>) = Calls[i].text
    BY <1>1, <1>7, Zenon DEF CallsRight
  <2>2. c.calls[i].args \o <<>> = Calls[i].text
    BY <1>3, <2>1
  <2> HIDE DEF c
  <2>3. c.calls[i].args = Calls[i].text
    BY <2>1, <2>2
  <2>4. c.calls[i] = [name |-> c.calls[i].name, args |-> c.calls[i].args]
    BY <2>1 DEF SentCalls
  <2> QED
    BY ONLY <2>1, <2>3, <2>4
<1>9. c.calls = FinalChat.calls
  <2> DEFINE r == [i \in 1 .. Len(Calls) |->
                      [name |-> OriginalName(request.tools, Calls[i].name), args |-> Calls[i].text]]
  <2>1. FinalChat.calls = r
    BY <1>7 DEF FinalChat
  <2> HIDE DEF c
  <2>2. c.calls = r
    BY <1>7, <1>8
  <2> QED
    BY <2>1, <2>2
<1>10. HasContent(chat) <=> HasOutput
  BY <1>1, <1>4, <1>5, <1>6, <1>9 DEF HasContent, HasOutput, TextRight, ReasoningRight, Empty
<1>11. HasOutput => c.finish = <<IF FinalChat.calls # <<>> THEN "tool_calls" ELSE "stop">>
  <2>1. HasOutput => c.finish = <<Reason(chat)>>
    BY <1>1, <1>10 DEF EndRight
  <2>2. chat.calls # 0 <=> FinalChat.calls # <<>>
    BY <1>6, <1>7, <1>9
  <2> QED
    BY <2>1, <2>2 DEF Reason
<1>12. Those(c.reasoning, {i \in DOMAIN c.reasoning : c.reasoning[i] # Separator})
          = FinalChat.reasoning
  BY <1>5 DEF WithoutSeparators
<1>13. HasContent(chat) = HasOutput
  BY <1>10 DEF HasContent, HasOutput
<1> QED
  BY ONLY <1>4, <1>9, <1>11, <1>12, <1>13, Zenon DEF ChatStreamIsFinal

\* A completed response is the same answer streamed and in one piece, for OpenAI
\* clients: every token of text, reasoning and arguments once and in order,
\* whichever of the delta, done and item events brought it, the calls under the
\* names the client gave, and one finish reason that is true.
THEOREM StreamIsTheResponse == ExchangeSpec => []ChatStreamIsFinal
<1>1. ExchangeSpec => []CInv
  BY CInvInit, CInvNext, PTL DEF ExchangeSpec
<1> QED
  BY <1>1, CInvStream, PTL

-----------------------------------------------------------------------------
(***************************************************************************)
(* What an Anthropic client has been told.                                 *)
(***************************************************************************)
Told(s, kind) == Assembled(s.client.blocks, kind)
Typed(s) == \A i \in DOMAIN s.client.blocks : s.client.blocks[i].body \in Seq(Tokens)

\* The flag for the stop reason says whether a call was sent.
Uses(s) == {i \in DOMAIN s.client.blocks : s.client.blocks[i].kind = "tool_use"}
Noted(s) == s.hasToolUse <=> Uses(s) # {}
StopOf(s) == IF s.hasToolUse THEN "tool_use" ELSE "end_turn"

\* The order of tokens in the response.
Before(a, b) == a[1] < b[1] \/ (a[1] = b[1] /\ a[2] < b[2])
Increasing(q) == \A j, k \in DOMAIN q : j < k => Before(q[j], q[k])

\* The reasoning of the whole response: every token of an item's text, in order.
WholeRight ==
    /\ \A i \in DOMAIN items : \A p \in DOMAIN items[i].text : items[i].text[p] = <<i, p>>
    /\ Increasing(Concat(Reasoning))
    /\ \A j \in DOMAIN Concat(Reasoning) : Concat(Reasoning)[j][1] <= Len(items)
    /\ \A i \in DOMAIN items : items[i].kind \in Reasoning =>
          ToSet(items[i].text) \subseteq ToSet(Concat(Reasoning))

TextShown == Told(claude, "text") \o ToCome(Messages) = Concat(Messages)

\* The client's thinking is of that reasoning, in its order, and none is to come.
ThinkingShown ==
    LET thinking == Told(claude, "thinking")
    IN  /\ Increasing(thinking) /\ ToSet(thinking) \subseteq ToSet(Concat(Reasoning))
        /\ step = "body" => \A token \in ToSet(thinking) : token[1] = Len(items) => token[2] <= sent

\* The message in one piece, without its thinking.
ShownOf(q) == Those(q, {i \in DOMAIN q : q[i].kind \in {"message", "call"}})
BlockOf(e) == IF e.kind = "message" THEN [kind |-> "text", body |-> e.text]
              ELSE [kind |-> "tool_use", body |-> Empty]
AnswerOf(q) == [i \in DOMAIN ShownOf(q) |-> BlockOf(ShownOf(q)[i])]

AnswerRight ==
    /\ IsSeq(AnswerOf(items)) /\ \A i \in DOMAIN AnswerOf(items) : AnswerOf(items)[i].body \in Seq(Tokens)
    /\ Assembled(AnswerOf(items), "text") = Concat(Messages)
    /\ Assembled(AnswerOf(items), "thinking") = <<>>

StopsRight ==
    /\ claude.completed => stage \in {"completed", "end"} /\ step = "none"
    /\ stage = "completed" \/ claude.outcome = "success" => claude.client.stops = <<StopOf(claude)>>

AnswerShown ==
    /\ Typed(claude) /\ Noted(claude) /\ WholeRight /\ AnswerRight
    /\ claude.client.fault = "none" => TextShown /\ ThinkingShown

AInv == AnswerShown /\ StopsRight

-----------------------------------------------------------------------------
(***************************************************************************)
(* Blocks put together, and tokens in order.                               *)
(***************************************************************************)
Bodies(q) == IsSeq(q) /\ \A i \in DOMAIN q : q[i].body \in Seq(Tokens)

LEMMA AssembledLonger ==
    ASSUME NEW q, Bodies(q), NEW b, b.body \in Seq(Tokens), NEW kind
    PROVE  /\ Assembled(Append(q, b), kind)
                 = Assembled(q, kind) \o (IF b.kind = kind THEN b.body ELSE <<>>)
           /\ Assembled(q, kind) \in Seq(Tokens)
<1> DEFINE r == Append(q, b)
           n == Len(q)
           Part(x) == IF x.kind = kind THEN x.body ELSE <<>>
           qs == [i \in 1 .. n |-> Part(q[i])]
           rs == [i \in 1 .. n + 1 |-> Part(r[i])]
<1>1. /\ n \in Nat /\ DOMAIN q = 1 .. n /\ DOMAIN r = 1 .. n + 1 /\ r[n + 1] = b
      /\ \A i \in 1 .. n : r[i] = q[i]
  BY AppendAny DEF Bodies
<1>2. Assembled(q, kind) = FlattenSeq(qs) /\ Assembled(r, kind) = FlattenSeq(rs)
  BY <1>1 DEF Assembled
<1> HIDE DEF r, n
<1>3. <<>> \in Seq(Tokens)
  OBVIOUS
<1>4. Part(b) \in Seq(Tokens) /\ \A i \in 1 .. n : Part(q[i]) \in Seq(Tokens)
  BY <1>1, <1>3 DEF Bodies
<1> HIDE DEF Part
<1>5. /\ DOMAIN qs = 1 .. n /\ DOMAIN rs = 1 .. n + 1
      /\ qs = [i \in 1 .. n |-> qs[i]] /\ rs = [i \in 1 .. n + 1 |-> rs[i]]
      /\ \A i \in 1 .. n + 1 : rs[i] = Part(r[i])
      /\ \A i \in 1 .. n : qs[i] = Part(q[i])
  OBVIOUS
<1> HIDE DEF qs, rs
<1>6. \A i \in 1 .. n + 1 : i \in 1 .. n \/ i = n + 1
  BY <1>1
<1>7. \A i \in 1 .. n : i \in 1 .. n + 1
  BY <1>1
<1>8. \A i \in 1 .. n + 1 : rs[i] \in Seq(Tokens)
  BY <1>1, <1>4, <1>5, <1>6
<1>9. \A i \in 1 .. n : qs[i] = rs[i]
  BY <1>1, <1>5, <1>7
<1>10. FlattenSeq(rs) = FlattenSeq(qs) \o rs[n + 1] /\ FlattenSeq(qs) \in Seq(Tokens)
  BY <1>1, <1>5, <1>8, <1>9, FlattenLonger
<1>11. rs[n + 1] = Part(b)
  <2>1. n + 1 \in 1 .. n + 1
    BY <1>1
  <2> QED
    BY <1>1, <1>5, <2>1
<1>12. /\ Assembled(r, kind) = Assembled(q, kind) \o Part(b)
       /\ Assembled(q, kind) \in Seq(Tokens)
  BY <1>2, <1>10, <1>11
<1> QED
  BY <1>12 DEF r, Part

LEMMA AssembledTyped ==
    ASSUME NEW q, Bodies(q), NEW kind
    PROVE  Assembled(q, kind) \in Seq(Tokens)
<1> DEFINE b == [kind |-> "none", body |-> <<>>]
<1>1. b.body \in Seq(Tokens)
  OBVIOUS
<1> HIDE DEF b
<1> QED
  BY <1>1, AssembledLonger

\* Only the kinds and the bodies of blocks matter.
LEMMA AssembledSame ==
    ASSUME NEW q, NEW r, DOMAIN r = DOMAIN q,
           \A i \in DOMAIN q : r[i].kind = q[i].kind /\ r[i].body = q[i].body
    PROVE  \A kind : Assembled(r, kind) = Assembled(q, kind)
<1> SUFFICES ASSUME NEW kind PROVE Assembled(r, kind) = Assembled(q, kind)
  OBVIOUS
<1>1. [i \in DOMAIN r |-> IF r[i].kind = kind THEN r[i].body ELSE <<>>]
         = [i \in DOMAIN q |-> IF q[i].kind = kind THEN q[i].body ELSE <<>>]
  OBVIOUS
<1> QED
  BY <1>1 DEF Assembled

\* A token more in the last block.
LEMMA AssembledGrows ==
    ASSUME NEW q, Bodies(q), NEW r, IsSeq(r), DOMAIN r = DOMAIN q, Len(q) \in DOMAIN q,
           \A i \in DOMAIN q \ {Len(q)} : r[i] = q[i],
           r[Len(q)].kind = q[Len(q)].kind,
           NEW token \in Tokens, r[Len(q)].body = Append(q[Len(q)].body, token)
    PROVE  \A kind : Assembled(r, kind) = IF q[Len(q)].kind = kind
                                          THEN Append(Assembled(q, kind), token)
                                          ELSE Assembled(q, kind)
<1> SUFFICES ASSUME NEW kind
             PROVE  Assembled(r, kind) = IF q[Len(q)].kind = kind
                                         THEN Append(Assembled(q, kind), token)
                                         ELSE Assembled(q, kind)
  OBVIOUS
<1> DEFINE n == Len(q)
           k == n - 1
           f == SubSeq(q, 1, k)
<1>1. PICK S : q \in Seq(S)
  BY DEF Bodies, IsSeq
<1>2. PICK R : r \in Seq(R)
  BY DEF IsSeq
<1>3. n \in Nat /\ DOMAIN q = 1 .. n /\ n > 0 /\ DOMAIN r = 1 .. n /\ Len(r) = n
  BY <1>1, <1>2
<1>4. k \in Nat /\ k + 1 = n /\ k < n
  BY <1>3
<1>5. f \in Seq(S) /\ Len(f) = k /\ \A i \in 1 .. k : f[i] = q[i]
  <2>1. k \in 0 .. Len(q)
    BY <1>3, <1>4
  <2>2. f \in Seq(S) /\ Len(f) = k
    <3> HIDE DEF k
    <3> QED
      BY ONLY <1>1, <2>1, CutInTwo
  <2>3. \A i \in 1 .. k - 1 + 1 : f[i] = q[1 + i - 1]
    <3>1. \A i \in 1 .. k : q[i] \in S
      BY <1>1, <1>3
    <3> QED
      BY <1>1, <1>4, <3>1, SubSeqProperties
  <2> HIDE DEF f, k
  <2>4. \A i \in 1 .. k : f[i] = q[i]
    BY <1>4, <2>3
  <2> QED
    BY <2>2, <2>4
<1> HIDE DEF f, k, n
<1>15. \A i \in 1 .. n : i = n \/ i \in 1 .. k
  BY <1>3, <1>4
<1>16. \A i \in 1 .. k : i \in DOMAIN q /\ i \in DOMAIN q \ {n}
  BY <1>3, <1>4
<1>6. Bodies(f)
  <2>1. \A i \in 1 .. k : i \in DOMAIN q
    BY <1>16
  <2>2. DOMAIN f = 1 .. k
    BY <1>5
  <2> QED
    BY <1>5, <2>1, <2>2 DEF Bodies, IsSeq
<1>7. q = Append(f, q[n])
  <2> DEFINE a == Append(f, q[n])
  <2>1. q[n] \in S
    BY <1>1, <1>3
  <2>2. /\ a \in Seq(S) /\ Len(a) = n /\ a[n] = q[n] /\ \A i \in 1 .. k : a[i] = f[i]
    BY <1>4, <1>5, <2>1, AppendProperties
  <2> HIDE DEF a
  <2>3. \A i \in 1 .. n : a[i] = q[i]
    BY <1>5, <1>15, <2>2
  <2>4. a = q
    BY <1>1, <2>2, <2>3, SeqEqual DEF n
  <2> QED
    BY <2>4 DEF a
<1>8. r = Append(f, r[n])
  <2> DEFINE a == Append(f, r[n])
             U == S \cup R
  <2>1. r[n] \in U /\ f \in Seq(U) /\ r \in Seq(U)
    BY <1>2, <1>3, <1>5
  <2>2. /\ a \in Seq(U) /\ Len(a) = n /\ a[n] = r[n] /\ \A i \in 1 .. k : a[i] = f[i]
    BY <1>4, <1>5, <2>1, AppendProperties
  <2>3. \A i \in 1 .. k : f[i] = r[i]
    BY <1>5, <1>16 DEF n
  <2> HIDE DEF a, U
  <2>4. \A i \in 1 .. n : a[i] = r[i]
    BY <1>15, <2>2, <2>3
  <2>5. a = r
    BY <1>3, <2>1, <2>2, <2>4, SeqEqual
  <2> QED
    BY <2>5 DEF a
<1>9. q[n].body \in Seq(Tokens) /\ r[n].body = Append(q[n].body, token) /\ r[n].body \in Seq(Tokens)
      /\ r[n].kind = q[n].kind
  BY <1>3 DEF Bodies, n
<1>17. ASSUME NEW x, NEW e, e.body \in Seq(Tokens), x = Append(f, e)
       PROVE  /\ Assembled(x, kind) = Assembled(f, kind) \o (IF e.kind = kind THEN e.body ELSE <<>>)
              /\ Assembled(f, kind) \in Seq(Tokens)
  BY <1>6, <1>17, AssembledLonger
<1>10. /\ Assembled(q, kind) = Assembled(f, kind) \o (IF q[n].kind = kind THEN q[n].body ELSE <<>>)
       /\ Assembled(f, kind) \in Seq(Tokens)
  BY ONLY <1>7, <1>9, <1>17
<1>11. Assembled(r, kind) = Assembled(f, kind) \o (IF r[n].kind = kind THEN r[n].body ELSE <<>>)
  BY ONLY <1>8, <1>9, <1>17
<1> DEFINE a == Assembled(f, kind)
           b == q[n].body
<1>12. a \o Append(b, token) = Append(a \o b, token)
  <2>1. a \in Seq(Tokens) /\ b \in Seq(Tokens) /\ <<token>> \in Seq(Tokens) /\ a \o b \in Seq(Tokens)
    BY <1>9, <1>10
  <2> HIDE DEF a, b
  <2>2. Append(b, token) = b \o <<token>> /\ Append(a \o b, token) = (a \o b) \o <<token>>
    BY <2>1, AppendIsConcat
  <2>3. (a \o b) \o <<token>> = a \o (b \o <<token>>)
    BY ONLY <2>1, ConcatAssociative
  <2> QED
    BY ONLY <2>2, <2>3
<1>13. Assembled(r, kind) = IF q[n].kind = kind THEN Append(Assembled(q, kind), token)
                             ELSE Assembled(q, kind)
  <2>1. CASE q[n].kind = kind
    <3>1. Assembled(q, kind) = a \o b /\ Assembled(r, kind) = a \o Append(b, token)
      BY <1>9, <1>10, <1>11, <2>1
    <3> QED
      BY <1>12, <2>1, <3>1
  <2>2. CASE q[n].kind # kind
    BY <1>9, <1>10, <1>11, <2>2
  <2> QED
    BY <2>1, <2>2
<1> QED
  BY <1>13 DEF n

LEMMA NothingAssembled == \A kind : Assembled(<<>>, kind) = <<>>
<1> SUFFICES ASSUME NEW kind PROVE Assembled(<<>>, kind) = <<>>
  OBVIOUS
<1>1. [i \in DOMAIN <<>> |-> IF <<>>[i].kind = kind THEN <<>>[i].body ELSE <<>>] = <<>>
  OBVIOUS
<1> QED
  BY <1>1, FlattenEmpty DEF Assembled

\* The order of tokens is strict.
LEMMA BeforeIsStrict ==
    ASSUME NEW a \in Tokens, NEW b \in Tokens
    PROVE  ~(Before(a, b) /\ Before(b, a))
<1>1. a[1] \in Nat /\ a[2] \in Nat /\ b[1] \in Nat /\ b[2] \in Nat
  BY DEF Tokens
<1> QED
  BY <1>1 DEF Before

\* A block before the others.
LEMMA AssembledFirst ==
    ASSUME NEW u, Bodies(u), Len(u) = 1, NEW q, Bodies(q), NEW kind
    PROVE  Assembled(u \o q, kind) = Assembled(u, kind) \o Assembled(q, kind)
<1>0. PICK h : u = <<h>> /\ Bodies(<<h>>)
  <2>1. PICK S : u \in Seq(S)
    BY DEF Bodies, IsSeq
  <2>2. u = <<u[1]>>
    BY <2>1
  <2> QED
    BY <2>2
<1> SUFFICES Assembled(<<h>> \o q, kind) = Assembled(<<h>>, kind) \o Assembled(q, kind)
  BY <1>0
<1> DEFINE part == IF h.kind = kind THEN h.body ELSE <<>>
           L(k) == Assembled(<<h>> \o SubSeq(q, 1, k), kind)
           R(k) == part \o Assembled(SubSeq(q, 1, k), kind)
           T == {k \in Nat : k <= Len(q) => L(k) = R(k)}
<1>1. PICK S : q \in Seq(S)
  BY DEF Bodies, IsSeq
<1>2. Len(q) \in Nat /\ DOMAIN q = 1 .. Len(q)
  BY <1>1
<1>3. h.body \in Seq(Tokens) /\ part \in Seq(Tokens)
  <2>1. 1 \in DOMAIN <<h>> /\ <<h>>[1] = h
    OBVIOUS
  <2> QED
    BY <1>0, <2>1 DEF Bodies
<1>4. \A k \in 0 .. Len(q) : SubSeq(q, 1, k) \in Seq(S) /\ Bodies(SubSeq(q, 1, k))
  <2> SUFFICES ASSUME NEW k \in 0 .. Len(q)
               PROVE  SubSeq(q, 1, k) \in Seq(S) /\ Bodies(SubSeq(q, 1, k))
    OBVIOUS
  <2> DEFINE f == SubSeq(q, 1, k)
  <2>1. f \in Seq(S) /\ Len(f) = k
    BY <1>1, CutInTwo
  <2>2. \A i \in 1 .. k - 1 + 1 : f[i] = q[1 + i - 1]
    <3>1. \A i \in 1 .. k : q[i] \in S
      BY <1>1, <1>2
    <3> QED
      BY <1>1, <3>1, SubSeqProperties
  <2> HIDE DEF f
  <2>3. \A i \in 1 .. k : f[i] = q[i] /\ i \in DOMAIN q
    BY <1>2, <2>2
  <2>4. DOMAIN f = 1 .. k
    BY <2>1
  <2>5. Bodies(f)
    BY <2>1, <2>3, <2>4 DEF Bodies, IsSeq
  <2> QED
    BY <2>1, <2>5 DEF f
<1>5. 0 \in T
  <2>1. SubSeq(q, 1, 0) = <<>> /\ <<h>> \o <<>> = Append(<<>>, h)
    BY SubSeqEmpty
  <2>2. Bodies(<<>>)
    BY DEF Bodies, IsSeq
  <2>3. Assembled(Append(<<>>, h), kind) = Assembled(<<>>, kind) \o part
    BY <1>3, <2>2, AssembledLonger
  <2>4. Assembled(<<>>, kind) = <<>>
    BY NothingAssembled
  <2> HIDE DEF part
  <2>5. <<>> \o part = part /\ part \o <<>> = part
    BY <1>3
  <2>6. L(0) = R(0)
    BY <2>1, <2>3, <2>4, <2>5
  <2> QED
    BY <2>6
<1>6. ASSUME NEW k \in Nat, k \in T
      PROVE  k + 1 \in T
  <2> SUFFICES ASSUME k + 1 <= Len(q) PROVE L(k + 1) = R(k + 1)
    <3> HIDE DEF L, R
    <3> QED
      OBVIOUS
  <2> DEFINE f == SubSeq(q, 1, k)
             e == q[k + 1]
  <2>1. k < Len(q) /\ k <= Len(q) /\ k \in 0 .. Len(q) /\ k + 1 \in DOMAIN q
    BY <1>2
  <2>2. e \in S /\ SubSeq(q, 1, k + 1) = Append(f, e)
    BY <1>1, <2>1, OneFurther
  <2>3. f \in Seq(S) /\ Bodies(f) /\ e.body \in Seq(Tokens)
    BY <1>4, <2>1 DEF Bodies
  <2>4. Assembled(<<h>> \o f, kind) = part \o Assembled(f, kind)
    BY <1>6, <2>1
  <2> HIDE DEF f, e, T
  <2> DEFINE x == IF e.kind = kind THEN e.body ELSE <<>>
             v == <<h>> \o f
  <2>5. x \in Seq(Tokens)
    BY <2>3
  <2>6. v \in Seq(S \cup {h}) /\ <<h>> \o Append(f, e) = Append(v, e)
    BY <2>2, <2>3
  <2>7. Bodies(v)
    <3>1. Len(f) \in Nat /\ DOMAIN f = 1 .. Len(f) /\ DOMAIN v = 1 .. Len(f) + 1
      BY <2>3, <2>6
    <3>2. \A i \in 1 .. Len(f) + 1 : v[i] = IF i = 1 THEN h ELSE f[i - 1]
      BY <2>3
    <3>3. \A i \in 1 .. Len(f) + 1 : i = 1 \/ i - 1 \in 1 .. Len(f)
      BY <3>1
    <3> HIDE DEF v
    <3> QED
      BY ONLY <1>3, <2>3, <2>6, <3>1, <3>2, <3>3 DEF Bodies, IsSeq
  <2> HIDE DEF v
  <2>8. Assembled(Append(v, e), kind) = Assembled(v, kind) \o x /\ Assembled(v, kind) \in Seq(Tokens)
    BY <2>3, <2>7, AssembledLonger
  <2>9. Assembled(Append(f, e), kind) = Assembled(f, kind) \o x /\ Assembled(f, kind) \in Seq(Tokens)
    BY <2>3, AssembledLonger
  <2> HIDE DEF part, x
  <2> DEFINE y == Assembled(f, kind)
  <2>10. (part \o y) \o x = part \o (y \o x)
    <3>1. y \in Seq(Tokens)
      BY <2>9
    <3> HIDE DEF y
    <3> QED
      BY ONLY <1>3, <2>5, <3>1, ConcatAssociative
  <2> QED
    BY <2>2, <2>4, <2>6, <2>8, <2>9, <2>10 DEF v
<1>7. Len(q) \in T
  <2> HIDE DEF T
  <2> QED
    BY <1>2, <1>5, <1>6, AllNaturals
<1>8. SubSeq(q, 1, Len(q)) = q
  <2>1. Len(q) \in 0 .. Len(q)
    BY <1>2
  <2> QED
    BY <1>1, <1>2, <2>1, CutInTwo
<1>9. L(Len(q)) = R(Len(q))
  <2>1. Len(q) <= Len(q)
    BY <1>2
  <2> QED
    BY <1>7, <2>1, Zenon
<1>10. Assembled(<<h>>, kind) = part
  <2>1. /\ SubSeq(q, 1, 0) = <<>> /\ <<h>> \o <<>> = <<h>>
    BY SubSeqEmpty
  <2>2. 0 <= Len(q)
    BY <1>2
  <2>3. L(0) = R(0)
    BY <1>5, <2>2
  <2>4. Assembled(<<>>, kind) = <<>>
    BY NothingAssembled
  <2> HIDE DEF part
  <2>5. part \o <<>> = part
    BY <1>3
  <2> QED
    BY <2>1, <2>3, <2>4, <2>5
<1> QED
  BY <1>8, <1>9, <1>10

\* Where two lists in order differ first, the second has the earlier token.
LEMMA NoLater ==
    ASSUME NEW p \in Seq(Tokens), Increasing(p), NEW q \in Seq(Tokens), Increasing(q),
           ToSet(p) \subseteq ToSet(q), NEW k \in DOMAIN p, k \in DOMAIN q, p[k] # q[k],
           \A j \in 1 .. k - 1 : p[j] = q[j]
    PROVE  Before(q[k], p[k])
<1>1. DOMAIN p = 1 .. Len(p) /\ DOMAIN q = 1 .. Len(q) /\ Len(p) \in Nat /\ Len(q) \in Nat
  OBVIOUS
<1>2. PICK j \in DOMAIN q : q[j] = p[k]
  BY DEF ToSet
<1>3. p[k] \in Tokens
  BY <1>1
<1>4. j # k
  BY <1>2
<1>5. ASSUME j < k PROVE FALSE
  <2>1. j \in 1 .. k - 1 /\ j \in DOMAIN p
    BY <1>1, <1>5
  <2>2. p[j] = p[k]
    BY <1>2, <2>1
  <2>3. Before(p[j], p[k])
    BY <1>5, <2>1 DEF Increasing
  <2>4. Before(p[k], p[k])
    BY <2>2, <2>3
  <2> QED
    BY ONLY <1>3, <2>4, BeforeIsStrict
<1>6. k < j
  BY <1>1, <1>4, <1>5
<1> QED
  BY <1>2, <1>6 DEF Increasing

\* A list in order is not longer than one that has the same beginning and its tokens.
LEMMA NoLonger ==
    ASSUME NEW p \in Seq(Tokens), NEW q \in Seq(Tokens), Increasing(q),
           ToSet(q) \subseteq ToSet(p),
           \A j \in DOMAIN p : j \in DOMAIN q => p[j] = q[j]
    PROVE  Len(q) <= Len(p)
<1>1. DOMAIN p = 1 .. Len(p) /\ DOMAIN q = 1 .. Len(q) /\ Len(p) \in Nat /\ Len(q) \in Nat
  OBVIOUS
<1> SUFFICES ASSUME Len(q) > Len(p) PROVE FALSE
  BY <1>1
<1> DEFINE k == Len(p) + 1
<1>2. k \in DOMAIN q
  BY <1>1
<1>3. PICK j \in DOMAIN p : p[j] = q[k]
  BY <1>2 DEF ToSet
<1>4. j \in DOMAIN q /\ j < k
  BY <1>1
<1>5. q[j] = q[k] /\ Before(q[j], q[k])
  BY <1>2, <1>3, <1>4 DEF Increasing
<1>6. q[k] \in Tokens
  BY <1>1, <1>2
<1> HIDE DEF k
<1>7. q[k][1] \in Nat /\ q[k][2] \in Nat
  BY <1>6 DEF Tokens
<1>8. q[k][1] < q[k][1] \/ q[k][2] < q[k][2]
  BY <1>5 DEF Before
<1> QED
  BY <1>7, <1>8

\* Two lists in order that have the same tokens are the same.
LEMMA SameTokens ==
    ASSUME NEW p \in Seq(Tokens), Increasing(p), NEW q \in Seq(Tokens), Increasing(q),
           ToSet(p) = ToSet(q)
    PROVE  p = q
<1>1. DOMAIN p = 1 .. Len(p) /\ DOMAIN q = 1 .. Len(q) /\ Len(p) \in Nat /\ Len(q) \in Nat
  OBVIOUS
<1> DEFINE D == {k \in DOMAIN p \cap DOMAIN q : p[k] # q[k]}
<1>2. D = {}
  <2> SUFFICES ASSUME D # {} PROVE FALSE
    OBVIOUS
  <2>1. D \subseteq Nat
    BY <1>1
  <2>2. PICK k \in D : \A j \in D : k <= j
    BY <2>1, LeastNatural
  <2>3. k \in DOMAIN p /\ k \in DOMAIN q /\ p[k] # q[k]
    OBVIOUS
  <2>4. \A j \in 1 .. k - 1 : p[j] = q[j]
    <3> SUFFICES ASSUME NEW j \in 1 .. k - 1, p[j] # q[j] PROVE FALSE
      OBVIOUS
    <3>1. j \in DOMAIN p /\ j \in DOMAIN q /\ ~(k <= j)
      BY <1>1, <2>3
    <3> QED
      BY <2>2, <3>1
  <2>5. \A j \in 1 .. k - 1 : q[j] = p[j]
    BY <2>4
  <2>6. Before(q[k], p[k])
    BY <2>3, <2>4, NoLater
  <2>7. Before(p[k], q[k])
    BY <2>3, <2>5, NoLater
  <2>8. p[k] \in Tokens /\ q[k] \in Tokens
    BY <1>1, <2>3
  <2> QED
    BY ONLY <2>6, <2>7, <2>8, BeforeIsStrict
<1>3. \A j \in DOMAIN p : j \in DOMAIN q => p[j] = q[j]
  BY <1>2
<1>4. \A j \in DOMAIN q : j \in DOMAIN p => q[j] = p[j]
  BY <1>3
<1>5. Len(q) <= Len(p) /\ Len(p) <= Len(q)
  BY <1>3, <1>4, NoLonger
<1>6. Len(p) = Len(q)
  <2>1. Len(p) \in Nat /\ Len(q) \in Nat
    BY <1>1
  <2> QED
    BY ONLY <1>5, <2>1
<1> QED
  BY <1>1, <1>3, <1>6, SeqEqual

\* Leaving tokens out keeps the order.
LEMMA ThoseInOrder ==
    ASSUME NEW q \in Seq(Tokens), Increasing(q), NEW K
    PROVE  /\ Those(q, K) \in Seq(Tokens) /\ Increasing(Those(q, K))
           /\ \A x : x \in ToSet(Those(q, K)) <=> \E i \in DOMAIN q : i \in K /\ q[i] = x
<1> DEFINE A(k) == Those(SubSeq(q, 1, k), K)
           Good(k) == /\ A(k) \in Seq(Tokens) /\ Increasing(A(k))
                      /\ \A x : x \in ToSet(A(k)) <=> \E i \in 1 .. k : i \in K /\ q[i] = x
           T == {k \in Nat : k <= Len(q) => Good(k)}
<1>1. DOMAIN q = 1 .. Len(q) /\ Len(q) \in Nat /\ \A i \in 1 .. Len(q) : q[i] \in Tokens
  OBVIOUS
<1>2. 0 \in T
  <2>1. SubSeq(q, 1, 0) = <<>>
    BY SubSeqEmpty
  <2>2. A(0) = <<>>
    BY <2>1, ThoseEmpty
  <2> HIDE DEF A
  <2>3. <<>> \in Seq(Tokens) /\ Increasing(<<>>) /\ (\A x : x \notin ToSet(<<>>)) /\ 1 .. 0 = {}
    BY DEF Increasing, ToSet
  <2>4. Good(0)
    BY <2>2, <2>3
  <2> QED
    BY <2>4
<1>3. ASSUME NEW k \in Nat, k \in T
      PROVE  k + 1 \in T
  <2> SUFFICES ASSUME k + 1 <= Len(q) PROVE Good(k + 1)
    OBVIOUS
  <2> DEFINE a == SubSeq(q, 1, k)
             e == q[k + 1]
             t == Those(a, K)
             u == Those(Append(a, e), K)
  <2>1. k < Len(q) /\ k \in 0 .. Len(q) /\ k <= Len(q) /\ k + 1 \in 1 .. Len(q)
    BY <1>1
  <2>2. e \in Tokens /\ SubSeq(q, 1, k + 1) = Append(a, e)
    BY <2>1, OneFurther
  <2>3. a \in Seq(Tokens) /\ Len(a) = k
    BY <2>1, CutInTwo
  <2>4. t \in Seq(Tokens) /\ Increasing(t)
        /\ \A x : x \in ToSet(t) <=> \E i \in 1 .. k : i \in K /\ q[i] = x
    BY <1>3, <2>1
  <2>5. A(k + 1) = u
    BY <2>2
  <2> HIDE DEF a, e
  <2>6. u = IF k + 1 \in K THEN Append(t, e) ELSE t
    <3>1. \A i \in 1 .. Len(a) : i \in K <=> i \in K
      OBVIOUS
    <3> QED
      BY <2>2, <2>3, <3>1, ThoseLonger
  <2> HIDE DEF t, u
  <2>7. \A i \in 1 .. k + 1 : i \in 1 .. k \/ i = k + 1
    BY <2>1
  <2>8. \A i \in 1 .. k : i \in 1 .. k + 1
    OBVIOUS
  <2>9. k + 1 \in 1 .. k + 1
    OBVIOUS
  <2>10. CASE k + 1 \notin K
    <3>1. u = t
      BY <2>6, <2>10
    <3>2. \A x : (\E i \in 1 .. k + 1 : i \in K /\ q[i] = x) <=> (\E i \in 1 .. k : i \in K /\ q[i] = x)
      BY <2>7, <2>8, <2>10
    <3>3. \A x : x \in ToSet(u) <=> \E i \in 1 .. k + 1 : i \in K /\ q[i] = x
      BY <2>4, <3>1, <3>2
    <3> QED
      BY <2>4, <2>5, <3>1, <3>3
  <2>11. CASE k + 1 \in K
    <3>1. u = Append(t, e)
      BY <2>6, <2>11
    <3>2. /\ u \in Seq(Tokens) /\ DOMAIN u = 1 .. Len(t) + 1 /\ DOMAIN t = 1 .. Len(t)
          /\ Len(t) \in Nat /\ u[Len(t) + 1] = e /\ \A i \in 1 .. Len(t) : u[i] = t[i]
      BY <2>2, <2>4, <3>1
    <3>3. \A i \in 1 .. Len(t) + 1 : i \in 1 .. Len(t) \/ i = Len(t) + 1
      BY <3>2
    <3>4. \A x : x \in ToSet(u) <=> x \in ToSet(t) \/ x = e
      <4>1. \A i \in 1 .. Len(t) : i \in 1 .. Len(t) + 1
        BY <3>2
      <4>2. Len(t) + 1 \in 1 .. Len(t) + 1
        BY <3>2
      <4> QED
        BY <3>2, <3>3, <4>1, <4>2 DEF ToSet
    <3>5. \A x : (\E i \in 1 .. k + 1 : i \in K /\ q[i] = x)
                  <=> (\E i \in 1 .. k : i \in K /\ q[i] = x) \/ x = e
      BY <2>7, <2>8, <2>9, <2>11 DEF e
    <3>6. \A x : x \in ToSet(u) <=> \E i \in 1 .. k + 1 : i \in K /\ q[i] = x
      BY <2>4, <3>4, <3>5
    <3>7. Increasing(u)
      <4>1. \A j \in 1 .. Len(t) : Before(t[j], e)
        <5> SUFFICES ASSUME NEW j \in 1 .. Len(t) PROVE Before(t[j], e)
          OBVIOUS
        <5>1. t[j] \in ToSet(t)
          BY <3>2 DEF ToSet
        <5>2. PICK i \in 1 .. k : q[i] = t[j]
          BY <2>4, <5>1
        <5>3. i \in DOMAIN q /\ k + 1 \in DOMAIN q /\ i < k + 1
          BY <1>1, <2>1
        <5>4. Before(q[i], q[k + 1])
          BY <5>3 DEF Increasing
        <5> QED
          BY <5>2, <5>4 DEF e
      <4> SUFFICES ASSUME NEW j \in 1 .. Len(t) + 1, NEW l \in 1 .. Len(t) + 1, j < l
                   PROVE  Before(u[j], u[l])
        BY <3>2 DEF Increasing
      <4>2. CASE l = Len(t) + 1
        <5>1. j \in 1 .. Len(t)
          BY <3>2, <4>2
        <5> QED
          BY <3>2, <4>1, <4>2, <5>1
      <4>3. CASE l \in 1 .. Len(t)
        <5>1. j \in 1 .. Len(t)
          BY <3>2, <4>3
        <5> QED
          BY <2>4, <3>2, <4>3, <5>1 DEF Increasing
      <4> QED
        BY <3>3, <4>2, <4>3
    <3> QED
      BY <2>5, <3>2, <3>6, <3>7
  <2> QED
    BY <2>10, <2>11
<1>4. Len(q) \in T
  <2> HIDE DEF T
  <2> QED
    BY <1>1, <1>2, <1>3, AllNaturals
<1>5. Good(Len(q))
  <2>1. Len(q) <= Len(q)
    BY <1>1
  <2> HIDE DEF Good
  <2> QED
    BY <1>4, <2>1
<1>6. A(Len(q)) = Those(q, K)
  <2>1. Len(q) \in 0 .. Len(q)
    BY <1>1
  <2>2. SubSeq(q, 1, Len(q)) = q
    BY <2>1, CutInTwo
  <2> QED
    BY <2>2, Zenon
<1> QED
  BY <1>1, <1>5, <1>6

\* Of a list in order, those of its tokens that a list in order has are that list.
LEMMA ThoseAre ==
    ASSUME NEW q \in Seq(Tokens), Increasing(q), NEW p \in Seq(Tokens), Increasing(p),
           ToSet(p) \subseteq ToSet(q)
    PROVE  p = Those(q, {i \in DOMAIN q : q[i] \in ToSet(p)})
<1> DEFINE K == {i \in DOMAIN q : q[i] \in ToSet(p)}
           t == Those(q, K)
<1>1. /\ t \in Seq(Tokens) /\ Increasing(t)
      /\ \A x : x \in ToSet(t) <=> \E i \in DOMAIN q : i \in K /\ q[i] = x
  BY ThoseInOrder
<1>2. \A x : (\E i \in DOMAIN q : i \in K /\ q[i] = x) <=> x \in ToSet(q) /\ x \in ToSet(p)
  BY DEF ToSet
<1> HIDE DEF t, K
<1>3. ToSet(p) = ToSet(t)
  BY <1>1, <1>2
<1>4. p = t
  BY <1>1, <1>3, SameTokens
<1> QED
  BY <1>4, Zenon DEF t, K

-----------------------------------------------------------------------------
\* What an event about blocks does to what the client has been told: nothing, or
\* one token more of one kind.  hasToolUse goes with the calls.
Quiet(s, t) ==
    /\ Typed(s) => Typed(t) /\ Told(t, "thinking") = Told(s, "thinking")
                            /\ Told(t, "text") = Told(s, "text")
    /\ Noted(s) => Noted(t)

Tells(s, t, kind, token) ==
    /\ Typed(s) => Typed(t)
    /\ Typed(s) /\ t.client.fault = "none" =>
          \A k \in {"thinking", "text"} :
             Told(t, k) = IF k = kind THEN Append(Told(s, k), token) ELSE Told(s, k)
    /\ Noted(s) => Noted(t)

LEMMA QuietTwice ==
    ASSUME NEW s, NEW t, NEW u, Quiet(s, t), Quiet(t, u)
    PROVE  Quiet(s, u)
BY DEF Quiet

LEMMA QuietThenTells ==
    ASSUME NEW s, NEW t, NEW u, NEW kind, NEW token, Quiet(s, t), Tells(t, u, kind, token)
    PROVE  Tells(s, u, kind, token)
BY DEF Quiet, Tells

LEMMA SameClient ==
    ASSUME NEW s, NEW t, t.client.blocks = s.client.blocks, t.hasToolUse = s.hasToolUse
    PROVE  Quiet(s, t)
BY DEF Quiet, Typed, Told, Noted, Uses

LEMMA ShapeBodies ==
    ASSUME NEW s, Shape(s), Typed(s)
    PROVE  Bodies(s.client.blocks) /\ \A k : Told(s, k) \in Seq(Tokens)
BY AssembledTyped DEF Shape, Typed, Bodies, Told

LEMMA StartBlockTells ==
    ASSUME NEW s, Shape(s), NEW kind, NEW name, NEW t, t = StartBlock(s, kind, name)
    PROVE  /\ Typed(s) => Typed(t) /\ \A k : Told(t, k) = Told(s, k)
           /\ t.hasToolUse = s.hasToolUse
           /\ Uses(t) # {} <=> Uses(s) # {} \/ kind = "tool_use"
<1> DEFINE b == [kind |-> kind, name |-> name, body |-> Empty, open |-> TRUE]
           q == s.client.blocks
           r == t.client.blocks
           n == Len(q)
<1>1. b.kind = kind /\ b.body = <<>>
  BY DEF Empty
<1>2. r = Append(q, b) /\ t.hasToolUse = s.hasToolUse
  BY Zenon DEF StartBlock, SeeStart, Shape, StateFields, ClientFields
<1> HIDE DEF b
<1>3. /\ n \in Nat /\ DOMAIN q = 1 .. n /\ DOMAIN r = 1 .. n + 1 /\ r[n + 1] = b
      /\ \A i \in 1 .. n : r[i] = q[i]
  BY <1>2, AppendAny DEF Shape
<1>4. \A i \in 1 .. n + 1 : i \in 1 .. n \/ i = n + 1
  BY <1>3
<1>5. (\A i \in 1 .. n : i \in 1 .. n + 1) /\ n + 1 \in 1 .. n + 1
  BY <1>3
<1> HIDE DEF q, r, n
<1>6. Uses(t) # {} <=> Uses(s) # {} \/ kind = "tool_use"
  <2>1. Uses(s) = {i \in 1 .. n : q[i].kind = "tool_use"}
    BY <1>3 DEF Uses, q
  <2>2. Uses(t) = {i \in 1 .. n + 1 : r[i].kind = "tool_use"}
    BY <1>3 DEF Uses, r
  <2> QED
    BY <1>1, <1>3, <1>4, <1>5, <2>1, <2>2
<1>7. ASSUME Typed(s) PROVE Typed(t) /\ \A k : Told(t, k) = Told(s, k)
  <2>1. Bodies(q)
    BY <1>7, ShapeBodies DEF q
  <2>2. b.body \in Seq(Tokens)
    BY <1>1
  <2>3. \A i \in DOMAIN r : r[i].body \in Seq(Tokens)
    BY <1>3, <1>4, <2>1, <2>2 DEF Bodies
  <2>4. \A k : Assembled(r, k) = Assembled(q, k)
    <3> SUFFICES ASSUME NEW k PROVE Assembled(r, k) = Assembled(q, k)
      OBVIOUS
    <3>1. /\ Assembled(r, k) = Assembled(q, k) \o (IF b.kind = k THEN b.body ELSE <<>>)
          /\ Assembled(q, k) \in Seq(Tokens)
      BY <1>2, <2>1, <2>2, AssembledLonger
    <3>2. Assembled(r, k) = Assembled(q, k) \o <<>>
      BY <1>1, <3>1
    <3> QED
      BY <3>1, <3>2
  <2> QED
    BY <2>3, <2>4 DEF Typed, Told, q, r
<1> QED
  BY <1>2, <1>6, <1>7

\* Only what is open changes.
LEMMA StopBlockTells ==
    ASSUME NEW s, Shape(s), NEW t, t = StopBlock(s)
    PROVE  Quiet(s, t)
<1> DEFINE q == s.client.blocks
           r == t.client.blocks
<1>1. t.hasToolUse = s.hasToolUse /\ t.client = SeeStop(s.client, s.index)
  BY DEF StopBlock, Shape, StateFields
<1>2. DOMAIN r = DOMAIN q /\ \A i \in DOMAIN q : r[i].kind = q[i].kind /\ r[i].body = q[i].body
  <2>1. CASE Fits(s.client, s.index, "any")
    <3> DEFINE n == s.index + 1
    <3>1. n \in DOMAIN q /\ r = [q EXCEPT ![n].open = FALSE]
      BY <1>1, <2>1 DEF SeeStop, Fits, Shape, ClientFields
    <3>2. DOMAIN q[n] = BlockFields
      BY <3>1 DEF Shape
    <3>3. DOMAIN r = DOMAIN q /\ \A i \in DOMAIN q : r[i] = IF i = n THEN [q[n] EXCEPT !.open = FALSE] ELSE q[i]
      BY <3>1 DEF Shape
    <3>4. [q[n] EXCEPT !.open = FALSE].kind = q[n].kind /\ [q[n] EXCEPT !.open = FALSE].body = q[n].body
      BY <3>2 DEF BlockFields
    <3> HIDE DEF n, q, r
    <3> QED
      BY <3>3, <3>4
  <2>2. CASE ~Fits(s.client, s.index, "any")
    BY <1>1, <2>2 DEF SeeStop, Shape, ClientFields
  <2> QED
    BY <2>1, <2>2
<1>3. \A k : Told(t, k) = Told(s, k)
  BY <1>2, AssembledSame DEF Told
<1>4. Typed(s) => Typed(t)
  BY <1>2 DEF Typed
<1>5. Uses(t) = Uses(s)
  BY <1>2 DEF Uses
<1> QED
  BY <1>1, <1>3, <1>4, <1>5 DEF Quiet, Noted

LEMMA DeltaOfTells ==
    ASSUME NEW s, Shape(s), NEW kind \in {"thinking", "text", "tool_use"}, NEW token \in Tokens,
           NEW t, t = DeltaOf(s, kind, token)
    PROVE  Tells(s, t, kind, token)
<1> DEFINE q == s.client.blocks
           r == t.client.blocks
           n == s.index + 1
<1>1. t.hasToolUse = s.hasToolUse /\ t.client = SeeDelta(s.client, s.index, kind, token)
  BY DEF DeltaOf, Shape, StateFields
<1>2. CASE Fits(s.client, s.index, kind)
  <2>1. n \in DOMAIN q /\ q[n].kind = kind /\ r = [q EXCEPT ![n].body = Append(@, token)]
    BY <1>1, <1>2 DEF SeeDelta, Fits, Shape, ClientFields
  <2>2. DOMAIN q[n] = BlockFields /\ IsSeq(q) /\ n = Len(q)
    BY <2>1 DEF Shape
  <2> DEFINE b == [q[n] EXCEPT !.body = Append(@, token)]
  <2>3. b.kind = q[n].kind /\ b.body = Append(q[n].body, token)
    BY <2>2 DEF BlockFields
  <2>4. r = [q EXCEPT ![n] = b]
    BY <2>1
  <2> HIDE DEF b
  <2>5. DOMAIN r = DOMAIN q /\ r[n] = b /\ \A i \in DOMAIN q \ {n} : r[i] = q[i]
    BY <2>1, <2>2, <2>4 DEF IsSeq
  <2>6. IsSeq(r)
    BY <2>1, <2>2, <2>4, ReplaceAny
  <2> HIDE DEF n, q, r
  <2>7. Uses(t) = Uses(s)
    <3>1. Uses(s) = {i \in DOMAIN q : q[i].kind = "tool_use"} /\ Uses(t) = {i \in DOMAIN r : r[i].kind = "tool_use"}
      BY DEF Uses, q, r
    <3>2. \A i \in DOMAIN q : r[i].kind = q[i].kind
      BY <2>3, <2>5
    <3> QED
      BY <2>5, <3>1, <3>2
  <2>8. ASSUME Typed(s)
        PROVE  /\ Typed(t)
               /\ \A k \in {"thinking", "text"} :
                     Told(t, k) = IF k = kind THEN Append(Told(s, k), token) ELSE Told(s, k)
    <3>1. Bodies(q)
      BY <2>8, ShapeBodies DEF q
    <3>2. b.body \in Seq(Tokens)
      BY <2>1, <2>3, <3>1 DEF Bodies
    <3>3. \A i \in DOMAIN r : r[i].body \in Seq(Tokens)
      BY <2>5, <3>1, <3>2 DEF Bodies
    <3>4. \A k : Assembled(r, k) = IF q[Len(q)].kind = k THEN Append(Assembled(q, k), token)
                                   ELSE Assembled(q, k)
      <4>1. /\ Len(q) \in DOMAIN q /\ DOMAIN r = DOMAIN q /\ token \in Tokens
            /\ \A i \in DOMAIN q \ {Len(q)} : r[i] = q[i]
            /\ r[Len(q)].kind = q[Len(q)].kind
            /\ r[Len(q)].body = Append(q[Len(q)].body, token)
        BY <2>1, <2>2, <2>3, <2>5
      <4> QED
        BY ONLY <2>6, <3>1, <4>1, AssembledGrows
    <3>5. \A k : Assembled(r, k) = IF k = kind THEN Append(Assembled(q, k), token)
                                   ELSE Assembled(q, k)
      BY <2>1, <2>2, <3>4
    <3> QED
      BY <3>3, <3>5 DEF Typed, Told, q, r
  <2> QED
    BY <1>1, <2>7, <2>8 DEF Tells, Noted
<1>3. CASE ~Fits(s.client, s.index, kind)
  <2>1. r = q /\ t.client.fault # "none"
    BY <1>1, <1>3 DEF SeeDelta, Shape, ClientFields
  <2> QED
    BY <1>1, <2>1 DEF Tells, Typed, Noted, Uses
<1> QED
  BY <1>2, <1>3

LEMMA LeaveThinkingTells ==
    ASSUME NEW s, Shape(s), NEW t, t = LeaveThinking(s)
    PROVE  Quiet(s, t) /\ t.hasToolUse = s.hasToolUse
<1>1. CASE s.inThinking
  <2> DEFINE u == StopBlock(s)
  <2>1. Quiet(s, u) /\ Keeps(s, u) /\ u.hasToolUse = s.hasToolUse
    BY StopBlockTells, StopBlockFacts DEF StopBlock, Shape, StateFields
  <2>2. t = [u EXCEPT !.inThinking = FALSE]
    BY <1>1 DEF LeaveThinking
  <2> HIDE DEF u
  <2>3. t.client.blocks = u.client.blocks /\ t.hasToolUse = u.hasToolUse
    BY <2>1, <2>2 DEF Keeps, Shape, StateFields
  <2> QED
    BY <2>1, <2>3, SameClient, QuietTwice
<1>2. CASE ~s.inThinking
  BY <1>2, SameClient DEF LeaveThinking
<1> QED
  BY <1>1, <1>2

LEMMA LeaveTextTells ==
    ASSUME NEW s, Shape(s), NEW t, t = LeaveText(s)
    PROVE  Quiet(s, t) /\ t.hasToolUse = s.hasToolUse
<1>1. CASE s.started
  <2> DEFINE u == StopBlock(s)
  <2>1. Quiet(s, u) /\ Keeps(s, u) /\ u.hasToolUse = s.hasToolUse
    BY StopBlockTells, StopBlockFacts DEF StopBlock, Shape, StateFields
  <2>2. t = [u EXCEPT !.started = FALSE]
    BY <1>1 DEF LeaveText
  <2> HIDE DEF u
  <2>3. t.client.blocks = u.client.blocks /\ t.hasToolUse = u.hasToolUse
    BY <2>1, <2>2 DEF Keeps, Shape, StateFields
  <2> QED
    BY <2>1, <2>3, SameClient, QuietTwice
<1>2. CASE ~s.started
  BY <1>2, SameClient DEF LeaveText
<1> QED
  BY <1>1, <1>2

LEMMA LeaveBothTells ==
    ASSUME NEW s, Shape(s), NEW t, t = LeaveText(LeaveThinking(s))
    PROVE  Quiet(s, t) /\ t.hasToolUse = s.hasToolUse /\ Shape(t)
<1> DEFINE w == LeaveThinking(s)
<1>1. Quiet(s, w) /\ w.hasToolUse = s.hasToolUse /\ Keeps(s, w)
  BY LeaveThinkingTells, LeaveThinkingFacts
<1>2. t = LeaveText(w)
  OBVIOUS
<1> HIDE DEF w
<1>3. Shape(w)
  BY <1>1 DEF Keeps
<1>4. Quiet(w, t) /\ t.hasToolUse = w.hasToolUse /\ Keeps(w, t)
  BY <1>2, <1>3, LeaveTextTells, LeaveTextFacts
<1> QED
  BY <1>1, <1>4, QuietTwice DEF Keeps

LEMMA ReasoningTells ==
    ASSUME NEW s, Shape(s), NEW token \in Tokens, NEW t, t = ClaudeReasoning(s, token)
    PROVE  Tells(s, t, "thinking", token)
<1> DEFINE u == IF s.inThinking THEN s
                ELSE [StartBlock(s, "thinking", Empty) EXCEPT !.inThinking = TRUE]
           v == [u EXCEPT !.hasThinking = TRUE]
<1>1. Shape(u) /\ Quiet(s, u)
  <2>1. CASE s.inThinking
    BY <2>1, SameClient
  <2>2. CASE ~s.inThinking
    <3> DEFINE w == StartBlock(s, "thinking", Empty)
    <3>1. Keeps(s, w)
      BY StartBlockFacts
    <3>2. /\ Typed(s) => Typed(w) /\ \A k : Told(w, k) = Told(s, k)
          /\ w.hasToolUse = s.hasToolUse /\ (Uses(w) # {} <=> Uses(s) # {})
      BY StartBlockTells
    <3>3. u = [w EXCEPT !.inThinking = TRUE]
      BY <2>2
    <3> HIDE DEF u, v, w
    <3>4. DOMAIN u = DOMAIN w /\ u.index = w.index /\ u.client = w.client /\ u.hasToolUse = w.hasToolUse
      BY <3>1, <3>3 DEF Keeps, Shape, StateFields
    <3>5. Shape(u)
      BY <3>1, <3>4, FlagsFacts DEF Keeps
    <3>6. Quiet(s, w)
      BY <3>2 DEF Quiet, Noted
    <3> QED
      BY <3>4, <3>5, <3>6, SameClient, QuietTwice
  <2> QED
    BY <2>1, <2>2
<1>2. t = DeltaOf(v, "thinking", token)
  BY DEF ClaudeReasoning
<1> HIDE DEF u
<1>3. DOMAIN v = DOMAIN u /\ v.index = u.index /\ v.client = u.client /\ v.hasToolUse = u.hasToolUse
  BY <1>1 DEF Shape, StateFields
<1> HIDE DEF v
<1>4. Shape(v) /\ Quiet(u, v)
  BY <1>1, <1>3, FlagsFacts, SameClient
<1>5. Tells(v, t, "thinking", token)
  BY <1>2, <1>4, DeltaOfTells
<1> QED
  BY <1>1, <1>4, <1>5, QuietTwice, QuietThenTells

LEMMA TextTells ==
    ASSUME NEW s, Shape(s), NEW token \in Tokens, NEW t, t = ClaudeText(s, token)
    PROVE  Tells(s, t, "text", token)
<1> DEFINE x == LeaveThinking(s)
           u == IF x.started THEN x
                ELSE [StartBlock(x, "text", Empty) EXCEPT !.started = TRUE]
           v == [u EXCEPT !.hasText = TRUE]
<1>0. Shape(x) /\ Quiet(s, x)
  BY LeaveThinkingFacts, LeaveThinkingTells DEF Keeps
<1>2. t = DeltaOf(v, "text", token)
  BY DEF ClaudeText
<1> HIDE DEF x
<1>1. Shape(u) /\ Quiet(x, u)
  <2>1. CASE x.started
    BY <1>0, <2>1, SameClient
  <2>2. CASE ~x.started
    <3> DEFINE w == StartBlock(x, "text", Empty)
    <3>1. Keeps(x, w)
      BY <1>0, StartBlockFacts
    <3>2. /\ Typed(x) => Typed(w) /\ \A k : Told(w, k) = Told(x, k)
          /\ w.hasToolUse = x.hasToolUse /\ (Uses(w) # {} <=> Uses(x) # {})
      BY <1>0, StartBlockTells
    <3>3. u = [w EXCEPT !.started = TRUE]
      BY <2>2
    <3> HIDE DEF u, v, w
    <3>4. DOMAIN u = DOMAIN w /\ u.index = w.index /\ u.client = w.client /\ u.hasToolUse = w.hasToolUse
      BY <3>1, <3>3 DEF Keeps, Shape, StateFields
    <3>5. Shape(u)
      BY <3>1, <3>4, FlagsFacts DEF Keeps
    <3>6. Quiet(x, w)
      BY <3>2 DEF Quiet, Noted
    <3> QED
      BY <3>4, <3>5, <3>6, SameClient, QuietTwice
  <2> QED
    BY <2>1, <2>2
<1> HIDE DEF u
<1>3. DOMAIN v = DOMAIN u /\ v.index = u.index /\ v.client = u.client /\ v.hasToolUse = u.hasToolUse
  BY <1>1 DEF Shape, StateFields
<1> HIDE DEF v
<1>4. Shape(v) /\ Quiet(u, v)
  BY <1>1, <1>3, FlagsFacts, SameClient
<1>5. Tells(v, t, "text", token)
  BY <1>2, <1>4, DeltaOfTells
<1>6. Quiet(s, u)
  BY <1>0, <1>1, QuietTwice
<1>7. Quiet(s, v)
  BY <1>4, <1>6, QuietTwice
<1> QED
  BY <1>5, <1>7, QuietThenTells

\* A call is begun: nothing is told, and the flag is set.
LEMMA CallTells ==
    ASSUME NEW s, Shape(s), NEW short, NEW t, t = ClaudeCall(s, short)
    PROVE  Quiet(s, t)
<1> DEFINE w == LeaveText(LeaveThinking(s))
           u == StartBlock(w, "tool_use", short)
<1>1. Quiet(s, w) /\ Shape(w)
  BY LeaveBothTells
<1>2. t = [u EXCEPT !.hasToolUse = TRUE]
  BY DEF ClaudeCall
<1> HIDE DEF w
<1>3. /\ Typed(w) => Typed(u) /\ \A k : Told(u, k) = Told(w, k)
      /\ Uses(u) # {}
  BY <1>1, StartBlockTells
<1>4. Keeps(w, u)
  BY <1>1, StartBlockFacts
<1> HIDE DEF u
<1>5. t.client = u.client /\ t.hasToolUse = TRUE
  BY <1>2, <1>4 DEF Keeps, Shape, StateFields
<1>6. Quiet(w, t)
  BY <1>3, <1>5 DEF Quiet, Typed, Told, Noted, Uses
<1> QED
  BY <1>1, <1>6, QuietTwice

\* The end of a message: the stop says whether there was a call.
LEMMA CloseTells ==
    ASSUME NEW s, Shape(s), s.client.stops = <<>>, NEW t, t = CloseEvents(s)
    PROVE  /\ Quiet(s, t) /\ t.hasToolUse = s.hasToolUse
           /\ t.client.stops = <<StopOf(s)>>
<1> DEFINE w == LeaveText(LeaveThinking(s))
<1>1. Quiet(s, w) /\ Shape(w) /\ w.hasToolUse = s.hasToolUse /\ Keeps(s, w)
  BY LeaveBothTells, LeaveBothFacts
<1>2. t = [w EXCEPT !.client.stops = Append(w.client.stops, StopOf(s))]
  BY DEF CloseEvents, StopOf
<1> HIDE DEF w
<1>3. /\ t.hasToolUse = w.hasToolUse /\ t.client.blocks = w.client.blocks
      /\ t.client.stops = Append(w.client.stops, StopOf(s))
  BY <1>1, <1>2 DEF Shape, StateFields, ClientFields
<1>4. w.client.stops = <<>>
  BY <1>1 DEF Keeps
<1>5. Append(<<>>, StopOf(s)) = <<StopOf(s)>>
  OBVIOUS
<1> QED
  BY <1>1, <1>3, <1>4, <1>5, SameClient, QuietTwice

-----------------------------------------------------------------------------
\* An item more.
LEMMA InOrderLonger ==
    ASSUME NEW q \in Seq(Tokens), Increasing(q), NEW n \in Nat, \A j \in DOMAIN q : q[j][1] <= n,
           NEW len \in Nat, NEW d, d = [p \in 1 .. len |-> <<n + 1, p>>]
    PROVE  /\ Increasing(q \o d) /\ \A j \in DOMAIN (q \o d) : (q \o d)[j][1] <= n + 1
           /\ ToSet(q) \subseteq ToSet(q \o d) /\ ToSet(d) \subseteq ToSet(q \o d)
<1> DEFINE r == q \o d
           m == Len(q)
<1>1. m \in Nat /\ DOMAIN q = 1 .. m /\ \A j \in 1 .. m : q[j] \in Tokens
  OBVIOUS
<1>2. d \in Seq(Tokens) /\ Len(d) = len /\ DOMAIN d = 1 .. len /\ \A p \in 1 .. len : d[p] = <<n + 1, p>>
  BY DEF Tokens
<1>3. /\ r \in Seq(Tokens) /\ DOMAIN r = 1 .. m + len
      /\ \A j \in 1 .. m + len : r[j] = IF j <= m THEN q[j] ELSE d[j - m]
  BY <1>2, ConcatProperties
<1> HIDE DEF r, m
<1>4. \A j \in 1 .. m : j \in 1 .. m + len /\ r[j] = q[j]
  BY <1>1, <1>3
<1>5. \A j \in 1 .. m + len : ~(j <= m) => j - m \in 1 .. len /\ r[j] = <<n + 1, j - m>>
  BY <1>1, <1>2, <1>3
<1>6. \A p \in 1 .. len : p + m \in 1 .. m + len /\ r[p + m] = d[p]
  <2> SUFFICES ASSUME NEW p \in 1 .. len PROVE p + m \in 1 .. m + len /\ r[p + m] = d[p]
    OBVIOUS
  <2>1. p + m \in 1 .. m + len /\ ~(p + m <= m) /\ (p + m) - m = p
    BY <1>1
  <2> QED
    BY <1>3, <2>1
<1>7. Increasing(r)
  <2> SUFFICES ASSUME NEW j \in 1 .. m + len, NEW k \in 1 .. m + len, j < k
               PROVE  Before(r[j], r[k])
    BY <1>3 DEF Increasing
  <2>1. CASE k <= m
    <3>1. j \in DOMAIN q /\ k \in DOMAIN q
      BY <1>1, <2>1
    <3>2. Before(q[j], q[k])
      BY <3>1 DEF Increasing
    <3> QED
      BY <1>1, <1>4, <3>1, <3>2
  <2>2. CASE ~(k <= m) /\ j <= m
    <3>1. j \in DOMAIN q /\ r[j] = q[j] /\ q[j][1] <= n /\ q[j] \in Tokens
      BY <1>1, <1>4, <2>2
    <3>2. q[j][1] \in Nat
      BY <3>1 DEF Tokens
    <3>3. r[k][1] = n + 1
      BY <1>5, <2>2
    <3>4. r[j][1] < r[k][1]
      BY <3>1, <3>2, <3>3
    <3> QED
      BY <3>4 DEF Before
  <2>3. CASE ~(k <= m) /\ ~(j <= m)
    <3>1. r[j] = <<n + 1, j - m>> /\ r[k] = <<n + 1, k - m>> /\ j - m < k - m
      BY <1>1, <1>5, <2>3
    <3> QED
      BY <3>1 DEF Before
  <2> QED
    BY <2>1, <2>2, <2>3
<1>8. \A j \in DOMAIN r : r[j][1] <= n + 1
  <2> SUFFICES ASSUME NEW j \in 1 .. m + len PROVE r[j][1] <= n + 1
    BY <1>3
  <2>1. CASE j <= m
    <3>1. r[j] = q[j] /\ q[j][1] <= n /\ q[j] \in Tokens
      BY <1>1, <1>4, <2>1
    <3>2. q[j][1] \in Nat
      BY <3>1 DEF Tokens
    <3> QED
      BY <3>1, <3>2
  <2>2. CASE ~(j <= m)
    BY <1>5, <2>2
  <2> QED
    BY <2>1, <2>2
<1>9. ToSet(q) \subseteq ToSet(r) /\ ToSet(d) \subseteq ToSet(r)
  <2>1. \A j \in DOMAIN q : q[j] \in ToSet(r)
    <3>1. \A j \in 1 .. m : j \in DOMAIN r /\ r[j] = q[j]
      BY <1>3, <1>4
    <3> QED
      BY <1>1, <3>1 DEF ToSet
  <2>2. \A p \in DOMAIN d : d[p] \in ToSet(r)
    <3>1. \A p \in 1 .. len : p + m \in DOMAIN r /\ r[p + m] = d[p]
      BY <1>3, <1>6
    <3> QED
      BY <1>2, <3>1, Zenon DEF ToSet
  <2>3. ToSet(q) = {q[j] : j \in DOMAIN q} /\ ToSet(d) = {d[p] : p \in DOMAIN d}
    BY DEF ToSet
  <2> QED
    BY <2>1, <2>2, <2>3
<1> QED
  BY <1>7, <1>8, <1>9 DEF r

LEMMA ShownLonger ==
    ASSUME NEW q, IsSeq(q), NEW e
    PROVE  /\ ShownOf(Append(q, e)) = IF e.kind \in {"message", "call"} THEN Append(ShownOf(q), e)
                                      ELSE ShownOf(q)
           /\ IsSeq(ShownOf(q))
<1> DEFINE r == Append(q, e)
           n == Len(q)
           K == {i \in DOMAIN q : q[i].kind \in {"message", "call"}}
           L == {i \in DOMAIN r : r[i].kind \in {"message", "call"}}
<1>1. /\ n \in Nat /\ DOMAIN q = 1 .. n /\ DOMAIN r = 1 .. n + 1 /\ r[n + 1] = e
      /\ \A i \in 1 .. n : r[i] = q[i]
  BY AppendAny
<1>2. PICK S : q \in Seq(S)
  BY DEF IsSeq
<1>3. q \in Seq(S \cup {e}) /\ e \in S \cup {e}
  BY <1>2
<1>4. ShownOf(q) = Those(q, K) /\ ShownOf(r) = Those(r, L)
  BY DEF ShownOf
<1>5. n + 1 \in L <=> e.kind \in {"message", "call"}
  <2>1. n + 1 \in 1 .. n + 1
    BY <1>1
  <2> QED
    BY <1>1, <2>1
<1>6. \A i \in 1 .. n : i \in K <=> i \in L
  <2>1. \A i \in 1 .. n : i \in 1 .. n + 1
    BY <1>1
  <2> QED
    BY <1>1, <2>1
<1> HIDE DEF K, L
<1>7. /\ Those(Append(q, e), L) = IF Len(q) + 1 \in L THEN Append(Those(q, K), e) ELSE Those(q, K)
      /\ Those(q, K) \in Seq(S \cup {e})
  BY <1>3, <1>6, ThoseLonger
<1>8. IsSeq(ShownOf(q))
  BY <1>4, <1>7 DEF IsSeq
<1> QED
  BY <1>4, <1>5, <1>7, <1>8

LEMMA AnswerLonger ==
    ASSUME NEW q, IsSeq(q), NEW e
    PROVE  AnswerOf(Append(q, e)) = IF e.kind \in {"message", "call"}
                                    THEN Append(AnswerOf(q), BlockOf(e)) ELSE AnswerOf(q)
<1> DEFINE a == ShownOf(q)
           x == Append(a, e)
           n == Len(a)
           y == [i \in 1 .. n |-> BlockOf(a[i])]
           z == [i \in 1 .. n + 1 |-> BlockOf(x[i])]
           b == BlockOf(e)
<1>1. /\ ShownOf(Append(q, e)) = IF e.kind \in {"message", "call"} THEN x ELSE a
      /\ IsSeq(a)
  BY ShownLonger
<1>2. CASE e.kind \notin {"message", "call"}
  BY <1>1, <1>2 DEF AnswerOf
<1>3. CASE e.kind \in {"message", "call"}
  <2>1. /\ n \in Nat /\ DOMAIN a = 1 .. n /\ DOMAIN x = 1 .. n + 1 /\ x[n + 1] = e
        /\ \A i \in 1 .. n : x[i] = a[i]
    BY <1>1, AppendAny
  <2>2. AnswerOf(q) = y /\ AnswerOf(Append(q, e)) = z
    BY <1>1, <1>3, <2>1 DEF AnswerOf
  <2> DEFINE S == {BlockOf(x[i]) : i \in 1 .. n + 1}
  <2>3. z \in Seq(S) /\ Len(z) = n + 1
    BY <2>1
  <2>4. \A i \in 1 .. n : i \in 1 .. n + 1
    BY <2>1
  <2>5. b \in S
    <3>1. n + 1 \in 1 .. n + 1
      BY <2>1
    <3> QED
      BY <2>1, <3>1
  <2>6. y \in Seq(S) /\ Len(y) = n
    <3>1. \A i \in 1 .. n : BlockOf(a[i]) \in S
      BY <2>1, <2>4
    <3> HIDE DEF S
    <3> QED
      BY <2>1, <3>1
  <2>7. /\ Append(y, b) \in Seq(S) /\ Len(Append(y, b)) = n + 1 /\ Append(y, b)[n + 1] = b
        /\ \A i \in 1 .. n : Append(y, b)[i] = y[i]
    <3> HIDE DEF S, y, b
    <3> QED
      BY <2>5, <2>6, AppendProperties
  <2>8. \A i \in 1 .. n + 1 : Append(y, b)[i] = z[i]
    <3> SUFFICES ASSUME NEW i \in 1 .. n + 1 PROVE Append(y, b)[i] = z[i]
      OBVIOUS
    <3>1. i \in 1 .. n \/ i = n + 1
      BY <2>1
    <3>2. z[i] = BlockOf(x[i])
      OBVIOUS
    <3>3. i \in 1 .. n => y[i] = BlockOf(a[i])
      OBVIOUS
    <3> HIDE DEF y, z, S, x, a
    <3> QED
      BY <2>1, <2>7, <3>1, <3>2, <3>3
  <2> HIDE DEF y, z, S, b
  <2>9. Append(y, b) = z
    BY <2>3, <2>7, <2>8, SeqEqual
  <2> QED
    BY <1>3, <2>2, <2>9 DEF b
<1> QED
  BY <1>2, <1>3

LEMMA WholeBegun ==
    ASSUME ItemsRight, WholeRight, AnswerRight,
           NEW kind \in Reasoning \cup {"message", "call"}, NEW len \in Nat, NEW name,
           NEW announced \in BOOLEAN, Begin(kind, len, name, announced),
           kind = "call" => \E tool \in ToSet(request.tools) : name = ShortName(request.tools, tool)
    PROVE  /\ WholeRight' /\ AnswerRight'
           /\ ToSet(Concat(Reasoning)) \subseteq ToSet(Concat(Reasoning)')
           /\ \A x \in ToSet(Concat(Reasoning)) : x[1] # Len(items')
<1> DEFINE W == Concat(Reasoning)
           n == Len(items)
           text == [p \in 1 .. len |-> <<n + 1, p>>]
           d == IF kind \in Reasoning THEN Current'.text ELSE <<>>
<1>1. /\ W \in Seq(TextTokens) /\ TextTokens \subseteq Tokens /\ IsSeq(items)
  BY ListsTyped DEF ItemsRight, TextTokens
<1>2. n \in Nat /\ DOMAIN items = 1 .. n
  BY <1>1, AppendAny
<1>3. PICK e : /\ items' = Append(items, e) /\ e.kind = kind /\ e.text = text
  <2> DEFINE r == [kind |-> kind, name |-> name, announced |-> announced, text |-> text]
  <2>1. items' = Append(items, r)
    BY DEF Begin
  <2>2. r.kind = kind /\ r.text = text
    OBVIOUS
  <2> HIDE DEF r
  <2> QED
    BY <2>1, <2>2
<1>4. /\ DOMAIN items' = 1 .. n + 1 /\ Len(items') = n + 1 /\ items'[n + 1] = e
      /\ \A i \in 1 .. n : items'[i] = items[i]
  BY <1>1, <1>3, AppendAny
<1>5. Current' = e
  BY <1>4 DEF Current
<1>6. W' = W \o d /\ Concat(Messages)' = Concat(Messages) \o (IF kind \in Messages THEN Current'.text ELSE <<>>)
  BY BeginRight
<1>15. PICK V : V = Concat(Reasoning)'
  OBVIOUS
<1>7. \A i \in 1 .. n + 1 : i \in 1 .. n \/ i = n + 1
  BY <1>2
<1>8. \A i \in DOMAIN items' : \A p \in DOMAIN items'[i].text : items'[i].text[p] = <<i, p>>
  <2>1. \A p \in DOMAIN e.text : e.text[p] = <<n + 1, p>>
    BY <1>3
  <2>2. \A i \in 1 .. n : \A p \in DOMAIN items[i].text : items[i].text[p] = <<i, p>>
    BY <1>2 DEF WholeRight
  <2> HIDE DEF text, n
  <2> QED
    BY <1>4, <1>7, <2>1, <2>2
<1>9. /\ Increasing(V) /\ \A j \in DOMAIN V : V[j][1] <= n + 1
      /\ ToSet(W) \subseteq ToSet(V)
      /\ kind \in Reasoning => ToSet(text) \subseteq ToSet(V)
  <2>0. W \in Seq(Tokens) /\ Increasing(W) /\ \A j \in DOMAIN W : W[j][1] <= n
    BY <1>1 DEF WholeRight
  <2>1. CASE kind \in Reasoning
    <3>1. d = text
      BY <1>3, <1>5, <2>1
    <3> HIDE DEF W, d
    <3>2. /\ Increasing(W \o text) /\ \A j \in DOMAIN (W \o text) : (W \o text)[j][1] <= n + 1
          /\ ToSet(W) \subseteq ToSet(W \o text) /\ ToSet(text) \subseteq ToSet(W \o text)
      BY <1>2, <2>0, InOrderLonger
    <3> HIDE DEF text
    <3> QED
      BY <1>6, <1>15, <3>1, <3>2 DEF W
  <2>2. CASE kind \notin Reasoning
    <3>1. d = <<>>
      BY <2>2
    <3> HIDE DEF W, d
    <3>2. V = W
      <4>1. V = W \o d
        BY <1>6, <1>15 DEF W
      <4> QED
        BY <2>0, <3>1, <4>1
    <3>3. \A j \in DOMAIN W : W[j][1] <= n + 1
      <4> SUFFICES ASSUME NEW j \in DOMAIN W PROVE W[j][1] <= n + 1
        OBVIOUS
      <4>1. W[j] \in Tokens /\ W[j][1] <= n
        BY <2>0
      <4>2. W[j][1] \in Nat
        BY <4>1 DEF Tokens
      <4> QED
        BY <1>2, <4>1, <4>2
    <3> QED
      BY <2>0, <2>2, <3>2, <3>3
  <2> QED
    BY <2>1, <2>2
<1>10. \A i \in DOMAIN items' : items'[i].kind \in Reasoning => ToSet(items'[i].text) \subseteq ToSet(V)
  <2>1. \A i \in 1 .. n : items[i].kind \in Reasoning => ToSet(items[i].text) \subseteq ToSet(W)
    BY <1>2 DEF WholeRight
  <2> HIDE DEF W, text, n
  <2> SUFFICES ASSUME NEW i \in 1 .. n + 1, items'[i].kind \in Reasoning
               PROVE  ToSet(items'[i].text) \subseteq ToSet(V)
    BY <1>4
  <2>2. CASE i \in 1 .. n
    <3>1. items'[i] = items[i]
      BY <1>4, <2>2
    <3>2. ToSet(items[i].text) \subseteq ToSet(W)
      BY <2>1, <2>2, <3>1
    <3> QED
      BY <1>9, <3>1, <3>2
  <2>3. CASE i = n + 1
    BY <1>3, <1>4, <1>9, <2>3
  <2> QED
    BY <1>7, <2>2, <2>3
<1>11. WholeRight'
  <2>1. Len(items') = n + 1
    BY <1>4
  <2> QED
    BY <1>8, <1>9, <1>10, <1>15, <2>1 DEF WholeRight
<1>12. \A x \in ToSet(W) : x[1] # Len(items')
  <2> SUFFICES ASSUME NEW j \in DOMAIN W PROVE W[j][1] # n + 1
    BY <1>4 DEF ToSet
  <2>1. W[j] \in Tokens /\ W[j][1] <= n
    <3>1. W[j] \in TextTokens
      <4> HIDE DEF W
      <4> QED
        BY <1>1
    <3> QED
      BY <1>1, <3>1 DEF WholeRight
  <2>2. W[j][1] \in Nat
    BY <2>1 DEF Tokens
  <2> QED
    BY <1>2, <2>1, <2>2
<1>13. AnswerRight'
  <2> DEFINE a == AnswerOf(items)
             b == BlockOf(e)
             M == Concat(Messages)
             x == IF kind \in Messages THEN text ELSE <<>>
  <2>1. AnswerOf(items') = IF kind \in {"message", "call"} THEN Append(a, b) ELSE a
    BY <1>1, <1>3, AnswerLonger
  <2>2. b = IF kind = "message" THEN [kind |-> "text", body |-> text]
            ELSE [kind |-> "tool_use", body |-> <<>>]
    BY <1>3 DEF BlockOf, Empty
  <2>3. text \in Seq(Tokens)
    <3>1. \A p \in 1 .. len : <<n + 1, p>> \in Tokens
      BY <1>2 DEF Tokens
    <3> QED
      BY <3>1
  <2>4. b.body \in Seq(Tokens) /\ b.kind = (IF kind = "message" THEN "text" ELSE "tool_use")
        /\ b.body = x
    <3> HIDE DEF text, b
    <3> QED
      BY <2>2, <2>3 DEF Messages
  <2>5. Bodies(a) /\ Assembled(a, "text") = M /\ Assembled(a, "thinking") = <<>>
    BY DEF AnswerRight, Bodies
  <2>6. M' = M \o x /\ M \in Seq(Tokens)
    <3>1. Assembled(a, "text") \in Seq(Tokens)
      BY <2>5, AssembledTyped
    <3> QED
      BY <1>3, <1>5, <1>6, <2>5, <3>1
  <2> HIDE DEF a, b, M, text
  <2>7. CASE kind \notin {"message", "call"}
    <3>1. x = <<>>
      BY <2>7 DEF Messages
    <3> HIDE DEF x
    <3>2. M' = M
      BY <2>6, <3>1
    <3>3. AnswerOf(items') = a
      BY <2>1, <2>7
    <3> QED
      BY <2>5, <3>2, <3>3 DEF AnswerRight, Bodies, M
  <2>8. CASE kind \in {"message", "call"}
    <3>1. AnswerOf(items') = Append(a, b)
      BY <2>1, <2>8
    <3>2. \A k : /\ Assembled(Append(a, b), k) = Assembled(a, k) \o (IF b.kind = k THEN b.body ELSE <<>>)
                 /\ Assembled(a, k) \in Seq(Tokens)
      BY <2>4, <2>5, AssembledLonger
    <3>3. Bodies(Append(a, b))
      <4>1. /\ IsSeq(Append(a, b)) /\ Len(a) \in Nat
            /\ DOMAIN a = 1 .. Len(a) /\ DOMAIN Append(a, b) = 1 .. Len(a) + 1
            /\ Append(a, b)[Len(a) + 1] = b
            /\ \A i \in 1 .. Len(a) : Append(a, b)[i] = a[i]
        BY <2>5, AppendAny DEF Bodies
      <4>2. \A i \in 1 .. Len(a) + 1 : i \in 1 .. Len(a) \/ i = Len(a) + 1
        BY <4>1
      <4> QED
        BY <2>4, <2>5, <4>1, <4>2 DEF Bodies
    <3>4. Assembled(Append(a, b), "thinking") = <<>>
      <4>1. b.kind # "thinking"
        BY <2>4
      <4>2. Assembled(Append(a, b), "thinking") = <<>> \o <<>>
        BY <2>5, <3>2, <4>1
      <4> QED
        BY <4>2
    <3>5. Assembled(Append(a, b), "text") = M'
      <4>1. CASE kind = "message"
        <5>1. Assembled(Append(a, b), "text") = M \o b.body
          BY <2>4, <2>5, <3>2, <4>1
        <5> QED
          BY <2>4, <2>6, <5>1
      <4>2. CASE kind # "message"
        <5>1. x = <<>>
          BY <4>2 DEF Messages
        <5>2. b.kind # "text"
          BY <2>4, <4>2
        <5>3. Assembled(Append(a, b), "text") = M \o <<>>
          BY <2>5, <3>2, <5>2
        <5> HIDE DEF x
        <5> QED
          BY <2>6, <5>1, <5>3
      <4> QED
        BY <4>1, <4>2
    <3> QED
      BY <3>1, <3>3, <3>4, <3>5 DEF AnswerRight, Bodies, M
  <2> QED
    BY <2>7, <2>8
<1>14. ToSet(W) \subseteq ToSet(Concat(Reasoning)')
  BY <1>9, <1>15
<1> QED
  BY ONLY <1>11, <1>12, <1>13, <1>14

LEMMA NoAnswer ==
    ASSUME items = <<>>
    PROVE  WholeRight /\ AnswerRight
<1>1. \A kinds : Concat(kinds) = <<>>
  BY NoItems
<1>2. WholeRight
  BY <1>1 DEF WholeRight, Increasing
<1>3. ShownOf(items) = <<>>
  BY ThoseEmpty DEF ShownOf
<1>4. AnswerOf(items) = <<>>
  BY <1>3 DEF AnswerOf
<1>5. \A kind : Assembled(<<>>, kind) = <<>>
  BY NothingAssembled
<1>6. AnswerRight
  <2>1. IsSeq(<<>>) /\ DOMAIN <<>> = {}
    BY DEF IsSeq
  <2> QED
    BY <1>1, <1>4, <1>5, <2>1 DEF AnswerRight
<1> QED
  BY <1>2, <1>6

-----------------------------------------------------------------------------
\* The steps.
LEMMA ItemsKept ==
    ASSUME WholeRight, AnswerRight, UNCHANGED items
    PROVE  /\ WholeRight' /\ AnswerRight' /\ \A kinds : Concat(kinds)' = Concat(kinds)
<1>1. \A kinds : Concat(kinds)' = Concat(kinds)
  BY DEF Concat
<1> QED
  BY <1>1 DEF WholeRight, AnswerRight

\* Nothing is told, and nothing that was to come is left out.
LEMMA NothingTold ==
    ASSUME AnswerShown, UNCHANGED items, Quiet(claude, claude'),
           claude.client.fault # "none" => claude'.client.fault # "none",
           ToCome(Messages)' = ToCome(Messages),
           step' = "body" => step = "body" /\ sent' = sent
    PROVE  AnswerShown'
<1>1. /\ WholeRight' /\ AnswerRight' /\ \A kinds : Concat(kinds)' = Concat(kinds)
  BY ItemsKept DEF AnswerShown
<1>2. /\ Typed(claude') /\ Noted(claude')
      /\ Told(claude', "thinking") = Told(claude, "thinking")
      /\ Told(claude', "text") = Told(claude, "text")
  BY DEF AnswerShown, Quiet
<1>3. claude'.client.fault = "none" => TextShown' /\ ThinkingShown'
  <2> SUFFICES ASSUME claude'.client.fault = "none" PROVE TextShown' /\ ThinkingShown'
    OBVIOUS
  <2>1. TextShown /\ ThinkingShown
    BY DEF AnswerShown
  <2>2. TextShown'
    BY <1>1, <1>2, <2>1 DEF TextShown
  <2>3. ThinkingShown'
    BY <1>1, <1>2, <2>1 DEF ThinkingShown
  <2> QED
    BY <2>2, <2>3
<1> QED
  BY <1>1, <1>2, <1>3 DEF AnswerShown

LEMMA StopsLater ==
    ASSUME IInv', stage' \in {"start", "items", "cut"}
    PROVE  StopsRight'
BY DEF IInv, EndsOK, StopsRight

LEMMA AInvBegin ==
    ASSUME IInv, CInv, AInv, IInv',
           NEW kind \in Reasoning \cup {"message", "call"}, NEW len \in Nat, NEW name,
           NEW announced \in BOOLEAN, Begin(kind, len, name, announced),
           kind = "call" => \E tool \in ToSet(request.tools) : name = ShortName(request.tools, tool),
           Quiet(claude, claude'),
           claude.client.fault # "none" => claude'.client.fault # "none"
    PROVE  AInv'
<1> DEFINE W == Concat(Reasoning)
           d == IF kind \in Messages THEN Current'.text ELSE <<>>
<1>1. /\ ItemsRight /\ Typed(claude) /\ Noted(claude) /\ WholeRight /\ AnswerRight
  BY DEF CInv, AInv, AnswerShown
<1>2. /\ WholeRight' /\ AnswerRight' /\ ToSet(W) \subseteq ToSet(Concat(Reasoning)')
      /\ \A x \in ToSet(W) : x[1] # Len(items')
  BY <1>1, WholeBegun
<1>3. /\ stage' = "items" /\ Current'.text \in Seq(TextTokens)
      /\ Concat(Messages)' = Concat(Messages) \o d
      /\ ToCome(Messages)' = d /\ ToCome(Messages) = <<>>
  <2>1. /\ stage' = "items" /\ Current'.text \in Seq(TextTokens)
        /\ \A kinds :
              LET x == IF kind \in kinds THEN Current'.text ELSE <<>>
              IN  /\ Concat(kinds)' = Concat(kinds) \o x
                  /\ ToCome(kinds)' = x /\ ToCome(kinds) = <<>>
    <3>1. ItemsRight
      BY <1>1
    <3> QED
      BY <3>1, BeginRight
  <2> QED
    BY ONLY <2>1
<1>4. /\ Typed(claude') /\ Noted(claude')
      /\ Told(claude', "thinking") = Told(claude, "thinking")
      /\ Told(claude', "text") = Told(claude, "text")
  BY <1>1 DEF Quiet
<1>5. claude'.client.fault = "none" => TextShown' /\ ThinkingShown'
  <2> SUFFICES ASSUME claude'.client.fault = "none" PROVE TextShown' /\ ThinkingShown'
    OBVIOUS
  <2>1. TextShown /\ ThinkingShown
    BY DEF AInv, AnswerShown
  <2>2. TextShown'
    <3> DEFINE t == Told(claude, "text")
    <3>1. t \o <<>> = Concat(Messages)
      BY <1>3, <2>1 DEF TextShown
    <3>2. t \in Seq(Tokens)
      <4>1. Shape(claude)
        BY DEF AInv, IInv, BlockOK, CInv
      <4> QED
        BY <1>1, <4>1, ShapeBodies
    <3> HIDE DEF t
    <3>3. t \o d = Concat(Messages)'
      BY <1>3, <3>1, <3>2
    <3> QED
      BY <1>3, <1>4, <3>3 DEF TextShown, t
  <2>3. ThinkingShown'
    <3> DEFINE t == Told(claude, "thinking")
    <3>1. Increasing(t) /\ ToSet(t) \subseteq ToSet(W)
      BY <2>1 DEF ThinkingShown
    <3>2. \A x \in ToSet(t) : x[1] # Len(items')
      BY <1>2, <3>1
    <3>3. ToSet(t) \subseteq ToSet(Concat(Reasoning)')
      BY <1>2, <3>1
    <3> HIDE DEF t, W
    <3> QED
      BY <1>4, <3>1, <3>2, <3>3 DEF ThinkingShown, t
  <2> QED
    BY <2>2, <2>3
<1>6. StopsRight'
  BY <1>3, StopsLater
<1> QED
  BY <1>2, <1>4, <1>5, <1>6 DEF AInv, AnswerShown

LEMMA ClaudeShape == IInv => Shape(claude)
BY DEF IInv, BlockOK

\* One token more, in its block and in its place.
LEMMA DeltaShown ==
    ASSUME IInv, CInv, AInv, Delta, NEW kind \in {"thinking", "text", "tool_use"},
           Tells(claude, claude', kind, Current.text[sent + 1]),
           Keeps(claude, claude'),
           kind = "thinking" => Current.kind \in Reasoning,
           kind = "text" <=> Current.kind \in Messages
    PROVE  AnswerShown'
<1>0. PICK token : token = Current.text[sent + 1]
  OBVIOUS
<1>1. /\ stage = "items" /\ step = "body" /\ sent' = sent + 1 /\ sent \in Nat
      /\ UNCHANGED <<items, step>> /\ token \in TextTokens
      /\ IF Current.kind \in Messages
         THEN ToCome(Messages) = <<token>> \o ToCome(Messages)'
         ELSE ToCome(Messages) = <<>> /\ ToCome(Messages)' = <<>>
  BY <1>0, DeltaPlace DEF CInv
<1>2. /\ WholeRight' /\ AnswerRight' /\ \A kinds : Concat(kinds)' = Concat(kinds)
  BY <1>1, ItemsKept DEF AInv, AnswerShown
<1>3. PICK W, M, c, t, u : /\ W = Concat(Reasoning) /\ M = Concat(Messages) /\ c = ToCome(Messages)'
                           /\ t = Told(claude, "thinking") /\ u = Told(claude, "text")
  OBVIOUS
<1>4. /\ W \in Seq(Tokens) /\ M \in Seq(Tokens) /\ t \in Seq(Tokens) /\ u \in Seq(Tokens)
      /\ token \in Tokens /\ <<token>> \in Seq(Tokens) /\ TextTokens \subseteq Tokens
  <2>1. TextTokens \subseteq Tokens
    BY DEF TextTokens
  <2>2. W \in Seq(TextTokens) /\ M \in Seq(TextTokens)
    BY <1>3, ListsTyped DEF CInv
  <2>3. t \in Seq(Tokens) /\ u \in Seq(Tokens)
    BY <1>3, ClaudeShape, ShapeBodies DEF AInv, AnswerShown
  <2> QED
    BY <1>1, <2>1, <2>2, <2>3
<1>5. c \in Seq(Tokens)
  <2>1. ItemsRight'
    BY DeltaPlace DEF CInv
  <2>2. \A kinds : ToCome(kinds)' \in Seq(TextTokens)
    BY <2>1, ListsTypedAfter
  <2> QED
    BY <1>3, <1>4, <2>2
<1>6. Typed(claude') /\ Noted(claude')
  BY DEF Tells, AInv, AnswerShown
<1>7. ASSUME claude'.client.fault = "none"
      PROVE  /\ TextShown /\ ThinkingShown
             /\ Told(claude', "thinking") = IF kind = "thinking" THEN Append(t, token) ELSE t
             /\ Told(claude', "text") = IF kind = "text" THEN Append(u, token) ELSE u
  <2>1. TextShown /\ ThinkingShown
    BY <1>7 DEF Keeps, AInv, AnswerShown
  <2>2. \A k \in {"thinking", "text"} :
           Told(claude', k) = IF k = kind THEN Append(Told(claude, k), token) ELSE Told(claude, k)
    BY <1>0, <1>7 DEF Tells, AInv, AnswerShown
  <2> QED
    BY <1>3, <2>1, <2>2
<1>8. ASSUME claude'.client.fault = "none"
      PROVE  TextShown'
  <2>0. TextShown' <=> Told(claude', "text") \o c = M
    BY <1>2, <1>3 DEF TextShown
  <2>1. CASE kind = "text"
    <3>1. u \o (<<token>> \o c) = M
      BY <1>1, <1>3, <1>7, <1>8, <2>1 DEF TextShown
    <3>2. (u \o <<token>>) \o c = u \o (<<token>> \o c)
      BY ONLY <1>4, <1>5, ConcatAssociative
    <3>3. Append(u, token) = u \o <<token>>
      BY ONLY <1>4, AppendIsConcat
    <3> QED
      BY <1>7, <1>8, <2>0, <2>1, <3>1, <3>2, <3>3
  <2>2. CASE kind # "text"
    <3>1. u \o <<>> = M /\ c = <<>>
      BY <1>1, <1>3, <1>7, <1>8, <2>2 DEF TextShown
    <3> QED
      BY <1>7, <1>8, <2>0, <2>2, <3>1
  <2> QED
    BY <2>1, <2>2
<1>9. ASSUME claude'.client.fault = "none"
      PROVE  ThinkingShown'
  <2>1. /\ Increasing(t) /\ ToSet(t) \subseteq ToSet(W)
        /\ \A x \in ToSet(t) : x[1] = Len(items) => x[2] <= sent
    BY <1>1, <1>3, <1>7, <1>9 DEF ThinkingShown
  <2>2. /\ \A j \in DOMAIN W : W[j][1] <= Len(items)
        /\ \A i \in DOMAIN items : \A p \in DOMAIN items[i].text : items[i].text[p] = <<i, p>>
        /\ \A i \in DOMAIN items : items[i].kind \in Reasoning => ToSet(items[i].text) \subseteq ToSet(W)
    BY <1>3 DEF AInv, AnswerShown, WholeRight
  <2>3. \A x \in ToSet(t) : x[1] \in Nat /\ x[2] \in Nat /\ x[1] <= Len(items)
    <3> SUFFICES ASSUME NEW x \in ToSet(t) PROVE x[1] \in Nat /\ x[2] \in Nat /\ x[1] <= Len(items)
      OBVIOUS
    <3>1. PICK j \in DOMAIN W : x = W[j]
      BY <2>1 DEF ToSet
    <3>2. W[j] \in Tokens
      BY <1>4
    <3>3. x[1] \in Nat /\ x[2] \in Nat
      BY <3>1, <3>2 DEF Tokens
    <3> QED
      BY <2>2, <3>1, <3>3
  <2>4. token = <<Len(items), sent + 1>> /\ token \in ToSet(Current.text) /\ Len(items) \in DOMAIN items
        /\ Len(items) \in Nat
    <3>1. Len(items) \in DOMAIN items /\ Current.text \in Seq(TextTokens) /\ sent \in 0 .. Len(Current.text)
      BY <1>1, CurrentFacts DEF CInv, ItemRight
    <3>2. sent < Len(Current.text)
      BY DEF Delta
    <3>3. sent + 1 \in DOMAIN Current.text
      BY <1>1, <3>1, <3>2
    <3>4. Len(items) \in Nat
      BY AppendAny DEF CInv, ItemsRight
    <3>5. Current.text[sent + 1] = <<Len(items), sent + 1>>
      BY <2>2, <3>1, <3>3 DEF Current
    <3>6. Current.text[sent + 1] \in ToSet(Current.text)
      BY <3>3 DEF ToSet
    <3> QED
      BY <1>0, <3>1, <3>4, <3>5, <3>6
  <2>5. \A x \in ToSet(t) : x[1] = Len(items) => x[2] <= sent + 1
    <3> SUFFICES ASSUME NEW x \in ToSet(t), x[1] = Len(items) PROVE x[2] <= sent + 1
      OBVIOUS
    <3>1. x[2] <= sent /\ x[2] \in Nat
      BY <2>1, <2>3
    <3> QED
      BY <1>1, <3>1
  <2>6. ThinkingShown' <=> LET v == Told(claude', "thinking")
                           IN  /\ Increasing(v) /\ ToSet(v) \subseteq ToSet(W)
                               /\ \A x \in ToSet(v) : x[1] = Len(items) => x[2] <= sent + 1
    BY <1>1, <1>2, <1>3 DEF ThinkingShown
  <2>7. CASE kind # "thinking"
    <3>1. Told(claude', "thinking") = t
      BY <1>7, <1>9, <2>7
    <3> QED
      BY <2>1, <2>5, <2>6, <3>1
  <2>8. CASE kind = "thinking"
    <3>1. Told(claude', "thinking") = Append(t, token)
      BY <1>7, <1>9, <2>8
    <3>2. /\ DOMAIN Append(t, token) = 1 .. Len(t) + 1 /\ DOMAIN t = 1 .. Len(t) /\ Len(t) \in Nat
          /\ Append(t, token)[Len(t) + 1] = token
          /\ \A i \in 1 .. Len(t) : Append(t, token)[i] = t[i]
      BY <1>4
    <3>3. \A i \in 1 .. Len(t) + 1 : i \in 1 .. Len(t) \/ i = Len(t) + 1
      BY <3>2
    <3>4. PICK v : v = Append(t, token)
      OBVIOUS
    <3>5. \A x \in ToSet(v) : x \in ToSet(t) \/ x = token
      BY <3>2, <3>3, <3>4 DEF ToSet
    <3>6. token \in ToSet(W)
      <4>1. Current.kind \in Reasoning
        BY <2>8
      <4>2. ToSet(Current.text) \subseteq ToSet(W)
        BY <2>2, <2>4, <4>1 DEF Current
      <4> QED
        BY <2>4, <4>2
    <3>7. \A x \in ToSet(v) : x[1] = Len(items) => x[2] <= sent + 1
      <4>1. token[2] <= sent + 1
        BY <1>1, <2>4
      <4> QED
        BY <2>5, <3>5, <4>1
    <3>8. \A i \in 1 .. Len(t) : Before(t[i], token)
      <4> SUFFICES ASSUME NEW i \in 1 .. Len(t) PROVE Before(t[i], token)
        OBVIOUS
      <4>1. PICK x \in ToSet(t) : x = t[i]
        BY <3>2 DEF ToSet
      <4>2. x[1] \in Nat /\ x[2] \in Nat /\ x[1] <= Len(items) /\ (x[1] = Len(items) => x[2] <= sent)
        BY <2>1, <2>3
      <4>3. x[1] < Len(items) \/ (x[1] = Len(items) /\ x[2] < sent + 1)
        BY <1>1, <2>4, <4>2
      <4> QED
        BY <2>4, <4>1, <4>3 DEF Before
    <3>9. Increasing(v)
      <4> SUFFICES ASSUME NEW j \in 1 .. Len(t) + 1, NEW k \in 1 .. Len(t) + 1, j < k
                   PROVE  Before(v[j], v[k])
        BY <3>2, <3>4 DEF Increasing
      <4>1. CASE k = Len(t) + 1
        <5>1. j \in 1 .. Len(t)
          BY <3>2, <4>1
        <5> QED
          BY <3>2, <3>4, <3>8, <4>1, <5>1
      <4>2. CASE k \in 1 .. Len(t)
        <5>1. j \in 1 .. Len(t)
          BY <3>2, <4>2
        <5> QED
          BY <2>1, <3>2, <3>4, <4>2, <5>1 DEF Increasing
      <4> QED
        BY <3>3, <4>1, <4>2
    <3>10. ToSet(v) \subseteq ToSet(W)
      BY <2>1, <3>5, <3>6
    <3> QED
      BY <2>6, <3>1, <3>4, <3>7, <3>9, <3>10
  <2> QED
    BY <2>7, <2>8
<1> QED
  BY <1>2, <1>6, <1>8, <1>9 DEF AnswerShown

LEMMA AInvDelta ==
    ASSUME IInv, CInv, AInv, IInv', Delta
    PROVE  AInv'
<1> DEFINE token == Current.text[sent + 1]
<1>1. Shape(claude)
  BY ClaudeShape
<1>2. token \in Tokens
  BY DeltaPlace DEF CInv, TextTokens
<1>3. stage' = "items"
  BY DEF Delta
<1>4. AnswerShown'
  <2>1. CASE Current.kind \in Reasoning /\ claude' = ClaudeReasoning(claude, token)
    <3>1. Tells(claude, claude', "thinking", token) /\ Keeps(claude, claude')
      <4> HIDE DEF token
      <4> QED
        BY <1>1, <1>2, <2>1, ReasoningTells, ReasoningFacts
    <3>2. Current.kind \notin Messages
      BY <2>1 DEF Reasoning, Messages
    <3> QED
      BY <2>1, <3>1, <3>2, DeltaShown
  <2>2. CASE Current.kind = "message" /\ claude' = ClaudeText(claude, token)
    <3>1. Tells(claude, claude', "text", token) /\ Keeps(claude, claude')
      <4> HIDE DEF token
      <4> QED
        BY <1>1, <1>2, <2>2, TextTells, TextFacts
    <3>2. Current.kind \in Messages
      BY <2>2 DEF Messages
    <3> QED
      BY <3>1, <3>2, DeltaShown
  <2>3. CASE Current.kind = "call" /\ claude' = DeltaOf(claude, "tool_use", token)
    <3>1. Tells(claude, claude', "tool_use", token) /\ Keeps(claude, claude')
      <4> HIDE DEF token
      <4> QED
        BY <1>1, <1>2, <2>3, DeltaOfTells, DeltaOfFacts
    <3>2. Current.kind \notin Messages
      BY <2>3 DEF Messages
    <3> QED
      BY <3>1, <3>2, DeltaShown
  <2> QED
    BY <2>1, <2>2, <2>3 DEF Delta, Reasoning
<1> QED
  BY <1>3, <1>4, StopsLater DEF AInv

-----------------------------------------------------------------------------
\* One lemma per action.
LEMMA AInvQuiet ==
    ASSUME IInv, AInv, IInv', stage' \in {"start", "items", "cut"}, UNCHANGED items,
           Quiet(claude, claude'), claude.client.fault # "none" => claude'.client.fault # "none",
           ToCome(Messages)' = ToCome(Messages), step' = "body" => step = "body" /\ sent' = sent
    PROVE  AInv'
<1>1. AnswerShown'
  BY NothingTold DEF AInv
<1>2. StopsRight'
  BY StopsLater
<1> QED
  BY <1>1, <1>2 DEF AInv

\* No item has begun, and the client has been told nothing.
Silence == items = <<>> /\ step = "none" /\ stage = "start" /\ claude = NewClaude

LEMMA NothingToldYet == Silence => AInv
<1> SUFFICES ASSUME Silence PROVE AInv
  OBVIOUS
<1>1. /\ claude.client.blocks = <<>> /\ claude.hasToolUse = FALSE /\ claude.completed = FALSE
      /\ claude.outcome = "none" /\ stage = "start" /\ items = <<>> /\ step = "none"
  BY DEF Silence, NewClaude
<1>2. WholeRight /\ AnswerRight
  BY <1>1, NoAnswer
<1>3. \A kind : Told(claude, kind) = <<>>
  BY <1>1, NothingAssembled DEF Told
<1>4. Typed(claude) /\ Noted(claude)
  <2>1. DOMAIN <<>> = {}
    OBVIOUS
  <2> QED
    BY <1>1, <2>1 DEF Typed, Noted, Uses
<1>5. TextShown
  <2>1. ToCome(Messages) = <<>> /\ Concat(Messages) = <<>> /\ <<>> \o <<>> = <<>>
    BY <1>1, NoItems DEF ToCome
  <2> QED
    BY <1>3, <2>1 DEF TextShown
<1>6. ThinkingShown
  BY <1>1, <1>3 DEF ThinkingShown, Increasing, ToSet
<1>7. StopsRight
  BY <1>1 DEF StopsRight
<1> QED
  BY <1>2, <1>4, <1>5, <1>6, <1>7 DEF AInv, AnswerShown

LEMMA AInvInit == Init => AInv
BY NothingToldYet DEF Init, Silence

LEMMA AInvAskAgain == AskAgain => AInv'
<1>1. (Silence => AInv)'
  BY NothingToldYet, PTL
<1>2. AskAgain => Silence'
  BY DEF AskAgain, Silence
<1> QED
  BY <1>1, <1>2

LEMMA AInvCreated ==
    ASSUME IInv, AInv, IInv', Created
    PROVE  AInv'
<1>1. /\ stage' = "items" /\ UNCHANGED <<items, step, sent>>
      /\ claude' = [claude EXCEPT !.begun = TRUE]
  BY DEF Created
<1>2. claude'.client = claude.client /\ claude'.hasToolUse = claude.hasToolUse
  BY <1>1, ClaudeShape DEF Shape, StateFields
<1>3. Quiet(claude, claude')
  BY <1>2, SameClient
<1>4. ToCome(Messages)' = ToCome(Messages)
  BY <1>1, SameResponse
<1> QED
  BY <1>1, <1>2, <1>3, <1>4, AInvQuiet

LEMMA AInvBeginText ==
    ASSUME IInv, CInv, AInv, IInv', NEW kind, NEW len \in Nat, BeginText(kind, len)
    PROVE  AInv'
<1>1. /\ kind \in Reasoning \cup {"message", "call"} /\ kind # "call"
      /\ Begin(kind, len, Empty, TRUE) /\ UNCHANGED claude
  BY DEF BeginText, Reasoning
<1>2. Quiet(claude, claude')
  BY <1>1, SameClient
<1> QED
  BY <1>1, <1>2, AInvBegin

LEMMA AInvBeginCall ==
    ASSUME IInv, CInv, AInv, IInv', NEW tool \in ToSet(request.tools), NEW len \in Nat,
           NEW announced \in BOOLEAN, BeginCall(tool, len, announced)
    PROVE  AInv'
<1> DEFINE short == ShortName(request.tools, tool)
<1>1. /\ Begin("call", len, short, announced)
      /\ claude' = IF announced THEN ClaudeCall(claude, short) ELSE claude
  BY DEF BeginCall
<1>2. \E t \in ToSet(request.tools) : short = ShortName(request.tools, t)
  OBVIOUS
<1> HIDE DEF short
<1>3. /\ Quiet(claude, claude')
      /\ claude.client.fault # "none" => claude'.client.fault # "none"
  <2>1. CASE announced
    BY <1>1, <2>1, ClaudeShape, CallTells, CallFacts DEF Keeps
  <2>2. CASE ~announced
    BY <1>1, <2>2, SameClient
  <2> QED
    BY <2>1, <2>2
<1>4. "call" \in Reasoning \cup {"message", "call"}
  OBVIOUS
<1> QED
  BY <1>1, <1>2, <1>3, <1>4, AInvBegin

LEMMA AInvTextDone ==
    ASSUME IInv, CInv, AInv, IInv', TextDone
    PROVE  AInv'
<1>1. /\ stage = "items" /\ stage' = "items" /\ step = "body" /\ step' = "none"
      /\ UNCHANGED <<request, items, sent>>
      /\ claude' = LeaveThinking(claude) \/ UNCHANGED claude
      /\ Current.kind = "message" => sent = Len(Current.text)
  BY DEF TextDone
<1>2. /\ Quiet(claude, claude')
      /\ claude.client.fault # "none" => claude'.client.fault # "none"
  <2>1. CASE claude' = LeaveThinking(claude)
    BY <2>1, ClaudeShape, LeaveThinkingTells, LeaveThinkingFacts DEF Keeps
  <2>2. CASE UNCHANGED claude
    BY <2>2, SameClient
  <2> QED
    BY <1>1, <2>1, <2>2
<1>3. /\ \A kinds : ToCome(kinds)' = <<>>
      /\ \A kinds : Current.kind \notin kinds => ToCome(kinds) = <<>>
      /\ Current.text \in Seq(TextTokens) /\ sent \in 0 .. Len(Current.text)
  BY <1>1, DonePlace DEF CInv
<1>4. ToCome(Messages) = <<>>
  <2>1. CASE Current.kind = "message"
    <3>1. SubSeq(Current.text, sent + 1, Len(Current.text)) = <<>>
      BY <1>1, <1>3, <2>1, CutInTwo
    <3> QED
      BY <3>1 DEF ToCome
  <2>2. CASE Current.kind # "message"
    BY <1>3, <2>2 DEF Messages
  <2> QED
    BY <2>1, <2>2
<1> QED
  BY <1>1, <1>2, <1>3, <1>4, AInvQuiet

LEMMA AInvArgsDone ==
    ASSUME IInv, CInv, AInv, IInv', ArgsDone
    PROVE  AInv'
<1>1. /\ stage = "items" /\ stage' = "items" /\ step = "body" /\ step' = "args"
      /\ UNCHANGED <<request, items, sent>> /\ claude' = StopBlock(claude)
      /\ Current.kind = "call" /\ Current.announced
  BY DEF ArgsDone
<1>2. /\ Quiet(claude, claude')
      /\ claude.client.fault # "none" => claude'.client.fault # "none"
  BY <1>1, ClaudeShape, StopBlockTells, StopBlockFacts DEF Keeps
<1>3. ToCome(Messages)' = ToCome(Messages)
  BY <1>1, DonePlace DEF CInv, Messages
<1> QED
  BY <1>1, <1>2, <1>3, AInvQuiet

LEMMA AInvCallDone ==
    ASSUME IInv, CInv, AInv, IInv', CallDone
    PROVE  AInv'
<1>1. /\ stage = "items" /\ stage' = "items" /\ step # "none" /\ step' = "none"
      /\ UNCHANGED <<request, items, sent, claude>> /\ Current.kind = "call"
  BY DEF CallDone
<1>2. Quiet(claude, claude')
  BY <1>1, SameClient
<1>3. ToCome(Messages)' = ToCome(Messages)
  BY <1>1, DonePlace DEF CInv, Messages
<1> QED
  BY <1>1, <1>2, <1>3, AInvQuiet

LEMMA AInvCompleted ==
    ASSUME IInv, CInv, AInv, Completed
    PROVE  AInv'
<1> DEFINE c == CloseEvents(claude)
<1>1. /\ stage = "items" /\ step = "none" /\ stage' = "completed" /\ UNCHANGED <<items, step, sent>>
      /\ claude' = [c EXCEPT !.completed = TRUE]
  BY DEF Completed
<1>2. Shape(claude) /\ claude.client.stops = <<>>
  BY <1>1, ClaudeShape DEF IInv, EndsOK
<1>3. /\ Quiet(claude, c) /\ c.hasToolUse = claude.hasToolUse
      /\ c.client.stops = <<StopOf(claude)>> /\ Shape(c)
      /\ claude.client.fault # "none" => c.client.fault # "none"
  BY <1>2, CloseTells, CloseFacts
<1> HIDE DEF c
<1>4. claude'.client = c.client /\ claude'.hasToolUse = c.hasToolUse
  BY <1>1, <1>3 DEF Shape, StateFields
<1>5. Quiet(claude, claude')
  BY <1>3, <1>4, SameClient, QuietTwice
<1>6. ToCome(Messages)' = ToCome(Messages)
  BY <1>1, SameResponse
<1>7. AnswerShown'
  BY <1>1, <1>3, <1>4, <1>5, <1>6, NothingTold DEF AInv
<1>8. StopOf(claude') = StopOf(claude)
  BY <1>3, <1>4 DEF StopOf
<1>9. StopsRight'
  BY <1>1, <1>3, <1>4, <1>8 DEF StopsRight
<1> QED
  BY <1>7, <1>9 DEF AInv

LEMMA AInvEndOfBody ==
    ASSUME IInv, AInv, IInv', EndOfBody
    PROVE  AInv'
<1>1. stage' = "cut" /\ UNCHANGED <<items, step, sent, claude>>
  BY DEF EndOfBody
<1>2. Quiet(claude, claude')
  BY <1>1, SameClient
<1>3. ToCome(Messages)' = ToCome(Messages)
  BY <1>1, SameResponse
<1> QED
  BY <1>1, <1>2, <1>3, AInvQuiet

LEMMA AInvReadFails ==
    ASSUME IInv, AInv, ReadFails
    PROVE  AInv'
<1>1. /\ stage \in {"start", "items"} /\ stage' = "end" /\ UNCHANGED <<items, step, sent>>
      /\ claude' = [claude EXCEPT !.outcome = "error"]
  BY DEF ReadFails
<1>2. /\ claude'.client = claude.client /\ claude'.hasToolUse = claude.hasToolUse
      /\ claude'.completed = FALSE /\ claude'.outcome = "error"
  BY <1>1, ClaudeShape DEF Shape, StateFields, IInv, EndsOK
<1>3. Quiet(claude, claude')
  BY <1>2, SameClient
<1>4. ToCome(Messages)' = ToCome(Messages)
  BY <1>1, SameResponse
<1>5. AnswerShown'
  BY <1>1, <1>2, <1>3, <1>4, NothingTold DEF AInv
<1>6. StopsRight'
  BY <1>1, <1>2 DEF StopsRight
<1> QED
  BY <1>5, <1>6 DEF AInv

LEMMA AInvFinish ==
    ASSUME IInv, AInv, Finish
    PROVE  AInv'
<1>1. /\ stage \in {"completed", "cut"} /\ stage' = "end" /\ UNCHANGED <<items, step, sent>>
      /\ claude' = ClaudeEnd(claude)
  BY DEF Finish
<1>2. /\ Shape(claude) /\ (stage = "completed" => claude.completed = TRUE)
      /\ (stage = "cut" => claude.completed = FALSE /\ claude.client.stops = <<>>)
  BY ClaudeShape DEF IInv, EndsOK
<1>3. \E d, o : /\ claude' = [d EXCEPT !.outcome = o] /\ Shape(d) /\ Quiet(claude, d)
                /\ d.hasToolUse = claude.hasToolUse /\ d.completed = claude.completed
                /\ claude.client.fault # "none" => d.client.fault # "none"
                /\ o = "success" => d.client.stops = <<StopOf(claude)>>
  <2>1. CASE stage = "completed"
    <3>1. claude' = [claude EXCEPT !.outcome = "success"]
      BY <1>1, <1>2, <2>1 DEF ClaudeEnd
    <3>2. claude.client.stops = <<StopOf(claude)>>
      BY <2>1 DEF AInv, StopsRight
    <3>3. Quiet(claude, claude)
      BY SameClient
    <3> QED
      BY <1>2, <3>1, <3>2, <3>3
  <2>2. CASE stage = "cut"
    <3> DEFINE c == CloseEvents(claude)
    <3>1. \/ claude' = [c EXCEPT !.outcome = "success"]
          \/ claude' = [claude EXCEPT !.outcome = "empty"]
      BY <1>1, <1>2, <2>2 DEF ClaudeEnd
    <3>2. /\ Quiet(claude, c) /\ c.hasToolUse = claude.hasToolUse
          /\ c.client.stops = <<StopOf(claude)>> /\ Shape(c) /\ c.completed = claude.completed
          /\ claude.client.fault # "none" => c.client.fault # "none"
      BY <1>2, <2>2, CloseTells, CloseFacts
    <3> HIDE DEF c
    <3>3. Quiet(claude, claude) /\ "empty" # "success"
      BY SameClient
    <3>4. CASE claude' = [c EXCEPT !.outcome = "success"]
      BY <3>2, <3>4
    <3>5. CASE claude' = [claude EXCEPT !.outcome = "empty"]
      BY <1>2, <3>3, <3>5
    <3> QED
      BY <3>1, <3>4, <3>5
  <2> QED
    BY <1>1, <2>1, <2>2
<1>4. PICK d, o : /\ claude' = [d EXCEPT !.outcome = o] /\ Shape(d) /\ Quiet(claude, d)
                  /\ d.hasToolUse = claude.hasToolUse /\ d.completed = claude.completed
                  /\ claude.client.fault # "none" => d.client.fault # "none"
                  /\ o = "success" => d.client.stops = <<StopOf(claude)>>
  BY <1>3
<1>5. /\ claude'.client = d.client /\ claude'.hasToolUse = claude.hasToolUse
      /\ claude'.completed = claude.completed /\ claude'.outcome = o
  BY <1>4 DEF Shape, StateFields
<1>6. Quiet(claude, claude')
  <2>1. Quiet(d, claude')
    BY <1>4, <1>5, SameClient
  <2> QED
    BY <1>4, <2>1, QuietTwice
<1>7. ToCome(Messages)' = ToCome(Messages)
  BY <1>1, SameResponse
<1>8. AnswerShown'
  BY <1>1, <1>4, <1>5, <1>6, <1>7, NothingTold DEF AInv
<1>9. StopOf(claude') = StopOf(claude)
  BY <1>5 DEF StopOf
<1>10. claude.completed => step = "none"
  BY DEF AInv, StopsRight
<1>11. StopsRight'
  BY <1>1, <1>4, <1>5, <1>9, <1>10 DEF StopsRight
<1> QED
  BY <1>8, <1>11 DEF AInv

LEMMA AInvNext == IInv /\ CInv /\ AInv /\ IInv' /\ [ExchangeNext]_vars => AInv'
<1> SUFFICES ASSUME IInv, CInv, AInv, IInv', [ExchangeNext]_vars
             PROVE  AInv'
  OBVIOUS
<1>1. CASE Created
  BY <1>1, AInvCreated
<1>2. ASSUME NEW len \in 0 .. MaxTokens, NEW kind, BeginText(kind, len)
      PROVE  AInv'
  BY <1>2, RequestsAssumption, AInvBeginText
<1>3. ASSUME NEW len \in 0 .. MaxTokens, NEW tool \in ToSet(request.tools),
             NEW announced \in BOOLEAN, BeginCall(tool, len, announced)
      PROVE  AInv'
  BY <1>3, RequestsAssumption, AInvBeginCall
<1>4. CASE Delta
  BY <1>4, AInvDelta
<1>5. CASE TextDone
  BY <1>5, AInvTextDone
<1>6. CASE ArgsDone
  BY <1>6, AInvArgsDone
<1>7. CASE CallDone
  BY <1>7, AInvCallDone
<1>8. CASE Completed
  BY <1>8, AInvCompleted
<1>9. CASE EndOfBody
  BY <1>9, AInvEndOfBody
<1>10. CASE ReadFails
  BY <1>10, AInvReadFails
<1>11. CASE Finish
  BY <1>11, AInvFinish
<1>12. CASE AskAgain
  BY <1>12, AInvAskAgain
<1>13. CASE UNCHANGED vars
  <2>1. UNCHANGED <<items, step, sent, stage, claude>>
    BY <1>13 DEF vars
  <2>2. Quiet(claude, claude') /\ ToCome(Messages)' = ToCome(Messages)
    BY <2>1, SameClient, SameResponse
  <2>3. AnswerShown'
    BY <2>1, <2>2, NothingTold DEF AInv
  <2>4. StopsRight'
    BY <2>1 DEF AInv, StopsRight
  <2> QED
    BY <2>3, <2>4 DEF AInv
<1> QED
  BY <1>1, <1>2, <1>3, <1>4, <1>5, <1>6, <1>7, <1>8, <1>9, <1>10, <1>11, <1>12, <1>13
     DEF ExchangeNext, Next

\* The message in one piece: its thinking is all the reasoning, its text all the text.
LEMMA WholeMessage ==
    ASSUME CInv, AnswerRight
    PROVE  /\ Assembled(FinalClaude, "text") = Concat(Messages)
           /\ Assembled(FinalClaude, "thinking") = Concat(Reasoning)
<1> DEFINE W == Concat(Reasoning)
           M == Concat(Messages)
           a == AnswerOf(items)
           h == [kind |-> "thinking", body |-> W]
<1>1. FinalClaude = (IF W = <<>> THEN <<>> ELSE <<h>>) \o a
  BY DEF FinalClaude, AnswerOf, ShownOf, BlockOf, Reasoning, Empty
<1>2. W \in Seq(Tokens) /\ M \in Seq(Tokens)
  <2>1. TextTokens \subseteq Tokens
    BY DEF TextTokens
  <2>2. W \in Seq(TextTokens) /\ M \in Seq(TextTokens)
    BY ListsTyped DEF CInv
  <2> QED
    BY <2>1, <2>2
<1>3. Bodies(a) /\ Assembled(a, "text") = M /\ Assembled(a, "thinking") = <<>>
  BY DEF AnswerRight, Bodies
<1>4. h.kind = "thinking" /\ h.body = W
  OBVIOUS
<1> HIDE DEF W, M, a, h
<1>5. CASE W = <<>>
  <2>1. PICK S : a \in Seq(S)
    BY <1>3 DEF Bodies, IsSeq
  <2>2. FinalClaude = a
    BY <1>1, <1>5, <2>1
  <2> QED
    BY <1>3, <1>5, <2>2 DEF W, M
<1>6. CASE W # <<>>
  <2>1. FinalClaude = <<h>> \o a
    BY <1>1, <1>6
  <2>2. Bodies(<<h>>) /\ \A k : Assembled(<<h>>, k) = <<>> \o (IF h.kind = k THEN h.body ELSE <<>>)
    <3>1. Bodies(<<>>) /\ <<h>> = Append(<<>>, h)
      BY DEF Bodies, IsSeq
    <3>2. h.body \in Seq(Tokens)
      BY <1>2, <1>4
    <3>3. \A k : Assembled(<<>>, k) = <<>>
      BY NothingAssembled
    <3>4. \A k : Assembled(Append(<<>>, h), k)
                    = Assembled(<<>>, k) \o (IF h.kind = k THEN h.body ELSE <<>>)
      BY <3>1, <3>2, AssembledLonger
    <3>5. Bodies(<<h>>)
      <4>1. /\ <<h>> \in Seq({h}) /\ DOMAIN <<h>> = {1} /\ <<h>>[1] = h
        OBVIOUS
      <4> QED
        BY <3>2, <4>1 DEF Bodies, IsSeq
    <3> QED
      BY <3>1, <3>3, <3>4, <3>5
  <2>3. \A k : Assembled(<<h>> \o a, k) = Assembled(<<h>>, k) \o Assembled(a, k)
    <3>1. Bodies(<<h>>) /\ Bodies(a)
      BY <1>3, <2>2
    <3>2. PICK u, q : u = <<h>> /\ q = a
      OBVIOUS
    <3>3. Bodies(u) /\ Len(u) = 1 /\ Bodies(q)
      BY <3>1, <3>2
    <3>4. ASSUME NEW k PROVE Assembled(u \o q, k) = Assembled(u, k) \o Assembled(q, k)
      BY ONLY <3>3, AssembledFirst
    <3> QED
      BY <3>2, <3>4
  <2>4. /\ Assembled(FinalClaude, "text") = <<>> \o M
        /\ Assembled(FinalClaude, "thinking") = W \o <<>>
    <3>1. <<>> \o W = W /\ <<>> \o <<>> = <<>> /\ "thinking" # "text"
      BY <1>2
    <3>2. Assembled(<<h>>, "text") = <<>> /\ Assembled(<<h>>, "thinking") = W
      BY <1>4, <2>2, <3>1
    <3> QED
      BY <1>3, <2>1, <2>3, <3>2
  <2>5. <<>> \o M = M /\ W \o <<>> = W
    BY <1>2
  <2> QED
    BY <2>4, <2>5 DEF W, M
<1> QED
  BY <1>5, <1>6

LEMMA AInvFinal == IInv /\ CInv /\ AInv => ClaudeStreamIsFinal
<1> SUFFICES ASSUME IInv, CInv, AInv, claude.outcome = "success", claude.client.fault = "none"
             PROVE  ClaudeStreamIsFinal
  BY DEF ClaudeStreamIsFinal
<1> DEFINE thinking == Assembled(claude.client.blocks, "thinking")
           whole == Assembled(FinalClaude, "thinking")
           text == Assembled(claude.client.blocks, "text")
           M == Concat(Messages)
           W == Concat(Reasoning)
<1>1. Typed(claude) /\ Noted(claude) /\ WholeRight /\ AnswerRight /\ TextShown /\ ThinkingShown
  BY DEF AInv, AnswerShown
<1>2. Assembled(FinalClaude, "text") = M /\ whole = W
  BY <1>1, WholeMessage
<1>3. thinking \in Seq(Tokens) /\ text \in Seq(Tokens)
  BY <1>1, ClaudeShape, ShapeBodies DEF Told
<1>4. W \in Seq(Tokens)
  <2>1. TextTokens \subseteq Tokens /\ W \in Seq(TextTokens)
    BY ListsTyped DEF CInv, TextTokens
  <2> QED
    BY <2>1
<1>5. ASSUME claude.completed
      PROVE  text = Assembled(FinalClaude, "text")
  <2>1. step = "none"
    BY <1>5 DEF AInv, StopsRight
  <2>2. text \o <<>> = M
    BY <1>1, <2>1 DEF TextShown, Told, ToCome
  <2> HIDE DEF text, M
  <2>3. text = M
    BY <1>3, <2>2
  <2> QED
    BY <1>2, <2>3
<1>6. thinking = Those(whole, {i \in DOMAIN whole : whole[i] \in ToSet(thinking)})
  <2>1. Increasing(thinking) /\ ToSet(thinking) \subseteq ToSet(W) /\ Increasing(W)
    BY <1>1 DEF ThinkingShown, Told, WholeRight
  <2> HIDE DEF thinking, W, whole
  <2>2. thinking = Those(W, {i \in DOMAIN W : W[i] \in ToSet(thinking)})
    BY <1>3, <1>4, <2>1, ThoseAre
  <2> QED
    BY <1>2, <2>2, Zenon
<1>7. claude.client.stops[1] = "tool_use" <=> ToolUses # {}
  <2>1. claude.client.stops = <<StopOf(claude)>>
    BY DEF AInv, StopsRight
  <2>2. claude.client.stops[1] = StopOf(claude)
    BY <2>1
  <2>3. ToolUses = Uses(claude)
    BY DEF ToolUses, Uses
  <2> QED
    BY <1>1, <2>2, <2>3 DEF StopOf, Noted
<1> QED
  BY <1>5, <1>6, <1>7 DEF ClaudeStreamIsFinal

\* A stream that was not broken off is the whole message for Anthropic clients too:
\* all its text, its thinking as far as the upstream streamed it and in the order
\* of the whole, whichever blocks and events brought it, and the stop reason is
\* tool_use exactly if the client was sent a call.
THEOREM ClaudeStreamIsTheResponse == ExchangeSpec => []ClaudeStreamIsFinal
<1>1. ExchangeSpec => []IInv
  BY InitHolds, StepKeeps, PTL DEF ExchangeSpec
<1>2. ExchangeSpec => []CInv
  BY CInvInit, CInvNext, PTL DEF ExchangeSpec
<1>3. Init => AInv
  BY AInvInit
<1>4. IInv /\ CInv /\ AInv /\ IInv' /\ [ExchangeNext]_vars => AInv'
  BY AInvNext
<1>5. IInv /\ CInv /\ AInv => ClaudeStreamIsFinal
  BY AInvFinal
<1> QED
  BY <1>1, <1>2, <1>3, <1>4, <1>5, PTL DEF ExchangeSpec
=============================================================================
