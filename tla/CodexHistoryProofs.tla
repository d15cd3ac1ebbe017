------------------------- MODULE CodexHistoryProofs -------------------------
(***************************************************************************)
(* What the upstream of codex-proxy gets of a client's conversation, in    *)
(* whichever of the APIs it is written and each time the client asks       *)
(* again: all of it, once and in order (HistoryKept).                      *)
(***************************************************************************)
EXTENDS CodexExchangeProofs

(***************************************************************************)
(* Lists made of lists: each element of a list stands for the list that F  *)
(* gives it.  All that the translators do with a conversation is this.     *)
(***************************************************************************)
Flat(F, q) == FlattenSeq([i \in DOMAIN q |-> F[q[i]]])
Gives(F, A, B) == \A a \in A : F[a] \in Seq(B)

\* A set of lists that has the empty one, and with a list each list that is longer
\* by one element, has every list.
LEMMA AllLists ==
    ASSUME NEW A, NEW P, <<>> \in P, \A q \in Seq(A), e \in A : q \in P => Append(q, e) \in P
    PROVE  Seq(A) \subseteq P
<1> DEFINE T == {n \in Nat : \A q \in Seq(A) : Len(q) = n => q \in P}
<1>1. 0 \in T
  <2>1. \A q \in Seq(A) : Len(q) = 0 => q = <<>>
    OBVIOUS
  <2> QED
    BY <2>1
<1>2. ASSUME NEW n \in Nat, n \in T
      PROVE  n + 1 \in T
  <2> SUFFICES ASSUME NEW q \in Seq(A), Len(q) = n + 1
               PROVE  q \in P
    OBVIOUS
  <2> DEFINE r == [i \in 1 .. n |-> q[i]]
             e == q[n + 1]
  <2>1. r \in Seq(A) /\ Len(r) = n /\ e \in A
    <3>1. \A i \in 1 .. n : q[i] \in A
      OBVIOUS
    <3> QED
      BY <3>1
  <2>3. q = Append(r, e)
    <3> HIDE DEF e
    <3>1. /\ Append(r, e) \in Seq(A) /\ Len(Append(r, e)) = n + 1 /\ Append(r, e)[n + 1] = e
          /\ \A i \in 1 .. n : Append(r, e)[i] = q[i]
      BY <2>1
    <3>2. \A i \in 1 .. n + 1 : i = n + 1 \/ i \in 1 .. n
      OBVIOUS
    <3>3. \A i \in 1 .. n + 1 : Append(r, e)[i] = q[i]
      BY <3>1, <3>2 DEF e
    <3> HIDE DEF r
    <3> QED
      BY <3>1, <3>3
  <2>2. r \in P
    BY <1>2, <2>1
  <2> QED
    BY <2>1, <2>2, <2>3
<1> HIDE DEF T
<1>3. Nat \subseteq T
  BY <1>1, <1>2, AllNaturals
<1> QED
  BY <1>3 DEF T

LEMMA Given ==
    ASSUME NEW A, NEW B, NEW F, Gives(F, A, B), NEW a \in A
    PROVE  F[a] \in Seq(B)
BY DEF Gives

LEMMA FlatEmpty == \A F : Flat(F, <<>>) = <<>>
<1> SUFFICES ASSUME NEW F PROVE Flat(F, <<>>) = <<>>
  OBVIOUS
<1>1. [i \in DOMAIN <<>> |-> F[<<>>[i]]] = <<>>
  OBVIOUS
<1> QED
  BY <1>1, FlattenEmpty DEF Flat

LEMMA FlatLonger ==
    ASSUME NEW A, NEW B, NEW F, Gives(F, A, B), NEW q \in Seq(A), NEW e \in A
    PROVE  Flat(F, Append(q, e)) = Flat(F, q) \o F[e] /\ Flat(F, q) \in Seq(B)
<1> DEFINE n == Len(q)
           r == Append(q, e)
           qs == [i \in 1 .. n |-> F[q[i]]]
           rs == [i \in 1 .. n + 1 |-> F[r[i]]]
<1>1. /\ n \in Nat /\ DOMAIN q = 1 .. n /\ DOMAIN r = 1 .. n + 1 /\ r[n + 1] = e
      /\ \A i \in 1 .. n : r[i] = q[i]
      /\ \A i \in 1 .. n + 1 : r[i] \in A
  OBVIOUS
<1>2. Flat(F, q) = FlattenSeq(qs) /\ Flat(F, r) = FlattenSeq(rs)
  BY <1>1 DEF Flat
<1> HIDE DEF r, n
<1>3. /\ DOMAIN qs = 1 .. n /\ DOMAIN rs = 1 .. n + 1
      /\ qs = [i \in 1 .. n |-> qs[i]] /\ rs = [i \in 1 .. n + 1 |-> rs[i]]
      /\ \A i \in 1 .. n + 1 : rs[i] = F[r[i]]
      /\ \A i \in 1 .. n : qs[i] = F[q[i]]
  OBVIOUS
<1> HIDE DEF qs, rs
<1>4. \A i \in 1 .. n + 1 : rs[i] \in Seq(B)
  <2>1. \A a \in A : F[a] \in Seq(B)
    BY Given
  <2> QED
    BY <1>1, <1>3, <2>1
<1>5. \A i \in 1 .. n : qs[i] = rs[i]
  <2>1. \A i \in 1 .. n : i \in 1 .. n + 1
    BY <1>1
  <2> QED
    BY <1>1, <1>3, <2>1
<1>6. FlattenSeq(rs) = FlattenSeq(qs) \o rs[n + 1] /\ FlattenSeq(qs) \in Seq(B)
  BY <1>1, <1>3, <1>4, <1>5, FlattenLonger
<1>7. n + 1 \in 1 .. n + 1
  BY <1>1
<1>8. rs[n + 1] = F[e]
  BY <1>1, <1>3, <1>7
<1> QED
  BY <1>2, <1>6, <1>8 DEF r

LEMMA FlatTyped ==
    ASSUME NEW A, NEW B, NEW F, Gives(F, A, B), NEW q \in Seq(A)
    PROVE  Flat(F, q) \in Seq(B)
<1> DEFINE P == {x \in Seq(A) : Flat(F, x) \in Seq(B)}
<1>1. <<>> \in P
  <2>1. Flat(F, <<>>) = <<>>
    BY FlatEmpty
  <2>2. <<>> \in Seq(A) /\ <<>> \in Seq(B)
    OBVIOUS
  <2> QED
    BY <2>1, <2>2, Zenon
<1>2. ASSUME NEW x \in Seq(A), NEW e \in A, x \in P
      PROVE  Append(x, e) \in P
  <2>1. Flat(F, Append(x, e)) = Flat(F, x) \o F[e]
    BY FlatLonger
  <2>2. F[e] \in Seq(B) /\ Append(x, e) \in Seq(A)
    BY Given
  <2>3. Flat(F, x) \o F[e] \in Seq(B)
    BY <1>2, <2>2
  <2> QED
    BY <2>1, <2>2, <2>3
<1> HIDE DEF P
<1>3. Seq(A) \subseteq P
  BY <1>1, <1>2, AllLists
<1> QED
  BY <1>3 DEF P

LEMMA FlatJoin ==
    ASSUME NEW A, NEW B, NEW F, Gives(F, A, B), NEW p \in Seq(A), NEW q \in Seq(A)
    PROVE  Flat(F, p \o q) = Flat(F, p) \o Flat(F, q)
<1> DEFINE P == {x \in Seq(A) : Flat(F, p \o x) = Flat(F, p) \o Flat(F, x)}
<1>0. Flat(F, p) \in Seq(B)
  BY FlatTyped
<1>1. <<>> \in P
  <2>1. p \o <<>> = p /\ Flat(F, p) \o <<>> = Flat(F, p) /\ <<>> \in Seq(A)
    BY <1>0
  <2>2. Flat(F, <<>>) = <<>>
    BY FlatEmpty
  <2> QED
    BY <2>1, <2>2, Zenon
<1>2. ASSUME NEW x \in Seq(A), NEW e \in A, x \in P
      PROVE  Append(x, e) \in P
  <2>1. p \o Append(x, e) = Append(p \o x, e) /\ p \o x \in Seq(A) /\ Append(x, e) \in Seq(A)
    OBVIOUS
  <2>0. \A y \in Seq(A) : Flat(F, Append(y, e)) = Flat(F, y) \o F[e] /\ Flat(F, y) \in Seq(B)
    BY FlatLonger
  <2>2. Flat(F, Append(p \o x, e)) = Flat(F, p \o x) \o F[e]
    BY <2>0, <2>1
  <2>5. F[e] \in Seq(B)
    BY Given
  <2>3. Flat(F, Append(x, e)) = Flat(F, x) \o F[e] /\ Flat(F, x) \in Seq(B) /\ F[e] \in Seq(B)
    BY <2>0, <2>5
  <2>4. (Flat(F, p) \o Flat(F, x)) \o F[e] = Flat(F, p) \o (Flat(F, x) \o F[e])
    <3>1. \A a, b, c \in Seq(B) : a \o (b \o c) = (a \o b) \o c
      OBVIOUS
    <3> QED
      BY <1>0, <2>3, <3>1, Zenon
  <2> QED
    BY <1>2, <2>1, <2>2, <2>3, <2>4
<1> HIDE DEF P
<1>3. Seq(A) \subseteq P
  BY <1>1, <1>2, AllLists
<1> QED
  BY <1>3 DEF P

\* A list of lists of lists.
LEMMA FlatTwice ==
    ASSUME NEW A, NEW B, NEW C, NEW F, Gives(F, A, B), NEW G, Gives(G, B, C),
           NEW H, Gives(H, A, C), \A a \in A : Flat(G, F[a]) = H[a], NEW q \in Seq(A)
    PROVE  Flat(G, Flat(F, q)) = Flat(H, q)
<1> DEFINE P == {x \in Seq(A) : Flat(G, Flat(F, x)) = Flat(H, x)}
<1>1. <<>> \in P
  BY FlatEmpty
<1>2. ASSUME NEW x \in Seq(A), NEW e \in A, x \in P
      PROVE  Append(x, e) \in P
  <2>1. Flat(F, Append(x, e)) = Flat(F, x) \o F[e] /\ Flat(F, x) \in Seq(B)
    BY FlatLonger
  <2>2. Flat(H, Append(x, e)) = Flat(H, x) \o H[e]
    BY FlatLonger
  <2>3. F[e] \in Seq(B) /\ Append(x, e) \in Seq(A)
    BY Given
  <2>4. Flat(G, Flat(F, x) \o F[e]) = Flat(G, Flat(F, x)) \o Flat(G, F[e])
    BY <2>1, <2>3, FlatJoin
  <2> QED
    BY <1>2, <2>1, <2>2, <2>3, <2>4
<1> HIDE DEF P
<1>3. Seq(A) \subseteq P
  BY <1>1, <1>2, AllLists
<1> QED
  BY <1>3 DEF P

LEMMA FlatOne ==
    ASSUME NEW A, NEW B, NEW F, Gives(F, A, B), NEW a \in A
    PROVE  Flat(F, <<a>>) = F[a]
<1>1. <<a>> = Append(<<>>, a) /\ <<>> \in Seq(A) /\ F[a] \in Seq(B)
  BY Given
<1>2. Flat(F, Append(<<>>, a)) = Flat(F, <<>>) \o F[a]
  <2>1. \A y \in Seq(A) : Flat(F, Append(y, a)) = Flat(F, y) \o F[a]
    BY FlatLonger
  <2> QED
    BY <1>1, <2>1, Zenon
<1>3. <<>> \o F[a] = F[a]
  BY <1>1
<1> QED
  BY <1>1, <1>2, <1>3, FlatEmpty

\* An element of it is an element of the list that stands for some element.
LEMMA FlatElements ==
    ASSUME NEW A, NEW B, NEW F, Gives(F, A, B), NEW q \in Seq(A)
    PROVE  \A i \in 1 .. Len(Flat(F, q)) : \E j \in 1 .. Len(q) :
              \E k \in 1 .. Len(F[q[j]]) : Flat(F, q)[i] = F[q[j]][k]
<1> DEFINE E(x) == \A n \in 1 .. Len(Flat(F, x)) : \E j \in 1 .. Len(x) :
                      \E k \in 1 .. Len(F[x[j]]) : Flat(F, x)[n] = F[x[j]][k]
           P == {x \in Seq(A) : E(x)}
<1>1. <<>> \in P
  BY FlatEmpty
<1>2. ASSUME NEW x \in Seq(A), NEW e \in A, x \in P
      PROVE  Append(x, e) \in P
  <2> DEFINE y == Append(x, e)
  <2>1. Flat(F, y) = Flat(F, x) \o F[e] /\ Flat(F, x) \in Seq(B)
    BY FlatLonger
  <2>2. /\ F[e] \in Seq(B) /\ y \in Seq(A) /\ Len(x) \in Nat /\ Len(y) = Len(x) + 1
        /\ y[Len(x) + 1] = e /\ \A j \in 1 .. Len(x) : y[j] = x[j]
    <3>1. F[e] \in Seq(B)
      BY Given
    <3> QED
      BY <3>1
  <2> HIDE DEF y
  <2> SUFFICES ASSUME NEW n \in 1 .. Len(Flat(F, y))
               PROVE  \E j \in 1 .. Len(y) : \E k \in 1 .. Len(F[y[j]]) : Flat(F, y)[n] = F[y[j]][k]
    BY <2>2 DEF y
  <2> DEFINE u == Flat(F, x)
             v == F[e]
  <2>3. /\ Len(u) \in Nat /\ Len(v) \in Nat /\ n \in 1 .. Len(u) + Len(v)
        /\ Flat(F, y)[n] = IF n <= Len(u) THEN u[n] ELSE v[n - Len(u)]
    <3> HIDE DEF u, v
    <3>1. u \in Seq(B) /\ v \in Seq(B) /\ Flat(F, y) = u \o v
      BY <2>1, <2>2 DEF u, v
    <3> QED
      BY <3>1
  <2>4. CASE n <= Len(u)
    <3>1. n \in 1 .. Len(u)
      BY <2>3, <2>4
    <3>2. PICK j \in 1 .. Len(x) : \E k \in 1 .. Len(F[x[j]]) : u[n] = F[x[j]][k]
      BY <1>2, <3>1
    <3>3. j \in 1 .. Len(y) /\ y[j] = x[j]
      BY <2>2
    <3> HIDE DEF u, v, P
    <3> QED
      BY <2>3, <2>4, <3>2, <3>3
  <2>5. CASE ~(n <= Len(u))
    <3> HIDE DEF u, P
    <3>1. n - Len(u) \in 1 .. Len(v)
      BY <2>3, <2>5
    <3>2. Len(x) + 1 \in 1 .. Len(y)
      BY <2>2
    <3> QED
      BY <2>2, <2>3, <2>5, <3>1, <3>2
  <2> QED
    BY <2>4, <2>5
<1> HIDE DEF P
<1>3. Seq(A) \subseteq P
  BY <1>1, <1>2, AllLists
<1> QED
  BY <1>3 DEF P

LEMMA FlatNone ==
    ASSUME NEW A, NEW B, NEW F, Gives(F, A, B), NEW q \in Seq(A),
           \A i \in DOMAIN q : F[q[i]] = <<>>
    PROVE  Flat(F, q) = <<>>
<1>1. Flat(F, q) \in Seq(B)
  BY FlatTyped
<1>2. ASSUME NEW i \in 1 .. Len(Flat(F, q)) PROVE FALSE
  <2>1. PICK j \in 1 .. Len(q) : \E k \in 1 .. Len(F[q[j]]) : Flat(F, q)[i] = F[q[j]][k]
    BY FlatElements
  <2>2. F[q[j]] = <<>>
    OBVIOUS
  <2> QED
    BY <2>1, <2>2
<1>3. Len(Flat(F, q)) \in Nat /\ (Len(Flat(F, q)) > 0 => 1 \in 1 .. Len(Flat(F, q)))
  BY <1>1
<1>4. Len(Flat(F, q)) = 0
  BY <1>2, <1>3
<1> QED
  BY <1>1, <1>4
-----------------------------------------------------------------------------
\* A list with each element replaced by another is such a list of lists.
Ones(F, f, A, B) == Gives(F, A, B) /\ \A a \in A : f[a] \in B /\ F[a] = <<f[a]>>

LEMMA MapIsFlat ==
    ASSUME NEW A, NEW B, NEW f, NEW F, Ones(F, f, A, B), NEW q \in Seq(A)
    PROVE  Flat(F, q) = [i \in DOMAIN q |-> f[q[i]]]
<1> DEFINE M(x) == [i \in 1 .. Len(x) |-> f[x[i]]]
           P == {x \in Seq(A) : Flat(F, x) = M(x)}
<1>0. Gives(F, A, B) /\ \A a \in A : f[a] \in B /\ F[a] = <<f[a]>>
  BY DEF Ones
<1>1. <<>> \in P
  <2>1. Flat(F, <<>>) = <<>>
    BY FlatEmpty
  <2>2. M(<<>>) = <<>> /\ <<>> \in Seq(A)
    OBVIOUS
  <2> HIDE DEF M
  <2> QED
    BY <2>1, <2>2, Zenon
<1>2. ASSUME NEW x \in Seq(A), NEW e \in A, x \in P
      PROVE  Append(x, e) \in P
  <2> DEFINE y == Append(x, e)
  <2>1. Flat(F, y) = Flat(F, x) \o F[e]
    BY <1>0, FlatLonger
  <2>2. /\ y \in Seq(A) /\ Len(x) \in Nat /\ Len(y) = Len(x) + 1
        /\ y[Len(x) + 1] = e /\ \A j \in 1 .. Len(x) : y[j] = x[j]
    OBVIOUS
  <2> HIDE DEF y
  <2>3. M(x) \in Seq(B)
    <3>1. \A i \in 1 .. Len(x) : f[x[i]] \in B
      BY <1>0
    <3> QED
      BY <2>2, <3>1
  <2>4. f[e] \in B /\ F[e] = <<f[e]>>
    BY <1>0
  <2>5. M(x) \o <<f[e]>> = M(y)
    <3> DEFINE b == f[e]
               u == M(x)
               v == M(y)
    <3>1. /\ DOMAIN u = 1 .. Len(x) /\ DOMAIN v = 1 .. Len(x) + 1
          /\ v[Len(x) + 1] = b /\ \A j \in 1 .. Len(x) : v[j] = u[j]
      <4>1. \A j \in 1 .. Len(x) + 1 : j \in 1 .. Len(y)
        BY <2>2
      <4>2. \A j \in 1 .. Len(x) : j \in 1 .. Len(y)
        BY <2>2
      <4>3. Len(x) + 1 \in 1 .. Len(y)
        BY <2>2
      <4> QED
        BY <2>2, <4>1, <4>2, <4>3
    <3>2. v = [i \in 1 .. Len(x) + 1 |-> v[i]]
      BY <2>2
    <3> HIDE DEF u, v, b
    <3>3. u \in Seq(B) /\ b \in B
      BY <2>3, <2>4 DEF u, b
    <3>4. Len(u) = Len(x)
      BY <2>2, <3>1, <3>3
    <3>5. /\ DOMAIN (u \o <<b>>) = 1 .. Len(x) + 1 /\ (u \o <<b>>)[Len(x) + 1] = b
          /\ \A j \in 1 .. Len(x) : (u \o <<b>>)[j] = u[j]
          /\ u \o <<b>> \in Seq(B)
      <4>1. PICK n \in Nat : n = Len(x)
        BY <2>2
      <4>2. u \in Seq(B) /\ b \in B /\ Len(u) = n
        BY <3>3, <3>4, <4>1
      <4>3. /\ DOMAIN (u \o <<b>>) = 1 .. n + 1 /\ (u \o <<b>>)[n + 1] = b
            /\ \A j \in 1 .. n : (u \o <<b>>)[j] = u[j]
            /\ u \o <<b>> \in Seq(B)
        BY ONLY <4>2, n \in Nat
      <4> QED
        BY <4>1, <4>3
    <3>6. u \o <<b>> = v
      <4> DEFINE w == u \o <<b>>
      <4>1. w = [i \in DOMAIN w |-> w[i]]
        BY <3>5
      <4> HIDE DEF w
      <4>2. \A j \in 1 .. Len(x) + 1 : j = Len(x) + 1 \/ j \in 1 .. Len(x)
        BY <2>2
      <4>3. \A j \in 1 .. Len(x) + 1 : w[j] = v[j]
        BY <3>1, <3>5, <4>2 DEF w
      <4> QED
        BY <3>1, <3>2, <3>5, <4>1, <4>3 DEF w
    <3> QED
      BY <3>6 DEF u, v, b
  <2> HIDE DEF M
  <2>6. Flat(F, x) = M(x)
    BY <1>2
  <2>7. Flat(F, y) = M(y)
    BY <2>1, <2>4, <2>5, <2>6
  <2> QED
    BY <2>2, <2>7 DEF y
<1> HIDE DEF P, M
<1>3. Seq(A) \subseteq P
  BY <1>1, <1>2, AllLists
<1>4. Flat(F, q) = M(q)
  BY <1>3 DEF P
<1> QED
  BY <1>4 DEF M

Picked(A, T) == [a \in A |-> IF a.type \in T THEN <<a>> ELSE <<>>]
IdOf(A, T) == [a \in A |-> IF a.type \in T THEN <<a.id>> ELSE <<>>]

LEMMA PickedGives ==
    ASSUME NEW A, NEW T
    PROVE  Gives(Picked(A, T), A, {a \in A : a.type \in T}) /\ Gives(Picked(A, T), A, A)
<1> DEFINE B == {a \in A : a.type \in T}
<1>1. \A a \in A : a.type \in T => <<a>> \in Seq(B)
  <2> SUFFICES ASSUME NEW a \in A, a.type \in T PROVE <<a>> \in Seq(B)
    OBVIOUS
  <2>1. a \in B
    OBVIOUS
  <2> QED
    BY ONLY <2>1
<1>2. \A a \in A : <<a>> \in Seq(A)
  OBVIOUS
<1> HIDE DEF B
<1>3. <<>> \in Seq(A) /\ <<>> \in Seq(B)
  OBVIOUS
<1>4. Gives(Picked(A, T), A, A)
  BY <1>2, <1>3 DEF Gives, Picked
<1>5. Gives(Picked(A, T), A, B)
  BY <1>1, <1>3 DEF Gives, Picked
<1> QED
  BY <1>4, <1>5 DEF B

LEMMA OfTypeIsFlat ==
    ASSUME NEW A, NEW T, NEW q \in Seq(A)
    PROVE  /\ OfType(q, T) = Flat(Picked(A, T), q)
           /\ OfType(q, T) \in Seq({a \in A : a.type \in T}) /\ OfType(q, T) \in Seq(A)
<1>1. \A i \in DOMAIN q : q[i] \in A
  OBVIOUS
<1>2. [i \in DOMAIN q |-> IF i \in {j \in DOMAIN q : q[j].type \in T} THEN <<q[i]>> ELSE <<>>]
      = [i \in DOMAIN q |-> Picked(A, T)[q[i]]]
  <2>1. \A i \in DOMAIN q : Picked(A, T)[q[i]] = IF q[i].type \in T THEN <<q[i]>> ELSE <<>>
    BY <1>1 DEF Picked
  <2> QED
    BY <2>1
<1>3. OfType(q, T) = Flat(Picked(A, T), q)
  BY <1>2 DEF OfType, Those, Flat
<1>4. Flat(Picked(A, T), q) \in Seq(A) /\ Flat(Picked(A, T), q) \in Seq({a \in A : a.type \in T})
  BY PickedGives, FlatTyped
<1> QED
  BY <1>3, <1>4

\* The ids of the elements of some types.
LEMMA IdsAreFlat ==
    ASSUME NEW A, NEW T, \A a \in A : a.type \in T => a.id \in Nat
    PROVE  /\ Gives(IdOf(A, T), A, Nat)
           /\ \A q \in Seq(A) : Ids(OfType(q, T)) = Flat(IdOf(A, T), q)
<1> DEFINE B == {a \in A : a.type \in T}
           F == Picked(A, T)
           f == [a \in B |-> a.id]
           G == [a \in B |-> <<f[a]>>]
           H == IdOf(A, T)
<1>1. Gives(F, A, B)
  BY PickedGives
<1>2. \A a \in B : f[a] \in Nat
  OBVIOUS
<1>3. Gives(G, B, Nat)
  <2>1. \A a \in B : <<f[a]>> \in Seq(Nat)
    BY <1>2
  <2> QED
    BY <2>1 DEF Gives
<1>4. Gives(H, A, Nat)
  <2>1. \A n \in Nat : <<n>> \in Seq(Nat)
    OBVIOUS
  <2>2. <<>> \in Seq(Nat)
    OBVIOUS
  <2>3. \A a \in A : (IF a.type \in T THEN <<a.id>> ELSE <<>>) \in Seq(Nat)
    BY <2>1, <2>2
  <2> QED
    BY <2>3 DEF Gives, IdOf
<1>5. \A a \in A : Flat(G, F[a]) = H[a]
  <2> SUFFICES ASSUME NEW a \in A PROVE Flat(G, F[a]) = H[a]
    OBVIOUS
  <2>1. CASE a.type \in T
    <3>1. F[a] = <<a>> /\ H[a] = <<a.id>> /\ a \in B
      BY <2>1 DEF Picked, IdOf
    <3>2. G[a] = <<a.id>>
      BY <3>1
    <3> HIDE DEF G, F, H, B
    <3>3. Flat(G, <<a>>) = G[a]
      BY <1>3, <3>1, FlatOne
    <3> QED
      BY <3>1, <3>2, <3>3
  <2>2. CASE a.type \notin T
    <3>1. F[a] = <<>> /\ H[a] = <<>>
      BY <2>2 DEF Picked, IdOf
    <3> QED
      BY <3>1, FlatEmpty
  <2> QED
    BY <2>1, <2>2
<1>6. ASSUME NEW q \in Seq(A)
      PROVE  Ids(OfType(q, T)) = Flat(H, q)
  <2> DEFINE p == OfType(q, T)
  <2>1. p \in Seq(B) /\ p = Flat(F, q)
    BY OfTypeIsFlat
  <2> HIDE DEF p, F, H
  <2>2. Ids(p) = [i \in DOMAIN p |-> f[p[i]]]
    <3>1. \A i \in DOMAIN p : p[i] \in B
      BY <2>1
    <3>2. \A i \in DOMAIN p : p[i].id = f[p[i]]
      BY <3>1
    <3> HIDE DEF f, B
    <3> QED
      BY <3>2 DEF Ids
  <2>3. \A a \in B : G[a] = <<f[a]>>
    OBVIOUS
  <2> HIDE DEF f, G, B
  <2>6. Ones(G, f, B, Nat)
    BY <1>2, <1>3, <2>3 DEF Ones
  <2>4. Flat(G, p) = [i \in DOMAIN p |-> f[p[i]]]
    BY <2>1, <2>6, MapIsFlat
  <2>5. Flat(G, Flat(F, q)) = Flat(H, q)
    BY <1>1, <1>3, <1>4, <1>5, FlatTwice
  <2> QED
    BY <2>1, <2>2, <2>4, <2>5 DEF p
<1> QED
  BY <1>4, <1>6

\* Elements of some types, of some types of them.
LEMMA OfTypeTwice ==
    ASSUME NEW A, NEW T, NEW U, NEW q \in Seq(A)
    PROVE  OfType(OfType(q, T), U) = OfType(q, T \cap U)
<1> DEFINE F == Picked(A, T)
           G == Picked(A, U)
           H == Picked(A, T \cap U)
<1>1. Gives(F, A, A) /\ Gives(G, A, A) /\ Gives(H, A, A)
  BY PickedGives
<1>2. \A a \in A : Flat(G, F[a]) = H[a]
  <2> SUFFICES ASSUME NEW a \in A PROVE Flat(G, F[a]) = H[a]
    OBVIOUS
  <2>1. CASE a.type \in T
    <3>1. F[a] = <<a>> /\ H[a] = G[a]
      BY <2>1 DEF Picked
    <3> HIDE DEF F, G, H
    <3> QED
      BY <1>1, <3>1, FlatOne
  <2>2. CASE a.type \notin T
    <3>1. F[a] = <<>> /\ H[a] = <<>>
      BY <2>2 DEF Picked
    <3> QED
      BY <3>1, FlatEmpty
  <2> QED
    BY <2>1, <2>2
<1>3. OfType(q, T) = Flat(F, q) /\ OfType(q, T) \in Seq(A) /\ OfType(q, T \cap U) = Flat(H, q)
  BY OfTypeIsFlat
<1>4. OfType(OfType(q, T), U) = Flat(G, OfType(q, T))
  <2>1. \A p \in Seq(A) : OfType(p, U) = Flat(G, p)
    BY OfTypeIsFlat
  <2> QED
    BY <1>3, <2>1, Zenon
<1> HIDE DEF F, G, H
<1>5. Flat(G, Flat(F, q)) = Flat(H, q)
  BY <1>1, <1>2, FlatTwice
<1> QED
  BY <1>3, <1>4, <1>5

\* Where there are no others, and where there are none.
LEMMA OfTypeNone ==
    ASSUME NEW A, NEW T, NEW q \in Seq(A), \A i \in DOMAIN q : q[i].type \notin T
    PROVE  OfType(q, T) = <<>>
<1> DEFINE F == Picked(A, T)
<1>1. OfType(q, T) = Flat(F, q)
  BY OfTypeIsFlat
<1>2. \A j \in DOMAIN q : F[q[j]] = <<>>
  <2>1. \A j \in DOMAIN q : q[j] \in A /\ q[j].type \notin T
    OBVIOUS
  <2> QED
    BY <2>1 DEF Picked
<1>3. Gives(F, A, A)
  BY PickedGives
<1> HIDE DEF F
<1>4. Flat(F, q) = <<>>
  BY <1>2, <1>3, FlatNone
<1> QED
  BY <1>1, <1>4

LEMMA OfTypeFew ==
    ASSUME NEW A, NEW T, NEW q \in Seq(A)
    PROVE  /\ Len(OfType(q, T)) <= Len(q)
           /\ Len(OfType(q, T)) = Len(q) => \A i \in DOMAIN q : q[i].type \in T
<1> DEFINE F == Picked(A, T)
           E(x) == /\ Len(Flat(F, x)) <= Len(x)
                   /\ Len(Flat(F, x)) = Len(x) => \A i \in 1 .. Len(x) : x[i].type \in T
           P == {x \in Seq(A) : E(x)}
<1>0. Gives(F, A, A)
  BY PickedGives
<1>1. <<>> \in P
  <2>1. Flat(F, <<>>) = <<>>
    BY FlatEmpty
  <2>2. E(<<>>)
    BY <2>1
  <2> QED
    BY <2>2
<1>2. ASSUME NEW x \in Seq(A), NEW e \in A, x \in P
      PROVE  Append(x, e) \in P
  <2> DEFINE y == Append(x, e)
  <2>1. F[e] = IF e.type \in T THEN <<e>> ELSE <<>>
    BY DEF Picked
  <2> HIDE DEF F
  <2>2. Flat(F, y) = Flat(F, x) \o F[e] /\ Flat(F, x) \in Seq(A)
    BY <1>0, FlatLonger
  <2>3. /\ y \in Seq(A) /\ Len(x) \in Nat /\ Len(y) = Len(x) + 1
        /\ y[Len(x) + 1] = e /\ \A j \in 1 .. Len(x) : y[j] = x[j]
    OBVIOUS
  <2> HIDE DEF y
  <2>4. \A j \in 1 .. Len(x) + 1 : j = Len(x) + 1 \/ j \in 1 .. Len(x)
    BY <2>3
  <2>5. E(x)
    BY <1>2
  <2>6. PICK u \in Seq(A) : u = Flat(F, x)
    BY <2>2
  <2>7. E(y)
    <3>1. CASE e.type \in T
      <4>1. Len(Flat(F, y)) = Len(u) + 1
        BY <2>1, <2>2, <2>6, <3>1
      <4> QED
        BY <2>3, <2>4, <2>5, <2>6, <3>1, <4>1
    <3>2. CASE e.type \notin T
      <4>1. Len(Flat(F, y)) = Len(u)
        BY <2>1, <2>2, <2>6, <3>2
      <4> QED
        BY <2>3, <2>5, <2>6, <4>1
    <3> QED
      BY <3>1, <3>2
  <2> QED
    BY <2>3, <2>7 DEF y
<1> HIDE DEF P
<1>3. Seq(A) \subseteq P
  BY <1>1, <1>2, AllLists
<1>4. E(q) /\ OfType(q, T) = Flat(F, q)
  BY <1>3, OfTypeIsFlat DEF P
<1> QED
  BY <1>4

\* The elements at all places.
LEMMA ThoseAll ==
    ASSUME NEW A, NEW q \in Seq(A), NEW K, \A i \in DOMAIN q : i \in K
    PROVE  Those(q, K) = q
<1> DEFINE f == [a \in A |-> a]
           F == [a \in A |-> <<f[a]>>]
<1>1. Gives(F, A, A)
  <2>1. \A a \in A : <<f[a]>> \in Seq(A)
    OBVIOUS
  <2> QED
    BY <2>1 DEF Gives
<1>2. \A a \in A : f[a] \in A /\ F[a] = <<f[a]>>
  OBVIOUS
<1>3. \A i \in DOMAIN q : q[i] \in A
  OBVIOUS
<1>4. \A i \in DOMAIN q : F[q[i]] = <<q[i]>> /\ f[q[i]] = q[i]
  BY <1>3
<1>5. q = [i \in DOMAIN q |-> q[i]]
  OBVIOUS
<1> HIDE DEF F, f
<1>9. Ones(F, f, A, A)
  BY <1>1, <1>2 DEF Ones
<1>6. Flat(F, q) = [i \in DOMAIN q |-> f[q[i]]]
  BY <1>9, MapIsFlat
<1>7. [i \in DOMAIN q |-> IF i \in K THEN <<q[i]>> ELSE <<>>] = [i \in DOMAIN q |-> F[q[i]]]
  BY <1>4
<1>8. [i \in DOMAIN q |-> f[q[i]]] = [i \in DOMAIN q |-> q[i]]
  BY <1>4
<1> QED
  BY <1>5, <1>6, <1>7, <1>8 DEF Those, Flat
-----------------------------------------------------------------------------
(***************************************************************************)
(* The messages of the OpenAI API and the items they become.               *)
(***************************************************************************)
Roles == STRING \cup {"developer", "user", "assistant"}
Parts == [type : BlockTypes, id : Nat, name : Seq(STRING)]
UpMessages == [type : {"message"}, role : Roles, parts : Seq(Parts)]
UpCalls == [type : {"function_call"}, id : Nat, name : Seq(STRING)]
UpOutputs == [type : {"function_call_output"}, id : Nat]
UpItems == UpMessages \cup UpCalls \cup UpOutputs

\* What HistoryKept compares, of an item and of a message.
SaidIn(item) == LET ids == Ids(item.parts) IN Those(ids, {i \in DOMAIN ids : ids[i] # 0})
ItemSays == [item \in UpItems |-> IF item.type = "message" THEN SaidIn(item) ELSE <<>>]
ItemCalls == IdOf(UpItems, {"function_call"})
ItemAnswers == IdOf(UpItems, {"function_call_output"})

Sayable(role) == IF role = "user" THEN Texts \cup {"image"} ELSE Texts
ChatSays == [m \in ChatMessages |-> Ids(OfType(m.parts, Sayable(m.role)))]
ChatCalls == [m \in ChatMessages |-> Ids(m.calls)]
ChatAnswers == [m \in ChatMessages |-> IF m.role = "tool" THEN <<m.answers>> ELSE <<>>]

Items(tools) == [m \in ChatMessages |-> InputItems(m, tools)]

LEMMA ItemKinds ==
    ASSUME NEW item \in UpItems
    PROVE  /\ item.type = "message" => item \in UpMessages
           /\ item.type = "function_call" => item \in UpCalls
           /\ item.type = "function_call_output" => item \in UpOutputs
           /\ item.type \in {"message", "function_call", "function_call_output"}
<1>1. \A x \in UpMessages : x.type = "message"
  BY DEF UpMessages
<1>2. \A x \in UpCalls : x.type = "function_call"
  BY DEF UpCalls
<1>3. \A x \in UpOutputs : x.type = "function_call_output"
  BY DEF UpOutputs
<1> QED
  BY <1>1, <1>2, <1>3 DEF UpItems

LEMMA BlockFacts ==
    /\ \A b \in Blocks : b.type \in BlockTypes /\ b.id \in Nat \ {0} /\ b.name \in Seq(STRING)
    /\ \A b \in Parts : b.type \in BlockTypes /\ b.id \in Nat /\ b.name \in Seq(STRING)
    /\ Blocks \subseteq Parts
BY DEF Blocks, Parts

LEMMA IdsTyped ==
    ASSUME NEW q \in Seq(Parts)
    PROVE  Ids(q) \in Seq(Nat) /\ DOMAIN Ids(q) = DOMAIN q /\ Len(Ids(q)) = Len(q)
<1>1. \A i \in 1 .. Len(q) : q[i].id \in Nat
  BY BlockFacts
<1>2. DOMAIN q = 1 .. Len(q) /\ Len(q) \in Nat
  OBVIOUS
<1>3. Ids(q) = [i \in 1 .. Len(q) |-> q[i].id]
  BY <1>2 DEF Ids
<1>4. [i \in 1 .. Len(q) |-> q[i].id] \in Seq(Nat)
  BY <1>1, <1>2
<1>5. DOMAIN [i \in 1 .. Len(q) |-> q[i].id] = 1 .. Len(q)
  OBVIOUS
<1>6. Len(Ids(q)) = Len(q)
  BY <1>2, <1>3, <1>4, <1>5
<1> QED
  BY <1>2, <1>3, <1>4, <1>5, <1>6

LEMMA BlocksAreParts == Seq(Blocks) \subseteq Seq(Parts)
BY BlockFacts

LEMMA NothingSaid == Ids(<<>>) = <<>>
BY DEF Ids

\* What a client says has an id.
LEMMA AllSaid ==
    ASSUME NEW item, item.parts \in Seq(Blocks)
    PROVE  SaidIn(item) = Ids(item.parts)
<1> DEFINE q == item.parts
           ids == Ids(q)
<1>1. q \in Seq(Blocks) /\ q \in Seq(Parts)
  BY BlocksAreParts
<1> HIDE DEF q
<1>2. ids \in Seq(Nat) /\ DOMAIN ids = DOMAIN q
  BY <1>1, IdsTyped
<1>3. \A i \in DOMAIN q : ids[i] # 0
  <2>1. \A i \in DOMAIN q : q[i] \in Blocks
    BY <1>1
  <2>2. \A i \in DOMAIN q : q[i].id # 0
    BY <2>1, BlockFacts
  <2> QED
    BY <2>2 DEF Ids
<1> HIDE DEF ids
<1>4. Those(ids, {i \in DOMAIN ids : ids[i] # 0}) = ids
  <2>1. \A i \in DOMAIN ids : i \in {j \in DOMAIN ids : ids[j] # 0}
    BY <1>2, <1>3
  <2> QED
    BY <1>2, <2>1, ThoseAll
<1> QED
  BY <1>4 DEF SaidIn, ids, q

LEMMA ItemLists ==
    /\ Gives(ItemSays, UpItems, Nat)
    /\ Gives(ItemCalls, UpItems, Nat)
    /\ Gives(ItemAnswers, UpItems, Nat)
<1>1. \A item \in UpItems : item.type = "message" => SaidIn(item) \in Seq(Nat)
  <2> SUFFICES ASSUME NEW item \in UpItems, item.type = "message"
               PROVE  SaidIn(item) \in Seq(Nat)
    OBVIOUS
  <2>1. item.parts \in Seq(Parts)
    BY ItemKinds DEF UpMessages
  <2>2. Ids(item.parts) \in Seq(Nat)
    BY <2>1, IdsTyped
  <2>3. \A K : \A q \in Seq(Nat) : Those(q, K) \in Seq(Nat)
    <3> SUFFICES ASSUME NEW K, NEW q \in Seq(Nat) PROVE Those(q, K) \in Seq(Nat)
      OBVIOUS
    <3>1. 0 \in Nat
      OBVIOUS
    <3> QED
      BY <3>1, ThoseLonger
  <2> QED
    BY <2>2, <2>3 DEF SaidIn
<1>2. Gives(ItemSays, UpItems, Nat)
  <2>1. <<>> \in Seq(Nat)
    OBVIOUS
  <2> QED
    BY <1>1, <2>1 DEF Gives, ItemSays
<1>3. \A item \in UpItems : item.type \in {"function_call"} => item.id \in Nat
  BY ItemKinds DEF UpCalls
<1>4. \A item \in UpItems : item.type \in {"function_call_output"} => item.id \in Nat
  BY ItemKinds DEF UpOutputs
<1>5. Gives(ItemCalls, UpItems, Nat)
  BY <1>3, IdsAreFlat DEF ItemCalls
<1>6. Gives(ItemAnswers, UpItems, Nat)
  BY <1>4, IdsAreFlat DEF ItemAnswers
<1> QED
  BY <1>2, <1>5, <1>6

\* The items of the upstream, compared by lists.
LEMMA ItemsCompared ==
    ASSUME NEW q \in Seq(UpItems)
    PROVE  /\ FlattenSeq([i \in DOMAIN OfType(q, {"message"}) |-> SaidIn(OfType(q, {"message"})[i])])
                = Flat(ItemSays, q)
           /\ Ids(OfType(q, {"function_call"})) = Flat(ItemCalls, q)
           /\ Ids(OfType(q, {"function_call_output"})) = Flat(ItemAnswers, q)
<1>1. \A item \in UpItems : item.type \in {"function_call"} => item.id \in Nat
  BY ItemKinds DEF UpCalls
<1>2. \A item \in UpItems : item.type \in {"function_call_output"} => item.id \in Nat
  BY ItemKinds DEF UpOutputs
<1>3. Ids(OfType(q, {"function_call"})) = Flat(ItemCalls, q)
  BY <1>1, IdsAreFlat DEF ItemCalls
<1>4. Ids(OfType(q, {"function_call_output"})) = Flat(ItemAnswers, q)
  BY <1>2, IdsAreFlat DEF ItemAnswers
<1> DEFINE F == Picked(UpItems, {"message"})
           p == OfType(q, {"message"})
<1>5. p \in Seq({a \in UpItems : a.type \in {"message"}}) /\ p = Flat(F, q) /\ Gives(F, UpItems, UpItems)
  BY OfTypeIsFlat, PickedGives
<1>6. \A a \in UpItems : Flat(ItemSays, F[a]) = ItemSays[a]
  <2> SUFFICES ASSUME NEW a \in UpItems PROVE Flat(ItemSays, F[a]) = ItemSays[a]
    OBVIOUS
  <2>1. CASE a.type = "message"
    <3>1. F[a] = <<a>>
      BY <2>1 DEF Picked
    <3> QED
      BY <3>1, ItemLists, FlatOne
  <2>2. CASE a.type # "message"
    <3>1. F[a] = <<>> /\ ItemSays[a] = <<>>
      BY <2>2 DEF Picked, ItemSays
    <3> QED
      BY <3>1, FlatEmpty
  <2> QED
    BY <2>1, <2>2
<1> HIDE DEF F, p
<1>7. Flat(ItemSays, Flat(F, q)) = Flat(ItemSays, q)
  BY <1>5, <1>6, ItemLists, FlatTwice
<1>8. \A i \in DOMAIN p : ItemSays[p[i]] = SaidIn(p[i])
  <2>1. \A i \in DOMAIN p : p[i] \in UpItems /\ p[i].type = "message"
    BY <1>5
  <2> QED
    BY <2>1 DEF ItemSays
<1>9. [i \in DOMAIN p |-> SaidIn(p[i])] = [i \in DOMAIN p |-> ItemSays[p[i]]]
  BY <1>8
<1>10. FlattenSeq([i \in DOMAIN p |-> SaidIn(p[i])]) = Flat(ItemSays, p)
  BY <1>9 DEF Flat
<1> QED
  BY <1>3, <1>4, <1>5, <1>7, <1>10 DEF p

LEMMA ChatMessageFacts ==
    ASSUME NEW m \in ChatMessages
    PROVE  /\ m.role \in {"system", "user", "assistant", "tool"}
           /\ m.parts \in Seq(Blocks) /\ m.calls \in Seq(Blocks) /\ m.answers \in Nat
           /\ m.role # "assistant" => m.calls = <<>>
           /\ m.role = "tool" => m.parts = <<>>
BY DEF ChatMessages

LEMMA ChatLists ==
    /\ Gives(ChatSays, ChatMessages, Nat)
    /\ Gives(ChatCalls, ChatMessages, Nat)
    /\ Gives(ChatAnswers, ChatMessages, Nat)
<1>1. ASSUME NEW m \in ChatMessages
      PROVE  ChatSays[m] \in Seq(Nat) /\ ChatCalls[m] \in Seq(Nat) /\ ChatAnswers[m] \in Seq(Nat)
  <2>1. m.parts \in Seq(Parts) /\ m.calls \in Seq(Parts) /\ m.answers \in Nat
    BY ChatMessageFacts, BlocksAreParts
  <2>2. OfType(m.parts, Sayable(m.role)) \in Seq(Parts)
    BY <2>1, OfTypeIsFlat
  <2>3. Ids(OfType(m.parts, Sayable(m.role))) \in Seq(Nat) /\ Ids(m.calls) \in Seq(Nat)
    BY <2>1, <2>2, IdsTyped
  <2>4. <<m.answers>> \in Seq(Nat) /\ <<>> \in Seq(Nat)
    BY <2>1
  <2> QED
    BY <2>3, <2>4 DEF ChatSays, ChatCalls, ChatAnswers
<1> QED
  BY <1>1 DEF Gives

LEMMA ToolNameIsName ==
    ASSUME NEW tools, IsNames(tools), NEW name \in Seq(STRING)
    PROVE  ToolName(tools, name) \in Seq(STRING)
BY ShortIsName, CandidateIsName DEF ToolName

\* What becomes of one message.
LEMMA MessageToItems ==
    ASSUME NEW m \in ChatMessages, NEW tools, IsNames(tools)
    PROVE  /\ InputItems(m, tools) \in Seq(UpItems)
           /\ Flat(ItemSays, InputItems(m, tools)) = ChatSays[m]
           /\ Flat(ItemCalls, InputItems(m, tools)) = ChatCalls[m]
           /\ Flat(ItemAnswers, InputItems(m, tools)) = ChatAnswers[m]
<1>0. /\ m.role \in {"system", "user", "assistant", "tool"}
      /\ m.parts \in Seq(Blocks) /\ m.calls \in Seq(Blocks) /\ m.answers \in Nat
      /\ m.role # "assistant" => m.calls = <<>>
      /\ m.role = "tool" => m.parts = <<>>
  BY ChatMessageFacts
<1> DEFINE p == InputItems(m, tools)
<1>1. CASE m.role = "tool"
  <2> DEFINE out == [type |-> "function_call_output", id |-> m.answers]
  <2>1. p = <<out>>
    BY <1>1 DEF InputItems
  <2>2. out \in UpOutputs /\ out.type = "function_call_output" /\ out.id = m.answers
    BY <1>0 DEF UpOutputs
  <2> HIDE DEF out, p
  <2>3. out \in UpItems
    BY <2>2 DEF UpItems
  <2>4. ItemSays[out] = <<>> /\ ItemCalls[out] = <<>> /\ ItemAnswers[out] = <<m.answers>>
    BY <2>2, <2>3 DEF ItemSays, ItemCalls, ItemAnswers, IdOf
  <2>5. Flat(ItemSays, p) = <<>> /\ Flat(ItemCalls, p) = <<>> /\ Flat(ItemAnswers, p) = <<m.answers>>
    BY <2>1, <2>3, <2>4, ItemLists, FlatOne
  <2>6. Ids(OfType(m.parts, Sayable(m.role))) = <<>>
    <3>1. OfType(<<>>, Sayable(m.role)) = <<>>
      BY ThoseEmpty DEF OfType
    <3> QED
      BY <1>0, <1>1, <3>1, NothingSaid
  <2>7. ChatSays[m] = <<>> /\ ChatCalls[m] = <<>> /\ ChatAnswers[m] = <<m.answers>>
    BY <1>0, <1>1, <2>6, NothingSaid DEF ChatSays, ChatCalls, ChatAnswers
  <2>8. p \in Seq(UpItems)
    BY <2>1, <2>3
  <2> QED
    BY <2>5, <2>7, <2>8 DEF p
<1>2. CASE m.role # "tool"
  <2> DEFINE said == OfType(m.parts, Sayable(m.role))
             msg == [type |-> "message", role |-> UpstreamRole(m.role), parts |-> said]
             call(i) == [type |-> "function_call", id |-> m.calls[i].id,
                         name |-> ToolName(tools, m.calls[i].name)]
             calls == [i \in DOMAIN m.calls |-> call(i)]
  <2>1. said \in Seq(Blocks) /\ said \in Seq(Parts) /\ UpstreamRole(m.role) \in Roles
    <3>1. said \in Seq(Blocks)
      BY <1>0, OfTypeIsFlat
    <3>2. UpstreamRole(m.role) \in Roles
      BY <1>0, <1>2 DEF UpstreamRole, Roles
    <3> HIDE DEF said
    <3> QED
      BY <3>1, <3>2, BlocksAreParts
  <2>2. p = <<msg>> \o calls
    <3>1. CASE m.role = "assistant"
      BY <1>2, <3>1 DEF InputItems, Sayable
    <3>2. CASE m.role # "assistant"
      <4>1. calls = <<>>
        BY <1>0, <3>2
      <4>2. p = <<msg>> \o <<>>
        BY <1>2, <3>2 DEF InputItems, Sayable
      <4> QED
        BY <4>1, <4>2
    <3> QED
      BY <3>1, <3>2
  <2>3. msg.type = "message" /\ msg.parts = said /\ msg \in UpMessages
    <3> HIDE DEF said
    <3> QED
      BY <2>1 DEF UpMessages
  <2>4. \A i \in DOMAIN m.calls : /\ call(i) \in UpCalls /\ call(i).type = "function_call"
                                  /\ call(i).id = m.calls[i].id
    <3> SUFFICES ASSUME NEW i \in DOMAIN m.calls
                 PROVE  /\ call(i) \in UpCalls /\ call(i).type = "function_call"
                        /\ call(i).id = m.calls[i].id
      OBVIOUS
    <3>1. m.calls[i] \in Blocks
      BY <1>0
    <3>2. m.calls[i].id \in Nat /\ m.calls[i].name \in Seq(STRING)
      BY <3>1, BlockFacts
    <3>3. ToolName(tools, m.calls[i].name) \in Seq(STRING)
      BY <3>2, ToolNameIsName
    <3> QED
      BY <3>2, <3>3 DEF UpCalls
  <2> HIDE DEF p, msg, call
  <2>5. /\ calls \in Seq(UpCalls) /\ DOMAIN calls = DOMAIN m.calls
        /\ \A i \in DOMAIN calls : calls[i] = call(i)
    <3>1. DOMAIN m.calls = 1 .. Len(m.calls) /\ Len(m.calls) \in Nat
      BY <1>0
    <3>2. calls = [i \in 1 .. Len(m.calls) |-> call(i)]
      BY <3>1
    <3>3. \A i \in 1 .. Len(m.calls) : call(i) \in UpCalls
      BY <2>4, <3>1
    <3>4. [i \in 1 .. Len(m.calls) |-> call(i)] \in Seq(UpCalls)
      BY <3>1, <3>3
    <3> QED
      BY <3>2, <3>4
  <2> HIDE DEF calls
  <2>6. msg \in UpItems /\ calls \in Seq(UpItems) /\ UpCalls \subseteq UpItems
    <3>1. UpCalls \subseteq UpItems /\ UpMessages \subseteq UpItems
      BY DEF UpItems
    <3>2. \A q \in Seq(UpCalls) : q \in Seq(UpItems)
      BY <3>1
    <3> QED
      BY <2>3, <2>5, <3>1, <3>2
  <2>7. <<msg>> \in Seq(UpItems)
    BY <2>6
  <2>8. p \in Seq(UpItems)
    BY <2>2, <2>6, <2>7
  <2>9. ItemSays[msg] = Ids(said) /\ ItemCalls[msg] = <<>> /\ ItemAnswers[msg] = <<>>
    <3>1. SaidIn(msg) = Ids(said)
      BY <2>1, <2>3, AllSaid
    <3> QED
      BY <2>3, <2>6, <3>1 DEF ItemSays, ItemCalls, ItemAnswers, IdOf
  <2>10. \A i \in DOMAIN calls : /\ ItemSays[calls[i]] = <<>> /\ ItemAnswers[calls[i]] = <<>>
                                 /\ ItemCalls[calls[i]] = <<m.calls[i].id>>
    <3>1. \A i \in DOMAIN calls : /\ calls[i] \in UpItems /\ calls[i].type = "function_call"
                                  /\ calls[i].id = m.calls[i].id
      BY <2>4, <2>5, <2>6
    <3> QED
      BY <3>1 DEF ItemSays, ItemCalls, ItemAnswers, IdOf
  <2>11. Flat(ItemSays, calls) = <<>> /\ Flat(ItemAnswers, calls) = <<>>
    BY <2>6, <2>10, ItemLists, FlatNone
  <2>12. Flat(ItemCalls, calls) = Ids(m.calls)
    <3> DEFINE f == [c \in UpCalls |-> c.id]
    <3>1. Ones(ItemCalls, f, UpCalls, Nat)
      <4>1. \A c \in UpCalls : c.type = "function_call" /\ c.id \in Nat
        BY DEF UpCalls
      <4>2. Gives(ItemCalls, UpCalls, Nat)
        BY <2>6, ItemLists DEF Gives
      <4>3. \A c \in UpCalls : f[c] \in Nat /\ ItemCalls[c] = <<f[c]>>
        BY <2>6, <4>1 DEF ItemCalls, IdOf
      <4> QED
        BY <4>2, <4>3 DEF Ones
    <3>2. \A i \in DOMAIN calls : f[calls[i]] = m.calls[i].id
      <4>1. \A i \in DOMAIN calls : calls[i] \in UpCalls /\ calls[i].id = m.calls[i].id
        BY <2>4, <2>5
      <4> QED
        BY <4>1
    <3> HIDE DEF f
    <3>3. Flat(ItemCalls, calls) = [i \in DOMAIN calls |-> f[calls[i]]]
      BY <2>5, <3>1, MapIsFlat
    <3>4. [i \in DOMAIN calls |-> f[calls[i]]] = [i \in DOMAIN m.calls |-> m.calls[i].id]
      BY <2>5, <3>2
    <3> QED
      BY <3>3, <3>4 DEF Ids
  <2>13. \A F : Gives(F, UpItems, Nat) => Flat(F, p) = F[msg] \o Flat(F, calls)
    <3> SUFFICES ASSUME NEW F, Gives(F, UpItems, Nat)
                 PROVE  Flat(F, p) = F[msg] \o Flat(F, calls)
      OBVIOUS
    <3>1. Flat(F, <<msg>> \o calls) = Flat(F, <<msg>>) \o Flat(F, calls)
      <4>1. \A a, b \in Seq(UpItems) : Flat(F, a \o b) = Flat(F, a) \o Flat(F, b)
        BY FlatJoin
      <4> QED
        BY <2>6, <2>7, <4>1, Zenon
    <3>2. Flat(F, <<msg>>) = F[msg]
      BY <2>6, FlatOne
    <3> QED
      BY <2>2, <3>1, <3>2
  <2>14. Ids(said) \in Seq(Nat) /\ Ids(m.calls) \in Seq(Nat)
    BY <1>0, <2>1, BlocksAreParts, IdsTyped
  <2>15. /\ Flat(ItemSays, p) = Ids(said) \o <<>>
         /\ Flat(ItemCalls, p) = <<>> \o Ids(m.calls)
         /\ Flat(ItemAnswers, p) = <<>> \o <<>>
    BY <2>9, <2>11, <2>12, <2>13, ItemLists
  <2>16. /\ Flat(ItemSays, p) = Ids(said)
         /\ Flat(ItemCalls, p) = Ids(m.calls)
         /\ Flat(ItemAnswers, p) = <<>>
    BY <2>14, <2>15
  <2>17. ChatSays[m] = Ids(said) /\ ChatCalls[m] = Ids(m.calls) /\ ChatAnswers[m] = <<>>
    BY <1>2 DEF ChatSays, ChatCalls, ChatAnswers, said
  <2> QED
    BY <2>8, <2>16, <2>17 DEF p
<1> QED
  BY <1>1, <1>2

\* What becomes of a conversation.
LEMMA ChatToItems ==
    ASSUME NEW h \in Seq(ChatMessages), NEW tools, IsNames(tools)
    PROVE  /\ ChatToInput(h, tools) = Flat(Items(tools), h)
           /\ Gives(Items(tools), ChatMessages, UpItems)
           /\ ChatToInput(h, tools) \in Seq(UpItems)
           /\ Flat(ItemSays, ChatToInput(h, tools)) = Flat(ChatSays, h)
           /\ Flat(ItemCalls, ChatToInput(h, tools)) = Flat(ChatCalls, h)
           /\ Flat(ItemAnswers, ChatToInput(h, tools)) = Flat(ChatAnswers, h)
<1> DEFINE F == Items(tools)
<1>1. \A m \in ChatMessages : F[m] = InputItems(m, tools)
  BY DEF Items
<1>2. \A i \in DOMAIN h : h[i] \in ChatMessages
  OBVIOUS
<1>3. [i \in DOMAIN h |-> InputItems(h[i], tools)] = [i \in DOMAIN h |-> F[h[i]]]
  BY <1>1, <1>2
<1>4. ChatToInput(h, tools) = Flat(F, h)
  BY <1>3 DEF ChatToInput, Flat
<1> HIDE DEF F
<1>5. \A m \in ChatMessages :
         /\ F[m] \in Seq(UpItems) /\ Flat(ItemSays, F[m]) = ChatSays[m]
         /\ Flat(ItemCalls, F[m]) = ChatCalls[m] /\ Flat(ItemAnswers, F[m]) = ChatAnswers[m]
  BY <1>1, MessageToItems
<1>6. Gives(F, ChatMessages, UpItems)
  BY <1>5 DEF Gives
<1>7. Flat(F, h) \in Seq(UpItems)
  BY <1>6, FlatTyped
<1>8. Flat(ItemSays, Flat(F, h)) = Flat(ChatSays, h)
  BY <1>5, <1>6, ItemLists, ChatLists, FlatTwice
<1>9. Flat(ItemCalls, Flat(F, h)) = Flat(ChatCalls, h)
  BY <1>5, <1>6, ItemLists, ChatLists, FlatTwice
<1>10. Flat(ItemAnswers, Flat(F, h)) = Flat(ChatAnswers, h)
  BY <1>5, <1>6, ItemLists, ChatLists, FlatTwice
<1> QED
  BY <1>4, <1>6, <1>7, <1>8, <1>9, <1>10 DEF F
-----------------------------------------------------------------------------
(***************************************************************************)
(* The messages of the Anthropic API and those they become.                *)
(***************************************************************************)
ClaudeSays == [m \in ClaudeMessages |-> Ids(OfType(m.blocks, Sayable(m.role)))]
ClaudeCalls == [m \in ClaudeMessages |-> Ids(OfType(m.blocks, {"tool_use"}))]
ClaudeAnswers == [m \in ClaudeMessages |-> Ids(OfType(m.blocks, {"tool_result"}))]

ToChat == [m \in ClaudeMessages |-> ClaudeMessage(m)]

LEMMA ClaudeMessageFacts ==
    ASSUME NEW m \in ClaudeMessages
    PROVE  /\ m.role \in {"system", "user", "assistant"} /\ m.blocks \in Seq(Blocks)
           /\ \A i \in DOMAIN m.blocks : m.blocks[i].type = "tool_use" => m.role = "assistant"
BY DEF ClaudeMessages

LEMMA IdsOfBlocks ==
    ASSUME NEW q \in Seq(Blocks), NEW T
    PROVE  OfType(q, T) \in Seq(Blocks) /\ Ids(OfType(q, T)) \in Seq(Nat)
<1>1. OfType(q, T) \in Seq(Blocks)
  BY OfTypeIsFlat
<1> QED
  BY <1>1, BlocksAreParts, IdsTyped

LEMMA ClaudeLists ==
    /\ Gives(ClaudeSays, ClaudeMessages, Nat)
    /\ Gives(ClaudeCalls, ClaudeMessages, Nat)
    /\ Gives(ClaudeAnswers, ClaudeMessages, Nat)
<1>1. ASSUME NEW m \in ClaudeMessages
      PROVE  /\ ClaudeSays[m] \in Seq(Nat) /\ ClaudeCalls[m] \in Seq(Nat)
             /\ ClaudeAnswers[m] \in Seq(Nat)
  <2>1. m.blocks \in Seq(Blocks)
    BY ClaudeMessageFacts
  <2>2. \A T : Ids(OfType(m.blocks, T)) \in Seq(Nat)
    BY <2>1, IdsOfBlocks
  <2> QED
    BY <2>2 DEF ClaudeSays, ClaudeCalls, ClaudeAnswers
<1> QED
  BY <1>1 DEF Gives

\* The results, as messages of their own.
LEMMA ResultsToChat ==
    ASSUME NEW results \in Seq(Blocks), NEW rs,
           rs = [i \in DOMAIN results |-> ToolMessage(results[i])]
    PROVE  /\ rs \in Seq(ChatMessages)
           /\ Flat(ChatSays, rs) = <<>> /\ Flat(ChatCalls, rs) = <<>>
           /\ Flat(ChatAnswers, rs) = Ids(results)
<1> DEFINE D == {ToolMessage(b) : b \in Blocks}
           f == [x \in D |-> x.answers]
<1>1. ASSUME NEW b \in Blocks
      PROVE  LET x == ToolMessage(b)
             IN  /\ x \in ChatMessages /\ x.answers = b.id /\ x.answers \in Nat
                 /\ ChatSays[x] = <<>> /\ ChatCalls[x] = <<>> /\ ChatAnswers[x] = <<b.id>>
  <2> DEFINE x == ToolMessage(b)
  <2>1. /\ x = [role |-> "tool", parts |-> <<>>, calls |-> <<>>, answers |-> b.id]
        /\ b.id \in Nat /\ <<>> \in Seq(Blocks)
    BY BlockFacts DEF ToolMessage
  <2>2. /\ x.role = "tool" /\ x.parts = <<>> /\ x.calls = <<>> /\ x.answers = b.id
    BY <2>1
  <2>3. x \in ChatMessages
    BY <2>1 DEF ChatMessages
  <2> HIDE DEF x
  <2>4. Ids(OfType(x.parts, Sayable(x.role))) = <<>> /\ Ids(x.calls) = <<>>
    <3>1. OfType(<<>>, Sayable(x.role)) = <<>>
      BY ThoseEmpty DEF OfType
    <3> QED
      BY <2>2, <3>1, NothingSaid
  <2>5. ChatSays[x] = <<>> /\ ChatCalls[x] = <<>> /\ ChatAnswers[x] = <<b.id>>
    BY <2>2, <2>3, <2>4 DEF ChatSays, ChatCalls, ChatAnswers
  <2> QED
    BY <2>1, <2>2, <2>3, <2>5 DEF x
<1>2. \A i \in DOMAIN results : results[i] \in Blocks
  OBVIOUS
<1>3. DOMAIN results = 1 .. Len(results) /\ Len(results) \in Nat
  OBVIOUS
<1>4. DOMAIN rs = DOMAIN results /\ \A i \in DOMAIN results : rs[i] = ToolMessage(results[i])
  OBVIOUS
<1>5. \A i \in DOMAIN results :
         LET x == rs[i]
         IN  /\ x \in ChatMessages /\ x.answers = results[i].id /\ x \in D
             /\ ChatSays[x] = <<>> /\ ChatCalls[x] = <<>> /\ ChatAnswers[x] = <<results[i].id>>
  BY <1>1, <1>2, <1>4
<1>6. rs \in Seq(ChatMessages) /\ rs \in Seq(D)
  <2>1. rs = [i \in 1 .. Len(results) |-> rs[i]]
    BY <1>3
  <2>2. \A i \in 1 .. Len(results) : rs[i] \in ChatMessages /\ rs[i] \in D
    BY <1>3, <1>5
  <2> HIDE DEF D
  <2>3. /\ [i \in 1 .. Len(results) |-> rs[i]] \in Seq(ChatMessages)
        /\ [i \in 1 .. Len(results) |-> rs[i]] \in Seq(D)
    BY <1>3, <2>2
  <2> QED
    BY <2>1, <2>3
<1>7. Flat(ChatSays, rs) = <<>> /\ Flat(ChatCalls, rs) = <<>>
  <2>1. \A i \in DOMAIN rs : ChatSays[rs[i]] = <<>> /\ ChatCalls[rs[i]] = <<>>
    BY <1>4, <1>5
  <2> QED
    BY <1>6, <2>1, ChatLists, FlatNone
<1>8. Ones(ChatAnswers, f, D, Nat)
  <2>1. \A x \in D : x \in ChatMessages /\ x.answers \in Nat /\ ChatAnswers[x] = <<x.answers>>
    BY <1>1
  <2>2. \A x \in D : f[x] = x.answers
    OBVIOUS
  <2>3. Gives(ChatAnswers, D, Nat)
    BY <2>1, ChatLists DEF Gives
  <2> HIDE DEF D, f
  <2> QED
    BY <2>1, <2>2, <2>3 DEF Ones
<1>9. \A i \in DOMAIN rs : f[rs[i]] = results[i].id
  BY <1>4, <1>5
<1> HIDE DEF f, D
<1>10. Flat(ChatAnswers, rs) = [i \in DOMAIN rs |-> f[rs[i]]]
  BY <1>6, <1>8, MapIsFlat
<1>11. [i \in DOMAIN rs |-> f[rs[i]]] = [i \in DOMAIN results |-> results[i].id]
  BY <1>4, <1>9
<1> QED
  BY <1>6, <1>7, <1>10, <1>11 DEF Ids

LEMMA ClaudeMessageToChat ==
    ASSUME NEW m \in ClaudeMessages
    PROVE  /\ ClaudeMessage(m) \in Seq(ChatMessages)
           /\ Flat(ChatSays, ClaudeMessage(m)) = ClaudeSays[m]
           /\ Flat(ChatCalls, ClaudeMessage(m)) = ClaudeCalls[m]
           /\ Flat(ChatAnswers, ClaudeMessage(m)) = ClaudeAnswers[m]
<1> DEFINE p == ClaudeMessage(m)
           results == OfType(m.blocks, {"tool_result"})
           uses == OfType(m.blocks, {"tool_use"})
           parts == OfType(m.blocks, Texts \cup {"image"})
           rs == [i \in DOMAIN results |-> ToolMessage(results[i])]
           x == [role |-> m.role, parts |-> parts, calls |-> uses, answers |-> 0]
           empty == m.role = "user" /\ Len(results) = Len(m.blocks)
           rest == IF empty THEN <<>> ELSE <<x>>
           says == Ids(OfType(m.blocks, Sayable(m.role)))
<1>1. /\ m.role \in {"system", "user", "assistant"} /\ m.blocks \in Seq(Blocks)
      /\ \A i \in DOMAIN m.blocks : m.blocks[i].type = "tool_use" => m.role = "assistant"
  BY ClaudeMessageFacts
<1>2. p = rs \o rest
  BY DEF ClaudeMessage
<1>3. results \in Seq(Blocks) /\ uses \in Seq(Blocks) /\ parts \in Seq(Blocks)
  BY <1>1, IdsOfBlocks
<1>4. m.role # "assistant" => uses = <<>>
  <2> SUFFICES ASSUME m.role # "assistant" PROVE uses = <<>>
    OBVIOUS
  <2>1. \A i \in DOMAIN m.blocks : m.blocks[i].type \notin {"tool_use"}
    BY <1>1
  <2> QED
    BY <1>1, <2>1, OfTypeNone
<1>5. says \in Seq(Nat) /\ Ids(uses) \in Seq(Nat) /\ Ids(results) \in Seq(Nat)
  BY <1>1, IdsOfBlocks
<1>6. ClaudeSays[m] = says /\ ClaudeCalls[m] = Ids(uses) /\ ClaudeAnswers[m] = Ids(results)
  BY DEF ClaudeSays, ClaudeCalls, ClaudeAnswers
<1>7. OfType(parts, Sayable(m.role)) = OfType(m.blocks, Sayable(m.role))
  <2>1. (Texts \cup {"image"}) \cap Sayable(m.role) = Sayable(m.role)
    BY DEF Sayable
  <2>2. OfType(parts, Sayable(m.role)) = OfType(m.blocks, (Texts \cup {"image"}) \cap Sayable(m.role))
    BY <1>1, OfTypeTwice
  <2> QED
    BY <2>1, <2>2
<1>8. empty => says = <<>> /\ Ids(uses) = <<>>
  <2> SUFFICES ASSUME empty PROVE says = <<>> /\ Ids(uses) = <<>>
    OBVIOUS
  <2>1. \A i \in DOMAIN m.blocks : m.blocks[i].type \in {"tool_result"}
    BY <1>1, OfTypeFew
  <2>2. \A i \in DOMAIN m.blocks : m.blocks[i].type \notin Sayable(m.role)
    BY <2>1 DEF Sayable, Texts
  <2>3. OfType(m.blocks, Sayable(m.role)) = <<>>
    BY <1>1, <2>2, OfTypeNone
  <2>4. uses = <<>>
    BY <1>4
  <2> QED
    BY <2>3, <2>4, NothingSaid
<1>9. /\ x.role = m.role /\ x.parts = parts /\ x.calls = uses /\ x.answers = 0
      /\ x \in ChatMessages
  <2>1. x.role = m.role /\ x.parts = parts /\ x.calls = uses /\ x.answers = 0
    OBVIOUS
  <2> HIDE DEF parts, uses
  <2>2. x \in ChatMessages
    BY <1>1, <1>3, <1>4 DEF ChatMessages
  <2> QED
    BY <2>1, <2>2
<1>10. /\ rs \in Seq(ChatMessages)
       /\ Flat(ChatSays, rs) = <<>> /\ Flat(ChatCalls, rs) = <<>>
       /\ Flat(ChatAnswers, rs) = Ids(results)
  BY <1>3, ResultsToChat
<1> HIDE DEF p, results, uses, parts, rs, x, says
<1>11. ChatSays[x] = says /\ ChatCalls[x] = Ids(uses) /\ ChatAnswers[x] = <<>>
  BY <1>1, <1>7, <1>9 DEF ChatSays, ChatCalls, ChatAnswers, says
<1>12. rest \in Seq(ChatMessages)
  BY <1>9
<1>13. \A F : Gives(F, ChatMessages, Nat) =>
          Flat(F, p) = Flat(F, rs) \o (IF empty THEN <<>> ELSE F[x])
  <2> SUFFICES ASSUME NEW F, Gives(F, ChatMessages, Nat)
               PROVE  Flat(F, p) = Flat(F, rs) \o (IF empty THEN <<>> ELSE F[x])
    OBVIOUS
  <2>1. \A a, b \in Seq(ChatMessages) : Flat(F, a \o b) = Flat(F, a) \o Flat(F, b)
    BY FlatJoin
  <2>2. Flat(F, rs \o rest) = Flat(F, rs) \o Flat(F, rest)
    BY <1>10, <1>12, <2>1, Zenon
  <2>3. Flat(F, <<x>>) = F[x]
    BY <1>9, FlatOne
  <2>4. Flat(F, <<>>) = <<>>
    BY FlatEmpty
  <2> HIDE DEF empty
  <2>5. Flat(F, rest) = IF empty THEN <<>> ELSE F[x]
    BY <2>3, <2>4
  <2> QED
    BY <1>2, <2>2, <2>5
<1> HIDE DEF empty
<1>14. /\ Flat(ChatSays, p) = <<>> \o says
       /\ Flat(ChatCalls, p) = <<>> \o Ids(uses)
       /\ Flat(ChatAnswers, p) = Ids(results) \o <<>>
  <2>1. CASE empty
    BY <1>8, <1>10, <1>13, <2>1, ChatLists
  <2>2. CASE ~empty
    BY <1>10, <1>11, <1>13, <2>2, ChatLists
  <2> QED
    BY <2>1, <2>2
<1>15. /\ Flat(ChatSays, p) = says /\ Flat(ChatCalls, p) = Ids(uses)
       /\ Flat(ChatAnswers, p) = Ids(results)
  BY <1>5, <1>14
<1>16. p \in Seq(ChatMessages)
  <2> HIDE DEF rest
  <2> QED
    BY <1>2, <1>10, <1>12
<1> QED
  BY <1>6, <1>15, <1>16 DEF p

LEMMA ClaudeToMessages ==
    ASSUME NEW h \in Seq(ClaudeMessages)
    PROVE  /\ ClaudeToChat(h) = Flat(ToChat, h)
           /\ Gives(ToChat, ClaudeMessages, ChatMessages)
           /\ ClaudeToChat(h) \in Seq(ChatMessages)
           /\ Flat(ChatSays, ClaudeToChat(h)) = Flat(ClaudeSays, h)
           /\ Flat(ChatCalls, ClaudeToChat(h)) = Flat(ClaudeCalls, h)
           /\ Flat(ChatAnswers, ClaudeToChat(h)) = Flat(ClaudeAnswers, h)
<1>1. \A m \in ClaudeMessages : ToChat[m] = ClaudeMessage(m)
  BY DEF ToChat
<1>2. \A i \in DOMAIN h : h[i] \in ClaudeMessages
  OBVIOUS
<1>3. [i \in DOMAIN h |-> ClaudeMessage(h[i])] = [i \in DOMAIN h |-> ToChat[h[i]]]
  BY <1>1, <1>2
<1>4. ClaudeToChat(h) = Flat(ToChat, h)
  BY <1>3 DEF ClaudeToChat, Flat
<1>5. \A m \in ClaudeMessages :
         /\ ToChat[m] \in Seq(ChatMessages) /\ Flat(ChatSays, ToChat[m]) = ClaudeSays[m]
         /\ Flat(ChatCalls, ToChat[m]) = ClaudeCalls[m]
         /\ Flat(ChatAnswers, ToChat[m]) = ClaudeAnswers[m]
  BY <1>1, ClaudeMessageToChat
<1>6. Gives(ToChat, ClaudeMessages, ChatMessages)
  BY <1>5 DEF Gives
<1>7. Flat(ToChat, h) \in Seq(ChatMessages)
  BY <1>6, FlatTyped
<1>8. Flat(ChatSays, Flat(ToChat, h)) = Flat(ClaudeSays, h)
  BY <1>5, <1>6, ChatLists, ClaudeLists, FlatTwice
<1>9. Flat(ChatCalls, Flat(ToChat, h)) = Flat(ClaudeCalls, h)
  BY <1>5, <1>6, ChatLists, ClaudeLists, FlatTwice
<1>10. Flat(ChatAnswers, Flat(ToChat, h)) = Flat(ClaudeAnswers, h)
  BY <1>5, <1>6, ChatLists, ClaudeLists, FlatTwice
<1> QED
  BY <1>4, <1>6, <1>7, <1>8, <1>9, <1>10
-----------------------------------------------------------------------------
(***************************************************************************)
(* Results come after their calls.  N[x] are the ids that x answers, H[x]  *)
(* those of the calls in it.                                               *)
(***************************************************************************)
Holds(H, q, n) == \E j \in 1 .. Len(q) : n \in H[q[j]]
Behind(N, H, q) == \A i \in 1 .. Len(q) : \A n \in N[q[i]] : \E j \in 1 .. i - 1 : n \in H[q[j]]

LEMMA BehindJoin ==
    ASSUME NEW A, NEW N, NEW H, NEW p \in Seq(A), NEW q \in Seq(A), Behind(N, H, p),
           \A i \in 1 .. Len(q) : \A n \in N[q[i]] :
              Holds(H, p, n) \/ \E j \in 1 .. i - 1 : n \in H[q[j]]
    PROVE  Behind(N, H, p \o q)
<1> DEFINE r == p \o q
<1>1. PICK k \in Nat : k = Len(p)
  OBVIOUS
<1>2. PICK l \in Nat : l = Len(q)
  OBVIOUS
<1>3. /\ Len(r) = k + l /\ \A i \in 1 .. k : r[i] = p[i]
      /\ \A i \in 1 .. l : r[k + i] = q[i]
  BY <1>1, <1>2
<1> HIDE DEF r
<1> SUFFICES ASSUME NEW i \in 1 .. k + l, NEW n \in N[r[i]]
             PROVE  \E j \in 1 .. i - 1 : n \in H[r[j]]
  BY <1>3 DEF Behind, r
<1>4. CASE i \in 1 .. k
  <2>1. r[i] = p[i]
    BY <1>3, <1>4
  <2>2. PICK j \in 1 .. i - 1 : n \in H[p[j]]
    BY <1>1, <1>4, <2>1 DEF Behind
  <2>3. j \in 1 .. k
    BY <1>4
  <2> QED
    BY <1>3, <2>2, <2>3
<1>5. CASE i \notin 1 .. k
  <2>1. PICK m \in 1 .. l : i = k + m
    <3>1. i - k \in 1 .. l /\ i = k + (i - k)
      BY <1>5
    <3> QED
      BY <3>1
  <2>2. n \in N[q[m]]
    BY <1>3, <2>1
  <2>3. Holds(H, p, n) \/ \E j \in 1 .. m - 1 : n \in H[q[j]]
    BY <1>2, <2>1, <2>2
  <2>4. CASE Holds(H, p, n)
    <3>1. PICK j \in 1 .. k : n \in H[p[j]]
      BY <1>1, <2>4 DEF Holds
    <3>2. j \in 1 .. i - 1
      BY <2>1
    <3> QED
      BY <1>3, <3>1, <3>2
  <2>5. CASE \E j \in 1 .. m - 1 : n \in H[q[j]]
    <3>1. PICK j \in 1 .. m - 1 : n \in H[q[j]]
      BY <2>5
    <3>2. k + j \in 1 .. i - 1 /\ j \in 1 .. l
      BY <2>1
    <3>3. r[k + j] = q[j]
      BY <1>3, <3>2
    <3> QED
      BY <3>1, <3>2, <3>3
  <2> QED
    BY <2>3, <2>4, <2>5
<1> QED
  BY <1>4, <1>5

LEMMA HoldsJoin ==
    ASSUME NEW A, NEW H, NEW p \in Seq(A), NEW q \in Seq(A), NEW n,
           Holds(H, p, n) \/ Holds(H, q, n)
    PROVE  Holds(H, p \o q, n)
<1> DEFINE r == p \o q
<1>1. PICK k \in Nat : k = Len(p)
  OBVIOUS
<1>2. PICK l \in Nat : l = Len(q)
  OBVIOUS
<1>3. /\ Len(r) = k + l /\ \A i \in 1 .. k : r[i] = p[i]
      /\ \A i \in 1 .. l : r[k + i] = q[i]
  BY <1>1, <1>2
<1> HIDE DEF r
<1>4. CASE Holds(H, p, n)
  <2>1. PICK j \in 1 .. k : n \in H[p[j]]
    BY <1>1, <1>4 DEF Holds
  <2>2. j \in 1 .. k + l
    OBVIOUS
  <2> QED
    BY <1>3, <2>1, <2>2 DEF Holds, r
<1>5. CASE Holds(H, q, n)
  <2>1. PICK j \in 1 .. l : n \in H[q[j]]
    BY <1>2, <1>5 DEF Holds
  <2>2. k + j \in 1 .. k + l
    OBVIOUS
  <2> QED
    BY <1>3, <2>1, <2>2 DEF Holds, r
<1> QED
  BY <1>4, <1>5

\* F takes what has calls and results to lists that have them.
Carries(F, A, N, H, M, G) ==
    /\ \A a \in A : \A k \in 1 .. Len(F[a]) : \A n \in M[F[a][k]] : n \in N[a]
    /\ \A a \in A : \A n \in H[a] : Holds(G, F[a], n)

LEMMA BehindFlat ==
    ASSUME NEW A, NEW B, NEW F, Gives(F, A, B), NEW N, NEW H, NEW M, NEW G,
           Carries(F, A, N, H, M, G), NEW q \in Seq(A), Behind(N, H, q)
    PROVE  Behind(M, G, Flat(F, q))
<1> DEFINE E(x) == /\ \A n : Holds(H, x, n) => Holds(G, Flat(F, x), n)
                   /\ Behind(N, H, x) => Behind(M, G, Flat(F, x))
           P == {x \in Seq(A) : E(x)}
<1>1. <<>> \in P
  <2>1. Flat(F, <<>>) = <<>> /\ <<>> \in Seq(A)
    BY FlatEmpty
  <2>2. \A n : ~Holds(H, <<>>, n)
    BY DEF Holds
  <2>3. Behind(M, G, <<>>)
    BY DEF Behind
  <2> QED
    BY <2>1, <2>2, <2>3
<1>2. ASSUME NEW x \in Seq(A), NEW e \in A, x \in P
      PROVE  Append(x, e) \in P
  <2> DEFINE y == Append(x, e)
             u == Flat(F, x)
             v == F[e]
  <2>1. Flat(F, y) = u \o v /\ u \in Seq(B)
    BY FlatLonger
  <2>2. v \in Seq(B)
    BY DEF Gives
  <2>3. PICK k \in Nat : k = Len(x)
    OBVIOUS
  <2>4. /\ y \in Seq(A) /\ Len(y) = k + 1 /\ y[k + 1] = e
        /\ \A j \in 1 .. k : y[j] = x[j]
    BY <2>3
  <2>5. E(x)
    BY <1>2
  <2> HIDE DEF y, u, v, P
  <2>6. \A n : Holds(H, y, n) => Holds(H, x, n) \/ n \in H[e]
    <3> SUFFICES ASSUME NEW n, Holds(H, y, n), n \notin H[e]
                 PROVE  Holds(H, x, n)
      OBVIOUS
    <3>1. PICK j \in 1 .. k + 1 : n \in H[y[j]]
      BY <2>4 DEF Holds
    <3>2. j \in 1 .. k
      BY <2>4, <3>1
    <3> QED
      BY <2>3, <2>4, <3>1, <3>2 DEF Holds
  <2>7. \A n : Holds(H, y, n) => Holds(G, u \o v, n)
    <3> SUFFICES ASSUME NEW n, Holds(H, y, n)
                 PROVE  Holds(G, u \o v, n)
      OBVIOUS
    <3>1. CASE Holds(H, x, n)
      <4>1. Holds(G, u, n)
        BY <2>5, <3>1 DEF u
      <4> QED
        BY <2>1, <2>2, <4>1, HoldsJoin
    <3>2. CASE n \in H[e]
      <4>1. Holds(G, v, n)
        BY <3>2 DEF Carries, v
      <4> QED
        BY <2>1, <2>2, <4>1, HoldsJoin
    <3> QED
      BY <2>6, <3>1, <3>2
  <2>8. Behind(N, H, y) => Behind(M, G, u \o v)
    <3> SUFFICES ASSUME Behind(N, H, y) PROVE Behind(M, G, u \o v)
      OBVIOUS
    <3>1. Behind(N, H, x)
      <4> SUFFICES ASSUME NEW i \in 1 .. k, NEW n \in N[x[i]]
                   PROVE  \E j \in 1 .. i - 1 : n \in H[x[j]]
        BY <2>3 DEF Behind
      <4>1. i \in 1 .. k + 1 /\ y[i] = x[i]
        BY <2>4
      <4>2. PICK j \in 1 .. i - 1 : n \in H[y[j]]
        BY <2>4, <4>1 DEF Behind
      <4>3. j \in 1 .. k
        OBVIOUS
      <4> QED
        BY <2>4, <4>2, <4>3
    <3>2. Behind(M, G, u)
      BY <2>5, <3>1 DEF u
    <3>3. \A n \in N[e] : Holds(H, x, n)
      <4> SUFFICES ASSUME NEW n \in N[e] PROVE Holds(H, x, n)
        OBVIOUS
      <4>1. k + 1 \in 1 .. k + 1
        OBVIOUS
      <4>2. PICK j \in 1 .. (k + 1) - 1 : n \in H[y[j]]
        BY <2>4, <4>1 DEF Behind
      <4>3. j \in 1 .. k
        OBVIOUS
      <4> QED
        BY <2>3, <2>4, <4>2, <4>3 DEF Holds
    <3>4. \A i \in 1 .. Len(v) : \A n \in M[v[i]] : Holds(G, u, n)
      <4> SUFFICES ASSUME NEW i \in 1 .. Len(v), NEW n \in M[v[i]] PROVE Holds(G, u, n)
        OBVIOUS
      <4>1. n \in N[e]
        BY DEF Carries, v
      <4>2. Holds(H, x, n)
        BY <3>3, <4>1
      <4> QED
        BY <2>5, <4>2 DEF u
    <3> QED
      BY <2>1, <2>2, <3>2, <3>4, BehindJoin
  <2>9. E(y)
    BY <2>1, <2>7, <2>8
  <2> QED
    BY <2>4, <2>9 DEF y, P
<1> HIDE DEF P
<1>3. Seq(A) \subseteq P
  BY <1>1, <1>2, AllLists
<1> QED
  BY <1>3 DEF P

\* An element of the list that stands for an element is in the whole list.
LEMMA FlatHas ==
    ASSUME NEW A, NEW B, NEW F, Gives(F, A, B), NEW q \in Seq(A)
    PROVE  \A j \in 1 .. Len(q) : \A k \in 1 .. Len(F[q[j]]) :
              \E i \in 1 .. Len(Flat(F, q)) : Flat(F, q)[i] = F[q[j]][k]
<1> DEFINE E(x) == \A j \in 1 .. Len(x) : \A k \in 1 .. Len(F[x[j]]) :
                      \E i \in 1 .. Len(Flat(F, x)) : Flat(F, x)[i] = F[x[j]][k]
           P == {x \in Seq(A) : E(x)}
<1>1. <<>> \in P
  <2>1. <<>> \in Seq(A) /\ Len(<<>>) = 0
    OBVIOUS
  <2>2. E(<<>>)
    BY <2>1
  <2> HIDE DEF E
  <2> QED
    BY <2>1, <2>2
<1>2. ASSUME NEW x \in Seq(A), NEW e \in A, x \in P
      PROVE  Append(x, e) \in P
  <2> DEFINE y == Append(x, e)
             u == Flat(F, x)
             v == F[e]
  <2>1. Flat(F, y) = u \o v /\ u \in Seq(B)
    BY FlatLonger
  <2>2. v \in Seq(B)
    BY DEF Gives
  <2>3. PICK l \in Nat : l = Len(x)
    OBVIOUS
  <2>4. /\ y \in Seq(A) /\ Len(y) = l + 1 /\ y[l + 1] = e
        /\ \A j \in 1 .. l : y[j] = x[j]
    BY <2>3
  <2>5. E(x)
    BY <1>2
  <2>6. PICK a \in Nat : a = Len(u)
    BY <2>1
  <2>7. PICK b \in Nat : b = Len(v)
    BY <2>2
  <2> HIDE DEF y, u, v, P
  <2>8. /\ Len(u \o v) = a + b /\ \A i \in 1 .. a : (u \o v)[i] = u[i]
        /\ \A i \in 1 .. b : (u \o v)[a + i] = v[i]
    BY <2>1, <2>2, <2>6, <2>7
  <2> DEFINE w == u \o v
  <2> HIDE DEF w
  <2>9. E(y)
    <3> SUFFICES ASSUME NEW j \in 1 .. l + 1, NEW k \in 1 .. Len(F[y[j]])
                 PROVE  \E i \in 1 .. a + b : w[i] = F[y[j]][k]
      <4>1. Flat(F, y) = w /\ Len(w) = a + b /\ Len(y) = l + 1
        BY <2>1, <2>4, <2>8 DEF w
      <4> QED
        BY <4>1
    <3>1. CASE j \in 1 .. l
      <4>1. PICK i \in 1 .. a : u[i] = F[x[j]][k]
        BY <2>3, <2>4, <2>5, <2>6, <3>1 DEF u
      <4>2. i \in 1 .. a + b
        OBVIOUS
      <4> QED
        BY <2>4, <2>8, <3>1, <4>1, <4>2 DEF w
    <3>2. CASE j = l + 1
      <4>1. F[y[j]] = v /\ k \in 1 .. b
        BY <2>4, <2>7, <3>2 DEF v
      <4>2. a + k \in 1 .. a + b
        BY <4>1
      <4> QED
        BY <2>8, <4>1, <4>2 DEF w
    <3> QED
      BY <3>1, <3>2
  <2> QED
    BY <2>4, <2>9 DEF y, P
<1> HIDE DEF P
<1>3. Seq(A) \subseteq P
  BY <1>1, <1>2, AllLists
<1> QED
  BY <1>3 DEF P

\* The ids that are in the lists of numbers that F gives.
SetsOf(F, A) == [a \in A |-> {n \in Nat : \E k \in 1 .. Len(F[a]) : F[a][k] = n}]

LEMMA CarriesOf ==
    ASSUME NEW A, NEW B, NEW F, Gives(F, A, B), NEW N, NEW H, NEW M, NEW G,
           Gives(M, B, Nat), Gives(G, B, Nat),
           \A a \in A : Flat(M, F[a]) = N[a] /\ Flat(G, F[a]) = H[a]
    PROVE  Carries(F, A, SetsOf(N, A), SetsOf(H, A), SetsOf(M, B), SetsOf(G, B))
<1>1. ASSUME NEW a \in A, NEW k \in 1 .. Len(F[a]), NEW n \in SetsOf(M, B)[F[a][k]]
      PROVE  n \in SetsOf(N, A)[a]
  <2> DEFINE q == F[a]
  <2>1. q \in Seq(B) /\ q[k] \in B
    <3>1. q \in Seq(B)
      BY DEF Gives
    <3> QED
      BY <3>1
  <2>2. n \in Nat /\ \E l \in 1 .. Len(M[q[k]]) : M[q[k]][l] = n
    BY <2>1 DEF SetsOf
  <2> HIDE DEF q
  <2>3. \E i \in 1 .. Len(Flat(M, q)) : Flat(M, q)[i] = n
    <3>1. k \in 1 .. Len(q)
      BY DEF q
    <3>2. PICK l \in 1 .. Len(M[q[k]]) : M[q[k]][l] = n
      BY <2>2
    <3>3. \E i \in 1 .. Len(Flat(M, q)) : Flat(M, q)[i] = M[q[k]][l]
      BY <2>1, <3>1, FlatHas
    <3> QED
      BY <3>2, <3>3
  <2>4. \E i \in 1 .. Len(N[a]) : N[a][i] = n
    BY <2>3 DEF q
  <2> QED
    BY <2>2, <2>4 DEF SetsOf
<1>2. ASSUME NEW a \in A, NEW n \in SetsOf(H, A)[a]
      PROVE  Holds(SetsOf(G, B), F[a], n)
  <2> DEFINE q == F[a]
  <2>1. q \in Seq(B)
    BY DEF Gives
  <2>2. n \in Nat /\ \E i \in 1 .. Len(Flat(G, q)) : Flat(G, q)[i] = n
    BY DEF SetsOf
  <2> HIDE DEF q
  <2>3. PICK j \in 1 .. Len(q) : \E k \in 1 .. Len(G[q[j]]) : n = G[q[j]][k]
    <3>1. PICK i \in 1 .. Len(Flat(G, q)) : Flat(G, q)[i] = n
      BY <2>2
    <3>2. \E j \in 1 .. Len(q) : \E k \in 1 .. Len(G[q[j]]) : Flat(G, q)[i] = G[q[j]][k]
      BY <2>1, FlatElements
    <3> QED
      BY <3>1, <3>2
  <2>4. q[j] \in B
    BY <2>1
  <2>5. n \in SetsOf(G, B)[q[j]]
    BY <2>2, <2>3, <2>4 DEF SetsOf
  <2> QED
    BY <2>5 DEF Holds, q
<1> QED
  BY <1>1, <1>2 DEF Carries

\* Every result is behind its call.
ItemsInOrder(q) == Behind(SetsOf(ItemAnswers, UpItems), SetsOf(ItemCalls, UpItems), q)
ChatInOrder(q) == Behind(SetsOf(ChatAnswers, ChatMessages), SetsOf(ChatCalls, ChatMessages), q)
ClaudeInOrder(q) ==
    Behind(SetsOf(ClaudeAnswers, ClaudeMessages), SetsOf(ClaudeCalls, ClaudeMessages), q)

LEMMA ItemsStayInOrder ==
    ASSUME NEW h \in Seq(ChatMessages), NEW tools, IsNames(tools), ChatInOrder(h)
    PROVE  ItemsInOrder(ChatToInput(h, tools))
<1> DEFINE F == Items(tools)
<1>1. ChatToInput(h, tools) = Flat(F, h) /\ Gives(F, ChatMessages, UpItems)
  BY ChatToItems
<1>2. \A m \in ChatMessages :
         Flat(ItemAnswers, F[m]) = ChatAnswers[m] /\ Flat(ItemCalls, F[m]) = ChatCalls[m]
  BY MessageToItems DEF Items
<1> HIDE DEF F
<1>3. Carries(F, ChatMessages, SetsOf(ChatAnswers, ChatMessages), SetsOf(ChatCalls, ChatMessages),
              SetsOf(ItemAnswers, UpItems), SetsOf(ItemCalls, UpItems))
  BY <1>1, <1>2, ItemLists, CarriesOf
<1> QED
  BY <1>1, <1>3, BehindFlat DEF ItemsInOrder, ChatInOrder

LEMMA MessagesStayInOrder ==
    ASSUME NEW h \in Seq(ClaudeMessages), ClaudeInOrder(h)
    PROVE  ChatInOrder(ClaudeToChat(h))
<1>1. ClaudeToChat(h) = Flat(ToChat, h) /\ Gives(ToChat, ClaudeMessages, ChatMessages)
  BY ClaudeToMessages
<1>2. \A m \in ClaudeMessages :
         Flat(ChatAnswers, ToChat[m]) = ClaudeAnswers[m] /\ Flat(ChatCalls, ToChat[m]) = ClaudeCalls[m]
  BY ClaudeMessageToChat DEF ToChat
<1>3. Carries(ToChat, ClaudeMessages,
              SetsOf(ClaudeAnswers, ClaudeMessages), SetsOf(ClaudeCalls, ClaudeMessages),
              SetsOf(ChatAnswers, ChatMessages), SetsOf(ChatCalls, ChatMessages))
  BY <1>1, <1>2, ChatLists, CarriesOf
<1> QED
  BY <1>1, <1>3, BehindFlat DEF ChatInOrder, ClaudeInOrder

\* What the prefix "json" does not change.
LEMMA AnswerInJSON ==
    ASSUME NEW q \in Seq(UpItems)
    PROVE  LET r == EnsureInputContainsJSON(q)
           IN  /\ r \in Seq(UpItems)
               /\ Flat(ItemSays, r) = Flat(ItemSays, q)
               /\ Flat(ItemCalls, r) = Flat(ItemCalls, q)
               /\ Flat(ItemAnswers, r) = Flat(ItemAnswers, q)
               /\ ItemsInOrder(q) => ItemsInOrder(r)
               /\ \E i \in DOMAIN r : MentionsJSON(r[i])
<1> DEFINE part == [type |-> "json", id |-> 0, name |-> <<>>]
           item == [type |-> "message", role |-> "developer", parts |-> <<part>>]
           r == EnsureInputContainsJSON(q)
<1>1. CASE \E i \in DOMAIN q : MentionsJSON(q[i])
  BY <1>1 DEF EnsureInputContainsJSON
<1>2. CASE ~\E i \in DOMAIN q : MentionsJSON(q[i])
  <2>1. r = <<item>> \o q
    BY <1>2 DEF EnsureInputContainsJSON
  <2>2. part \in Parts /\ part.id = 0 /\ part.type = "json"
    <3>1. <<>> \in Seq(STRING)
      OBVIOUS
    <3> QED
      BY <3>1 DEF Parts, BlockTypes, Texts
  <2>3. item.type = "message" /\ item.parts = <<part>> /\ item.role = "developer"
    OBVIOUS
  <2> HIDE DEF part
  <2>4. item \in UpItems
    <3>1. <<part>> \in Seq(Parts)
      BY <2>2
    <3>2. item \in UpMessages
      BY <3>1 DEF UpMessages, Roles
    <3> QED
      BY <3>2 DEF UpItems
  <2>5. SaidIn(item) = <<>>
    <3>1. Ids(<<part>>) = <<0>>
      BY <2>2 DEF Ids
    <3> DEFINE K == {i \in DOMAIN <<0>> : <<0>>[i] # 0}
    <3>2. \A i \in DOMAIN <<0>> : i \notin K
      OBVIOUS
    <3>3. Those(<<0>>, K) = <<>>
      <4> HIDE DEF K
      <4>1. 1 \notin K
        BY <3>2
      <4>2. <<>> \in Seq(Nat) /\ 0 \in Nat /\ Append(<<>>, 0) = <<0>> /\ Len(<<>>) = 0
        OBVIOUS
      <4>3. \A s \in Seq(Nat) : (\A i \in 1 .. Len(s) : i \in {} <=> i \in K)
               => Those(Append(s, 0), K) = IF Len(s) + 1 \in K THEN Append(Those(s, {}), 0)
                                           ELSE Those(s, {})
        BY <4>2, ThoseLonger
      <4>4. \A i \in 1 .. Len(<<>>) : i \in {} <=> i \in K
        OBVIOUS
      <4>5. Those(Append(<<>>, 0), K) = IF Len(<<>>) + 1 \in K THEN Append(Those(<<>>, {}), 0)
                                        ELSE Those(<<>>, {})
        BY <4>2, <4>3, <4>4, Zenon
      <4>6. Len(<<>>) + 1 \notin K
        BY <4>1, <4>2
      <4> QED
        BY <4>2, <4>5, <4>6, ThoseEmpty, Zenon
    <3> HIDE DEF K
    <3>4. SaidIn(item) = Those(<<0>>, K)
      BY <2>3, <3>1 DEF SaidIn, K
    <3> QED
      BY <3>3, <3>4
  <2> HIDE DEF item, r
  <2>6. ItemSays[item] = <<>> /\ ItemCalls[item] = <<>> /\ ItemAnswers[item] = <<>>
    BY <2>3, <2>4, <2>5 DEF ItemSays, ItemCalls, ItemAnswers, IdOf
  <2>7. <<item>> \in Seq(UpItems)
    BY <2>4
  <2>8. \A F : Gives(F, UpItems, Nat) /\ F[item] = <<>> => Flat(F, r) = Flat(F, q)
    <3> SUFFICES ASSUME NEW F, Gives(F, UpItems, Nat), F[item] = <<>>
                 PROVE  Flat(F, r) = Flat(F, q)
      OBVIOUS
    <3>1. \A a, b \in Seq(UpItems) : Flat(F, a \o b) = Flat(F, a) \o Flat(F, b)
      BY FlatJoin
    <3>2. Flat(F, <<item>> \o q) = Flat(F, <<item>>) \o Flat(F, q)
      BY <2>7, <3>1, Zenon
    <3>3. Flat(F, <<item>>) = F[item] /\ Flat(F, q) \in Seq(Nat)
      BY <2>4, FlatOne, FlatTyped
    <3>4. <<>> \o Flat(F, q) = Flat(F, q)
      BY <3>3
    <3> QED
      BY <2>1, <3>2, <3>3, <3>4
  <2>9. r \in Seq(UpItems)
    BY <2>1, <2>7
  <2>10. ItemsInOrder(q) => ItemsInOrder(r)
    <3> SUFFICES ASSUME ItemsInOrder(q) PROVE ItemsInOrder(r)
      OBVIOUS
    <3> DEFINE N == SetsOf(ItemAnswers, UpItems)
               H == SetsOf(ItemCalls, UpItems)
               p == <<item>>
    <3>1. Len(p) = 1 /\ p[1] = item
      OBVIOUS
    <3>2. N[item] = {}
      BY <2>4, <2>6 DEF SetsOf
    <3>4. \A i \in 1 .. Len(q) : \A n \in N[q[i]] : \E j \in 1 .. i - 1 : n \in H[q[j]]
      BY DEF ItemsInOrder, Behind
    <3>5. p \in Seq(UpItems)
      BY <2>7
    <3> HIDE DEF N, H, p
    <3>3. Behind(N, H, p)
      BY <3>1, <3>2 DEF Behind
    <3>6. Behind(N, H, p \o q)
      BY <3>3, <3>4, <3>5, BehindJoin
    <3> QED
      BY <2>1, <3>6 DEF ItemsInOrder, N, H, p
  <2>11. \E i \in DOMAIN r : MentionsJSON(r[i])
    <3>1. 1 \in DOMAIN r /\ r[1] = item
      BY <2>1, <2>7
    <3>2. OfType(<<part>>, {"json"}) # <<>>
      <4>1. <<part>> \in Seq(Parts)
        BY <2>2
      <4>2. OfType(<<part>>, {"json"}) = Flat(Picked(Parts, {"json"}), <<part>>)
        BY <4>1, OfTypeIsFlat
      <4>3. Flat(Picked(Parts, {"json"}), <<part>>) = Picked(Parts, {"json"})[part]
        <5>1. Gives(Picked(Parts, {"json"}), Parts, Parts)
          BY PickedGives
        <5> QED
          BY <2>2, <5>1, FlatOne
      <4>4. Picked(Parts, {"json"})[part] = <<part>>
        BY <2>2 DEF Picked
      <4>5. <<part>> # <<>>
        OBVIOUS
      <4> QED
        BY <4>2, <4>3, <4>4, <4>5, Zenon
    <3>3. MentionsJSON(item)
      BY <2>3, <3>2 DEF MentionsJSON
    <3> QED
      BY <3>1, <3>3
  <2> QED
    BY <2>6, <2>8, <2>9, <2>10, <2>11, ItemLists DEF r
<1> QED
  BY <1>1, <1>2
-----------------------------------------------------------------------------
(***************************************************************************)
(* What the upstream is sent, element by element.                          *)
(***************************************************************************)
LEMMA OfTypeElements ==
    ASSUME NEW A, NEW q \in Seq(A), NEW T
    PROVE  /\ \A i \in DOMAIN OfType(q, T) : \E j \in DOMAIN q :
                 OfType(q, T)[i] = q[j] /\ q[j].type \in T
           /\ \A j \in DOMAIN q : q[j].type \in T =>
                 \E i \in DOMAIN OfType(q, T) : OfType(q, T)[i] = q[j]
<1> DEFINE F == Picked(A, T)
           p == OfType(q, T)
<1>1. Gives(F, A, A) /\ p = Flat(F, q) /\ p \in Seq(A)
  <2>1. Gives(F, A, A)
    BY PickedGives
  <2>2. p = Flat(F, q) /\ p \in Seq(A)
    BY OfTypeIsFlat
  <2> QED
    BY <2>1, <2>2
<1>2. \A j \in 1 .. Len(q) : F[q[j]] = IF q[j].type \in T THEN <<q[j]>> ELSE <<>>
  <2>1. \A j \in 1 .. Len(q) : q[j] \in A
    OBVIOUS
  <2> QED
    BY <2>1 DEF Picked
<1>3. DOMAIN p = 1 .. Len(p) /\ DOMAIN q = 1 .. Len(q)
  BY <1>1
<1> HIDE DEF F, p
<1>4. ASSUME NEW i \in DOMAIN p PROVE \E j \in DOMAIN q : p[i] = q[j] /\ q[j].type \in T
  <2>1. \A l \in 1 .. Len(Flat(F, q)) : \E j \in 1 .. Len(q) : \E k \in 1 .. Len(F[q[j]]) :
           Flat(F, q)[l] = F[q[j]][k]
    BY ONLY <1>1, q \in Seq(A), FlatElements
  <2>2. PICK j \in 1 .. Len(q) : \E k \in 1 .. Len(F[q[j]]) : p[i] = F[q[j]][k]
    BY <1>1, <1>3, <2>1
  <2>3. PICK k \in 1 .. Len(F[q[j]]) : p[i] = F[q[j]][k]
    BY <2>2
  <2>4. CASE q[j].type \in T
    <3>1. F[q[j]] = <<q[j]>> /\ Len(<<q[j]>>) = 1
      BY <1>2, <2>4
    <3>2. k = 1
      BY <2>3, <3>1
    <3>3. p[i] = q[j]
      BY <2>3, <3>1, <3>2
    <3> QED
      BY <1>3, <2>4, <3>3
  <2>5. CASE q[j].type \notin T
    <3>1. F[q[j]] = <<>> /\ Len(<<>>) = 0
      BY <1>2, <2>5
    <3> QED
      BY <2>3, <3>1
  <2> QED
    BY <2>4, <2>5
<1>5. ASSUME NEW j \in DOMAIN q, q[j].type \in T PROVE \E i \in DOMAIN p : p[i] = q[j]
  <2>1. F[q[j]] = <<q[j]>> /\ Len(<<q[j]>>) = 1 /\ <<q[j]>>[1] = q[j]
    BY <1>2, <1>3, <1>5
  <2>2. 1 \in 1 .. Len(F[q[j]]) /\ F[q[j]][1] = q[j]
    BY <2>1
  <2>3. \A l \in 1 .. Len(q) : \A k \in 1 .. Len(F[q[l]]) :
           \E i \in 1 .. Len(Flat(F, q)) : Flat(F, q)[i] = F[q[l]][k]
    BY <1>1, FlatHas
  <2>4. \E i \in 1 .. Len(Flat(F, q)) : Flat(F, q)[i] = F[q[j]][1]
    BY <1>3, <2>2, <2>3
  <2> QED
    BY <1>1, <1>3, <2>2, <2>4
<1> QED
  BY <1>4, <1>5 DEF p

LEMMA IdsOfType ==
    ASSUME NEW q \in Seq(Blocks), NEW T
    PROVE  LET ids == Ids(OfType(q, T))
           IN  {n \in Nat : \E k \in 1 .. Len(ids) : ids[k] = n}
                  = {b.id : b \in {b \in ToSet(q) : b.type \in T}}
<1> DEFINE p == OfType(q, T)
           ids == Ids(p)
<1>1. p \in Seq(Blocks) /\ p \in Seq(Parts)
  BY IdsOfBlocks, BlocksAreParts
<1>2. /\ \A i \in DOMAIN p : \E j \in DOMAIN q : p[i] = q[j] /\ q[j].type \in T
      /\ \A j \in DOMAIN q : q[j].type \in T => \E i \in DOMAIN p : p[i] = q[j]
  BY OfTypeElements
<1> HIDE DEF p
<1>3. DOMAIN p = 1 .. Len(p) /\ Len(ids) = Len(p) /\ \A i \in DOMAIN p : ids[i] = p[i].id
  <2>1. Len(ids) = Len(p) /\ DOMAIN p = 1 .. Len(p)
    BY <1>1, IdsTyped
  <2> QED
    BY <2>1 DEF Ids
<1> HIDE DEF ids
<1>4. \A j \in DOMAIN q : q[j] \in ToSet(q) /\ q[j].id \in Nat
  <2>1. \A j \in DOMAIN q : q[j] \in Blocks
    OBVIOUS
  <2> QED
    BY <2>1, BlockFacts DEF ToSet
<1>5. ASSUME NEW k \in 1 .. Len(ids)
      PROVE  \E b \in ToSet(q) : b.type \in T /\ b.id = ids[k]
  <2>1. PICK j \in DOMAIN q : p[k] = q[j] /\ q[j].type \in T
    BY <1>2, <1>3
  <2> QED
    BY <1>3, <1>4, <2>1
<1>6. ASSUME NEW b \in ToSet(q), b.type \in T
      PROVE  b.id \in Nat /\ \E k \in 1 .. Len(ids) : ids[k] = b.id
  <2>1. PICK j \in DOMAIN q : b = q[j]
    BY DEF ToSet
  <2>2. PICK i \in DOMAIN p : p[i] = q[j]
    BY <1>2, <1>6, <2>1
  <2> QED
    BY <1>3, <1>4, <2>1, <2>2
<1>7. {n \in Nat : \E k \in 1 .. Len(ids) : ids[k] = n}
         = {b.id : b \in {b \in ToSet(q) : b.type \in T}}
  BY <1>5, <1>6
<1> QED
  BY <1>7 DEF p, ids

LEMMA OneId ==
    ASSUME NEW y \in Nat
    PROVE  {n \in Nat : \E k \in 1 .. Len(<<y>>) : <<y>>[k] = n} = {y}
<1>1. \A n : (\E k \in 1 .. Len(<<y>>) : <<y>>[k] = n) <=> n = y
  OBVIOUS
<1> QED
  BY <1>1

\* The calls that an item, or what it is made of, has.
LEMMA MadeAndAnswered ==
    /\ \A m \in ClaudeMessages :
          /\ SetsOf(ClaudeCalls, ClaudeMessages)[m] = Made("claude", m)
          /\ SetsOf(ClaudeAnswers, ClaudeMessages)[m] = Answered("claude", m)
    /\ \A m \in ChatMessages :
          /\ SetsOf(ChatCalls, ChatMessages)[m] = Made("chat", m)
          /\ SetsOf(ChatAnswers, ChatMessages)[m] = Answered("chat", m)
    /\ \A x \in UpItems :
          /\ SetsOf(ItemCalls, UpItems)[x] = Made("responses", x)
          /\ SetsOf(ItemAnswers, UpItems)[x] = Answered("responses", x)
<1>1. ASSUME NEW m \in ClaudeMessages
      PROVE  /\ SetsOf(ClaudeCalls, ClaudeMessages)[m] = Made("claude", m)
             /\ SetsOf(ClaudeAnswers, ClaudeMessages)[m] = Answered("claude", m)
  <2>1. m.blocks \in Seq(Blocks)
    BY ClaudeMessageFacts
  <2> DEFINE u == Ids(OfType(m.blocks, {"tool_use"}))
             r == Ids(OfType(m.blocks, {"tool_result"}))
  <2>2. /\ {n \in Nat : \E k \in 1 .. Len(u) : u[k] = n}
              = {b.id : b \in {b \in ToSet(m.blocks) : b.type \in {"tool_use"}}}
        /\ {n \in Nat : \E k \in 1 .. Len(r) : r[k] = n}
              = {b.id : b \in {b \in ToSet(m.blocks) : b.type \in {"tool_result"}}}
    BY <2>1, IdsOfType
  <2>3. ClaudeCalls[m] = u /\ ClaudeAnswers[m] = r
    BY DEF ClaudeCalls, ClaudeAnswers
  <2> HIDE DEF u, r
  <2>4. /\ SetsOf(ClaudeCalls, ClaudeMessages)[m] = {n \in Nat : \E k \in 1 .. Len(u) : u[k] = n}
        /\ SetsOf(ClaudeAnswers, ClaudeMessages)[m] = {n \in Nat : \E k \in 1 .. Len(r) : r[k] = n}
    BY <2>3 DEF SetsOf
  <2> QED
    BY <2>2, <2>4 DEF Made, Answered
<1>2. ASSUME NEW m \in ChatMessages
      PROVE  /\ SetsOf(ChatCalls, ChatMessages)[m] = Made("chat", m)
             /\ SetsOf(ChatAnswers, ChatMessages)[m] = Answered("chat", m)
  <2>1. m.calls \in Seq(Blocks) /\ m.calls \in Seq(Parts) /\ m.answers \in Nat
    BY ChatMessageFacts, BlocksAreParts
  <2> DEFINE c == m.calls
             ids == Ids(c)
  <2>2. /\ DOMAIN c = 1 .. Len(ids) /\ \A i \in DOMAIN c : ids[i] = c[i].id /\ c[i].id \in Nat
    <3>1. Len(ids) = Len(c) /\ DOMAIN c = 1 .. Len(c)
      BY <2>1, IdsTyped
    <3>2. \A i \in DOMAIN c : c[i] \in Blocks
      BY <2>1
    <3> QED
      BY <3>1, <3>2, BlockFacts DEF Ids
  <2>3. ChatCalls[m] = ids
    BY DEF ChatCalls
  <2>4. SetsOf(ChatCalls, ChatMessages)[m] = {n \in Nat : \E k \in 1 .. Len(ids) : ids[k] = n}
    BY <2>3 DEF SetsOf
  <2> HIDE DEF ids
  <2>5. {n \in Nat : \E k \in 1 .. Len(ids) : ids[k] = n} = {b.id : b \in ToSet(c)}
    BY <2>2 DEF ToSet
  <2>6. SetsOf(ChatAnswers, ChatMessages)[m] = IF m.role = "tool" THEN {m.answers} ELSE {}
    <3>1. CASE m.role = "tool"
      <4>1. ChatAnswers[m] = <<m.answers>>
        BY <3>1 DEF ChatAnswers
      <4>3. SetsOf(ChatAnswers, ChatMessages)[m]
               = {n \in Nat : \E k \in 1 .. Len(<<m.answers>>) : <<m.answers>>[k] = n}
        BY <4>1 DEF SetsOf
      <4> QED
        BY <2>1, <3>1, <4>3, OneId
    <3>2. CASE m.role # "tool"
      <4>1. ChatAnswers[m] = <<>>
        BY <3>2 DEF ChatAnswers
      <4> QED
        BY <3>2, <4>1 DEF SetsOf
    <3> QED
      BY <3>1, <3>2
  <2> QED
    BY <2>4, <2>5, <2>6 DEF Made, Answered
<1>3. ASSUME NEW x \in UpItems
      PROVE  /\ SetsOf(ItemCalls, UpItems)[x] = Made("responses", x)
             /\ SetsOf(ItemAnswers, UpItems)[x] = Answered("responses", x)
  <2>1. x.type \in {"function_call", "function_call_output"} => x.id \in Nat
    BY ItemKinds DEF UpCalls, UpOutputs
  <2>2. \A y : \A n : (\E k \in 1 .. Len(<<y>>) : <<y>>[k] = n) <=> n = y
    OBVIOUS
  <2>3. \A n : ~\E k \in 1 .. Len(<<>>) : <<>>[k] = n
    OBVIOUS
  <2>4. SetsOf(ItemCalls, UpItems)[x] = IF x.type = "function_call" THEN {x.id} ELSE {}
    <3>1. CASE x.type = "function_call"
      <4>1. ItemCalls[x] = <<x.id>>
        BY <3>1 DEF ItemCalls, IdOf
      <4> QED
        BY <2>1, <2>2, <3>1, <4>1 DEF SetsOf
    <3>2. CASE x.type # "function_call"
      <4>1. ItemCalls[x] = <<>>
        BY <3>2 DEF ItemCalls, IdOf
      <4> QED
        BY <2>3, <3>2, <4>1 DEF SetsOf
    <3> QED
      BY <3>1, <3>2
  <2>5. SetsOf(ItemAnswers, UpItems)[x] = IF x.type = "function_call_output" THEN {x.id} ELSE {}
    <3>1. CASE x.type = "function_call_output"
      <4>1. ItemAnswers[x] = <<x.id>>
        BY <3>1 DEF ItemAnswers, IdOf
      <4> QED
        BY <2>1, <2>2, <3>1, <4>1 DEF SetsOf
    <3>2. CASE x.type # "function_call_output"
      <4>1. ItemAnswers[x] = <<>>
        BY <3>2 DEF ItemAnswers, IdOf
      <4> QED
        BY <2>3, <3>2, <4>1 DEF SetsOf
    <3> QED
      BY <3>1, <3>2
  <2> QED
    BY <2>4, <2>5 DEF Made, Answered
<1> QED
  BY <1>1, <1>2, <1>3
-----------------------------------------------------------------------------
(***************************************************************************)
(* The client's request, first or second: a history it may send, in which  *)
(* the calls of the upstream's answers bear the upstream's names, but for  *)
(* those that look like another tool to an Anthropic client.               *)
(***************************************************************************)
RequestFields == {"api", "tools", "choice", "effort", "json", "history", "items", "again", "used"}

Known(r, id, name) ==
    id \in DOMAIN r.used =>
        \/ r.api = "claude" /\ r.used[id] \in ToSet(r.tools)
        \/ name = r.used[id]

ClaudeRequest(r) ==
    /\ r.history \in Seq(ClaudeMessages) /\ ClaudeInOrder(r.history)
    /\ \A i \in DOMAIN r.history : \A k \in DOMAIN r.history[i].blocks :
          LET b == r.history[i].blocks[k]
          IN  b.type = "tool_use" => /\ Known(r, b.id, ToolName(r.tools, b.name))
                                     /\ r.again => b.id < 100

ChatRequest(r) ==
    /\ r.history \in Seq(ChatMessages) /\ ChatInOrder(r.history)
    /\ \A i \in DOMAIN r.history : \A k \in DOMAIN r.history[i].calls :
          LET b == r.history[i].calls[k]
          IN  Known(r, b.id, ToolName(r.tools, b.name)) /\ (r.again => b.id < 100)

ItemsRequest(r) ==
    r.history \in Seq(UpItems) /\ ItemsInOrder(r.history) /\ r.used = <<>>

RequestOK(r) ==
    /\ DOMAIN r = RequestFields /\ IsNames(r.tools)
    /\ r.api \in {"claude", "chat", "responses"}
    /\ r.api = "claude" => ClaudeRequest(r)
    /\ r.api = "chat" => ChatRequest(r)
    /\ r.api = "responses" => ItemsRequest(r)
    /\ r.again => r.used = <<>>

\* What the upstream can take.
Takes(r, q) ==
    /\ q \in Seq(UpItems) /\ ItemsInOrder(q)
    /\ \A i \in 1 .. Len(q) :
          /\ q[i].type = "message" => q[i].role # "system"
          /\ q[i].type = "function_call" => Known(r, q[i].id, q[i].name)

LEMMA MessageItems ==
    ASSUME NEW m \in ChatMessages, NEW tools, NEW k \in 1 .. Len(InputItems(m, tools))
    PROVE  LET item == InputItems(m, tools)[k]
           IN  /\ item.type = "message" => item.role # "system"
               /\ item.type = "function_call" =>
                     \E c \in DOMAIN m.calls :
                        item.id = m.calls[c].id /\ item.name = ToolName(tools, m.calls[c].name)
<1>0. m.calls \in Seq(Blocks)
  BY ChatMessageFacts
<1>1. CASE m.role = "tool"
  <2> DEFINE out == [type |-> "function_call_output", id |-> m.answers]
  <2>1. InputItems(m, tools) = <<out>>
    BY <1>1 DEF InputItems
  <2>2. out.type = "function_call_output"
    OBVIOUS
  <2> HIDE DEF out
  <2>3. k = 1 /\ <<out>>[1] = out
    BY <2>1
  <2> QED
    BY <2>1, <2>2, <2>3
<1>2. CASE m.role # "tool"
  <2> DEFINE msg == [type |-> "message", role |-> UpstreamRole(m.role),
                     parts |-> OfType(m.parts, IF m.role = "user" THEN Texts \cup {"image"} ELSE Texts)]
             call(c) == [type |-> "function_call", id |-> m.calls[c].id,
                         name |-> ToolName(tools, m.calls[c].name)]
             calls == IF m.role = "assistant" THEN [c \in DOMAIN m.calls |-> call(c)] ELSE <<>>
  <2>1. InputItems(m, tools) = <<msg>> \o calls
    BY <1>2 DEF InputItems
  <2>2. msg.type = "message" /\ msg.role # "system"
    BY DEF UpstreamRole
  <2>3. \A c : /\ call(c).type = "function_call" /\ call(c).id = m.calls[c].id
               /\ call(c).name = ToolName(tools, m.calls[c].name)
    OBVIOUS
  <2> HIDE DEF msg, call
  <2>4. /\ DOMAIN calls = 1 .. Len(calls) /\ Len(calls) \in Nat
        /\ IsSeq(calls)
        /\ \A c \in DOMAIN calls : c \in DOMAIN m.calls /\ calls[c] = call(c)
    <3>1. CASE m.role = "assistant"
      <4> DEFINE S == {call(c) : c \in DOMAIN m.calls}
      <4>1. DOMAIN m.calls = 1 .. Len(m.calls) /\ Len(m.calls) \in Nat
        BY <1>0
      <4>2. [c \in 1 .. Len(m.calls) |-> call(c)] \in Seq(S)
        BY <4>1
      <4>3. calls = [c \in 1 .. Len(m.calls) |-> call(c)]
        BY <3>1, <4>1
      <4> HIDE DEF calls, S
      <4>4. calls \in Seq(S)
        BY <4>2, <4>3
      <4>5. DOMAIN calls = 1 .. Len(m.calls) /\ \A c \in DOMAIN calls : calls[c] = call(c)
        BY <4>3
      <4> QED
        BY <4>1, <4>4, <4>5 DEF IsSeq
    <3>2. CASE m.role # "assistant"
      <4>1. calls = <<>> /\ <<>> \in Seq({})
        BY <3>2
      <4> QED
        BY <4>1 DEF IsSeq
    <3> QED
      BY <3>1, <3>2
  <2> HIDE DEF calls
  <2>5. CASE k = 1
    <3>1. (<<msg>> \o calls)[1] = msg
      BY <2>4 DEF IsSeq
    <3> QED
      BY <2>1, <2>2, <2>5, <3>1
  <2>6. CASE k # 1
    <3>1. PICK l \in Nat : l = Len(calls)
      BY <2>4
    <3>2. /\ Len(<<msg>> \o calls) = 1 + l
          /\ \A c \in 1 .. l : (<<msg>> \o calls)[1 + c] = calls[c]
      <4>1. PICK S : calls \in Seq(S)
        BY <2>4 DEF IsSeq
      <4>2. calls \in Seq(S \cup {msg}) /\ <<msg>> \in Seq(S \cup {msg})
        BY <4>1
      <4>3. Len(<<msg>>) = 1
        OBVIOUS
      <4> QED
        BY <3>1, <4>2, <4>3
    <3>3. k - 1 \in 1 .. l /\ k = 1 + (k - 1)
      BY <2>1, <2>6, <3>2
    <3>4. PICK c \in 1 .. l : k = 1 + c
      BY <3>3
    <3>5. InputItems(m, tools)[k] = call(c) /\ c \in DOMAIN m.calls
      BY <2>1, <2>4, <3>1, <3>2, <3>4
    <3> QED
      BY <2>3, <3>5
  <2> QED
    BY <2>5, <2>6
<1> QED
  BY <1>1, <1>2

\* A conversation by messages.
LEMMA ChatTaken ==
    ASSUME NEW r, IsNames(r.tools), NEW h \in Seq(ChatMessages), ChatInOrder(h),
           \A i \in DOMAIN h : \A k \in DOMAIN h[i].calls :
              Known(r, h[i].calls[k].id, ToolName(r.tools, h[i].calls[k].name))
    PROVE  Takes(r, ChatToInput(h, r.tools))
<1> DEFINE F == Items(r.tools)
           q == ChatToInput(h, r.tools)
<1>1. q = Flat(F, h) /\ Gives(F, ChatMessages, UpItems) /\ q \in Seq(UpItems)
  BY ChatToItems
<1>2. ItemsInOrder(q)
  BY ItemsStayInOrder
<1>3. \A m \in ChatMessages : F[m] = InputItems(m, r.tools)
  BY DEF Items
<1> HIDE DEF F, q
<1>4. ASSUME NEW i \in 1 .. Len(q)
      PROVE  /\ q[i].type = "message" => q[i].role # "system"
             /\ q[i].type = "function_call" => Known(r, q[i].id, q[i].name)
  <2>1. \A l \in 1 .. Len(Flat(F, h)) : \E j \in 1 .. Len(h) : \E k \in 1 .. Len(F[h[j]]) :
           Flat(F, h)[l] = F[h[j]][k]
    <3>1. h \in Seq(ChatMessages) /\ Gives(F, ChatMessages, UpItems)
      BY <1>1
    <3> QED
      BY ONLY <3>1, FlatElements
  <2>2. PICK j \in 1 .. Len(h) : \E k \in 1 .. Len(F[h[j]]) : q[i] = F[h[j]][k]
    BY <1>1, <2>1
  <2>3. PICK k \in 1 .. Len(F[h[j]]) : q[i] = F[h[j]][k]
    BY <2>2
  <2>4. h[j] \in ChatMessages /\ j \in DOMAIN h
    OBVIOUS
  <2>5. k \in 1 .. Len(InputItems(h[j], r.tools)) /\ q[i] = InputItems(h[j], r.tools)[k]
    BY <1>3, <2>3, <2>4
  <2>6. /\ q[i].type = "message" => q[i].role # "system"
        /\ q[i].type = "function_call" =>
              \E c \in DOMAIN h[j].calls :
                 /\ q[i].id = h[j].calls[c].id
                 /\ q[i].name = ToolName(r.tools, h[j].calls[c].name)
    BY <2>4, <2>5, MessageItems
  <2> QED
    BY <2>4, <2>6
<1> QED
  BY <1>1, <1>2, <1>4 DEF Takes, q

\* A conversation by blocks.
LEMMA ClaudeTaken ==
    ASSUME NEW r, IsNames(r.tools), ClaudeRequest(r)
    PROVE  Takes(r, ChatToInput(ClaudeToChat(r.history), r.tools))
<1> DEFINE h == r.history
           c == ClaudeToChat(h)
<1>1. h \in Seq(ClaudeMessages) /\ ClaudeInOrder(h)
  BY DEF ClaudeRequest
<1>2. c \in Seq(ChatMessages) /\ ChatInOrder(c) /\ c = Flat(ToChat, h)
      /\ Gives(ToChat, ClaudeMessages, ChatMessages)
  BY <1>1, ClaudeToMessages, MessagesStayInOrder
<1>3. ASSUME NEW i \in DOMAIN c, NEW k \in DOMAIN c[i].calls
      PROVE  Known(r, c[i].calls[k].id, ToolName(r.tools, c[i].calls[k].name))
  <2> HIDE DEF c, h
  <2>1. \A l \in 1 .. Len(Flat(ToChat, h)) : \E j \in 1 .. Len(h) : \E n \in 1 .. Len(ToChat[h[j]]) :
           Flat(ToChat, h)[l] = ToChat[h[j]][n]
    BY ONLY <1>1, <1>2, FlatElements
  <2>2. i \in 1 .. Len(c)
    BY <1>2
  <2>3. PICK j \in 1 .. Len(h) : \E n \in 1 .. Len(ToChat[h[j]]) : c[i] = ToChat[h[j]][n]
    BY <1>2, <2>1, <2>2
  <2>4. PICK n \in 1 .. Len(ToChat[h[j]]) : c[i] = ToChat[h[j]][n]
    BY <2>3
  <2> DEFINE m == h[j]
             uses == OfType(m.blocks, {"tool_use"})
             results == OfType(m.blocks, {"tool_result"})
             rs == [x \in DOMAIN results |-> ToolMessage(results[x])]
             rest == [role |-> m.role, parts |-> OfType(m.blocks, Texts \cup {"image"}),
                      calls |-> uses, answers |-> 0]
  <2>5. m \in ClaudeMessages /\ j \in DOMAIN h
    BY <1>1
  <2>6. m.blocks \in Seq(Blocks) /\ uses \in Seq(Blocks) /\ results \in Seq(Blocks)
    BY <2>5, ClaudeMessageFacts, IdsOfBlocks
  <2>7. ToChat[m] = rs \o <<>> \/ ToChat[m] = rs \o <<rest>>
    BY <2>5 DEF ToChat, ClaudeMessage
  <2>8. rest.calls = uses
    OBVIOUS
  <2>9. \A x \in DOMAIN results : rs[x].calls = <<>>
    BY DEF ToolMessage
  <2>10. rs \in Seq(ChatMessages) /\ DOMAIN rs = DOMAIN results
    BY <2>6, ResultsToChat
  <2>11. /\ \A x \in DOMAIN uses : \E y \in DOMAIN m.blocks :
               uses[x] = m.blocks[y] /\ m.blocks[y].type \in {"tool_use"}
    BY <2>6, OfTypeElements
  <2> HIDE DEF m, uses, results, rs, rest
  <2>12. c[i].calls = <<>> \/ c[i].calls = uses
    <3>1. PICK l \in Nat : l = Len(rs) /\ DOMAIN rs = 1 .. l
      BY <2>10
    <3>2. rs \o <<>> = rs
      BY <2>10
    <3>3. /\ Len(rs \o <<rest>>) = l + 1 /\ (rs \o <<rest>>)[l + 1] = rest
          /\ \A x \in 1 .. l : (rs \o <<rest>>)[x] = rs[x]
      <4>1. rs \in Seq(ChatMessages \cup {rest}) /\ <<rest>> \in Seq(ChatMessages \cup {rest})
        BY <2>10
      <4>2. Len(<<rest>>) = 1 /\ <<rest>>[1] = rest
        OBVIOUS
      <4> QED
        BY <3>1, <4>1, <4>2
    <3>4. n \in 1 .. Len(ToChat[m]) /\ c[i] = ToChat[m][n]
      BY <2>4 DEF m
    <3>5. CASE n \in 1 .. l
      BY <2>7, <2>9, <2>10, <3>1, <3>2, <3>3, <3>4, <3>5
    <3>6. CASE n \notin 1 .. l
      <4>1. ToChat[m] = rs \o <<rest>> /\ n = l + 1
        BY <2>7, <3>1, <3>2, <3>3, <3>4, <3>6
      <4> QED
        BY <2>8, <3>3, <3>4, <4>1
    <3> QED
      BY <3>5, <3>6
  <2>13. c[i].calls = uses
    <3>1. DOMAIN <<>> = {}
      OBVIOUS
    <3> QED
      BY <2>12, <3>1
  <2>14. PICK y \in DOMAIN m.blocks : uses[k] = m.blocks[y] /\ m.blocks[y].type = "tool_use"
    BY <2>11, <2>13
  <2>15. Known(r, m.blocks[y].id, ToolName(r.tools, m.blocks[y].name))
    BY <2>5, <2>14 DEF ClaudeRequest, m, h
  <2> QED
    BY <2>13, <2>14, <2>15
<1> HIDE DEF c
<1>4. Takes(r, ChatToInput(c, r.tools))
  BY <1>2, <1>3, ChatTaken
<1> QED
  BY <1>4 DEF c

\* A request that brings its items.
LEMMA ItemsTaken ==
    ASSUME NEW r, ItemsRequest(r)
    PROVE  Takes(r, ResponsesInput(r.history))
<1> DEFINE h == r.history
           q == ResponsesInput(h)
           x(i) == IF h[i].type = "message" THEN [h[i] EXCEPT !.role = UpstreamRole(@)] ELSE h[i]
<1>1. h \in Seq(UpItems) /\ ItemsInOrder(h) /\ r.used = <<>>
  BY DEF ItemsRequest
<1>2. DOMAIN h = 1 .. Len(h) /\ Len(h) \in Nat /\ \A i \in 1 .. Len(h) : h[i] \in UpItems
  BY <1>1
<1>3. q = [i \in 1 .. Len(h) |-> x(i)]
  BY <1>2 DEF ResponsesInput
<1>4. ASSUME NEW i \in 1 .. Len(h)
      PROVE  /\ x(i) \in UpItems
             /\ x(i).type = "message" => x(i).role # "system"
             /\ ItemCalls[x(i)] = ItemCalls[h[i]] /\ ItemAnswers[x(i)] = ItemAnswers[h[i]]
  <2>1. h[i] \in UpItems
    BY <1>2
  <2>2. CASE h[i].type = "message"
    <3> DEFINE y == [h[i] EXCEPT !.role = UpstreamRole(@)]
    <3>1. h[i] \in UpMessages
      BY <2>1, <2>2, ItemKinds
    <3>2. UpstreamRole(h[i].role) \in Roles /\ UpstreamRole(h[i].role) # "system"
      BY <3>1 DEF UpMessages, Roles, UpstreamRole
    <3>3. y \in UpMessages /\ y.type = "message" /\ y.role # "system"
      BY <3>1, <3>2 DEF UpMessages
    <3> HIDE DEF y
    <3>4. y \in UpItems
      BY <3>3 DEF UpItems
    <3>5. ItemCalls[y] = <<>> /\ ItemAnswers[y] = <<>>
      BY <3>3, <3>4 DEF ItemCalls, ItemAnswers, IdOf
    <3>6. ItemCalls[h[i]] = <<>> /\ ItemAnswers[h[i]] = <<>>
      BY <2>1, <2>2 DEF ItemCalls, ItemAnswers, IdOf
    <3> QED
      BY <2>2, <3>3, <3>4, <3>5, <3>6 DEF y
  <2>3. CASE h[i].type # "message"
    BY <2>1, <2>3
  <2> QED
    BY <2>2, <2>3
<1> HIDE DEF x, q, h
<1>5. q \in Seq(UpItems) /\ Len(q) = Len(h) /\ \A i \in 1 .. Len(h) : q[i] = x(i)
  <2>1. [i \in 1 .. Len(h) |-> x(i)] \in Seq(UpItems)
    BY <1>2, <1>4
  <2>2. DOMAIN q = 1 .. Len(h) /\ \A i \in 1 .. Len(h) : q[i] = x(i)
    BY <1>3
  <2> QED
    BY <1>2, <1>3, <2>1, <2>2
<1>6. \A i \in 1 .. Len(h) :
         /\ SetsOf(ItemCalls, UpItems)[q[i]] = SetsOf(ItemCalls, UpItems)[h[i]]
         /\ SetsOf(ItemAnswers, UpItems)[q[i]] = SetsOf(ItemAnswers, UpItems)[h[i]]
  <2>1. ASSUME NEW a \in UpItems, NEW b \in UpItems,
               ItemCalls[a] = ItemCalls[b], ItemAnswers[a] = ItemAnswers[b]
        PROVE  /\ SetsOf(ItemCalls, UpItems)[a] = SetsOf(ItemCalls, UpItems)[b]
               /\ SetsOf(ItemAnswers, UpItems)[a] = SetsOf(ItemAnswers, UpItems)[b]
    BY ONLY <2>1 DEF SetsOf
  <2> SUFFICES ASSUME NEW i \in 1 .. Len(h)
               PROVE  /\ SetsOf(ItemCalls, UpItems)[q[i]] = SetsOf(ItemCalls, UpItems)[h[i]]
                      /\ SetsOf(ItemAnswers, UpItems)[q[i]] = SetsOf(ItemAnswers, UpItems)[h[i]]
    OBVIOUS
  <2>2. /\ x(i) \in UpItems /\ h[i] \in UpItems /\ q[i] = x(i)
        /\ ItemCalls[x(i)] = ItemCalls[h[i]] /\ ItemAnswers[x(i)] = ItemAnswers[h[i]]
    BY <1>2, <1>4, <1>5
  <2> QED
    BY ONLY <2>1, <2>2
<1>7. ItemsInOrder(q)
  <2> SUFFICES ASSUME NEW i \in 1 .. Len(h), NEW n \in SetsOf(ItemAnswers, UpItems)[q[i]]
               PROVE  \E j \in 1 .. i - 1 : n \in SetsOf(ItemCalls, UpItems)[q[j]]
    BY <1>5 DEF ItemsInOrder, Behind
  <2>1. n \in SetsOf(ItemAnswers, UpItems)[h[i]]
    BY <1>6
  <2>2. PICK j \in 1 .. i - 1 : n \in SetsOf(ItemCalls, UpItems)[h[j]]
    BY <1>1, <2>1 DEF ItemsInOrder, Behind
  <2>3. j \in 1 .. Len(h)
    BY <1>2
  <2> QED
    BY <1>6, <2>2, <2>3
<1>8. \A id, name : Known(r, id, name)
  BY <1>1 DEF Known
<1> QED
  BY <1>4, <1>5, <1>7, <1>8 DEF Takes, q, h

LEMMA TakenInJSON ==
    ASSUME NEW r, NEW q, Takes(r, q)
    PROVE  Takes(r, EnsureInputContainsJSON(q))
<1> DEFINE part == [type |-> "json", id |-> 0, name |-> <<>>]
           item == [type |-> "message", role |-> "developer", parts |-> <<part>>]
           p == EnsureInputContainsJSON(q)
<1>1. q \in Seq(UpItems) /\ ItemsInOrder(q)
  BY DEF Takes
<1>2. p \in Seq(UpItems) /\ ItemsInOrder(p)
  BY <1>1, AnswerInJSON
<1>3. p = q \/ p = <<item>> \o q
  BY DEF EnsureInputContainsJSON
<1>4. item.type = "message" /\ item.role # "system"
  OBVIOUS
<1> HIDE DEF item, p, part
<1>5. \A i \in 1 .. Len(p) :
         /\ p[i].type = "message" => p[i].role # "system"
         /\ p[i].type = "function_call" => Known(r, p[i].id, p[i].name)
  <2>1. CASE p = q
    BY <2>1 DEF Takes
  <2>2. CASE p = <<item>> \o q
    <3>1. PICK l \in Nat : l = Len(q)
      BY <1>1
    <3>2. Len(p) = 1 + l /\ p[1] = item /\ \A i \in 1 .. l : p[1 + i] = q[i]
      <4>1. q \in Seq(UpItems \cup {item}) /\ <<item>> \in Seq(UpItems \cup {item})
        BY <1>1
      <4>2. Len(<<item>>) = 1 /\ <<item>>[1] = item
        OBVIOUS
      <4> QED
        BY <2>2, <3>1, <4>1, <4>2
    <3>3. \A i \in 1 .. 1 + l : i = 1 \/ (i - 1 \in 1 .. l /\ i = 1 + (i - 1))
      OBVIOUS
    <3>4. \A i \in 1 .. 1 + l : p[i] = item \/ \E j \in 1 .. l : p[i] = q[j]
      BY <3>2, <3>3
    <3>5. \A j \in 1 .. l : /\ q[j].type = "message" => q[j].role # "system"
                            /\ q[j].type = "function_call" => Known(r, q[j].id, q[j].name)
      BY <3>1 DEF Takes
    <3> SUFFICES ASSUME NEW i \in 1 .. 1 + l
                 PROVE  /\ p[i].type = "message" => p[i].role # "system"
                        /\ p[i].type = "function_call" => Known(r, p[i].id, p[i].name)
      BY <3>2
    <3>6. CASE p[i] = item
      BY <1>4, <3>6
    <3>7. CASE \E j \in 1 .. l : p[i] = q[j]
      <4>1. PICK j \in 1 .. l : p[i] = q[j]
        BY <3>7
      <4> QED
        BY <3>5, <4>1
    <3> QED
      BY <3>4, <3>6, <3>7
  <2> QED
    BY <1>3, <2>1, <2>2
<1> QED
  BY <1>2, <1>5 DEF Takes, p

\* What a client has said, in its own messages.
LEMMA HistoryCompared ==
    ASSUME RequestOK(request), request.api # "responses"
    PROVE  LET h == request.history
               own(m) == IF request.api = "claude" THEN m.blocks ELSE m.parts
           IN  /\ FlattenSeq([i \in DOMAIN h |-> Ids(OfType(own(h[i]), Sayable(h[i].role)))])
                     = Flat(ItemSays, Input)
               /\ FlattenSeq([i \in DOMAIN h |->
                     Ids(IF request.api = "claude" THEN OfType(h[i].blocks, {"tool_use"})
                         ELSE h[i].calls)])
                     = Flat(ItemCalls, Input)
               /\ FlattenSeq([i \in DOMAIN h |->
                     IF request.api = "claude" THEN Ids(OfType(h[i].blocks, {"tool_result"}))
                     ELSE IF h[i].role = "tool" THEN <<h[i].answers>> ELSE <<>>])
                     = Flat(ItemAnswers, Input)
<1> DEFINE h == request.history
           tools == request.tools
<1>0. IsNames(tools)
  BY DEF RequestOK
<1>1. CASE request.api = "claude"
  <2> DEFINE c == ClaudeToChat(h)
             q == ChatToInput(c, tools)
  <2>1. h \in Seq(ClaudeMessages)
    BY <1>1 DEF RequestOK, ClaudeRequest
  <2>2. /\ c \in Seq(ChatMessages)
        /\ Flat(ChatSays, c) = Flat(ClaudeSays, h)
        /\ Flat(ChatCalls, c) = Flat(ClaudeCalls, h)
        /\ Flat(ChatAnswers, c) = Flat(ClaudeAnswers, h)
    BY <2>1, ClaudeToMessages
  <2>3. Input = IF request.json THEN EnsureInputContainsJSON(q) ELSE q
    BY <1>1 DEF Input
  <2> HIDE DEF c
  <2>4. /\ q \in Seq(UpItems)
        /\ Flat(ItemSays, q) = Flat(ChatSays, c)
        /\ Flat(ItemCalls, q) = Flat(ChatCalls, c)
        /\ Flat(ItemAnswers, q) = Flat(ChatAnswers, c)
    BY <1>0, <2>2, ChatToItems
  <2> HIDE DEF q
  <2>5. /\ Flat(ItemSays, Input) = Flat(ItemSays, q)
        /\ Flat(ItemCalls, Input) = Flat(ItemCalls, q)
        /\ Flat(ItemAnswers, Input) = Flat(ItemAnswers, q)
    BY <2>3, <2>4, AnswerInJSON
  <2>6. \A i \in DOMAIN h : h[i] \in ClaudeMessages
    BY <2>1
  <2> HIDE DEF h
  <2>7. /\ [i \in DOMAIN h |-> ClaudeSays[h[i]]]
              = [i \in DOMAIN h |-> Ids(OfType(h[i].blocks, Sayable(h[i].role)))]
        /\ [i \in DOMAIN h |-> ClaudeCalls[h[i]]]
              = [i \in DOMAIN h |-> Ids(OfType(h[i].blocks, {"tool_use"}))]
        /\ [i \in DOMAIN h |-> ClaudeAnswers[h[i]]]
              = [i \in DOMAIN h |-> Ids(OfType(h[i].blocks, {"tool_result"}))]
    BY <2>6 DEF ClaudeSays, ClaudeCalls, ClaudeAnswers
  <2> QED
    BY <1>1, <2>2, <2>4, <2>5, <2>7 DEF Flat, h
<1>2. CASE request.api = "chat"
  <2> DEFINE q == ChatToInput(h, tools)
  <2>1. h \in Seq(ChatMessages)
    BY <1>2 DEF RequestOK, ChatRequest
  <2>3. Input = IF request.json THEN EnsureInputContainsJSON(q) ELSE q
    BY <1>2 DEF Input
  <2>4. /\ q \in Seq(UpItems)
        /\ Flat(ItemSays, q) = Flat(ChatSays, h)
        /\ Flat(ItemCalls, q) = Flat(ChatCalls, h)
        /\ Flat(ItemAnswers, q) = Flat(ChatAnswers, h)
    BY <1>0, <2>1, ChatToItems
  <2> HIDE DEF q
  <2>5. /\ Flat(ItemSays, Input) = Flat(ItemSays, q)
        /\ Flat(ItemCalls, Input) = Flat(ItemCalls, q)
        /\ Flat(ItemAnswers, Input) = Flat(ItemAnswers, q)
    BY <2>3, <2>4, AnswerInJSON
  <2>6. \A i \in DOMAIN h : h[i] \in ChatMessages
    BY <2>1
  <2> HIDE DEF h
  <2>7. /\ [i \in DOMAIN h |-> ChatSays[h[i]]]
              = [i \in DOMAIN h |-> Ids(OfType(h[i].parts, Sayable(h[i].role)))]
        /\ [i \in DOMAIN h |-> ChatCalls[h[i]]]
              = [i \in DOMAIN h |-> Ids(h[i].calls)]
        /\ [i \in DOMAIN h |-> ChatAnswers[h[i]]]
              = [i \in DOMAIN h |-> IF h[i].role = "tool" THEN <<h[i].answers>> ELSE <<>>]
    BY <2>6 DEF ChatSays, ChatCalls, ChatAnswers
  <2> QED
    BY <1>2, <2>4, <2>5, <2>7 DEF Flat, h
<1> QED
  BY <1>1, <1>2 DEF RequestOK

LEMMA InputTaken ==
    ASSUME RequestOK(request)
    PROVE  Takes(request, Input) /\ (request.json => \E i \in DOMAIN Input : MentionsJSON(Input[i]))
<1> DEFINE q == CASE request.api = "claude" -> ChatToInput(ClaudeToChat(request.history), request.tools)
                  [] request.api = "chat" -> ChatToInput(request.history, request.tools)
                  [] request.api = "responses" -> ResponsesInput(request.history)
<1>1. Takes(request, q)
  <2>1. CASE request.api = "claude"
    BY <2>1, ClaudeTaken DEF RequestOK
  <2>2. CASE request.api = "chat"
    <3>1. IsNames(request.tools) /\ ChatRequest(request)
      BY <2>2 DEF RequestOK
    <3>2. Takes(request, ChatToInput(request.history, request.tools))
      BY <3>1, ChatTaken DEF ChatRequest
    <3> QED
      BY <2>2, <3>2
  <2>3. CASE request.api = "responses"
    BY <2>3, ItemsTaken DEF RequestOK
  <2> QED
    BY <2>1, <2>2, <2>3 DEF RequestOK
<1>2. Input = IF request.json THEN EnsureInputContainsJSON(q) ELSE q
  BY DEF Input
<1> HIDE DEF q
<1>3. q \in Seq(UpItems)
  BY <1>1 DEF Takes
<1> QED
  BY <1>1, <1>2, <1>3, TakenInJSON, AnswerInJSON

LEMMA RequestIsKept == RequestOK(request) => HistoryKept
<1> SUFFICES ASSUME RequestOK(request) PROVE HistoryKept
  OBVIOUS
<1> DEFINE h == request.history
           q == Input
           calls == OfType(q, {"function_call"})
           own(m) == IF request.api = "claude" THEN m.blocks ELSE m.parts
<1>1. Takes(request, q) /\ (request.json => \E i \in DOMAIN q : MentionsJSON(q[i]))
  BY InputTaken
<1>2. q \in Seq(UpItems) /\ DOMAIN q = 1 .. Len(q)
  BY <1>1 DEF Takes
<1>3. /\ FlattenSeq([i \in DOMAIN OfType(q, {"message"}) |-> SaidIn(OfType(q, {"message"})[i])])
            = Flat(ItemSays, q)
      /\ Ids(OfType(q, {"function_call"})) = Flat(ItemCalls, q)
      /\ Ids(OfType(q, {"function_call_output"})) = Flat(ItemAnswers, q)
  BY <1>2, ItemsCompared
<1>4. request.api # "responses" =>
        /\ FlattenSeq([i \in DOMAIN h |-> Ids(OfType(own(h[i]), Sayable(h[i].role)))])
              = Flat(ItemSays, q)
        /\ FlattenSeq([i \in DOMAIN h |->
              Ids(IF request.api = "claude" THEN OfType(h[i].blocks, {"tool_use"})
                  ELSE h[i].calls)])
              = Flat(ItemCalls, q)
        /\ FlattenSeq([i \in DOMAIN h |->
              IF request.api = "claude" THEN Ids(OfType(h[i].blocks, {"tool_result"}))
              ELSE IF h[i].role = "tool" THEN <<h[i].answers>> ELSE <<>>])
              = Flat(ItemAnswers, q)
  BY HistoryCompared
<1>5. ASSUME NEW i \in DOMAIN q
      PROVE  /\ q[i].type = "message" => q[i].role # "system"
             /\ q[i].type = "function_call_output" =>
                  \E j \in 1 .. i - 1 : q[j].type = "function_call" /\ q[j].id = q[i].id
  <2> HIDE DEF q
  <2>1. q[i].type = "message" => q[i].role # "system"
    BY <1>1, <1>2 DEF Takes
  <2>2. ASSUME q[i].type = "function_call_output"
        PROVE  \E j \in 1 .. i - 1 : q[j].type = "function_call" /\ q[j].id = q[i].id
    <3>1. q[i] \in UpItems
      BY <1>2
    <3>2. q[i].id \in SetsOf(ItemAnswers, UpItems)[q[i]]
      BY <2>2, <3>1, MadeAndAnswered DEF Answered
    <3>3. PICK j \in 1 .. i - 1 : q[i].id \in SetsOf(ItemCalls, UpItems)[q[j]]
      BY <1>1, <1>2, <3>2 DEF Takes, ItemsInOrder, Behind
    <3>4. q[j] \in UpItems
      BY <1>2
    <3>5. q[i].id \in Made("responses", q[j])
      BY <3>3, <3>4, MadeAndAnswered
    <3> QED
      BY <3>5 DEF Made
  <2> QED
    BY <2>1, <2>2
<1>6. ASSUME NEW i \in DOMAIN calls
      PROVE  Known(request, calls[i].id, calls[i].name)
  <2> HIDE DEF q
  <2>1. PICK j \in DOMAIN q : calls[i] = q[j] /\ q[j].type \in {"function_call"}
    BY <1>2, OfTypeElements
  <2> QED
    BY <1>1, <1>2, <2>1 DEF Takes
<1>7. \A i \in DOMAIN calls :
         /\ calls[i].id \in DOMAIN request.used
         /\ request.api = "claude" => request.used[calls[i].id] \notin ToSet(request.tools)
         => calls[i].name = request.used[calls[i].id]
  BY <1>6 DEF Known
<1> HIDE DEF q, h, calls
<1>8. request.api # "responses" =>
        /\ FlattenSeq([i \in DOMAIN OfType(q, {"message"}) |-> SaidIn(OfType(q, {"message"})[i])])
              = FlattenSeq([i \in DOMAIN h |-> Ids(OfType(own(h[i]), Sayable(h[i].role)))])
        /\ Ids(OfType(q, {"function_call"})) = FlattenSeq([i \in DOMAIN h |->
              Ids(IF request.api = "claude" THEN OfType(h[i].blocks, {"tool_use"})
                  ELSE h[i].calls)])
        /\ Ids(OfType(q, {"function_call_output"})) = FlattenSeq([i \in DOMAIN h |->
              IF request.api = "claude" THEN Ids(OfType(h[i].blocks, {"tool_result"}))
              ELSE IF h[i].role = "tool" THEN <<h[i].answers>> ELSE <<>>])
  BY <1>3, <1>4
<1> QED
  BY <1>1, <1>5, <1>7, <1>8 DEF HistoryKept, AllOf, OfItem, SaidIn, Sayable, q, h, calls

\* The client's first request.
LEMMA FirstRequest == Init => RequestOK(request)
<1> SUFFICES ASSUME NEW r \in Requests PROVE RequestOK(r)
  BY DEF Init
<1> DEFINE h == r.history
<1>1. /\ DOMAIN r = RequestFields /\ IsNames(r.tools)
      /\ r.api \in {"claude", "chat", "responses"} /\ r.used = <<>>
  BY RequestsAssumption, HistoriesAssumption DEF IsNames, RequestFields
<1>2. h \in Seq(Elements(r.api))
  BY HistoriesAssumption
<1>3. ASSUME NEW i \in 1 .. Len(h)
      PROVE  /\ Answered(r.api, h[i]) \subseteq UNION {Made(r.api, h[j]) : j \in 1 .. i - 1}
             /\ r.again => \A id \in Made(r.api, h[i]) : id < 100
  <2>1. i \in DOMAIN r.history
    BY <1>2
  <2> QED
    BY <2>1, HistoriesAssumption
<1>4. \A id, name : Known(r, id, name)
  <2>1. DOMAIN <<>> = {}
    OBVIOUS
  <2> QED
    BY <1>1, <2>1 DEF Known
<1> HIDE DEF h
<1>5. ASSUME NEW A, NEW N, NEW H, h \in Seq(A),
             \A m \in A : N[m] = Answered(r.api, m) /\ H[m] = Made(r.api, m)
      PROVE  Behind(N, H, h)
  <2> SUFFICES ASSUME NEW i \in 1 .. Len(h), NEW n \in N[h[i]]
               PROVE  \E j \in 1 .. i - 1 : n \in H[h[j]]
    BY DEF Behind
  <2>1. \A j \in 1 .. Len(h) : h[j] \in A
    BY <1>5
  <2>4. n \in UNION {Made(r.api, h[j]) : j \in 1 .. i - 1}
    BY <1>3, <1>5, <2>1
  <2>2. PICK j \in 1 .. i - 1 : n \in Made(r.api, h[j])
    BY <2>4
  <2>3. j \in 1 .. Len(h)
    BY <1>5
  <2> QED
    BY <1>5, <2>1, <2>2, <2>3
<1>6. CASE r.api = "claude"
  <2>1. h \in Seq(ClaudeMessages)
    BY <1>2, <1>6 DEF Elements
  <2>2. ClaudeInOrder(h)
    BY <1>5, <1>6, <2>1, MadeAndAnswered DEF ClaudeInOrder
  <2>3. ASSUME NEW i \in DOMAIN h, NEW k \in DOMAIN h[i].blocks,
               h[i].blocks[k].type = "tool_use", r.again
        PROVE  h[i].blocks[k].id < 100
    <3>1. i \in 1 .. Len(h) /\ h[i] \in ClaudeMessages
      BY <2>1
    <3>2. h[i].blocks[k] \in ToSet(h[i].blocks)
      BY DEF ToSet
    <3>3. h[i].blocks[k].id \in Made("claude", h[i])
      BY <2>3, <3>2 DEF Made
    <3> QED
      BY <1>3, <1>6, <2>3, <3>1, <3>3
  <2>4. ClaudeRequest(r)
    BY <1>4, <2>1, <2>2, <2>3 DEF ClaudeRequest, h
  <2> QED
    BY <1>1, <1>6, <2>4 DEF RequestOK
<1>7. CASE r.api = "chat"
  <2>1. h \in Seq(ChatMessages)
    BY <1>2, <1>7 DEF Elements
  <2>2. ChatInOrder(h)
    BY <1>5, <1>7, <2>1, MadeAndAnswered DEF ChatInOrder
  <2>3. ASSUME NEW i \in DOMAIN h, NEW k \in DOMAIN h[i].calls, r.again
        PROVE  h[i].calls[k].id < 100
    <3>1. i \in 1 .. Len(h)
      BY <2>1
    <3>2. h[i].calls[k] \in ToSet(h[i].calls)
      BY DEF ToSet
    <3>3. h[i].calls[k].id \in Made("chat", h[i])
      BY <3>2 DEF Made
    <3> QED
      BY <1>3, <1>7, <2>3, <3>1, <3>3
  <2>4. ChatRequest(r)
    BY <1>4, <2>1, <2>2, <2>3 DEF ChatRequest, h
  <2> QED
    BY <1>1, <1>7, <2>4 DEF RequestOK
<1>8. CASE r.api = "responses"
  <2>1. h \in Seq(UpItems)
    <3>1. ClientItems \subseteq UpItems
      <4>1. Seq(Blocks) \subseteq Seq(Parts)
        BY BlocksAreParts
      <4>2. [type : {"message"}, role : STRING, parts : Seq(Blocks)] \subseteq UpMessages
        BY <4>1 DEF UpMessages, Roles
      <4> QED
        BY <4>2 DEF ClientItems, UpItems, UpCalls, UpOutputs
    <3> QED
      BY <1>2, <1>8, <3>1 DEF Elements
  <2>2. ItemsInOrder(h)
    BY <1>5, <1>8, <2>1, MadeAndAnswered DEF ItemsInOrder
  <2>3. ItemsRequest(r)
    BY <1>1, <2>1, <2>2 DEF ItemsRequest, h
  <2> QED
    BY <1>1, <1>8, <2>3 DEF RequestOK
<1> QED
  BY <1>1, <1>6, <1>7, <1>8

-----------------------------------------------------------------------------
\* The blocks that an Anthropic client has been sent: their names are short ones.
Sendable == {q \in Seq(STRING) : Len(q) <= Limit}
SentKinds == {"text", "thinking", "tool_use"}
Named(s) ==
    \A i \in DOMAIN s.client.blocks :
        s.client.blocks[i].kind \in SentKinds /\ s.client.blocks[i].name \in Sendable

LEMMA StartBlockNamed ==
    ASSUME NEW s, Shape(s), Named(s), NEW kind \in SentKinds, NEW name \in Sendable,
           NEW t, t = StartBlock(s, kind, name)
    PROVE  Named(t)
<1> DEFINE b == [kind |-> kind, name |-> name, body |-> Empty, open |-> TRUE]
           q == s.client.blocks
<1>1. t.client = SeeStart(s.client, s.index + 1, kind, name)
  BY DEF StartBlock, Shape, StateFields
<1>2. t.client.blocks = Append(q, b)
  BY <1>1 DEF SeeStart, Shape, ClientFields
<1>3. b.kind = kind /\ b.name = name
  OBVIOUS
<1>4. IsSeq(q)
  BY DEF Shape
<1> HIDE DEF b, q
<1>5. PICK n \in Nat : /\ DOMAIN q = 1 .. n /\ DOMAIN Append(q, b) = 1 .. n + 1
                       /\ Append(q, b)[n + 1] = b /\ \A i \in 1 .. n : Append(q, b)[i] = q[i]
  BY <1>4, AppendAny
<1>6. \A i \in 1 .. n + 1 : i \in 1 .. n \/ i = n + 1
  OBVIOUS
<1>7. \A i \in 1 .. n : q[i].kind \in SentKinds /\ q[i].name \in Sendable
  BY <1>5 DEF Named, q
<1> QED
  BY <1>2, <1>3, <1>5, <1>6, <1>7 DEF Named

\* What changes no kind and no name.
LEMMA SameNamed ==
    ASSUME NEW s, Named(s), NEW t, DOMAIN t.client.blocks = DOMAIN s.client.blocks,
           \A i \in DOMAIN s.client.blocks :
              /\ t.client.blocks[i].kind = s.client.blocks[i].kind
              /\ t.client.blocks[i].name = s.client.blocks[i].name
    PROVE  Named(t)
BY DEF Named

LEMMA DeltaOfNamed ==
    ASSUME NEW s, Shape(s), Named(s), NEW kind, NEW token, NEW t, t = DeltaOf(s, kind, token)
    PROVE  Named(t)
<1> DEFINE c == SeeDelta(s.client, s.index, kind, token)
           n == s.index + 1
           body == Append(s.client.blocks[n].body, token)
           b == [s.client.blocks[n] EXCEPT !.body = body]
<1>1. t.client = c
  BY DEF DeltaOf, Shape, StateFields
<1>2. CASE Fits(s.client, s.index, kind)
  <2>1. n \in DOMAIN s.client.blocks
    BY <1>2 DEF Fits
  <2>2. c.blocks = [s.client.blocks EXCEPT ![n] = b]
    BY <1>2 DEF SeeDelta, Shape, ClientFields
  <2>3. b.kind = s.client.blocks[n].kind /\ b.name = s.client.blocks[n].name
    BY <2>1 DEF Shape, BlockFields
  <2> HIDE DEF b, c, n
  <2>4. /\ DOMAIN c.blocks = DOMAIN s.client.blocks /\ c.blocks[n] = b
        /\ \A i \in DOMAIN s.client.blocks \ {n} : c.blocks[i] = s.client.blocks[i]
    BY <2>1, <2>2
  <2> QED
    BY <1>1, <2>3, <2>4, SameNamed
<1>3. CASE ~Fits(s.client, s.index, kind)
  <2>1. c.blocks = s.client.blocks
    BY <1>3 DEF SeeDelta, Shape, ClientFields
  <2> HIDE DEF c
  <2> QED
    BY <1>1, <2>1, SameNamed
<1> QED
  BY <1>2, <1>3

LEMMA StopBlockNamed ==
    ASSUME NEW s, Shape(s), Named(s), NEW t, t = StopBlock(s)
    PROVE  Named(t)
<1> DEFINE c == SeeStop(s.client, s.index)
           n == s.index + 1
           b == [s.client.blocks[n] EXCEPT !.open = FALSE]
<1>1. t.client = c
  BY DEF StopBlock, Shape, StateFields
<1>2. CASE Fits(s.client, s.index, "any")
  <2>1. n \in DOMAIN s.client.blocks
    BY <1>2 DEF Fits
  <2>2. c.blocks = [s.client.blocks EXCEPT ![n] = b]
    BY <1>2 DEF SeeStop, Shape, ClientFields
  <2>3. b.kind = s.client.blocks[n].kind /\ b.name = s.client.blocks[n].name
    BY <2>1 DEF Shape, BlockFields
  <2> HIDE DEF b, c, n
  <2>4. /\ DOMAIN c.blocks = DOMAIN s.client.blocks /\ c.blocks[n] = b
        /\ \A i \in DOMAIN s.client.blocks \ {n} : c.blocks[i] = s.client.blocks[i]
    BY <2>1, <2>2
  <2> QED
    BY <1>1, <2>3, <2>4, SameNamed
<1>3. CASE ~Fits(s.client, s.index, "any")
  <2>1. c.blocks = s.client.blocks
    BY <1>3 DEF SeeStop, Shape, ClientFields
  <2> HIDE DEF c
  <2> QED
    BY <1>1, <2>1, SameNamed
<1> QED
  BY <1>2, <1>3

\* The flags say nothing of names.
LEMMA FlagsNamed ==
    ASSUME NEW s, NEW t, t.client.blocks = s.client.blocks, Named(s)
    PROVE  Named(t)
BY SameNamed

LEMMA LeaveThinkingNamed ==
    ASSUME NEW s, Shape(s), Named(s), NEW t, t = LeaveThinking(s)
    PROVE  Named(t) /\ Shape(t)
<1> DEFINE u == StopBlock(s)
<1>1. Named(u) /\ Shape(u)
  BY StopBlockNamed, StopBlockFacts DEF Keeps
<1>2. t = s \/ t = [u EXCEPT !.inThinking = FALSE]
  BY DEF LeaveThinking
<1> HIDE DEF u
<1>3. t = s \/ t.client = u.client
  BY <1>1, <1>2 DEF Shape, StateFields
<1>4. Shape(t)
  BY LeaveThinkingFacts DEF Keeps
<1> QED
  BY <1>1, <1>3, <1>4, FlagsNamed

LEMMA LeaveTextNamed ==
    ASSUME NEW s, Shape(s), Named(s), NEW t, t = LeaveText(s)
    PROVE  Named(t) /\ Shape(t)
<1> DEFINE u == StopBlock(s)
<1>1. Named(u) /\ Shape(u)
  BY StopBlockNamed, StopBlockFacts DEF Keeps
<1>2. t = s \/ t = [u EXCEPT !.started = FALSE]
  BY DEF LeaveText
<1> HIDE DEF u
<1>3. t = s \/ t.client = u.client
  BY <1>1, <1>2 DEF Shape, StateFields
<1>4. Shape(t)
  BY LeaveTextFacts DEF Keeps
<1> QED
  BY <1>1, <1>3, <1>4, FlagsNamed

LEMMA EmptySendable == Empty \in Sendable
<1>1. <<>> \in Seq(STRING) /\ Len(<<>>) = 0
  OBVIOUS
<1> QED
  BY <1>1, NamesAssumption DEF Sendable, Empty

LEMMA ReasoningNamed ==
    ASSUME NEW s, Shape(s), Named(s), NEW token, NEW t, t = ClaudeReasoning(s, token)
    PROVE  Named(t)
<1> DEFINE w == StartBlock(s, "thinking", Empty)
           u == IF s.inThinking THEN s ELSE [w EXCEPT !.inThinking = TRUE]
           v == [u EXCEPT !.hasThinking = TRUE]
<1>1. Named(w) /\ Shape(w)
  BY StartBlockNamed, StartBlockFacts, EmptySendable DEF Keeps, SentKinds
<1>2. t = DeltaOf(v, "thinking", token)
  BY DEF ClaudeReasoning
<1> HIDE DEF w
<1>3. Shape(u) /\ Named(u)
  <2>1. CASE ~s.inThinking
    <3>1. DOMAIN u = DOMAIN w /\ u.index = w.index /\ u.client = w.client
      BY <1>1, <2>1 DEF Shape, StateFields
    <3> HIDE DEF u
    <3> QED
      BY <1>1, <3>1, FlagsFacts, FlagsNamed
  <2> QED
    BY <2>1
<1> HIDE DEF u
<1>4. DOMAIN v = DOMAIN u /\ v.index = u.index /\ v.client = u.client
  BY <1>3 DEF Shape, StateFields
<1> HIDE DEF v
<1>5. Shape(v) /\ Named(v)
  BY <1>3, <1>4, FlagsFacts, FlagsNamed
<1> QED
  BY <1>2, <1>5, DeltaOfNamed

LEMMA TextNamed ==
    ASSUME NEW s, Shape(s), Named(s), NEW token, NEW t, t = ClaudeText(s, token)
    PROVE  Named(t)
<1> DEFINE x == LeaveThinking(s)
           w == StartBlock(x, "text", Empty)
           u == IF x.started THEN x ELSE [w EXCEPT !.started = TRUE]
           v == [u EXCEPT !.hasText = TRUE]
<1>0. Named(x) /\ Shape(x)
  BY LeaveThinkingNamed
<1>2. t = DeltaOf(v, "text", token)
  BY DEF ClaudeText
<1> HIDE DEF x
<1>1. Named(w) /\ Shape(w)
  BY <1>0, StartBlockNamed, StartBlockFacts, EmptySendable DEF Keeps, SentKinds
<1> HIDE DEF w
<1>3. Shape(u) /\ Named(u)
  <2>1. CASE ~x.started
    <3>1. DOMAIN u = DOMAIN w /\ u.index = w.index /\ u.client = w.client
      BY <1>1, <2>1 DEF Shape, StateFields
    <3> HIDE DEF u
    <3> QED
      BY <1>1, <3>1, FlagsFacts, FlagsNamed
  <2> QED
    BY <1>0, <2>1
<1> HIDE DEF u
<1>4. DOMAIN v = DOMAIN u /\ v.index = u.index /\ v.client = u.client
  BY <1>3 DEF Shape, StateFields
<1> HIDE DEF v
<1>5. Shape(v) /\ Named(v)
  BY <1>3, <1>4, FlagsFacts, FlagsNamed
<1> QED
  BY <1>2, <1>5, DeltaOfNamed

LEMMA CallNamed ==
    ASSUME NEW s, Shape(s), Named(s), NEW short \in Sendable, NEW t, t = ClaudeCall(s, short)
    PROVE  Named(t)
<1> DEFINE x == LeaveThinking(s)
           y == LeaveText(x)
           w == StartBlock(y, "tool_use", short)
<1>1. Named(x) /\ Shape(x)
  BY LeaveThinkingNamed
<1>2. t = [w EXCEPT !.hasToolUse = TRUE]
  BY DEF ClaudeCall
<1> HIDE DEF x
<1>3. Named(y) /\ Shape(y)
  BY <1>1, LeaveTextNamed
<1> HIDE DEF y
<1>4. Named(w) /\ Shape(w)
  BY <1>3, StartBlockNamed, StartBlockFacts DEF Keeps, SentKinds
<1> HIDE DEF w
<1>5. t.client = w.client
  BY <1>2, <1>4 DEF Shape, StateFields
<1> QED
  BY <1>4, <1>5, FlagsNamed

LEMMA CloseNamed ==
    ASSUME NEW s, Shape(s), Named(s), NEW t, t = CloseEvents(s)
    PROVE  Named(t)
<1> DEFINE x == LeaveThinking(s)
           y == LeaveText(x)
<1>1. Named(x) /\ Shape(x)
  BY LeaveThinkingNamed
<1>2. \E stop : t = [y EXCEPT !.client.stops = stop]
  BY DEF CloseEvents
<1> HIDE DEF x
<1>3. Named(y) /\ Shape(y)
  BY <1>1, LeaveTextNamed
<1> HIDE DEF y
<1>4. t.client.blocks = y.client.blocks
  BY <1>2, <1>3 DEF Shape, StateFields, ClientFields
<1> QED
  BY <1>3, <1>4, FlagsNamed

LEMMA NamedInit == Init => Named(claude)
<1>1. NewClaude.client.blocks = <<>>
  BY DEF NewClaude
<1>2. DOMAIN <<>> = {}
  OBVIOUS
<1> QED
  BY <1>1, <1>2 DEF Init, Named

LEMMA NamedNext ==
    ASSUME IInv, Asked, Named(claude), [ExchangeNext]_vars
    PROVE  Named(claude')
<1>0. Shape(claude)
  BY ClaudeShape
<1>1. CASE Created
  <2>1. claude' = [claude EXCEPT !.begun = TRUE]
    BY <1>1 DEF Created
  <2>2. claude'.client = claude.client
    BY <1>0, <2>1 DEF Shape, StateFields
  <2> QED
    BY <2>2, FlagsNamed
<1>2. ASSUME NEW len \in 0 .. MaxTokens, NEW kind, BeginText(kind, len)
      PROVE  Named(claude')
  BY <1>2 DEF BeginText
<1>3. ASSUME NEW len \in 0 .. MaxTokens, NEW tool \in ToSet(request.tools),
             NEW announced \in BOOLEAN, BeginCall(tool, len, announced)
      PROVE  Named(claude')
  <2> DEFINE short == ShortName(request.tools, tool)
  <2>1. claude' = claude \/ claude' = ClaudeCall(claude, short)
    BY <1>3 DEF BeginCall
  <2>2. short \in Sendable
    BY ShortIsName DEF Asked, Sendable
  <2> HIDE DEF short
  <2> QED
    BY <1>0, <2>1, <2>2, CallNamed
<1>4. CASE Delta
  <2>1. \/ claude' = ClaudeReasoning(claude, Current.text[sent + 1])
        \/ claude' = ClaudeText(claude, Current.text[sent + 1])
        \/ claude' = DeltaOf(claude, "tool_use", Current.text[sent + 1])
    BY <1>4 DEF Delta
  <2> QED
    BY <1>0, <2>1, ReasoningNamed, TextNamed, DeltaOfNamed
<1>5. CASE TextDone
  <2>1. claude' = claude \/ claude' = LeaveThinking(claude)
    BY <1>5 DEF TextDone
  <2> QED
    BY <1>0, <2>1, LeaveThinkingNamed
<1>6. CASE ArgsDone
  <2>1. claude' = StopBlock(claude)
    BY <1>6 DEF ArgsDone
  <2> QED
    BY <1>0, <2>1, StopBlockNamed
<1>7. CASE CallDone
  BY <1>7 DEF CallDone
<1>8. CASE Completed
  <2> DEFINE c == CloseEvents(claude)
  <2>1. claude' = [c EXCEPT !.completed = TRUE]
    BY <1>8 DEF Completed
  <2>2. Shape(c) /\ Named(c)
    <3>1. claude.client.stops = <<>>
      BY <1>8 DEF Completed, IInv, EndsOK
    <3> QED
      BY <1>0, <3>1, CloseFacts, CloseNamed
  <2> HIDE DEF c
  <2>3. claude'.client = c.client
    BY <2>1, <2>2 DEF Shape, StateFields
  <2> QED
    BY <2>2, <2>3, FlagsNamed
<1>9. CASE EndOfBody
  BY <1>9 DEF EndOfBody
<1>10. CASE ReadFails
  <2>1. claude' = [claude EXCEPT !.outcome = "error"]
    BY <1>10 DEF ReadFails
  <2>2. claude'.client = claude.client
    BY <1>0, <2>1 DEF Shape, StateFields
  <2> QED
    BY <2>2, FlagsNamed
<1>11. CASE Finish
  <2> DEFINE c == CloseEvents(claude)
  <2>1. stage \in {"completed", "cut"} /\ claude' = ClaudeEnd(claude)
    BY <1>11 DEF Finish
  <2>2. \/ \E o : claude' = [claude EXCEPT !.outcome = o]
        \/ stage = "cut" /\ claude' = [c EXCEPT !.outcome = "success"]
    BY <2>1 DEF ClaudeEnd, IInv, EndsOK
  <2>3. CASE \E o : claude' = [claude EXCEPT !.outcome = o]
    <3>1. claude'.client = claude.client
      BY <1>0, <2>3 DEF Shape, StateFields
    <3> QED
      BY <3>1, FlagsNamed
  <2>4. CASE stage = "cut" /\ claude' = [c EXCEPT !.outcome = "success"]
    <3>1. Shape(c) /\ Named(c)
      <4>1. claude.client.stops = <<>>
        BY <2>4 DEF IInv, EndsOK
      <4> QED
        BY <1>0, <4>1, CloseFacts, CloseNamed
    <3> HIDE DEF c
    <3>2. claude'.client = c.client
      BY <2>4, <3>1 DEF Shape, StateFields
    <3> QED
      BY <3>1, <3>2, FlagsNamed
  <2> QED
    BY <2>2, <2>3, <2>4
<1>12. CASE AskAgain
  <2>1. claude' = NewClaude /\ NewClaude.client.blocks = <<>>
    BY <1>12 DEF AskAgain, NewClaude
  <2>2. DOMAIN <<>> = {}
    OBVIOUS
  <2> QED
    BY <2>1, <2>2 DEF Named
<1>13. CASE UNCHANGED vars
  BY <1>13 DEF vars
<1> QED
  BY <1>1, <1>2, <1>3, <1>4, <1>5, <1>6, <1>7, <1>8, <1>9, <1>10, <1>11, <1>12, <1>13
     DEF ExchangeNext, Next

-----------------------------------------------------------------------------
\* The second request: the answer and the results of its calls come back.
LEMMA JoinElements ==
    ASSUME NEW A, NEW p \in Seq(A), NEW q \in Seq(A), NEW i \in DOMAIN (p \o q)
    PROVE  \/ \E j \in DOMAIN p : (p \o q)[i] = p[j]
           \/ \E j \in DOMAIN q : (p \o q)[i] = q[j]
<1>1. PICK k \in Nat : k = Len(p) /\ DOMAIN p = 1 .. k
  OBVIOUS
<1>2. PICK l \in Nat : l = Len(q) /\ DOMAIN q = 1 .. l
  OBVIOUS
<1> DEFINE r == p \o q
<1>3. /\ DOMAIN r = 1 .. k + l /\ \A j \in 1 .. k : r[j] = p[j]
      /\ \A j \in 1 .. l : r[k + j] = q[j]
  BY <1>1, <1>2
<1> HIDE DEF r
<1>4. i \in 1 .. k \/ (i - k \in 1 .. l /\ i = k + (i - k))
  BY <1>3 DEF r
<1>5. CASE i \in 1 .. k
  BY <1>1, <1>3, <1>5 DEF r
<1>6. CASE i - k \in 1 .. l /\ i = k + (i - k)
  <2>1. PICK j \in 1 .. l : i = k + j
    BY <1>6
  <2>2. r[i] = q[j]
    BY <1>3, <2>1
  <2> QED
    BY <1>2, <2>2 DEF r
<1> QED
  BY <1>4, <1>5, <1>6

\* The elements of a list at some of its places are those elements.
LEMMA ThoseElements ==
    ASSUME NEW A, NEW q \in Seq(A), NEW B, B \subseteq A
    PROVE  Those(q, {i \in DOMAIN q : q[i] \in B}) \in Seq(B)
<1> DEFINE F == [a \in A |-> IF a \in B THEN <<a>> ELSE <<>>]
<1>1. Gives(F, A, B)
  <2> SUFFICES ASSUME NEW a \in A PROVE F[a] \in Seq(B)
    BY DEF Gives
  <2>1. <<>> \in Seq(B) /\ (a \in B => <<a>> \in Seq(B))
    OBVIOUS
  <2> QED
    BY <2>1
<1>2. \A i \in DOMAIN q : q[i] \in A
  OBVIOUS
<1>3. [i \in DOMAIN q |-> F[q[i]]]
         = [i \in DOMAIN q |-> IF i \in {j \in DOMAIN q : q[j] \in B} THEN <<q[i]>> ELSE <<>>]
  BY <1>2
<1>4. Flat(F, q) = Those(q, {i \in DOMAIN q : q[i] \in B})
  BY <1>3 DEF Flat, Those
<1> HIDE DEF F
<1>5. Flat(F, q) \in Seq(B)
  BY <1>1, FlatTyped
<1> QED
  BY <1>4, <1>5

\* A name that the upstream gave, as an Anthropic client has it.
LEMMA SentNameStays ==
    ASSUME NEW tools, NEW name \in Sendable, name \notin ToSet(tools)
    PROVE  ToolName(tools, name) = name
BY DEF ToolName, BaseCandidate, Sendable

LEMMA SaidIsBlock == Said \in Blocks /\ Said.type = "text"
<1>1. <<>> \in Seq(STRING)
  OBVIOUS
<1> QED
  BY <1>1 DEF Said, Block, Blocks, BlockTypes, Texts, Empty

LEMMA ClaudeTurnFacts ==
    ASSUME IInv, Named(claude), NEW f \in BOOLEAN
    PROVE  \E a, u \in ClaudeMessages :
              /\ ClaudeTurn(f) = <<a, u>>
              /\ \A k \in DOMAIN a.blocks :
                    /\ k \in DOMAIN claude.client.blocks
                    /\ a.blocks[k] = Block(claude.client.blocks[k].kind, 100 + k,
                                           claude.client.blocks[k].name)
              /\ \A k \in ToolUses : k \in DOMAIN a.blocks
              /\ \A k \in DOMAIN u.blocks :
                    \/ u.blocks[k].type = "text"
                    \/ u.blocks[k].type = "tool_result"
                       /\ \E i \in ToolUses : u.blocks[k].id = 100 + i
<1> DEFINE blocks == claude.client.blocks
           says(i) == Block(blocks[i].kind, 100 + i, blocks[i].name)
           ids == [i \in DOMAIN blocks |-> i]
           uses == Those(ids, ToolUses)
           Adds == {Block("tool_result", 100 + i, Empty) : i \in ToolUses}
           results == [i \in DOMAIN uses |-> Block("tool_result", 100 + uses[i], Empty)]
           said == [i \in DOMAIN blocks |-> says(i)]
           back == IF f THEN Append(results, Said) ELSE <<Said>> \o results
           a == [role |-> "assistant", blocks |-> said]
           u == [role |-> "user", blocks |-> back]
<1>0. ClaudeTurn(f) = <<a, u>>
  BY DEF ClaudeTurn
<1>1. PICK n \in Nat : DOMAIN blocks = 1 .. n /\ Len(blocks) = n
  BY ClaudeShape, BlocksNumbered
<1>2. ToolUses = {i \in 1 .. n : blocks[i].kind = "tool_use"}
  BY <1>1 DEF ToolUses
<1>3. \A i \in 1 .. n : says(i) \in Blocks
  <2> SUFFICES ASSUME NEW i \in 1 .. n PROVE says(i) \in Blocks
    OBVIOUS
  <2>1. blocks[i].kind \in SentKinds /\ blocks[i].name \in Seq(STRING)
    BY <1>1 DEF Named, Sendable
  <2> HIDE DEF blocks
  <2>2. 100 + i \in Nat \ {0}
    OBVIOUS
  <2>3. SentKinds \subseteq BlockTypes
    BY DEF SentKinds, BlockTypes, Texts
  <2> QED
    BY <2>1, <2>2, <2>3 DEF Block, Blocks
<1>4. uses \in Seq(ToolUses)
  <2>1. ids \in Seq(1 .. n) /\ DOMAIN ids = 1 .. n
    BY <1>1
  <2>2. {i \in DOMAIN ids : ids[i] \in ToolUses} = ToolUses /\ ToolUses \subseteq 1 .. n
    BY <1>1, <1>2
  <2> HIDE DEF ids, blocks
  <2>3. Those(ids, {i \in DOMAIN ids : ids[i] \in ToolUses}) \in Seq(ToolUses)
    <3>1. PICK B : B = ToolUses
      OBVIOUS
    <3>2. B \subseteq 1 .. n
      BY <2>2, <3>1
    <3>3. \A q \in Seq(1 .. n) : Those(q, {i \in DOMAIN q : q[i] \in B}) \in Seq(B)
      BY <3>2, ThoseElements
    <3>4. Those(ids, {i \in DOMAIN ids : ids[i] \in B}) \in Seq(B)
      BY <2>1, <3>3
    <3> QED
      BY <3>1, <3>4
  <2> QED
    BY <2>2, <2>3
<1>5. Adds \subseteq Blocks /\ \A b \in Adds : b.type = "tool_result" /\ \E i \in ToolUses : b.id = 100 + i
  <2> SUFFICES ASSUME NEW i \in ToolUses
               PROVE  LET b == Block("tool_result", 100 + i, Empty)
                      IN  b \in Blocks /\ b.type = "tool_result" /\ b.id = 100 + i
    OBVIOUS
  <2>1. 100 + i \in Nat \ {0} /\ "tool_result" \in BlockTypes
    BY <1>2 DEF BlockTypes
  <2>2. Empty \in Seq(STRING)
    BY DEF Empty
  <2> HIDE DEF blocks
  <2> QED
    BY <2>1, <2>2 DEF Block, Blocks
<1> HIDE DEF blocks, says, ids, uses
<1>6. results \in Seq(Adds)
  <2>1. DOMAIN uses = 1 .. Len(uses) /\ Len(uses) \in Nat /\ \A i \in 1 .. Len(uses) : uses[i] \in ToolUses
    BY <1>4
  <2> QED
    BY <2>1
<1> HIDE DEF results, Adds
<1>7. back \in Seq(Adds \cup {Said})
  <2>1. results \in Seq(Adds \cup {Said}) /\ <<Said>> \in Seq(Adds \cup {Said})
    BY <1>6
  <2>2. /\ Append(results, Said) \in Seq(Adds \cup {Said})
        /\ <<Said>> \o results \in Seq(Adds \cup {Said})
    BY <2>1
  <2> QED
    BY <2>2
<1>8. said \in Seq(Blocks) /\ DOMAIN said = 1 .. n /\ \A i \in 1 .. n : said[i] = says(i)
  <2>1. [i \in 1 .. n |-> says(i)] \in Seq(Blocks)
    BY <1>3
  <2>2. said = [i \in 1 .. n |-> says(i)]
    BY <1>1
  <2> QED
    BY <2>1, <2>2
<1> HIDE DEF said, back
<1>9. a \in ClaudeMessages /\ a.blocks = said
  BY <1>8 DEF ClaudeMessages
<1>10. \A k \in DOMAIN back : back[k] \in Adds \cup {Said}
  BY <1>7
<1>11. u \in ClaudeMessages /\ u.blocks = back
  <2>1. Seq(Adds \cup {Said}) \subseteq Seq(Blocks)
    <3>1. Adds \cup {Said} \subseteq Blocks
      BY <1>5, SaidIsBlock
    <3> QED
      BY <3>1
  <2>2. back \in Seq(Blocks)
    BY <1>7, <2>1
  <2>3. \A k \in DOMAIN back : back[k].type # "tool_use"
    BY <1>5, <1>10, SaidIsBlock
  <2> QED
    BY <2>2, <2>3 DEF ClaudeMessages
<1> HIDE DEF a, u
<1>12. \A k \in DOMAIN a.blocks : k \in DOMAIN blocks /\ a.blocks[k] = says(k)
  BY <1>1, <1>8, <1>9
<1>13. \A k \in ToolUses : k \in DOMAIN a.blocks
  BY <1>2, <1>8, <1>9
<1>14. \A k \in DOMAIN u.blocks :
          \/ u.blocks[k].type = "text"
          \/ u.blocks[k].type = "tool_result" /\ \E i \in ToolUses : u.blocks[k].id = 100 + i
  BY <1>5, <1>10, <1>11, SaidIsBlock
<1> QED
  BY <1>0, <1>9, <1>11, <1>12, <1>13, <1>14 DEF says, blocks

LEMMA ClaudeAsksAgain ==
    ASSUME IInv, Named(claude), RequestOK(request), request.api = "claude", request.again,
           NEW f \in BOOLEAN, NEW r, DOMAIN r = RequestFields, r.api = "claude",
           r.tools = request.tools, r.again = FALSE, r.used = UpstreamNames,
           r.history = request.history \o ClaudeTurn(f)
    PROVE  RequestOK(r)
<1> DEFINE h == request.history
           blocks == claude.client.blocks
<1>1. PICK a, u \in ClaudeMessages :
         /\ ClaudeTurn(f) = <<a, u>>
         /\ \A k \in DOMAIN a.blocks :
               /\ k \in DOMAIN blocks
               /\ a.blocks[k] = Block(blocks[k].kind, 100 + k, blocks[k].name)
         /\ \A k \in ToolUses : k \in DOMAIN a.blocks
         /\ \A k \in DOMAIN u.blocks :
               \/ u.blocks[k].type = "text"
               \/ u.blocks[k].type = "tool_result" /\ \E i \in ToolUses : u.blocks[k].id = 100 + i
  BY ClaudeTurnFacts
<1>2. PICK n \in Nat : DOMAIN blocks = 1 .. n
  BY ClaudeShape, BlocksNumbered
<1>3. /\ ToolUses = {i \in 1 .. n : blocks[i].kind = "tool_use"}
      /\ \A k \in 1 .. n : blocks[k].kind \in SentKinds /\ blocks[k].name \in Sendable
  BY <1>2 DEF ToolUses, Named
<1>4. /\ h \in Seq(ClaudeMessages) /\ ClaudeInOrder(h) /\ IsNames(request.tools)
      /\ \A i \in DOMAIN h : \A k \in DOMAIN h[i].blocks :
            h[i].blocks[k].type = "tool_use" => h[i].blocks[k].id < 100
  BY DEF RequestOK, ClaudeRequest
<1>5. /\ DOMAIN UpstreamNames = {100 + i : i \in ToolUses}
      /\ \A i \in ToolUses : UpstreamNames[100 + i] = blocks[i].name
  <2>1. UpstreamNames = [id \in {100 + i : i \in ToolUses} |-> blocks[id - 100].name]
    BY DEF UpstreamNames
  <2>2. \A i \in ToolUses : (100 + i) - 100 = i
    BY <1>3
  <2> HIDE DEF blocks
  <2> QED
    BY <2>1, <2>2
<1> DEFINE q == <<a, u>>
<1>6. q \in Seq(ClaudeMessages) /\ Len(q) = 2 /\ q[1] = a /\ q[2] = u /\ DOMAIN q = 1 .. 2
  OBVIOUS
<1>7. ASSUME NEW k \in DOMAIN a.blocks
      PROVE  /\ k \in 1 .. n /\ a.blocks[k].type = blocks[k].kind
             /\ a.blocks[k].id = 100 + k /\ a.blocks[k].name = blocks[k].name
  <2>1. k \in 1 .. n /\ a.blocks[k] = Block(blocks[k].kind, 100 + k, blocks[k].name)
    BY <1>1, <1>2
  <2>2. \A type, id, name : LET b == Block(type, id, name)
                           IN  b.type = type /\ b.id = id /\ b.name = name
    BY DEF Block
  <2> QED
    BY ONLY <2>1, <2>2
<1> HIDE DEF q, h, blocks
<1>8. ClaudeInOrder(h \o q)
  <2> DEFINE N == SetsOf(ClaudeAnswers, ClaudeMessages)
             H == SetsOf(ClaudeCalls, ClaudeMessages)
  <2>1. N[a] = {}
    <3>1. N[a] = Answered("claude", a)
      BY MadeAndAnswered
    <3>2. \A k \in DOMAIN a.blocks : a.blocks[k].type # "tool_result"
      BY <1>3, <1>7 DEF SentKinds
    <3>3. \A b \in ToSet(a.blocks) : b.type # "tool_result"
      BY <3>2 DEF ToSet
    <3> QED
      BY <3>1, <3>3 DEF Answered
  <2>2. \A m \in N[u] : m \in H[a]
    <3> SUFFICES ASSUME NEW m \in N[u] PROVE m \in H[a]
      OBVIOUS
    <3>1. m \in Answered("claude", u) /\ H[a] = Made("claude", a)
      BY MadeAndAnswered
    <3>2. PICK b \in ToSet(u.blocks) : b.type = "tool_result" /\ b.id = m
      BY <3>1 DEF Answered
    <3>3. PICK k \in DOMAIN u.blocks : b = u.blocks[k]
      BY DEF ToSet
    <3>4. PICK i \in ToolUses : m = 100 + i
      BY <1>1, <3>2, <3>3
    <3>5. i \in DOMAIN a.blocks
      BY <1>1
    <3>6. a.blocks[i].type = "tool_use" /\ a.blocks[i].id = m
      BY <1>3, <1>7, <3>4, <3>5
    <3>7. a.blocks[i] \in ToSet(a.blocks)
      BY <3>5 DEF ToSet
    <3> QED
      BY <3>1, <3>6, <3>7 DEF Made
  <2>3. Behind(N, H, h)
    BY <1>4 DEF ClaudeInOrder
  <2> HIDE DEF N, H
  <2>4. \A i \in 1 .. Len(q) : \A m \in N[q[i]] :
           Holds(H, h, m) \/ \E j \in 1 .. i - 1 : m \in H[q[j]]
    <3> SUFFICES ASSUME NEW i \in 1 .. 2, NEW m \in N[q[i]]
                 PROVE  \E j \in 1 .. i - 1 : m \in H[q[j]]
      BY <1>6
    <3>1. i = 2 /\ m \in H[q[1]]
      BY <1>6, <2>1, <2>2
    <3> QED
      BY <3>1
  <2>5. Behind(N, H, h \o q)
    BY <1>4, <1>6, <2>3, <2>4, BehindJoin
  <2> QED
    BY <2>5 DEF ClaudeInOrder, N, H
<1>9. h \o q \in Seq(ClaudeMessages)
  BY <1>4, <1>6
<1>10. ASSUME NEW i \in DOMAIN (h \o q), NEW k \in DOMAIN (h \o q)[i].blocks,
              (h \o q)[i].blocks[k].type = "tool_use"
       PROVE  LET b == (h \o q)[i].blocks[k] IN Known(r, b.id, ToolName(r.tools, b.name))
  <2> DEFINE m == (h \o q)[i]
  <2>1. (\E j \in DOMAIN h : m = h[j]) \/ (\E j \in DOMAIN q : m = q[j])
    BY <1>4, <1>6, JoinElements
  <2> HIDE DEF m
  <2>2. m = a \/ m = u \/ \E j \in DOMAIN h : m = h[j]
    BY <1>6, <2>1
  <2>3. k \in DOMAIN m.blocks /\ m.blocks[k].type = "tool_use"
    BY <1>10 DEF m
  <2>4. CASE \E j \in DOMAIN h : m = h[j]
    <3>1. m.blocks[k].id < 100
      BY <1>4, <2>3, <2>4
    <3>2. m.blocks[k].id \notin DOMAIN UpstreamNames
      <4> SUFFICES ASSUME NEW j \in ToolUses, m.blocks[k].id = 100 + j PROVE FALSE
        BY <1>5
      <4>1. j \in Nat
        BY <1>3
      <4> QED
        BY <3>1, <4>1
    <3> QED
      BY <3>2 DEF Known, m
  <2>5. CASE m = a
    <3>1. k \in ToolUses /\ m.blocks[k].id = 100 + k /\ m.blocks[k].name = blocks[k].name
      BY <1>3, <1>7, <2>3, <2>5
    <3>2. r.used[100 + k] = blocks[k].name /\ blocks[k].name \in Sendable
      BY <1>3, <1>5, <3>1
    <3>3. blocks[k].name \in ToSet(r.tools) \/ ToolName(r.tools, blocks[k].name) = blocks[k].name
      BY <3>2, SentNameStays
    <3> QED
      BY <3>1, <3>2, <3>3 DEF Known, m
  <2>6. CASE m = u
    BY <1>1, <2>3, <2>6
  <2> QED
    BY <2>2, <2>4, <2>5, <2>6
<1>11. r.history = h \o q
  BY <1>1 DEF h, q
<1>12. ClaudeRequest(r)
  BY <1>8, <1>9, <1>10, <1>11 DEF ClaudeRequest
<1> QED
  BY <1>4, <1>12 DEF RequestOK

LEMMA ToolMessageFacts ==
    ASSUME NEW id \in Nat
    PROVE  LET m == ToolMessage([id |-> id])
           IN  m \in ChatMessages /\ m.role = "tool" /\ m.calls = <<>> /\ m.answers = id
<1>1. <<>> \in Seq(Blocks)
  OBVIOUS
<1> QED
  BY <1>1 DEF ToolMessage, ChatMessages

LEMMA ChatTurnFacts ==
    ASSUME CInv
    PROVE  \E a \in ChatMessages, ts \in Seq(ChatMessages) :
              /\ ChatTurn = <<a>> \o ts /\ a.role = "assistant"
              /\ DOMAIN a.calls = DOMAIN chat.client.calls
              /\ \A k \in DOMAIN a.calls :
                    a.calls[k] = Block("call", 100 + k, chat.client.calls[k].name)
              /\ DOMAIN ts = DOMAIN chat.client.calls
              /\ \A k \in DOMAIN ts : /\ ts[k].role = "tool" /\ ts[k].calls = <<>>
                                      /\ ts[k].answers = 100 + k
<1> DEFINE calls == chat.client.calls
           c(i) == Block("call", 100 + i, calls[i].name)
           t(i) == ToolMessage([id |-> 100 + i])
           cs == [i \in DOMAIN calls |-> c(i)]
           ts == [i \in DOMAIN calls |-> t(i)]
           parts == IF chat.client.content = Empty THEN <<>> ELSE <<Said>>
           a == [role |-> "assistant", parts |-> parts, calls |-> cs, answers |-> 0]
<1>0. ChatTurn = <<a>> \o ts
  BY DEF ChatTurn
<1>1. PICK n \in Nat : DOMAIN calls = 1 .. n
  <2>1. IsSeq(calls)
    BY DEF CInv, CallsRight
  <2> HIDE DEF calls
  <2> QED
    BY <2>1 DEF IsSeq
<1>2. ASSUME NEW i \in 1 .. n
      PROVE  c(i) \in Blocks
  <2>1. calls[i].name \in Seq(STRING)
    <3>1. calls[i].name \in ToSet(request.tools) /\ request.tools \in Seq(Seq(STRING))
      BY <1>1 DEF CInv, CallsRight, Asked, IsNames
    <3> HIDE DEF calls
    <3> QED
      BY <3>1 DEF ToSet
  <2>2. 100 + i \in Nat \ {0} /\ "call" \in BlockTypes
    BY DEF BlockTypes
  <2> HIDE DEF calls
  <2> QED
    BY <2>1, <2>2 DEF Block, Blocks
<1>3. ASSUME NEW i \in 1 .. n
      PROVE  /\ t(i) \in ChatMessages
             /\ t(i).role = "tool" /\ t(i).calls = <<>> /\ t(i).answers = 100 + i
  <2>1. 100 + i \in Nat
    OBVIOUS
  <2> QED
    BY <2>1, ToolMessageFacts
<1> HIDE DEF calls, c, t
<1>4. cs \in Seq(Blocks) /\ DOMAIN cs = 1 .. n /\ \A k \in 1 .. n : cs[k] = c(k)
  <2>1. [i \in 1 .. n |-> c(i)] \in Seq(Blocks) /\ cs = [i \in 1 .. n |-> c(i)]
    BY <1>1, <1>2
  <2> QED
    BY <2>1
<1>5. ts \in Seq(ChatMessages) /\ DOMAIN ts = 1 .. n /\ \A k \in 1 .. n : ts[k] = t(k)
  <2>1. [i \in 1 .. n |-> t(i)] \in Seq(ChatMessages) /\ ts = [i \in 1 .. n |-> t(i)]
    BY <1>1, <1>3
  <2> QED
    BY <2>1
<1>6. parts \in Seq(Blocks)
  BY SaidIsBlock
<1> HIDE DEF cs, ts, parts
<1>7. a \in ChatMessages /\ a.calls = cs /\ a.role = "assistant"
  BY <1>4, <1>6 DEF ChatMessages
<1> HIDE DEF a
<1>8. \A k \in DOMAIN a.calls : a.calls[k] = c(k)
  BY <1>4, <1>7
<1>9. \A k \in DOMAIN ts : ts[k].role = "tool" /\ ts[k].calls = <<>> /\ ts[k].answers = 100 + k
  BY <1>3, <1>5
<1>10. DOMAIN a.calls = DOMAIN calls /\ DOMAIN ts = DOMAIN calls
  BY <1>1, <1>4, <1>5, <1>7
<1> QED
  BY <1>0, <1>5, <1>7, <1>8, <1>9, <1>10 DEF c, calls

\* The upstream's names of the calls: an OpenAI client has the tools' own names.
LEMMA CallNames ==
    ASSUME CInv, NEW k \in DOMAIN chat.client.calls, k \in DOMAIN Calls
    PROVE  ToolName(request.tools, chat.client.calls[k].name) = Calls[k].name
<1> DEFINE tools == request.tools
           E == {e \in ToSet(items) : e.kind = "call"}
<1>1. IsNames(tools) /\ chat.client.calls[k].name = OriginalName(tools, Calls[k].name)
  BY DEF CInv, Asked, CallsRight
<1>2. Calls \in Seq(E)
  <2>1. items \in Seq(ToSet(items))
    <3>1. PICK S : items \in Seq(S)
      BY DEF CInv, ItemsRight, IsSeq
    <3> QED
      BY <3>1 DEF ToSet
  <2>2. Those(items, {i \in DOMAIN items : items[i] \in E}) \in Seq(E)
    <3>1. PICK B : B = E
      OBVIOUS
    <3>2. B \subseteq ToSet(items)
      BY <3>1
    <3> HIDE DEF E
    <3>3. Those(items, {i \in DOMAIN items : items[i] \in B}) \in Seq(B)
      BY <2>1, <3>2, ThoseElements
    <3> QED
      BY <3>1, <3>3
  <2>3. \A i \in DOMAIN items : items[i].kind = "call" <=> items[i] \in E
    BY DEF ToSet
  <2> HIDE DEF E
  <2>4. {i \in DOMAIN items : items[i] \in E} = {i \in DOMAIN items : items[i].kind = "call"}
    BY <2>3
  <2> QED
    BY <2>2, <2>4 DEF Calls
<1>3. Calls[k] \in E
  <2> HIDE DEF E
  <2> QED
    BY <1>2
<1>4. PICK i \in DOMAIN items : Calls[k] = items[i] /\ items[i].kind = "call"
  BY <1>3 DEF ToSet
<1>5. PICK tool \in ToSet(tools) : Calls[k].name = ShortName(tools, tool)
  BY <1>4 DEF CInv, ItemsRight, ItemRight
<1>6. chat.client.calls[k].name = tool
  BY <1>1, <1>5, NamesComeBack
<1> QED
  BY <1>5, <1>6 DEF ToolName

LEMMA ChatAsksAgain ==
    ASSUME CInv, RequestOK(request), request.api = "chat", request.again,
           NEW r, DOMAIN r = RequestFields, r.api = "chat",
           r.tools = request.tools, r.again = FALSE, r.used = UpstreamNames,
           r.history = request.history \o ChatTurn
    PROVE  RequestOK(r)
<1> DEFINE h == request.history
           calls == chat.client.calls
<1>1. PICK a \in ChatMessages, ts \in Seq(ChatMessages) :
         /\ ChatTurn = <<a>> \o ts /\ a.role = "assistant"
         /\ DOMAIN a.calls = DOMAIN calls
         /\ \A k \in DOMAIN a.calls : a.calls[k] = Block("call", 100 + k, calls[k].name)
         /\ DOMAIN ts = DOMAIN calls
         /\ \A k \in DOMAIN ts : /\ ts[k].role = "tool" /\ ts[k].calls = <<>>
                                 /\ ts[k].answers = 100 + k
  BY ChatTurnFacts, Zenon
<1>2. PICK n \in Nat : DOMAIN calls = 1 .. n /\ Len(ts) = n
  <2>1. DOMAIN ts = 1 .. Len(ts) /\ Len(ts) \in Nat
    OBVIOUS
  <2> QED
    BY <1>1, <2>1, Zenon
<1>3. PICK c \in Nat : DOMAIN Calls = 1 .. c
  BY DEF CInv, CallsRight, IsSeq
<1>4. /\ h \in Seq(ChatMessages) /\ ChatInOrder(h) /\ IsNames(request.tools)
      /\ \A i \in DOMAIN h : \A k \in DOMAIN h[i].calls : h[i].calls[k].id < 100
  BY DEF RequestOK, ChatRequest
<1>5. /\ DOMAIN UpstreamNames = {100 + i : i \in 1 .. c}
      /\ \A i \in 1 .. c : UpstreamNames[100 + i] = Calls[i].name
  <2>1. UpstreamNames = [id \in {100 + i : i \in 1 .. c} |-> Calls[id - 100].name]
    BY <1>3 DEF UpstreamNames
  <2>2. \A i \in 1 .. c : (100 + i) - 100 = i
    OBVIOUS
  <2> QED
    BY <2>1, <2>2
<1> DEFINE q == <<a>> \o ts
<1>6. /\ q \in Seq(ChatMessages) /\ Len(q) = 1 + n /\ q[1] = a
      /\ \A k \in 1 .. n : q[1 + k] = ts[k]
  <2>1. <<a>> \in Seq(ChatMessages) /\ Len(<<a>>) = 1 /\ <<a>>[1] = a
    OBVIOUS
  <2> QED
    BY <1>2, <2>1
<1>7. ASSUME NEW k \in 1 .. n
      PROVE  /\ k \in DOMAIN a.calls /\ a.calls[k].id = 100 + k /\ a.calls[k].name = calls[k].name
             /\ ts[k].role = "tool" /\ ts[k].calls = <<>> /\ ts[k].answers = 100 + k
  <2>1. k \in DOMAIN a.calls /\ a.calls[k] = Block("call", 100 + k, calls[k].name)
    BY <1>1, <1>2
  <2>2. \A type, id, name : LET b == Block(type, id, name) IN b.id = id /\ b.name = name
    BY DEF Block
  <2>3. ts[k].role = "tool" /\ ts[k].calls = <<>> /\ ts[k].answers = 100 + k
    BY <1>1, <1>2
  <2> QED
    BY ONLY <2>1, <2>2, <2>3
<1>8. DOMAIN a.calls = 1 .. n
  BY <1>1, <1>2
<1> HIDE DEF q, h, calls
<1>9. \A i \in 1 .. 1 + n : i = 1 \/ \E k \in 1 .. n : i = 1 + k
  <2> SUFFICES ASSUME NEW i \in 1 .. 1 + n, i # 1 PROVE \E k \in 1 .. n : i = 1 + k
    OBVIOUS
  <2>1. i - 1 \in 1 .. n /\ i = 1 + (i - 1)
    OBVIOUS
  <2> QED
    BY <2>1
<1>10. ChatInOrder(h \o q)
  <2> DEFINE N == SetsOf(ChatAnswers, ChatMessages)
             H == SetsOf(ChatCalls, ChatMessages)
  <2>1. N[a] = {}
    BY <1>1, MadeAndAnswered DEF Answered
  <2>2. \A k \in 1 .. n : N[ts[k]] = {100 + k} /\ 100 + k \in H[a]
    <3> SUFFICES ASSUME NEW k \in 1 .. n PROVE N[ts[k]] = {100 + k} /\ 100 + k \in H[a]
      OBVIOUS
    <3>1. ts[k] \in ChatMessages
      BY <1>2
    <3>2. N[ts[k]] = Answered("chat", ts[k]) /\ H[a] = Made("chat", a)
      BY <3>1, MadeAndAnswered
    <3>3. a.calls[k] \in ToSet(a.calls)
      BY <1>7 DEF ToSet
    <3> QED
      BY <1>7, <3>2, <3>3 DEF Answered, Made
  <2>3. Behind(N, H, h)
    BY <1>4 DEF ChatInOrder
  <2> HIDE DEF N, H
  <2>4. \A i \in 1 .. Len(q) : \A m \in N[q[i]] :
           Holds(H, h, m) \/ \E j \in 1 .. i - 1 : m \in H[q[j]]
    <3> SUFFICES ASSUME NEW i \in 1 .. 1 + n, NEW m \in N[q[i]]
                 PROVE  \E j \in 1 .. i - 1 : m \in H[q[j]]
      BY <1>6
    <3>1. i # 1
      BY <1>6, <2>1
    <3>2. PICK k \in 1 .. n : i = 1 + k
      BY <1>9, <3>1
    <3>3. m \in H[q[1]]
      <4>1. q[i] = ts[k] /\ q[1] = a
        BY <1>6, <3>2
      <4>2. m \in N[ts[k]]
        BY ONLY <4>1, m \in N[q[i]]
      <4>3. N[ts[k]] = {100 + k} /\ 100 + k \in H[a]
        BY ONLY <2>2, k \in 1 .. n
      <4> QED
        BY ONLY <4>1, <4>2, <4>3
    <3>4. 1 \in 1 .. i - 1
      BY <3>2
    <3> QED
      BY <3>3, <3>4
  <2>5. Behind(N, H, h \o q)
    BY <1>4, <1>6, <2>3, <2>4, BehindJoin
  <2> QED
    BY <2>5 DEF ChatInOrder, N, H
<1>11. h \o q \in Seq(ChatMessages)
  BY <1>4, <1>6
<1>12. ASSUME NEW i \in DOMAIN (h \o q), NEW k \in DOMAIN (h \o q)[i].calls
       PROVE  LET b == (h \o q)[i].calls[k] IN Known(r, b.id, ToolName(r.tools, b.name))
  <2> DEFINE m == (h \o q)[i]
  <2>1. (\E j \in DOMAIN h : m = h[j]) \/ (\E j \in DOMAIN q : m = q[j])
    BY <1>4, <1>6, JoinElements
  <2> HIDE DEF m
  <2>2. \/ m = a \/ \E j \in DOMAIN h : m = h[j]
        \/ \E j \in 1 .. n : m = ts[j]
    <3>1. DOMAIN q = 1 .. 1 + n
      BY <1>6
    <3>2. ASSUME NEW j \in 1 .. 1 + n
          PROVE  q[j] = a \/ \E l \in 1 .. n : q[j] = ts[l]
      <4>1. j = 1 \/ \E l \in 1 .. n : j = 1 + l
        BY <1>9
      <4> QED
        BY ONLY <1>6, <4>1
    <3> QED
      BY ONLY <2>1, <3>1, <3>2
  <2>3. k \in DOMAIN m.calls
    BY DEF m
  <2>4. CASE \E j \in DOMAIN h : m = h[j]
    <3>1. m.calls[k].id < 100
      BY <1>4, <2>3, <2>4
    <3>2. m.calls[k].id \notin DOMAIN UpstreamNames
      <4> SUFFICES ASSUME NEW j \in 1 .. c, m.calls[k].id = 100 + j PROVE FALSE
        BY <1>5
      <4> QED
        BY <3>1
    <3> QED
      BY <3>2 DEF Known, m
  <2>5. CASE m = a
    <3>1. k \in 1 .. n /\ m.calls[k].id = 100 + k /\ m.calls[k].name = calls[k].name
      BY <1>7, <1>8, <2>3, <2>5
    <3>2. ASSUME 100 + k \in DOMAIN UpstreamNames
          PROVE  ToolName(r.tools, calls[k].name) = UpstreamNames[100 + k]
      <4>1. PICK j \in 1 .. c : 100 + k = 100 + j
        BY <1>5, <3>2
      <4>2. k \in 1 .. c
        BY <3>1, <4>1
      <4>3. ToolName(request.tools, calls[k].name) = Calls[k].name
        BY <1>2, <1>3, <3>1, <4>2, CallNames DEF calls
      <4> QED
        BY <1>5, <4>2, <4>3
    <3> QED
      BY <3>1, <3>2 DEF Known, m
  <2>6. CASE \E j \in 1 .. n : m = ts[j]
    <3>1. m.calls = <<>> /\ DOMAIN <<>> = {}
      BY <1>7, <2>6
    <3> QED
      BY <2>3, <3>1
  <2> QED
    BY <2>2, <2>4, <2>5, <2>6
<1>13. r.history = h \o q
  BY <1>1 DEF h, q
<1>14. ChatRequest(r)
  BY <1>10, <1>11, <1>12, <1>13 DEF ChatRequest
<1> QED
  BY <1>4, <1>14 DEF RequestOK

LEMMA RequestNext ==
    ASSUME IInv, CInv, Named(claude), RequestOK(request), [ExchangeNext]_vars
    PROVE  RequestOK(request')
<1>1. CASE UNCHANGED request
  BY <1>1
<1>2. CASE AskAgain
  <2>1. PICK f \in BOOLEAN :
           request' = [request EXCEPT !.items = 0, !.again = FALSE, !.used = UpstreamNames,
                                      !.history = @ \o Turn(f)]
    BY <1>2 DEF AskAgain
  <2>2. DOMAIN request = RequestFields
    BY DEF RequestOK
  <2>3. /\ DOMAIN request' = RequestFields /\ request'.api = request.api
        /\ request'.tools = request.tools /\ request'.again = FALSE
        /\ request'.used = UpstreamNames /\ request'.history = request.history \o Turn(f)
    BY <2>1, <2>2 DEF RequestFields
  <2>4. request.again /\ request.api \in {"claude", "chat"}
    BY <1>2 DEF AskAgain
  <2>5. CASE request.api = "claude"
    <3>1. Turn(f) = ClaudeTurn(f)
      BY <2>5 DEF Turn
    <3> QED
      BY <2>3, <2>4, <2>5, <3>1, ClaudeAsksAgain
  <2>6. CASE request.api = "chat"
    <3>1. Turn(f) = ChatTurn
      BY <2>6 DEF Turn
    <3> QED
      BY <2>3, <2>4, <2>6, <3>1, ChatAsksAgain
  <2> QED
    BY <2>4, <2>5, <2>6
<1>3. UNCHANGED request \/ AskAgain
  BY DEF ExchangeNext, Next, vars, Created, BeginText, BeginCall, Begin, Delta, TextDone,
         ArgsDone, CallDone, Completed, EndOfBody, ReadFails, Finish
<1> QED
  BY <1>1, <1>2, <1>3

\* What an Anthropic or OpenAI client has in its conversation, the translators ask
\* the upstream (ConvertClaudeRequestToOpenAI, ConvertOpenAIRequestToCodex), the
\* first time and when it comes back with the answer: every text, image, call and
\* result once and in order, each result after its call, no message that the
\* upstream refuses, and the upstream's own names on the calls it made.
THEOREM HistoryIsKept == ExchangeSpec => []HistoryKept
<1>1. ExchangeSpec => []IInv
  BY InitHolds, StepKeeps, PTL DEF ExchangeSpec
<1>2. ExchangeSpec => []CInv
  BY CInvInit, CInvNext, PTL DEF ExchangeSpec
<1> DEFINE HInv == Named(claude) /\ RequestOK(request)
<1>3. Init => HInv
  BY NamedInit, FirstRequest
<1>4. IInv /\ CInv /\ HInv /\ [ExchangeNext]_vars => HInv'
  BY NamedNext, RequestNext DEF CInv
<1>5. HInv => HistoryKept
  BY RequestIsKept
<1> HIDE DEF HInv
<1> QED
  BY <1>1, <1>2, <1>3, <1>4, <1>5, PTL DEF ExchangeSpec
=============================================================================
