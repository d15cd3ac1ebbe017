-------------------------- MODULE SearchRefFilter --------------------------
(***************************************************************************)
(* filter.SearchRefFilter: removes or links the citations (a bracket, a    *)
(* reference name such as turn0search3, a closing bracket) from a text     *)
(* that arrives in chunks, and holds back a tail that may still become a   *)
(* citation.  A text is a sequence of tokens, records with a field sym:    *)
(*   "bra" "ref" "ket"   the three parts of a citation                     *)
(*   "link"              what a known citation is replaced by              *)
(* and any other sym for text the filter does not look at.  One reference  *)
(* name is enough: the filter treats each name alone.                      *)
(***************************************************************************)
EXTENDS Naturals, Sequences

Syms(s) == [i \in DOMAIN s |-> s[i].sym]

IsCitation(s, i) ==
    i + 2 <= Len(s) /\ Syms(SubSeq(s, i, i + 2)) = <<"bra", "ref", "ket">>

\* ReplaceAllStringFunc over searchRefPattern: one pass, left to right; known
\* says whether the reference is in the searchResults map.
ResolveCitations(s, known) ==
    LET from[i \in Nat] ==
          IF i > Len(s) THEN <<>>
          ELSE IF IsCitation(s, i)
               THEN (IF known THEN <<[s[i] EXCEPT !.sym = "link"]>> ELSE <<>>)
                    \o from[i + 3]
               ELSE <<s[i]>> \o from[i + 1]
    IN  from[1]

\* Mutants of HeldBack: a suffix pattern without the reference name, and one
\* that is not anchored at the end of the text.
HeldBackBracketOnly(s) ==
    IF Len(s) >= 1 /\ s[Len(s)].sym = "bra" THEN 1 ELSE 0

HeldBackUnanchored(s) ==
    LET at == {i \in DOMAIN s : s[i].sym = "bra"}
    IN  IF at = {} THEN 0
        ELSE Len(s) + 1 - (CHOOSE i \in at : \A j \in at : i >= j)

\* The length of the shortest suffix that searchRefPrefixPattern matches.
HeldBack(s) ==
    LET tail(n) == Syms(SubSeq(s, Len(s) - n + 1, Len(s)))
    IN  IF Len(s) >= 1 /\ tail(1) = <<"bra">> THEN 1
        ELSE IF Len(s) >= 2 /\ tail(2) = <<"bra", "ref">> THEN 2
        ELSE 0

\* Process and Flush return the text to send on and the new buffer.
ProcessRefs(buffer, content, known) ==
    LET s == ResolveCitations(buffer \o content, known)
        n == Len(s) - HeldBack(s)
    IN  [out |-> SubSeq(s, 1, n), buffer |-> SubSeq(s, n + 1, Len(s))]

FlushRefs(buffer, known) ==
    [out |-> ResolveCitations(buffer, known), buffer |-> <<>>]
=============================================================================
