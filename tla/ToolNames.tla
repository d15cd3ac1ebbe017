----------------------------- MODULE ToolNames -----------------------------
(***************************************************************************)
(* The short tool names of the codex translators (buildShortNameMap and    *)
(* BuildReverseToolNameMap): names longer than the upstream allows are cut *)
(* for the request and restored in the response.                           *)
(*                                                                         *)
(* A name is a sequence of tokens, its length their number.  The token     *)
(* "mcp__" is the prefix of that spelling, "__" a separator inside a name, *)
(* the tokens of Endings are "_1", "_2", ... .                            *)
(***************************************************************************)
EXTENDS Naturals, Sequences, SequencesExt

CONSTANTS Limit,    \* the longest name the upstream takes, 64 in the code
          Endings  \* <<"_1", "_2", ...>>

ASSUME NamesAssumption ==
    /\ Limit \in Nat \ {0}
    /\ Endings \in Seq(STRING)
    /\ \A i, j \in DOMAIN Endings : Endings[i] = Endings[j] => i = j

Cut(name, len) == SubSeq(name, 1, IF Len(name) < len THEN Len(name) ELSE len)

\* The position of the last "__", that of the prefix included.
LastSeparator(name) ==
    SelectLastInSeq(name, LAMBDA t : t \in {"mcp__", "__"})

\* baseCandidate, and shortenNameIfNeeded for a name by itself
BaseCandidate(name) ==
    IF Len(name) <= Limit THEN name
    ELSE IF name[1] = "mcp__"
         THEN Cut(<<"mcp__">> \o SubSeq(name, LastSeparator(name) + 1, Len(name)), Limit)
         ELSE Cut(name, Limit)

Numbered(cand, i) == Append(Cut(cand, Limit - 1), Endings[i])

\* Mutant of MakeUnique: the numbered name is not looked up.
MakeUniqueOnce(cand, used) == IF cand \notin used THEN cand ELSE Numbered(cand, 1)

MakeUnique(cand, used) ==
    IF cand \notin used THEN cand
    ELSE LET free == {i \in DOMAIN Endings : Numbered(cand, i) \notin used}
         IN  Numbered(cand, CHOOSE i \in free : \A j \in free : i <= j)

\* The short name at each position of the list, different from those before it.
ShortNames(names) ==
    LET short[i \in DOMAIN names] ==
            MakeUnique(BaseCandidate(names[i]), {short[j] : j \in 1 .. i - 1})
    IN  short

\* The map: of equal names the last one counts.
ShortName(names, name) == ShortNames(names)[SelectLastInSeq(names, LAMBDA n : n = name)]

\* A short name back in a response; a name that is not in the map stays.
OriginalName(names, short) ==
    LET of == {name \in ToSet(names) : ShortName(names, name) = short}
    IN  IF of = {} THEN short ELSE CHOOSE name \in of : TRUE
=============================================================================
