-------------------------- MODULE ThinkingFilter ---------------------------
(***************************************************************************)
(* filter.ThinkingFilter: takes the Markdown quoting off the upstream's    *)
(* reasoning deltas.  Tokens are records with a field sym; "nl" is a line  *)
(* break, "gt" the character > and "sp" a blank.                           *)
(***************************************************************************)
EXTENDS Naturals, Sequences, FiniteSetsExt

SymsAt(s, i, n) == [k \in 1 .. n |-> s[i + k - 1].sym]
EndsWith(s, tail) ==
    Len(s) >= Len(tail) /\ SymsAt(s, Len(s) - Len(tail) + 1, Len(tail)) = tail

NewThinkingFilter == [seen |-> FALSE, buffer |-> <<>>]

\* strings.ReplaceAll(content, "\n> ", "\n")
StripQuotes(s) ==
    LET from[i \in Nat] ==
          IF i > Len(s) THEN <<>>
          ELSE <<s[i]>> \o
               (IF i + 2 <= Len(s) /\ SymsAt(s, i, 3) = <<"nl", "gt", "sp">>
                THEN from[i + 3] ELSE from[i + 1])
    IN  from[1]

QuotesIn(delta) == {i \in 1 .. Len(delta) - 1 : SymsAt(delta, i, 2) = <<"gt", "sp">>}

\* Mutant of HeldQuote: only the whole "\n>" is held.
HeldQuoteMarkOnly(s) == IF EndsWith(s, <<"nl", "gt">>) THEN 2 ELSE 0

\* What may still become "\n> " at the end of the text.
HeldQuote(s) ==
    IF EndsWith(s, <<"nl", "gt">>) THEN 2 ELSE IF EndsWith(s, <<"nl">>) THEN 1 ELSE 0

\* The first delta counts from its first "> " on; without one it is dropped.
ProcessThinking(f, delta) ==
    IF ~f.seen /\ QuotesIn(delta) = {}
    THEN [out |-> <<>>, filter |-> [f EXCEPT !.seen = TRUE]]
    ELSE LET body == IF f.seen THEN delta
                     ELSE SubSeq(delta, Min(QuotesIn(delta)) + 2, Len(delta))
             s    == StripQuotes(f.buffer \o body)
             held == HeldQuote(s)
         IN  [out    |-> SubSeq(s, 1, Len(s) - held),
              filter |-> [seen   |-> TRUE,
                          buffer |-> SubSeq(s, Len(s) - held + 1, Len(s))]]

FlushThinking(f) == [out |-> f.buffer, filter |-> [f EXCEPT !.buffer = <<>>]]

\* The buffer is kept: only a later Flush empties it.
ResetForNewRound(f) == [f EXCEPT !.seen = FALSE]
=============================================================================
