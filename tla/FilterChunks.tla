--------------------------- MODULE FilterChunks ----------------------------
(***************************************************************************)
(* A text fed to the two streaming filters chunk by chunk, the way the     *)
(* handlers feed upstream deltas, and flushed at the end.  The chunks are  *)
(* any cut of any text: the question is whether the cut shows.             *)
(***************************************************************************)
EXTENDS SearchRefFilter, ThinkingFilter

CONSTANTS Alphabets,  \* sets of syms: a text is over one of them
          MaxTokens,  \* bound: length of the text
          MaxChunk    \* bound: length of a chunk

VARIABLES alphabet, \* of the text
          given,    \* the text so far
          listed,   \* is the cited reference in the search results
          cited,    \* citation filter: what was sent on, and its buffer
          quoted,   \* the reasoning text that counts, after the first delta's cut
          quotes,   \* thinking filter: what was sent on, and its state
          flushed

filterVars == <<alphabet, given, listed, cited, quoted, quotes, flushed>>

Token == [sym : alphabet]
Chunks == UNION {[1 .. n -> Token] : n \in 1 .. MaxChunk}

FilterTypeOK ==
    /\ alphabet \in Alphabets /\ given \in Seq(Token) /\ Len(given) <= MaxTokens
    /\ listed \in BOOLEAN /\ flushed \in BOOLEAN
    /\ Len(cited.buffer) <= 2 /\ Len(quotes.filter.buffer) <= 2
    /\ quotes.filter.seen \in BOOLEAN

FilterInit ==
    /\ alphabet \in Alphabets /\ given = <<>> /\ quoted = <<>>
    /\ listed \in BOOLEAN
    /\ cited = [sent |-> <<>>, buffer |-> <<>>]
    /\ quotes = [sent |-> <<>>, filter |-> NewThinkingFilter]
    /\ flushed = FALSE

Feed(chunk) ==
    /\ ~flushed
    /\ Len(given) + Len(chunk) <= MaxTokens
    /\ given' = given \o chunk
    /\ LET r == ProcessRefs(cited.buffer, chunk, listed)
       IN  cited' = [sent |-> cited.sent \o r.out, buffer |-> r.buffer]
    /\ LET t == ProcessThinking(quotes.filter, chunk)
       IN  quotes' = [sent |-> quotes.sent \o t.out, filter |-> t.filter]
    /\ quoted' = IF quotes.filter.seen THEN quoted \o chunk
                 ELSE IF QuotesIn(chunk) = {} THEN <<>>
                 ELSE LET q == CHOOSE i \in QuotesIn(chunk) :
                                 \A j \in QuotesIn(chunk) : i <= j
                      IN  SubSeq(chunk, q + 2, Len(chunk))
    /\ UNCHANGED <<alphabet, listed, flushed>>

FlushAll ==
    /\ ~flushed
    /\ flushed' = TRUE
    /\ LET r == FlushRefs(cited.buffer, listed)
       IN  cited' = [sent |-> cited.sent \o r.out, buffer |-> r.buffer]
    /\ LET t == FlushThinking(quotes.filter)
       IN  quotes' = [sent |-> quotes.sent \o t.out, filter |-> t.filter]
    /\ UNCHANGED <<alphabet, given, listed, quoted>>

FilterNext == (\E chunk \in Chunks : Feed(chunk)) \/ FlushAll
FilterSpec == FilterInit /\ [][FilterNext]_filterVars

-----------------------------------------------------------------------------
\* Wherever the upstream cuts its deltas, what the citation filter has sent plus
\* what it holds back is the whole text with its citations resolved: none is
\* missed across a cut, no other text is lost or reordered (SearchRefFilter
\* Process/Flush).  Excluded are texts in which dropping one citation splices
\* its surroundings into another: there the cut does show.
RefsChunkFree ==
    LET whole == ResolveCitations(given, listed)
    IN  ResolveCitations(whole, listed) = whole => cited.sent \o cited.buffer = whole

\* The same for the quoting: a quote mark split from its line break is still
\* taken off, and every other character passes once (ThinkingFilter).  Excluded
\* are doubly quoted lines, whose second mark falls or stays with the cut.
QuotesChunkFree ==
    LET whole == StripQuotes(quoted)
    IN  StripQuotes(whole) = whole => quotes.sent \o quotes.filter.buffer = whole
=============================================================================
