\* Every text of up to 6 tokens over the parts of a citation, or over those of
\* quoted lines, and every cut into chunks of 1 to 3.
CONSTANTS
    Alphabets = {{"bra", "ref", "ket", "word"}, {"nl", "gt", "sp", "word"}}
    MaxTokens = 6
    MaxChunk = 3
SPECIFICATION FilterSpec
INVARIANTS  QuotesChunkFree
CHECK_DEADLOCK FALSE
