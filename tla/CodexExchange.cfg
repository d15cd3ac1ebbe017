\* Names of at most three tokens; texts of at most two; the end of the response is
\* the end of the behaviour.
SPECIFICATION ExchangeSpec
CONSTANTS
    Limit = 3
    MaxTokens = 2
    Requests <- MCRequests
    Endings <- MCEndings
INVARIANTS
    BlocksInOrder
    
    ClaudeStreamIsFinal
    
    NamesRestored
    
CHECK_DEADLOCK FALSE
