SPECIFICATION Spec
CONSTANTS
    Accounts = {a1, a2}
    MaxRetry = 1
    EmptyRetryMax = 0
    Reselects = 2
    Modes = {"chat", "raw", "claude", "ws", "compact", "chat_whole", "responses_whole", "claude_whole", "compact_whole"}
INVARIANTS
    OneAnswer
    CreditWhereDue
    OneBodyOpen
    

    
CHECK_DEADLOCK FALSE
