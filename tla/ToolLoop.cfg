SPECIFICATION Spec
CONSTANTS
    Names = {"calculate", "exec_command", "weather"}
    Builtins = {"calculate", "exec_command"}
    MaxRounds = 2
    MaxCalls = 2
    MaxFrames = 2
CHECK_DEADLOCK FALSE
INVARIANTS
    TypeOK
    OnlyInjectedExecuted
    ConversationWellFormed
PROPERTY
    OneFate
