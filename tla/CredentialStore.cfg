SPECIFICATION Spec
CONSTANTS
    Paths = {p1}
    Workers = {w1}
    SetUps <- Both
    QueueCap = 1
    MaxCrashes = 1
INVARIANTS
    FileWhole
    
    
