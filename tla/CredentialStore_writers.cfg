SPECIFICATION Spec
CONSTANTS
    Paths = {p1}
    Workers = {w1, w2}
    SetUps <- Saves
    QueueCap = 1
    MaxCrashes = 0
INVARIANT
    AtomicWrite
