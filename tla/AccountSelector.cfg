SPECIFICATION FairSpec
CONSTANTS
    NumAccounts = 1
    Pickers = {p1, p2}
    Setters = {s1}
    Ops = {"cool", "token", "active"}
    Strategy = "round-robin"
    MaxRetry = 1
    TTL = 2
    Cooldown = 1
    Lifetime = 2
    MaxTime = 3
INVARIANTS FreshPicks 
PROPERTY RebuildEnds
