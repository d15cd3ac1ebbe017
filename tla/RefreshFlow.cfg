SPECIFICATION FairSpec
CONSTANTS
    Accounts = {"a1", "a2"}
    Callers = {"c1", "c2"}
    Loads <- SmallLoads
    SemCap = 1
    Concurrency = 1
    ChanCap = 1
    RefreshPhase = "refresh_once"
    QuotaPhase = "refresh_once"
INVARIANTS OneRefresher PermitsCounted DoneLast
PROPERTIES FlagsComeBack CallsReturn BatchEnds
