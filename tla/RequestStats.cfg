SPECIFICATION StatsSpec
CONSTANTS
    Requests = {r1, r2, r3}
    MaxMinute = 2
SYMMETRY Symmetry
CHECK_DEADLOCK FALSE
INVARIANTS
    CountedOnce
    MinuteWithinTotal
    LastOneCounts
