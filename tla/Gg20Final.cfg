\* Operators 1, 3 and 5 of the directory sign; the last one cheats.
SPECIFICATION Spec
CONSTANTS
    Operators = {0, 1, 2}
    InboxCapacity = 2
    LastRound = 3
    Cheaters = {2}
    Timers = {}
    Mortals = {}
    Global <- SampleGlobal
    Need = 2
INVARIANTS
    FinalBroadcastFirst
CHECK_DEADLOCK FALSE
