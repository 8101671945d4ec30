\* Signing with a cheater, deaths and time-outs that need not come.
SPECIFICATION FairSpec
CONSTANTS
    Operators = {0, 1, 2}
    InboxCapacity = 4
    Session = "frost-sign"
    Aggregator = 0
    Cheaters = {2}
    Timers = {0, 1, 2}
    Mortals = {1}
INVARIANTS
    TypeOK
    BarrierHolds
    AbortHasRootCause
PROPERTIES
    OnlyEarlyFramesRefused
    ImplementsSession
    EverybodyEnds
    SessionCompletes
CHECK_DEADLOCK FALSE
