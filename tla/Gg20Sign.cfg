\* Operators 1, 3 and 5 of the directory sign; the last one cheats.
SPECIFICATION FairSpec
CONSTANTS
    Operators = {0, 1, 2}
    InboxCapacity = 1
    LastRound = 3
    Cheaters = {2}
    Timers = {1}
    Mortals = {1}
    Global <- SampleGlobal
    Need = 2
INVARIANTS
    Gg20TypeOK
    SlashIsDeserved
    CheatIsNeverSigned
    AbortHasRootCause
PROPERTIES
    EverybodyEnds
    SessionDecides
    ImplementsRounds
CHECK_DEADLOCK FALSE
