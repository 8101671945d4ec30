\* The same session: is no frame ever refused?
SPECIFICATION Spec
CONSTANTS
    Operators = {0, 1, 2}
    InboxCapacity = 2
    Session = "frost-keygen"
    Aggregator = 0
    Cheaters = {}
    Timers = {}
    Mortals = {}
INVARIANTS
    OutOfRoundIsViolation
CHECK_DEADLOCK FALSE
