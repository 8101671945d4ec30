\* The daemon serves two requests of one message on a chain with two
\* operators, among clients and relayers of every kind; one fault.
SPECIFICATION SigndSpec
CONSTANTS
    U64_MAX = 300000
    U32_MAX = 3
    U16_MAX = 3
    Zero = Zero
    Keys = {k1}
    a1 = a1
    a2 = a2
    Authorities = {a1, a2}
    Requesters = {r1}
    ClientNonces = {n1, n2}
    Feeds = {f1}
    Messages = {m1}
    Schemes = {"FrostEd25519"}
    DefaultKey = DefaultKey
    NoAccount = NoAccount
    ThresholdBpsArgs = {6000}
    MinBondArgs = {1}
    UnbondingArgs = {10}
    FeeArgs = {0}
    WindowArgs = {9}
    FlakyFeeds = {}
    FeedArgs = {f1}
    SuccessorArgs = {}
    BondArgs = {10}
    SlashArgs = {}
    ThresholdArgs = {2}
    ValidityArgs = {1}
    ShareArgs <- MCShares
    InitialLst = 10
    InitialLamports = 0
    MaxSlot = 1
    MaxRequests = 2
    SigningSets <- MCSets
    Networked = {"FrostEd25519"}
    NoJob = NoJob
    MaxFaults = 1
PROPERTY
    ServableIsSigned
