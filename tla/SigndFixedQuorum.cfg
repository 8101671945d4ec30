\* Three operators, two of them the fixed quorum; no fault.
SPECIFICATION SigndSpec
CONSTANTS
    U64_MAX = 300000
    U32_MAX = 3
    U16_MAX = 3
    Zero = Zero
    Keys = {k1}
    a1 = a1
    a2 = a2
    Authorities = {a1, a2, a3}
    Requesters = {r1}
    ClientNonces = {n1}
    Feeds = {f1}
    Messages = {m1}
    Schemes = {"FrostEd25519"}
    DefaultKey = DefaultKey
    NoAccount = NoAccount
    ThresholdBpsArgs = {6000}
    MinBondArgs = {1}
    UnbondingArgs = {10}
    FeeArgs = {0}
    WindowArgs = {9}
    FlakyFeeds = {}
    FeedArgs = {f1}
    SuccessorArgs = {}
    BondArgs = {10}
    SlashArgs = {}
    ThresholdArgs = {2}
    ValidityArgs = {1}
    ShareArgs <- MCShares
    InitialLst = 10
    InitialLamports = 0
    MaxSlot = 1
    MaxRequests = 1
    SigningSets <- MCSets
    Networked = {}
    NoJob = NoJob
    MaxFaults = 0
PROPERTY
    EachRequestIsCompleted
