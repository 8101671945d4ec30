\* Two operators and one requester who reuses its address; a request may
\* outlive the unbonding of its signers.
SPECIFICATION Spec
CONSTANTS
    U64_MAX = 25000
    U32_MAX = 2
    U16_MAX = 2
    Zero = Zero
    Keys = {k1}
    Authorities = {a1, a2}
    Requesters = {r1}
    ClientNonces = {n1}
    Feeds = {f1}
    Messages = {m1, m2}
    Schemes = {"FrostEd25519"}
    DefaultKey = DefaultKey
    NoAccount = NoAccount
    ThresholdBpsArgs = {6667}
    MinBondArgs = {1}
    UnbondingArgs = {2}
    FeeArgs = {1}
    WindowArgs = {2}
    FlakyFeeds = {}
    FeedArgs = {f1}
    SuccessorArgs = {}
    BondArgs = {2}
    SlashArgs = {1}
    ThresholdArgs = {0, 1, 2}
    ValidityArgs = {0, 2, 3}
    ShareArgs <- MCShares
    InitialLst = 2
    InitialLamports = 2
    MaxSlot = 4
    MaxRequests = 2
SYMMETRY MCSymmetry
INVARIANTS
    TallyIsExact
    QuorumBehindAggregate
    SignaturesAreBacked
PROPERTIES
    FulfillableAtBirth
    ImplementsLedger
