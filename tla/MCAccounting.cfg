\* Two operators join, leave and are slashed under a changing configuration;
\* no signing requests.
SPECIFICATION Spec
CONSTANTS
    U64_MAX = 40000
    U32_MAX = 3
    U16_MAX = 3
    Zero = Zero
    Keys = {k1, k2}
    Authorities = {a1, a2}
    Requesters = {}
    ClientNonces = {}
    Feeds = {f1}
    Messages = {m1}
    Schemes = {"FrostEd25519"}
    DefaultKey = DefaultKey
    NoAccount = NoAccount
    ThresholdBpsArgs = {0, 6000, 10001}
    MinBondArgs = {0, 1, 2}
    UnbondingArgs = {0, 2}
    FeeArgs = {0}
    WindowArgs = {2}
    FlakyFeeds = {f1}
    FeedArgs = {DefaultKey, f1}
    SuccessorArgs = {DefaultKey, k2}
    BondArgs = {1, 2, 3}
    SlashArgs = {0, 1, 2}
    ThresholdArgs = {1}
    ValidityArgs = {1}
    ShareArgs <- MCShares
    InitialLst = 3
    InitialLamports = 0
    MaxSlot = 3
    MaxRequests = 0
SYMMETRY MCSymmetry
INVARIANTS
    TypeOK
    VaultBacksBonds
    TotalsNeverOverstate
    BondIsReturnable
PROPERTY
    ExitIsOneWay
