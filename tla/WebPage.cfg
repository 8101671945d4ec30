\* One tab, two wallets, two chains of which one is Ethereum; two requests.
SPECIFICATION SiteSpec
CONSTANTS
    Wallets = {w1, w2}
    Zero = Zero
    Junk = Junk
    NoAccount = NoAccount
    NoWallet = NoWallet
    Unanswered = Unanswered
    NotLoaded = NotLoaded
    NoRaw = NoRaw
    NoTx = NoTx
    NoAttempt = NoAttempt
    Dests = {d1}
    Amounts = {7}
    EtherGrain = 3
    WeiGrain = 4
    ChainKeys = {"ethereum", "aptos"}
    Bond = 1
    Validity = 1
    MaxRequests = 2
    MaxSlot = 2
    MaxOperators = 1
    MaxEthNonce = 2
    MaxFeed = 2
    MaxPolls = 2
    FrameGaps = {6, 35, 36, 90}
    NoQuestion = NoQuestion
    CountTo = 5
    Budgets <- MCBudgets
INVARIANTS
    WebTypeOK
    RevealedIsOwn
    BroadcastableIsValid
    ActivityIsOwn
    SocketsHoldChips
PROPERTIES
    DashMovesForward
    RowsKeepResults
    SignedIsRevealed
    AttemptsEnd
CHECK_DEADLOCK FALSE
