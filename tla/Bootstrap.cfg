\* One script run over and over, on a fresh chain or one bootstrapped before.
SPECIFICATION Spec
CONSTANTS
    Admins = {deploy, k1, k2}
    DeployKey = deploy
    Mints = {m1, m2, m3}
    Placeholders = {p1}
    LiveFeed = live
    None = None
    MaxFaults = 1
PROPERTY
    BroughtToUse
CHECK_DEADLOCK FALSE
