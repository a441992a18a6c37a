SPECIFICATION WireSpec
CONSTANTS
    btc = btc
    Items = {1, 2}
    Coins = {btc}
    AllCoins = AllCoins
    Scope <- MCScope
    Digesters = {scheduler, cli}
    Wired = {scheduler}
    TTL = 1
    MaxFaults = 2
    Sources <- MCSources
    SourceOf <- MCSourceOf
    Series <- MCSeries
    Bucket <- MCBucket
    KindOf <- MCKindOf
    Keyless <- MCKeyless
    Window = 2
    DisabledAt = 1
INVARIANTS
    OneLateOrder
    WiredNeverLoseHalts
PROPERTIES
    LastIsDigested
CHECK_DEADLOCK FALSE
