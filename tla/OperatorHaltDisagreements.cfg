SPECIFICATION Spec
CONSTANTS
    btc = btc
    eth = eth
    Items = {1, 3}
    Coins = {btc, eth}
    AllCoins = AllCoins
    Scope <- MCScope
    Digesters = {scheduler, cli}
    Wired = {scheduler}
    TTL = 2
    MaxFaults = 2
INVARIANTS
    ColonyHaltBlocks
    NoHaltIsLost
CHECK_DEADLOCK FALSE
