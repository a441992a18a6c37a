SPECIFICATION DeskSpec
CONSTANTS
    Agents = {a1}
    Levels = {12, 8, 2}
    Initial = 10
    CircuitBreaker = 75
    Red = 30
    Yellow = 15
    Window = 2
    MaxRequests = 1
    MaxFaults = 1
    Holders = {1, 2, 3, 4}
    GenesisRow = 1
    Traders = {2, 4}
    FirstHolders = {2, 3}
    StartingTreasury = 50
    Rates = {5, 6}
    FallbackRate = 5
    Scores = {1}
    Birthright <- MCBirthright
    MaxShifts = 1
    MaxRounds = 2
INVARIANTS
    OneLateTrade
    FreezesAreEarned
    ReserveKept
PROPERTIES
    BreakerTrips
