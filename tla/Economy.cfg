SPECIFICATION EconomySpec
CONSTANTS
    a1 = a1  a2 = a2  a3 = a3
    s1 = s1  r1 = r1
    Agents = {a1, a2, a3}
    Signals = {s1}
    Requests = {r1}
    Scout <- MCScout
    Requester <- MCRequester
    Two = {r1}
    Start = 8  MinIntel = 4  MinEndorse = 2  Stake = 2  Bonus = 1  Budget = 2
    WashMin = 0  SpamMin = 2  StampMin = 3
    MaxCrashes = 1
    MaxCalls = 4
INVARIANTS
    StakesReleasedOnce
    ReviewsArePaid
PROPERTIES
    StakesSettle
CHECK_DEADLOCK FALSE
