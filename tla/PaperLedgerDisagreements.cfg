SPECIFICATION Spec
CONSTANTS
    Agents = {a1, a2}
    Capital = 10
    Sizes <- MCSizes
    Values <- MCValues
    MaxOrders = 2
    MaxPositions = 2
    TakerFee <- MCFee
    MakerFee <- MCFee
INVARIANTS
    FlatBooksBalance
    CashStaysPositive
CHECK_DEADLOCK FALSE
