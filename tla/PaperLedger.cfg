SPECIFICATION Spec
CONSTANTS
    Agents = {a1, a2}
    Capital = 10
    Sizes <- MCSizes
    Values <- MCValues
    MaxOrders = 2
    MaxPositions = 2
    TakerFee <- MCFee
    MakerFee <- MCFee
INVARIANTS
    CashCoversReservations
    ReservationsMatchOrders
    LongBooksBalance
PROPERTIES
    ImplementsCashAccount
CHECK_DEADLOCK FALSE
