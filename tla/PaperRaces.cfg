SPECIFICATION Spec
CONSTANTS
    Trades = {1, 2}
    Size <- MCSize
    Capital = 4
    MaxCalls = 4
INVARIANTS
    OpenedOnce
    CreditedOncePerProcess
PROPERTIES
    StopsExecute
CHECK_DEADLOCK FALSE
