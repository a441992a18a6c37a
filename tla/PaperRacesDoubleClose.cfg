SPECIFICATION Spec
CONSTANTS
    Trades = {1, 2}
    Size <- MCSize
    Capital = 4
    MaxCalls = 4
INVARIANTS
    NoDoubleClose
CHECK_DEADLOCK FALSE
