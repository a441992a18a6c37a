SPECIFICATION MCSpec
CONSTANTS
    alpha = alpha
    prime = prime
    other = other
    a1 = a1
    a2 = a2
    a3 = a3
    Nobody = Nobody
    Agents = {a1, a2, a3}
    Waves <- MCWaves
    HardLimit = 100
    MaxUpsets = 2
    MaxBirths = 1
    Suggested = {alpha}
    Operators = {prime}
INVARIANTS
    OneBearer
    LivingCounted
    VerdictsAreCarriedOut
PROPERTIES
    DueAreEvaluated
    BootRecovers
CHECK_DEADLOCK FALSE
