SPECIFICATION MCSpec
CONSTANTS
    scout = scout
    strategist = strategist
    critic = critic
    r1 = r1
    r2 = r2
    r3 = r3
    Nobody = Nobody
    Agents = {scout, strategist, critic}
    Type <- MCType
    Opportunities = {o1}
    Plans = {p1}
    Results = {r1, r2, r3}
    MaxAttempts = 1
    PerCycle <- MCPerCycle
    Verdicts = {"approved"}
    MaxFailures = 2
INVARIANT ShownOnce
PROPERTY ResultsSettle
