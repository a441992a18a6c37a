SPECIFICATION MCSpec
CONSTANTS
    scout = scout
    strategist = strategist
    critic = critic
    r1 = r1
    r2 = r2
    r3 = r3
    Nobody = Nobody
    Agents = {scout, strategist, critic}
    Type <- MCType
    Opportunities = {o1}
    Plans = {p1}
    Results = {}
    MaxAttempts = 1
    PerCycle <- MCPerCycle
    Verdicts = {"approved"}
    MaxFailures = 1
PROPERTY StalePlansReturn
