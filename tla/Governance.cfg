SPECIFICATION GovernanceSpec
CONSTANTS
    p1 = p1  p2 = p2
    w1 = w1  w2 = w2  structural = structural  forbidden = forbidden
    None = None
    Sips = {p1, p2}
    Voters = {1, 2}
    Parameters = {w1, w2, structural, forbidden}
    Weight <- MCWeight
    Seed <- MCSeed
    Proposals <- MCProposals
    PassAt <- MCPassAt
    StructuralAt <- MCStructuralAt
    SipsFor <- MCSipsFor
    MaxCalls = 4
    MaxFailures = 1
INVARIANTS
    WeightsAddUp
PROPERTIES
    ApprovedChangesOnly
    SipsProgress
CHECK_DEADLOCK FALSE
