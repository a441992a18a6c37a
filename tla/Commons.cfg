SPECIFICATION CommonsSpec
CONSTANTS
    Contributions = {c1}
    Records = {e1}
    Submitter <- MCSubmitter
    c1 = c1  a1 = a1 a2 = a2 a3 = a3
    Reviewers = {a1, a2, a3}
    Genesis = Genesis
    Nobody = Nobody
    MaxDeaths = 1
    Role = "operator"
    Roles = {"scout", "strategist", "critic", "operator"}
    Models = {"haiku", "sonnet"}
    Price <- MCPrice
    MaxRetries = 1
    RetryTax = 2
    ReflectEvery = 3
    ReviewEvery = 4
    StudyCooldown = 1
    Textbooks = {"risk"}
    Entries = {"e1"}
    ToolNames = {"t1"}
    RunCost = 1
    Scheduled = {"t1"}
    SandboxCap = 1
    MaxChanges = 1
    MaxCycles = 5
    MaxEvaluations = 1
    Agents = {"o", "s", "child"}
    Founders = {"o", "s"}
    Trades <- MCTrades
    NoAgent = NoAgent
    Reflecting = {"s"}
    MaxAlliances = 2
    MaxMemories = 1
    MaxTurns = 3
    Posters = {"o", "s"}
    RateLimit = 1
    ReadLimit = 1
    ReviewLimit = 1
    MaxDate = 6
    MaxTroubles = 2
INVARIANTS PaidIsCharged OneLateChange DeadAreReleased MissedForAReason
PROPERTIES ReviewedIsSettled
CHECK_DEADLOCK FALSE
