SPECIFICATION MCSpec
CONSTANTS
    a1 = a1
    a2 = a2
    a3 = a3
    Agents = {a1, a2, a3}
    Interval <- MCInterval
    Multipliers = {50, 100}
    Floor = 1
    Cooldown = 2
    WakeAfter = 2
    MaxAge = 2
    Budgets <- MCBudgets
    MinCost = 1
    MaxCost = 2
    ToolCost = 1
    MaxScript = 1
    LastWords <- MCLastWords
    MaxFaults = 1
PROPERTIES
    DeadStayDead
    ActiveAgentsThink
