SPECIFICATION Spec
CHECK_DEADLOCK FALSE
CONSTANTS
    KeepRecent = 2
    MaxFailures = 2
    Models = {"primary", "fallback"}
    Primary = "primary"
    Fallback = "fallback"
    NoModel = "none"
    MaxTurns = 3
    MaxRetries = 3
    MaxOutLimit = 1
    UserActions = {"model"}
    MaxPrompts = 2
    MaxCalls = 2
INVARIANTS TypeOK RequestWellFormed BudgetStops
PROPERTIES KeepsRecent
