SPECIFICATION Spec
CHECK_DEADLOCK FALSE
CONSTANTS
    KeepRecent = 1
    MaxFailures = 2
    Models = {"primary", "fallback"}
    Primary = "primary"
    Fallback = "fallback"
    NoModel = "none"
    MaxTurns = 2
    MaxRetries = 3
    MaxOutLimit = 1
    UserActions = {"interrupt", "compact", "model"}
    MaxPrompts = 2
    MaxCalls = 1
PROPERTIES RunEnds
