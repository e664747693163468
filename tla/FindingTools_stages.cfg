SPECIFICATION ToolSpec
CONSTANTS
    Agents = {a1, a2}
    Seeds <- Reports
    Asked <- Indices
    Promote = 50
    GateTimeout = 120
    MaxFindings = 2
    MaxCalls = 2
SYMMETRY Permuted
INVARIANTS
    ChainedStand
    DebatedWerePassed
PROPERTIES
    ImplementsLedger
CHECK_DEADLOCK FALSE
