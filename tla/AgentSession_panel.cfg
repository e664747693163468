SPECIFICATION Spec
CONSTANTS
    Main = main
    Workers = {w1, w2}
    Agents = {main, w1, w2}
    Seeds <- Reports
    Asked <- NoIndices
    Promote = 50
    GateTimeout = 120
    QueueSize = 2
    MaxFindings = 2
    MaxCalls = 1
INVARIANTS
    TypeOK
    CallsAreLive
    PanelCatchesUp
PROPERTIES
    WorkersEnd
CHECK_DEADLOCK FALSE
