SPECIFICATION Spec
CONSTANTS
    Modes <- OneLoopInBridge
    MaxAttempts = 6
    HarnessMax = 4
    MockMax = 2
INVARIANTS
    TypeOK
    ProvenIsEarned
    CallsBounded
    SavedIsReported
PROPERTIES
    RunEnds
CHECK_DEADLOCK FALSE
