SPECIFICATION Spec
CONSTANTS
    Processes = {p1, p2}
    MaxTime = 4
PROPERTIES
    KeepsEntries
    ClaimsFreeLock
    RefusalEnds
CHECK_DEADLOCK FALSE
