SPECIFICATION LimiterSpec
CHECK_DEADLOCK FALSE
CONSTANTS
    Coroutines = {"t1", "t2", "t3"}
    Threads = {}
    Rpm = 2
    MaxGrants = 6
INVARIANTS WithinRpm
PROPERTIES ImplementsWindow
