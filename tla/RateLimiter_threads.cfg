SPECIFICATION LimiterSpec
CHECK_DEADLOCK FALSE
CONSTANTS
    Coroutines = {"t1", "t2"}
    Threads = {"h1", "h2"}
    Rpm = 2
    MaxGrants = 3
PROPERTIES CallsEnd
