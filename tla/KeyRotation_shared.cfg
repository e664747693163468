SPECIFICATION Spec
CHECK_DEADLOCK FALSE
CONSTANTS
    Tasks = {"t1", "t2"}
    Keys <- TwoKeys
    MaxServerRetries = 1
    MaxCalls = 3
PROPERTIES RetryKeyIsFresh CallsReturn
