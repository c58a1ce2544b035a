\* msgSend may fail: the wrappers then read an unfilled reply.
CONSTANTS
    SendMayFail = TRUE
    ServerMayFail = FALSE
    MaxRuns = 3
SPECIFICATION Spec
INVARIANT
    TestSound
CHECK_DEADLOCK FALSE
