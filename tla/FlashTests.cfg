\* A server that may answer any request with an error, over a reliable
\* msgSend.  The test binary stops after its MaxRuns test calls.
CONSTANTS
    SendMayFail = FALSE
    ServerMayFail = TRUE
    MaxRuns = 3
SPECIFICATION Spec
INVARIANT
    TestSound
CHECK_DEADLOCK FALSE
