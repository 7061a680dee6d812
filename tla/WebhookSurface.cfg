\* RUNBOOK-005 read as an invariant, one failure allowed.
CONSTANTS
    Jobs = {j1}
    StreamWorker = s
    RetryWorkers = {r1}
    MaxRetry = 1
    MaxStreamTries = 2
    MaxFaults = 1
    MaxDups = 0
    MaxLostReplies = 0
    MaxRedrives = 0
SPECIFICATION Spec
INVARIANT FailuresSurface
CHECK_DEADLOCK FALSE
