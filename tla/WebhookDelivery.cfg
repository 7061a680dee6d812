\* One job, faults of every kind: attempts of the same job race each other.
CONSTANTS
    Jobs = {j1}
    StreamWorker = s
    RetryWorkers = {r1, r2}
    MaxRetry = 1
    MaxStreamTries = 2
    MaxFaults = 1
    MaxDups = 1
    MaxLostReplies = 1
    MaxRedrives = 1
SPECIFICATION FairSpec
INVARIANTS
    TypeOK
    SingleChain
    AcceptedAtMostOnce
    DeliveredWasAccepted
    BoundedDeliveries
    NothingForgotten
PROPERTIES
    DeliveredIsFinal
    EventuallySettled
    Drains
\* Once every delivery has ended and the environment's bounds are used up,
\* nothing is left to do.
CHECK_DEADLOCK FALSE
