\* Three requests for one address and two failures.
CONSTANTS
    Requests = {r1, r2, r3}
    None = none
    MaxFaults = 2
SPECIFICATION Spec
INVARIANTS
    TypeOK
    InvitesBounded
    RollbackIsOwn
    SentWasPublished
    PendingHasNotifier
    AcceptedInviteExists
\* Once every request is answered, nothing happens.
CHECK_DEADLOCK FALSE
