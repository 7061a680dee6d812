\* One tenant, two racing creations, duplicates and failures.
CONSTANTS
    Tenants = {t1}
    Requests = {r1, r2}
    Executions = {e1, e2}
    MaxFaults = 1
    MaxDups = 1
    MaxReleases = 1
SPECIFICATION FairSpec
INVARIANTS
    TypeOK
    CreatedOnce
    ReadyMeansBuilt
    FailedMeansRolledBack
    PendingHasWork
PROPERTIES
    SettledStatusIsOperators
    EventuallyProvisioned
