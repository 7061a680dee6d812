SPECIFICATION Spec
CONSTANTS
    Tenants = {"t1", "t2"}
    Platform = "platform"
    PlatformId = "platform"
    Routes <- MCRoutes
    Actors <- MCActors
    Clients <- MCClients
    CacheTtl = 2
    BindingTtl = 1
    SkewTtl = 1
    TokenLife = 1
    MaxRetries = 1
    MaxChanges = 2
    TokenTtl = 1
    KeyTtl = 1
    PolicyTtl = 1
    MaxEdits = 2
INVARIANTS TypeOK IsolationHeld
PROPERTIES RevocationBounded  ScopedTokenHonoured
CHECK_DEADLOCK FALSE
