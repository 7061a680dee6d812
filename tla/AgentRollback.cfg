SPECIFICATION Spec
CONSTANTS
    Versions = {1, 2}
    Released = {1}
    Operators = {o1}
    Requests = {r1}
    Bodies <- MCOneBody
    Envs <- MCOneEnv
    MaxReuse = 1
INVARIANTS
    RolledBackNeverInvoked
CHECK_DEADLOCK FALSE
