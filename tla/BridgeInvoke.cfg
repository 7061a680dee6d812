SPECIFICATION Spec
CONSTANTS
    Versions = {1, 2}
    Released = {1}
    Operators = {o1, o2}
    Requests = {r1}
    Bodies <- MCBodies
    Envs <- MCEnvs
    MaxReuse = 0
INVARIANTS
    TypeOK
    ServiceContinues
    RolledBackStaysOut
    CatalogueAgrees
    
PROPERTIES
    GovernedRelease
SYMMETRY Symmetry
CHECK_DEADLOCK FALSE
