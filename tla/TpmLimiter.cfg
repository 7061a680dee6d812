\* Three requests around a window change; two estimates fit in the limit or not.
CONSTANTS
    Requests = {r1, r2, r3}
    Agents = {a1}
    Models = {m1}
    Unknown = unknown
    Limit = 3
    Estimates = {1, 2}
    Actuals = {1}
    MaxWindow = 1
    MaxFaults = 1
SPECIFICATION Spec
SYMMETRY RequestSymmetry
INVARIANTS
    TypeOK
    
    
    CheckedCountersExpire
\* Once all requests are answered and the last window's counters are left,
\* nothing happens.
CHECK_DEADLOCK FALSE
