\* One agent, two requests and no failing call: what the header says.
CONSTANTS
    Requests = {r1, r2}
    Agents = {a1}
    Models = {m1}
    Unknown = unknown
    Limit = 3
    Estimates = {1, 2}
    Actuals = {1}
    MaxWindow = 1
    MaxFaults = 0
SPECIFICATION Spec
INVARIANT UsedHeaderIsConsumption
CHECK_DEADLOCK FALSE
