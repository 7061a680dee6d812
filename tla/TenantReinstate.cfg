\* The operators' view of reinstatement, with no fault and no duplicate at all.
CONSTANTS
    Tenants = {t1}
    Requests = {r1}
    Executions = {e1}
    MaxFaults = 0
    MaxDups = 0
    MaxReleases = 0
SPECIFICATION FairSpec
PROPERTY OnlyOperatorsReinstate
