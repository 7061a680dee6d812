SPECIFICATION Spec
CONSTANTS
    Issues = {1}
    DependsOn <- ChainedIssues
    Procs = {p1, p2}
    Clones = {c1}
SYMMETRY Symmetry
INVARIANTS  ReconcileSettlesLabels
 
CHECK_DEADLOCK FALSE
