SPECIFICATION Spec
CONSTANTS
    Issues = {1, 2}
    DependsOn <- ChainedIssues
    Procs = {p1}
    Clones = {c1}
INVARIANT DependencyGate
CHECK_DEADLOCK FALSE
