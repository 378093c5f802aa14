SPECIFICATION Spec
CONSTANTS
    Hosts = {h1, h2}
    Kinds = {"Delete"}
    MaxCalls = 3
    MaxConns = 2
    MaxStats = 1
    IdSpace = 1
    MayRemove = FALSE
SYMMETRY HostSymmetry
INVARIANTS OwnAnswer FaultsExplained
CHECK_DEADLOCK FALSE
