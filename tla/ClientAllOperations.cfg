SPECIFICATION Spec
CONSTANTS
    Hosts = {h1}
    Kinds = {"Get", "Store", "SelfOp", "Append", "Delete", "Flush", "Stat", "Version"}
    MaxCalls = 2
    MaxConns = 1
    MaxStats = 2
    IdSpace = 4
    MayRemove = TRUE
INVARIANTS NoOrphan FaultsExplained StatusSwapped
PROPERTY CallsAnswered
CHECK_DEADLOCK FALSE
