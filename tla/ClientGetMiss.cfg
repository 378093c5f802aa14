SPECIFICATION Spec
CONSTANTS
    Hosts = {h1}
    Kinds = {"Get"}
    MaxCalls = 1
    MaxConns = 1
    MaxStats = 1
    IdSpace = 4
    MayRemove = TRUE
PROPERTY GetAnswered
CHECK_DEADLOCK FALSE
