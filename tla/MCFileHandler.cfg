SPECIFICATION Spec
CONSTANTS
    Files <- MCFiles
    Froms <- MCFroms
    Tos <- MCTos
    None = None
    MaxLine = 24
    MaxCalls = 3
INVARIANTS Recoverable
PROPERTIES ReplacesAll CallEnds
CHECK_DEADLOCK FALSE
