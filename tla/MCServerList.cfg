SPECIFICATION Spec
CONSTANTS
    a1 = a1
    a2 = a2
    a3 = a3
    Addrs = {a1, a2, a3}
    Key <- MCKey
    Threads = {t1, t2}
    Io = io
    Algs = {memo, circle}
    Counting = {memo}
    Null = Null
    MaxItems = 2
    MaxCalls = 4
INVARIANTS Agreement NothingForgotten SlotSafe
PROPERTIES RemovedForCause CallsReturn
CHECK_DEADLOCK FALSE
