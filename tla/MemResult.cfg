SPECIFICATION Spec
CONSTANTS
    Waiters = {t1, t2, t3}
    Statuses = {SUCCESS, NETWORK_ERROR}
    PENDING = PENDING
INVARIANTS PendingOnlySpurious CallbackSeesResult
PROPERTIES WaitersReturn
CHECK_DEADLOCK FALSE
