SPECIFICATION Spec
CONSTANTS
    Waiters = {t1, t2, t3}
    Statuses = {SUCCESS, NETWORK_ERROR}
    PENDING = PENDING
PROPERTIES FinishReturns
CHECK_DEADLOCK FALSE
