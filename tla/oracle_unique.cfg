\* One process: is a timestamp ever answered twice?
SPECIFICATION Spec
CONSTANTS
    MaxProc = 1
    Thread = {t1}
    Count = {1, 2}
    Clock = {1, 2}
    Lease = 2
    Refresh = 1
    MaxTs = 6
INVARIANTS Unique
CHECK_DEADLOCK FALSE
