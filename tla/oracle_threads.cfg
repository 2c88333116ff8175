\* One process: two RPC threads, the lease thread and the main thread.
SPECIFICATION Spec
CONSTANTS
    MaxProc = 1
    Thread = {t1, t2}
    Count = {0, 1, 2}
    Clock = {1, 3}
    Lease = 2
    Refresh = 1
    MaxTs = 4
INVARIANTS TypeOK GrantsLeased
CHECK_DEADLOCK FALSE
