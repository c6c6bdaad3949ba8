CONSTANTS
    hi = hi  mid = mid  lo = lo
    None = None
    Thread <- MCThread
    BasePrio <- MCPrio
    Mutex = {m1, m2}
    Flag = "PRIO"
    MaxHold = 2
    Nested = TRUE
SPECIFICATION Spec
INVARIANTS
    OwnerHolds
    PriorityRestored
CHECK_DEADLOCK FALSE
