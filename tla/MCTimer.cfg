CONSTANTS
    once = once  often = often  third = third  worker = worker
    NoTimer = NoTimer
    Timer = {once, often, third}
    TickMax = 11
    InitTick <- MCInitTick
    Periodic = {often}
    Thread = {worker}
    Managed <- MCManaged
    Starts <- MCStarts
    Stops <- MCStops
    MaxLate = 1
SPECIFICATION Spec
INVARIANTS
    Sorted
    OnTime
    ActiveIffLinked
PROPERTIES
    Expires
