CONSTANTS
    once = once  often = often  third = third  worker = worker
    NoTimer = NoTimer
    Timer = {once, often, third}
    TickMax = 11
    InitTick <- MCInitTick
    Periodic = {often}
    Thread = {worker}
    Managed <- MCManaged
    Starts <- MCSelfStart
    Stops <- MCStops
    MaxLate = 1
SPECIFICATION Spec
INVARIANT
    ActiveIffLinked
