CONSTANTS
    x = x  y = y
    w1 = w1  w2 = w2  w3 = w3
    often = often  third = third  user = user
    Services = {"ring buffer"}
    Chunk <- MCChunk
    NoByte = NoByte
    RbSize = 4
    Burst = 1
    Overrun = TRUE
    Reader = {r}
    Writer = {p1, p2}
    Closing = {r, p1, p2}
    BufSz = 2
    ReadCount = 1
    WriteCount = 3
    Work = {w1, w2, w3}
    NoWork = NoWork
    Caller = {c1, c2}
    Submits <- MCSubmits
    Below = TRUE
    Serialized = TRUE
    NoTimer = NoTimer
    Timer = {often, third}
    TickMax = 15
    InitTick <- MCInitTick
    Periodic = {often}
    Thread = {user}
    Managed <- MCManaged
    Starts <- MCStarts
    Stops <- MCStops
    MaxLate = 1
    MaxBusy = 1
    Above = {}
    HeaderSize = 3
    MinSize = 3
    MemSize = 27
    Sizes = {1, 3, 9}
SPECIFICATION MCSpec
PROPERTY RingBufferIsQueue
CHECK_DEADLOCK FALSE
