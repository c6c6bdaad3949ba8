CONSTANTS
    main = main  idle = idle  a = a  b = b  c = c
    Thread <- MCThread
    Idle = idle
    Main = main
    MaxPrio = 2
    InitPrio <- MCPriorities
    Controlled = {}
    Deletable = {c}
    Blocker = {}
    Timed = {c}
    Boostable = {}
    BoostLevels = {}
    Slice = 1
    MaxLock = 1
    MaxNest = 1
SPECIFICATION Spec
INVARIANT
    DeletedIsDequeued
