CONSTANTS
    main = main  idle = idle  a = a  b = b  c = c
    Thread <- MCThread
    Idle = idle
    Main = main
    MaxPrio = 2
    InitPrio <- MCPriorities
    Controlled = {b}
    Deletable = {c}
    Blocker = {a, c}
    Timed = {a, main}
    Boostable = {b}
    BoostLevels = {0, 1}
    Slice = 1
    MaxLock = 1
    MaxNest = 2
SPECIFICATION Spec
INVARIANTS
    ReadyBitmap
    OneList
    ListsMatchStat
    HighestRuns
    SavesTheRunner
    TimeoutAssertion
    NoUseAfterFree
PROPERTIES
    LockPinsCpu
