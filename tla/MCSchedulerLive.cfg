CONSTANTS
    main = main  idle = idle  a = a  b = b  c = c
    Thread <- MCThread4
    Idle = idle
    Main = main
    MaxPrio = 1
    InitPrio <- MCEqual
    Controlled = {b}
    Deletable = {}
    Blocker = {a}
    Timed = {a}
    Boostable = {}
    BoostLevels = {}
    Slice = 2
    MaxLock = 0
    MaxNest = 1
SPECIFICATION LiveSpec
PROPERTY
    RoundRobin
