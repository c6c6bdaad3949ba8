CONSTANTS
    h = h  l1 = l1  l2 = l2
    byFifo = byFifo  byPrio = byPrio
    NoSem = NoSem
    Thread <- MCThread
    Sem = {byFifo, byPrio}
    Flag <- MCFlag
    InitPrio <- MCInitPrio
    Given <- MCGiven
    InitValue <- MCInitValue
    Resettable = {byPrio}
    Deletable = {byPrio}
    MaxValue = 1
SPECIFICATION Spec
INVARIANTS
    NoTokenWhileWaiting
    WaitersAreSuspended
PROPERTIES
    
    CountsTokens
CHECK_DEADLOCK FALSE
