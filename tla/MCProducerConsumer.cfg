CONSTANTS
    producer = producer  consumer = consumer
    empty = empty  full = full  lock = lock
    NoSem = NoSem
    Thread <- MCThread
    Sem <- MCSem
    Flag <- MCFlag
    InitPrio <- MCInitPrio
    Given <- MCGiven
    InitValue <- MCInitValue
    Resettable = {}
    Deletable = {}
    MaxValue = 6
    MAXSEM = 5
    Numbers = 10
SPECIFICATION DemoSpec
PROPERTIES
    ImplementsBuffer
    ProducesSum
