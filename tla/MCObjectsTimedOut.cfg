CONSTANTS
    h = h  l1 = l1  l2 = l2
    b1 = b1  b2 = b2
    Objects = {"pool"}
    NoCall = NoCall
    Thread <- MCThread
    Prio <- MCPrio
    Flag = "PRIO"
    List = {"mb_receivers", "mb_senders", "mq_receivers", "event", "pool", "poppers", "pushers", "completion"}
    Message = {m1, m2}
    Size = 2
    Slot = {s1, s2}
    NoSlot = NoSlot
    NoMessage = NoMessage
    Bit = {b1, b2}
    Want <- MCWant
    Block = {k1, k2}
    MaxCount = 4
    DqSize = 3
    LowMark = 1
    IndexRange = 65536
    MaxIndex = 4
    Awaiting = {l1}
SPECIFICATION Spec
INVARIANT CountIsPended
CHECK_DEADLOCK FALSE
