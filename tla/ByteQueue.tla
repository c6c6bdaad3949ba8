------------------------------ MODULE ByteQueue ------------------------------
(***************************************************************************)
(* What a ring buffer promises: a bounded queue of bytes.  A put takes     *)
(* what fits, a forced put takes everything and drops the oldest bytes, a  *)
(* get returns the oldest.                                                 *)
(***************************************************************************)
EXTENDS Integers, Sequences

CONSTANTS
    Chunk,      \* the blocks that callers put
    Capacity

VARIABLES
    queue,      \* the bytes put and not got
    result      \* what the last call returned: a length, and what it read

byteQueueVars == <<queue, result>>

Returned(n, d) == [length |-> n, data |-> d]
Smaller(a, b) == IF a < b THEN a ELSE b
LastOf(s, n) == SubSeq(s, Len(s) + 1 - Smaller(n, Len(s)), Len(s))

Init == queue = <<>> /\ result = Returned(0, <<>>)

Put(d) ==
    LET n == Smaller(Len(d), Capacity - Len(queue))
    IN  queue' = queue \o SubSeq(d, 1, n) /\ result' = Returned(n, <<>>)

PutIsr(d) ==
    /\ queue' = queue \o SubSeq(d, 1, Smaller(Len(d), Capacity - Len(queue)))
    /\ UNCHANGED result

PutForce(d) ==
    /\ queue' = LastOf(queue \o d, Capacity)
    /\ result' = Returned(Smaller(Len(d), Capacity), <<>>)

Get(n) ==
    LET k == Smaller(n, Len(queue))
    IN  queue' = SubSeq(queue, k + 1, Len(queue)) /\ result' = Returned(k, SubSeq(queue, 1, k))

Reset == queue' = <<>> /\ UNCHANGED result

Next ==
    \/ \E d \in Chunk : Put(d) \/ PutIsr(d) \/ PutForce(d)
    \/ \E n \in 1..Capacity : Get(n)
    \/ Reset

Spec == Init /\ [][Next]_byteQueueVars
=============================================================================
