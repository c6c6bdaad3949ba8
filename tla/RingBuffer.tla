----------------------------- MODULE RingBuffer -----------------------------
(***************************************************************************)
(* The ring buffers of the device framework, with their mirror bits, used  *)
(* by one thread and by an interrupt handler that puts single characters,  *)
(* as drivers receive them.  The mirror bit and the index of the reader    *)
(* are two stores: a handler may come in between.                          *)
(***************************************************************************)
EXTENDS Integers, Sequences

CONSTANTS
    Chunk,          \* the blocks that callers put
    NoByte,         \* the unknown contents of memory that was never written
    RbSize,         \* rb->buffer_size, RT_ALIGN_DOWN(size, RT_ALIGN_SIZE)
    Burst,          \* the characters a handler may put between the two stores
    Overrun         \* rt_ringbuffer_put_force may drop old bytes in the call in
                    \* which it runs over the end of the buffer

ASSUME RingBufferAssumption ==
    /\ \A d \in Chunk : d # <<>> /\ d \in Seq({d[i] : i \in DOMAIN d})
    /\ RbSize \in Nat \ {0}
    /\ Burst \in Nat
    /\ Overrun \in BOOLEAN

VARIABLES
    bytes,          \* what buffer_ptr points to
    readMirror,     \* rb->read_mirror
    readIndex,      \* rb->read_index
    writeMirror,    \* rb->write_mirror
    writeIndex,     \* rb->write_index
    nextRead,       \* the read_index that the reader is about to store, or -1
    burst,          \* the characters put since the reader flipped its mirror
    rbResult        \* what the last call of the thread returned

rbVars == <<bytes, readMirror, readIndex, writeMirror, writeIndex, nextRead, burst, rbResult>>

\* rt_ringbuffer_init, and rt_ringbuffer_create
RbInit ==
    /\ bytes = [i \in 0..(RbSize - 1) |-> NoByte]
    /\ readMirror = 0 /\ readIndex = 0
    /\ writeMirror = 0 /\ writeIndex = 0
    /\ nextRead = -1
    /\ burst = 0
    /\ rbResult = [length |-> 0, data |-> <<>>]

RbReturns(n, d) == rbResult' = [length |-> n, data |-> d]

\* rt_ringbuffer_data_len, by rt_ringbuffer_status, for a reader at index r
DataLen(r) ==
    IF r = writeIndex THEN (IF readMirror = writeMirror THEN 0 ELSE RbSize)
    ELSE IF writeIndex > r THEN writeIndex - r
    ELSE RbSize - (r - writeIndex)

\* rt_ringbuffer_space_len
SpaceLen == RbSize - DataLen(readIndex)

\* The n bytes from index r on.
BytesFrom(r, n) == [i \in 1..n |-> bytes[(r + i - 1) % RbSize]]

\* The block d is copied in behind writeIndex.
Copy(d) ==
    bytes' = [i \in DOMAIN bytes |->
                LET k == ((i - writeIndex) % RbSize) + 1
                IN  IF k <= Len(d) THEN d[k] ELSE bytes[i]]

Crosses(index, n) == RbSize - index <= n

\* writeIndex moves on by n, into the other mirror at the end of the buffer.
AdvanceWrite(n) ==
    /\ writeIndex' = IF Crosses(writeIndex, n) THEN n - (RbSize - writeIndex) ELSE writeIndex + n
    /\ writeMirror' = IF Crosses(writeIndex, n) THEN 1 - writeMirror ELSE writeMirror

\* rt_ringbuffer_put and rt_ringbuffer_putchar up to the return: what does not
\* fit is dropped.
Take(d, n) ==
    /\ n = IF SpaceLen < Len(d) THEN SpaceLen ELSE Len(d)
    /\ IF n = 0 THEN UNCHANGED <<bytes, writeMirror, writeIndex>>
       ELSE Copy(SubSeq(d, 1, n)) /\ AdvanceWrite(n)
    /\ UNCHANGED <<readMirror, readIndex, nextRead>>

Quiet == nextRead = -1

\* rt_ringbuffer_put, rt_ringbuffer_putchar
RbPut(d) ==
    /\ Quiet
    /\ \E n \in 0..RbSize : Take(d, n) /\ RbReturns(n, <<>>)
    /\ UNCHANGED burst

\* rt_ringbuffer_putchar by an interrupt handler.
RbPutCharIsr(d) ==
    /\ Len(d) = 1
    /\ \E n \in 0..1 : Take(d, n)
    /\ IF Quiet THEN UNCHANGED burst ELSE burst < Burst /\ burst' = burst + 1
    /\ UNCHANGED rbResult

\* rt_ringbuffer_put_force; with a single byte, rt_ringbuffer_putchar_force: a
\* block that is too long is cut at its front, and if it does not fit, the
\* reader is put where the writer stops.
RbPutForce(d) ==
    LET n == IF Len(d) > RbSize THEN RbSize ELSE Len(d)
        drops == n > SpaceLen
    IN  /\ Quiet
        /\ drops /\ Crosses(writeIndex, n) /\ readMirror = writeMirror => Overrun
        /\ Copy(SubSeq(d, Len(d) - n + 1, Len(d)))
        /\ AdvanceWrite(n)
        /\ readIndex' = IF drops THEN writeIndex' ELSE readIndex
        /\ readMirror' = IF drops /\ Crosses(writeIndex, n) THEN 1 - readMirror ELSE readMirror
        /\ RbReturns(n, <<>>)
        /\ UNCHANGED <<nextRead, burst>>

\* Fault: a read that ends at the end of the buffer stays in its mirror.
RbGetStrict(n) ==
    LET k == IF DataLen(readIndex) < n THEN DataLen(readIndex) ELSE n
    IN  /\ Quiet
        /\ RbReturns(k, BytesFrom(readIndex, k))
        /\ IF RbSize - readIndex >= k
             THEN /\ readIndex' = (readIndex + k) % RbSize
                  /\ UNCHANGED <<readMirror, nextRead>>
             ELSE /\ readMirror' = 1 - readMirror
                  /\ nextRead' = k - (RbSize - readIndex)
                  /\ UNCHANGED readIndex
        /\ UNCHANGED <<bytes, writeMirror, writeIndex, burst>>

\* rt_ringbuffer_get and rt_ringbuffer_getchar up to the flip of the mirror, if
\* they get to the end of the buffer.
RbGet(n) ==
    LET k == IF DataLen(readIndex) < n THEN DataLen(readIndex) ELSE n
    IN  /\ Quiet
        /\ RbReturns(k, BytesFrom(readIndex, k))
        /\ IF ~ Crosses(readIndex, k)
             THEN /\ readIndex' = readIndex + k
                  /\ UNCHANGED <<readMirror, nextRead>>
             ELSE /\ readMirror' = 1 - readMirror
                  /\ nextRead' = k - (RbSize - readIndex)
                  /\ UNCHANGED readIndex
        /\ UNCHANGED <<bytes, writeMirror, writeIndex, burst>>

\* ... and the store of the index behind it.
RbGetEnd ==
    /\ ~ Quiet
    /\ readIndex' = nextRead
    /\ nextRead' = -1
    /\ burst' = 0
    /\ UNCHANGED <<bytes, readMirror, writeMirror, writeIndex, rbResult>>

\* rt_ringbuffer_reset
RbReset ==
    /\ Quiet
    /\ readMirror' = 0 /\ readIndex' = 0
    /\ writeMirror' = 0 /\ writeIndex' = 0
    /\ UNCHANGED <<bytes, nextRead, burst, rbResult>>

RbNext ==
    \/ \E d \in Chunk : RbPut(d) \/ RbPutForce(d) \/ RbPutCharIsr(d)
    \/ \E n \in 1..RbSize : RbGet(n)
    \/ RbGetEnd
    \/ RbReset

RbSpec == RbInit /\ [][RbNext]_rbVars

-----------------------------------------------------------------------------
(* Properties *)

\* The ring buffer is a bounded queue of bytes, through every position of the
\* indices and mirrors, and also when a handler puts a character while a get is
\* between its two stores.
RbQueue ==
    LET r == IF Quiet THEN readIndex ELSE nextRead
    IN  BytesFrom(r, DataLen(r))
RbAbstract == INSTANCE ByteQueue WITH queue <- RbQueue, result <- rbResult, Capacity <- RbSize
RingBufferIsQueue == RbAbstract!Spec
=============================================================================
