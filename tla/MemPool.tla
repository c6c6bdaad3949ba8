------------------------------- MODULE MemPool -------------------------------
(***************************************************************************)
(* RT-Thread memory pools: rt_mp_alloc with its retry loop, rt_mp_free,    *)
(* and the waits that time out.                                            *)
(***************************************************************************)
EXTENDS Waiters

CONSTANTS
    Block,          \* the blocks of the pool
    MaxCount        \* bound on mp->suspend_thread_count

ASSUME MemPoolAssumption ==
    /\ IsFiniteSet(Block)
    /\ MaxCount \in Nat
    /\ "pool" \in List

VARIABLES
    free,           \* mp->block_list
    freeCount,      \* mp->block_free_count
    used,           \* the blocks handed out
    count           \* mp->suspend_thread_count

mpVars == <<free, freeCount, used, count>>

Allocating == [op |-> "alloc", arg |-> "EOK"]

\* rt_mp_init and rt_mp_create: the blocks are linked in some order.
MpInit ==
    /\ free \in {s \in [1..Cardinality(Block) -> Block] : Elements(s) = Block}
    /\ freeCount = Cardinality(Block)
    /\ used = {}
    /\ count = 0

\* The first free block is handed out to t.
TakeBlock(t) ==
    /\ freeCount > 0
    /\ freeCount' = freeCount - 1
    /\ free' = Tail(free)
    /\ used' = used \cup {Head(free)}
    /\ state' = [state EXCEPT ![t] = "run"]
    /\ Leaves(t)
    /\ UNCHANGED <<waiting, count>>

\* No block is free: rt_mp_alloc returns RT_NULL, or suspends t at the front
\* of the list.
NoBlock(t, left) ==
    /\ freeCount = 0
    /\ IF ~ left
         THEN /\ state' = [state EXCEPT ![t] = "run"]
              /\ Leaves(t)
              /\ UNCHANGED <<waiting, count>>
         ELSE /\ count < MaxCount
              /\ count' = count + 1
              /\ waiting' = [waiting EXCEPT !["pool"] = <<t>> \o @]
              /\ state' = [state EXCEPT ![t] = "suspended"]
              /\ call' = [call EXCEPT ![t] = Allocating]
    /\ UNCHANGED <<free, freeCount, used>>

\* rt_mp_alloc, its first turn.
MpAlloc(t, left) ==
    /\ Idle(t)
    /\ TakeBlock(t) \/ NoBlock(t, left)

\* Fault: after a wake-up the block is taken without a look at the count.
MpAllocUnchecked(t) ==
    /\ state[t] = "woken"
    /\ freeCount' = freeCount - 1
    /\ free' = IF free = <<>> THEN free ELSE Tail(free)
    /\ used' = used \cup {IF free = <<>> THEN CHOOSE b \in Block : TRUE ELSE Head(free)}
    /\ state' = [state EXCEPT ![t] = "run"]
    /\ Leaves(t)
    /\ UNCHANGED <<waiting, count>>

\* rt_mp_alloc after rt_schedule, woken by rt_mp_free: the loop is entered
\* again with the time that is left, for the block may be gone.
MpAllocAgain(t) ==
    /\ state[t] = "woken"
    /\ TakeBlock(t) \/ \E left \in BOOLEAN : NoBlock(t, left)

\* Block b is linked to the free list again.
GiveBack(b) ==
    /\ b \in used
    /\ used' = used \ {b}
    /\ free' = <<b>> \o free
    /\ freeCount' = freeCount + 1

\* Fault: one waiter is woken and the others are forgotten.
MpFreeClearsCount(b) ==
    /\ GiveBack(b)
    /\ IF count > 0 /\ waiting["pool"] # <<>> THEN ResumeFirst("pool", {})
                                              ELSE UNCHANGED <<waiting, state>>
    /\ count' = 0
    /\ UNCHANGED call

\* rt_mp_free, by a thread or an interrupt handler.  With a positive count and
\* nobody on the list it would resume what precedes the list head in memory;
\* the model stops there.
MpFree(b) ==
    /\ GiveBack(b)
    /\ \/ count > 0 /\ waiting["pool"] # <<>>
          /\ ResumeFirst("pool", {}) /\ count' = count - 1
       \/ count = 0 /\ UNCHANGED <<waiting, state, count>>
    /\ UNCHANGED call

\* The thread timer knows nothing of the pool's count, and an allocation that
\* failed does not correct it.
MpNext ==
    \/ \E t \in Thread :
         \/ \E left \in BOOLEAN : MpAlloc(t, left)
         \/ MpAllocAgain(t)
         \/ (WaitFails(t) \/ Timeout(t)) /\ UNCHANGED mpVars
    \/ \E b \in Block : MpFree(b)

MpSpec == WaitersInit /\ MpInit /\ [][MpNext]_<<waitVars, mpVars>>

-----------------------------------------------------------------------------
(* Properties *)

\* Every block is either on the free list, once, or handed out, to one caller;
\* and block_free_count is the length of the free list.
BlocksConserved ==
    /\ Len(free) = freeCount
    /\ Elements(free) = Block \ used
    /\ freeCount = Cardinality(Block \ used)

\* A free block never lies idle while threads wait: as many threads as there
\* are free blocks have been woken and have not run since.  For that the count
\* by which rt_mp_free decides to wake a thread is never below their number,
\* also after time-outs, which leave it too high.
NoLostWakeup ==
    /\ waiting["pool"] # <<>> => freeCount <= Cardinality(Woken("alloc"))
    /\ count >= Len(waiting["pool"])

\* mp->suspend_thread_count is the number of threads pended on the pool
\* (rtdef.h), so that rt_mp_free resumes a thread only if there is one.
CountIsPended == count = Len(waiting["pool"])
=============================================================================
