--------------------------- MODULE ProducerConsumer ---------------------------
(***************************************************************************)
(* Demo 04, thread synchronisation with semaphores: a producer and a       *)
(* consumer share an array through the semaphores empty, full and lock.    *)
(* The semaphores are those of module Semaphore, taken with                *)
(* RT_WAITING_FOREVER; each thread is a program counter over its calls and *)
(* its accesses to the shared variables.                                   *)
(***************************************************************************)
EXTENDS Semaphore

CONSTANTS
    producer, consumer,
    empty, full, lock,      \* the semaphores
    MAXSEM,                 \* places of the array
    Numbers                 \* numbers the producer generates (10)

ASSUME DemoAssumption ==
    /\ Thread = {producer, consumer} /\ producer # consumer
    /\ Sem = {empty, full, lock} /\ empty # full /\ empty # lock /\ full # lock
    /\ MAXSEM \in Nat \ {0} /\ Numbers \in Nat \ {0}
    /\ InitValue[empty] = MAXSEM /\ InitValue[full] = 0 /\ InitValue[lock] = 1

VARIABLES
    at,         \* what each thread does next
    cnt,        \* numbers generated so far
    array,
    set, get,   \* the producer's and the consumer's position in the array
    sum

demoVars == <<at, cnt, array, set, get, sum>>
allVars == <<vars, demoVars>>

At == {"takeFirst", "takeLock", "access", "advance", "releaseLock",
       "releaseLast", "next", "sleep", "done"}

\* rt_sem_create of the three semaphores, and the start of both threads.
DemoInit ==
    /\ Init
    /\ at = [t \in Thread |-> "takeFirst"]
    /\ cnt = 0
    /\ array = [i \in 0..(MAXSEM - 1) |-> 0]
    /\ set = 0 /\ get = 0
    /\ sum = 0

Move(t, from, to) == at[t] = from /\ at' = [at EXCEPT ![t] = to]

\* rt_sem_take(s, RT_WAITING_FOREVER): the result is not looked at.
TakeForever(t, s, from, to) ==
    /\ at[t] = from
    /\ \/ TakeNow(t, s) /\ at' = [at EXCEPT ![t] = to]
       \/ TakeWaits(t, s, FALSE) /\ UNCHANGED at
       \/ sem[t] = s /\ TakeReturns(t) /\ at' = [at EXCEPT ![t] = to]
    /\ UNCHANGED <<cnt, array, set, get, sum>>

ReleaseAt(t, s, from, to) ==
    /\ Move(t, from, to)
    /\ Release(s)
    /\ UNCHANGED <<cnt, array, set, get, sum>>

\* rt_thread_mdelay: the wake-up, whenever it comes.
Wakes(t) ==
    /\ Move(t, "sleep", "takeFirst")
    /\ UNCHANGED <<vars, cnt, array, set, get, sum>>

\* array[set % MAXSEM] = cnt + 1
Store ==
    /\ Move(producer, "access", "advance")
    /\ array' = [array EXCEPT ![set % MAXSEM] = cnt + 1]
    /\ UNCHANGED <<vars, cnt, set, get, sum>>

\* set++
AdvanceSet ==
    /\ Move(producer, "advance", "releaseLock")
    /\ set' = set + 1
    /\ UNCHANGED <<vars, cnt, array, get, sum>>

\* cnt++, and the sleep before the loop condition is tested again
NextNumber ==
    /\ Move(producer, "next", IF cnt + 1 < Numbers THEN "sleep" ELSE "done")
    /\ cnt' = cnt + 1
    /\ UNCHANGED <<vars, array, set, get, sum>>

\* Fault: the full place is published before the number is stored.
ProducerStepEarly ==
    \/ TakeForever(producer, empty, "takeFirst", "releaseLast")
    \/ ReleaseAt(producer, full, "releaseLast", "takeLock")
    \/ TakeForever(producer, lock, "takeLock", "access")
    \/ Store \/ AdvanceSet
    \/ ReleaseAt(producer, lock, "releaseLock", "next")
    \/ NextNumber
    \/ Wakes(producer)

\* producer_thread_entry
ProducerStep ==
    \/ TakeForever(producer, empty, "takeFirst", "takeLock")
    \/ TakeForever(producer, lock, "takeLock", "access")
    \/ Store \/ AdvanceSet
    \/ ReleaseAt(producer, lock, "releaseLock", "releaseLast")
    \/ ReleaseAt(producer, full, "releaseLast", "next")
    \/ NextNumber
    \/ Wakes(producer)

\* sum += array[get % MAXSEM]
Load ==
    /\ Move(consumer, "access", "advance")
    /\ sum' = sum + array[get % MAXSEM]
    /\ UNCHANGED <<vars, cnt, array, set, get>>

\* get++
AdvanceGet ==
    /\ Move(consumer, "advance", "releaseLock")
    /\ get' = get + 1
    /\ UNCHANGED <<vars, cnt, array, set, sum>>

\* Fault: the consumer stops one number early.
TestGetEarly ==
    /\ Move(consumer, "next", IF get = Numbers - 1 THEN "done" ELSE "sleep")
    /\ UNCHANGED <<vars, cnt, array, set, get, sum>>

\* The test of get against 10.
TestGet ==
    /\ Move(consumer, "next", IF get = Numbers THEN "done" ELSE "sleep")
    /\ UNCHANGED <<vars, cnt, array, set, get, sum>>

\* consumer_thread_entry
ConsumerStep ==
    \/ TakeForever(consumer, full, "takeFirst", "takeLock")
    \/ TakeForever(consumer, lock, "takeLock", "access")
    \/ Load \/ AdvanceGet
    \/ ReleaseAt(consumer, lock, "releaseLock", "releaseLast")
    \/ ReleaseAt(consumer, empty, "releaseLast", "next")
    \/ TestGet
    \/ Wakes(consumer)

\* Both threads have returned.
Finished == \A t \in Thread : at[t] = "done"

DemoNext ==
    \/ ProducerStep
    \/ ConsumerStep
    \/ Finished /\ UNCHANGED allVars

\* Each thread gets the processor again and again: the other one sleeps after
\* every number, whatever its priority.
DemoSpec ==
    /\ DemoInit /\ [][DemoNext]_allVars
    /\ WF_allVars(ProducerStep) /\ WF_allVars(ConsumerStep)

-----------------------------------------------------------------------------
(* Properties *)

\* The demo is a bounded buffer; a number is in it from set++ to get++.
Buffer == INSTANCE BoundedBuffer WITH
    Capacity <- MAXSEM,
    buffer <- [i \in 1..(set - get) |-> array[(get + i - 1) % MAXSEM]],
    produced <- set,
    sum <- IF at[consumer] = "advance" THEN sum - array[get % MAXSEM] ELSE sum

ImplementsBuffer == Buffer!Spec

\* Both threads come to their end, and the consumer has then added up every
\* number ("the consumer sum is: 55").
ProducesSum ==
    <>(Finished /\ sum = (Numbers * (Numbers + 1)) \div 2)
=============================================================================
