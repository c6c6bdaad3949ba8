------------------------------ MODULE DataQueue ------------------------------
(***************************************************************************)
(* The data queues of the device framework: rt_data_queue_push and         *)
(* rt_data_queue_pop with their retry loops, pushes by interrupt           *)
(* handlers, and rt_data_queue_reset in its steps.  A pop wakes a pusher   *)
(* only when no more than the low-water mark is left, so pushers may sleep *)
(* next to free places.                                                    *)
(***************************************************************************)
EXTENDS Waiters

CONSTANTS
    DqSize,         \* queue->size
    LowMark,        \* queue->lwm
    IndexRange,     \* 2^16, the values of put_index and get_index
    MaxIndex        \* bound on put_index

ASSUME DataQueueAssumption ==
    /\ DqSize \in Nat \ {0}
    /\ LowMark \in 0..(DqSize - 1)
    /\ IndexRange \in Nat \ {0}
    /\ MaxIndex \in Nat
    /\ {"poppers", "pushers"} \subseteq List
    /\ NoCall \notin [op : {"push", "pop"}, arg : Message \cup {"EOK"}]

VARIABLES
    items,          \* queue->queue
    putIndex,       \* queue->put_index
    getIndex,       \* queue->get_index
    dqResult,       \* what the last call of a thread gave it: an item,
                    \* "EOK", or "failed" for the error codes
    resetting       \* where rt_data_queue_reset is: it looks at a list, or is
                    \* about to take its first thread

dqVars == <<items, putIndex, getIndex, dqResult, resetting>>

NoReset == [at |-> "no", of |-> "poppers"]

Pushing(m) == [op |-> "push", arg |-> m]
Popping == [op |-> "pop", arg |-> "EOK"]

\* rt_data_queue_init
DqInit ==
    /\ items = [i \in 0..(DqSize - 1) |-> NoMessage]
    /\ putIndex = 0
    /\ getIndex = 0
    /\ dqResult = [t \in Thread |-> "EOK"]
    /\ resetting = NoReset

\* The threads execute: rt_data_queue_reset locks the scheduler.
Unlocked == resetting = NoReset

\* put_index - get_index, computed in int.
Fill == putIndex - getIndex

DqWaits(t) == dqResult' = [dqResult EXCEPT ![t] = "EOK"]

DqReturns(t, r) ==
    /\ Leaves(t)
    /\ dqResult' = [dqResult EXCEPT ![t] = r]

\* An item enters the queue, and the first popper is woken.
PutItem(m, running) ==
    /\ Fill # DqSize
    /\ putIndex < MaxIndex
    /\ items' = [items EXCEPT ![putIndex % DqSize] = m]
    /\ putIndex' = (putIndex + 1) % IndexRange
    /\ ResumeFirst("poppers", running)
    /\ UNCHANGED <<getIndex, resetting>>

\* The queue is full: rt_data_queue_push returns, or t waits, first come first
\* served.
NoRoom(t, m, left) ==
    /\ Fill = DqSize
    /\ IF ~ left
         THEN /\ state' = [state EXCEPT ![t] = "run"]
              /\ DqReturns(t, "failed")
              /\ UNCHANGED waiting
         ELSE SuspendLast("pushers", t, Pushing(m)) /\ DqWaits(t)
    /\ UNCHANGED <<items, putIndex, getIndex, resetting>>

\* rt_data_queue_push
DqPush(t, m, left) ==
    /\ Idle(t)
    /\ \/ PutItem(m, {t}) /\ DqReturns(t, "EOK")
       \/ NoRoom(t, m, left)

\* rt_data_queue_push after rt_schedule, woken by a pop: the place may be taken
\* again, and t waits for the whole time-out once more.
DqPushAgain(t) ==
    /\ state[t] = "woken"
    /\ \E m \in Message :
         /\ call[t] = Pushing(m)
         /\ \/ PutItem(m, {t}) /\ DqReturns(t, "EOK")
            \/ NoRoom(t, m, TRUE)

\* rt_data_queue_push by an interrupt handler, without time to wait.
DqPushIsr(m) ==
    /\ PutItem(m, {})
    /\ UNCHANGED <<call, dqResult>>

\* Fault: pushers are woken only when the low-water mark is reached exactly.
GetItemAtMark(t) ==
    /\ Fill # 0
    /\ DqReturns(t, items[getIndex % DqSize])
    /\ getIndex' = (getIndex + 1) % IndexRange
    /\ IF putIndex - getIndex' = LowMark
         THEN ResumeFirst("pushers", {t})
         ELSE state' = [state EXCEPT ![t] = "run"] /\ UNCHANGED waiting
    /\ UNCHANGED <<items, putIndex, resetting>>

\* An item leaves the queue, and the first pusher is woken if no more items than
\* the low-water mark are left.
GetItem(t) ==
    /\ Fill # 0
    /\ DqReturns(t, items[getIndex % DqSize])
    /\ getIndex' = (getIndex + 1) % IndexRange
    /\ IF putIndex - getIndex' <= LowMark
         THEN ResumeFirst("pushers", {t})
         ELSE state' = [state EXCEPT ![t] = "run"] /\ UNCHANGED waiting
    /\ UNCHANGED <<items, putIndex, resetting>>

\* The queue is empty: rt_data_queue_pop returns, or t waits.
NoItem(t, left) ==
    /\ Fill = 0
    /\ IF ~ left
         THEN /\ state' = [state EXCEPT ![t] = "run"]
              /\ DqReturns(t, "failed")
              /\ UNCHANGED waiting
         ELSE SuspendLast("poppers", t, Popping) /\ DqWaits(t)
    /\ UNCHANGED <<items, putIndex, getIndex, resetting>>

\* rt_data_queue_pop
DqPop(t, left) ==
    /\ Idle(t)
    /\ GetItem(t) \/ NoItem(t, left)

\* Fault: if for while, a woken thread does not look again.
DqPopAgainOnce(t) ==
    /\ state[t] = "woken"
    /\ call[t] = Popping
    /\ DqReturns(t, items[getIndex % DqSize])
    /\ getIndex' = (getIndex + 1) % IndexRange
    /\ IF putIndex - getIndex' <= LowMark
         THEN ResumeFirst("pushers", {t})
         ELSE state' = [state EXCEPT ![t] = "run"] /\ UNCHANGED waiting
    /\ UNCHANGED <<items, putIndex, resetting>>

\* rt_data_queue_pop after rt_schedule, woken by a push: the item may be gone,
\* and t waits for the whole time-out once more.
DqPopAgain(t) ==
    /\ state[t] = "woken"
    /\ call[t] = Popping
    /\ GetItem(t) \/ NoItem(t, TRUE)

\* The wait of t failed.
DqFails(t) ==
    /\ WaitFails(t)
    /\ dqResult' = [dqResult EXCEPT ![t] = "failed"]
    /\ UNCHANGED <<items, putIndex, getIndex, resetting>>

\* rt_data_queue_reset locks the scheduler, leaves the items where they are and
\* wakes the threads one by one, poppers first.  It tests a list with interrupts
\* enabled ...
DqResetBegin ==
    /\ resetting = NoReset
    /\ resetting' = [at |-> "look", of |-> "poppers"]
    /\ UNCHANGED <<waitVars, items, putIndex, getIndex, dqResult>>

DqResetLook ==
    LET l == resetting.of
    IN  /\ resetting.at = "look"
        /\ \/ waiting[l] # <<>> /\ resetting' = [resetting EXCEPT !.at = "take"]
           \/ /\ waiting[l] = <<>> /\ l = "poppers"
              /\ resetting' = [resetting EXCEPT !.of = "pushers"]
           \/ waiting[l] = <<>> /\ l = "pushers" /\ resetting' = NoReset
        /\ UNCHANGED <<waitVars, items, putIndex, getIndex, dqResult>>

\* ... and takes the first thread without testing again.  If its timer took it
\* off the list in between, there is none; the model stops there.
DqResetTake ==
    LET l == resetting.of
    IN  /\ resetting.at = "take"
        /\ waiting[l] # <<>>
        /\ waiting' = [waiting EXCEPT ![l] = Tail(@)]
        /\ state' = [state EXCEPT ![Head(waiting[l])] = "failed"]
        /\ resetting' = [resetting EXCEPT !.at = "look"]
        /\ UNCHANGED <<call, items, putIndex, getIndex, dqResult>>

DqNext ==
    \/ \E t \in Thread :
         /\ Unlocked
         /\ \/ \E left \in BOOLEAN : DqPop(t, left)
            \/ \E m \in Message, left \in BOOLEAN : DqPush(t, m, left)
            \/ DqPopAgain(t) \/ DqPushAgain(t) \/ DqFails(t)
    \/ \E t \in Thread : Timeout(t) /\ UNCHANGED dqVars
    \/ \E m \in Message : DqPushIsr(m)
    \/ DqResetBegin \/ DqResetLook \/ DqResetTake

DqSpec == WaitersInit /\ DqInit /\ [][DqNext]_<<waitVars, dqVars>>

-----------------------------------------------------------------------------
(* Properties *)

\* A popper sleeps next to an item only if somebody is awake for each item.  A
\* pusher may sleep next to free places, but only while enough items are there,
\* or will be pushed by woken threads, for a later pop to reach the mark.
DataQueueWakes ==
    /\ waiting["poppers"] # <<>> => Fill <= Cardinality(Woken("pop"))
    /\ waiting["pushers"] # <<>> => Fill + Cardinality(Woken("push")) > LowMark

\* The items, from the oldest one, and the calls as those of a channel.
Items == [i \in 1..Fill |-> items[(getIndex + i - 1) % DqSize]]
DataCall ==
    [t \in Thread |->
       IF call[t] = NoCall THEN NoCall
       ELSE IF call[t].op = "push" THEN [op |-> "send", arg |-> call[t].arg]
       ELSE IF call[t].op = "pop" THEN [op |-> "receive", arg |-> "EOK"]
       ELSE NoCall]
DataChannel == INSTANCE Channel WITH
    queue <- Items, call <- DataCall, result <- dqResult, Capacity <- DqSize

\* The queue is a channel: items are popped in the order they were pushed, by
\* one thread each, and no more are in it than it has places.
DataQueueIsChannel == DataChannel!Spec
=============================================================================
