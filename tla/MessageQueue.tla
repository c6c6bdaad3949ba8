---------------------------- MODULE MessageQueue ----------------------------
(***************************************************************************)
(* RT-Thread message queues: rt_mq_send, rt_mq_urgent, rt_mq_recv and      *)
(* rt_mq_control.  A message is copied into its slot after the slot was    *)
(* taken off the free list and before it is linked to the queue, and out   *)
(* of it between unlinking and freeing, with interrupts enabled: a copy is *)
(* part of the action that takes the slot, or of the one that frees it.    *)
(***************************************************************************)
EXTENDS Waiters

CONSTANTS
    Slot,           \* the messages of mq->msg_pool
    NoSlot

ASSUME MessageQueueAssumption ==
    /\ IsFiniteSet(Slot)
    /\ NoSlot \notin Slot
    /\ "mq_receivers" \in List
    /\ NoCall \notin [op : {"mq_send", "mq_urgent", "mq_receive"}, arg : Message \cup {"EOK"}]

VARIABLES
    mqFree,         \* mq->msg_queue_free
    mqQueue,        \* from mq->msg_queue_head to mq->msg_queue_tail
    mqEntry,        \* mq->entry
    data,           \* the contents of the slots
    slot,           \* the slot a thread copies into or out of
    buffer          \* what the last call of a thread gave it: a message,
                    \* "EOK", or "failed" for the error codes

mqVars == <<mqFree, mqQueue, mqEntry, data, slot, buffer>>

MqSending(op, m) == [op |-> op, arg |-> m]
MqReceiving == [op |-> "mq_receive", arg |-> "EOK"]

\* rt_mq_init, with the slots linked in some order
MqInit ==
    /\ mqFree \in {s \in [1..Cardinality(Slot) -> Slot] : Elements(s) = Slot}
    /\ mqQueue = <<>>
    /\ mqEntry = 0
    /\ data = [s \in Slot |-> NoMessage]
    /\ slot = [t \in Thread |-> NoSlot]
    /\ buffer = [t \in Thread |-> "EOK"]

MqReturns(t, r) ==
    /\ Leaves(t)
    /\ buffer' = [buffer EXCEPT ![t] = r]

\* rt_mq_send and rt_mq_urgent take a slot off the free list and fill it.
MqClaim(t, op, m) ==
    /\ Idle(t)
    /\ mqFree # <<>>
    /\ mqFree' = Tail(mqFree)
    /\ slot' = [slot EXCEPT ![t] = Head(mqFree)]
    /\ data' = [data EXCEPT ![Head(mqFree)] = m]
    /\ call' = [call EXCEPT ![t] = MqSending(op, m)]
    /\ buffer' = [buffer EXCEPT ![t] = "EOK"]
    /\ UNCHANGED <<waiting, state, mqQueue, mqEntry>>

\* rt_mq_send and rt_mq_urgent when there is no slot.
MqFull(t) ==
    /\ Idle(t)
    /\ mqFree = <<>>
    /\ MqReturns(t, "failed")
    /\ UNCHANGED <<waiting, state, mqFree, mqQueue, mqEntry, data, slot>>

\* Fault: a receiver is woken only if the queue was empty.
MqLinkWakesIfEmpty(t) ==
    /\ state[t] = "run" /\ slot[t] # NoSlot
    /\ \E m \in Message :
         \/ call[t] = MqSending("mq_send", m) /\ mqQueue' = Append(mqQueue, slot[t])
         \/ call[t] = MqSending("mq_urgent", m) /\ mqQueue' = <<slot[t]>> \o mqQueue
    /\ mqEntry' = mqEntry + 1
    /\ slot' = [slot EXCEPT ![t] = NoSlot]
    /\ MqReturns(t, "EOK")
    /\ IF mqEntry = 0 THEN ResumeFirst("mq_receivers", {t}) ELSE UNCHANGED <<waiting, state>>
    /\ UNCHANGED <<mqFree, data>>

\* The filled slot is linked at the end of the queue, or at its head if the
\* message is urgent, and the first receiver is woken.
MqLink(t) ==
    /\ state[t] = "run" /\ slot[t] # NoSlot
    /\ \E m \in Message :
         \/ call[t] = MqSending("mq_send", m) /\ mqQueue' = Append(mqQueue, slot[t])
         \/ call[t] = MqSending("mq_urgent", m) /\ mqQueue' = <<slot[t]>> \o mqQueue
    /\ mqEntry' = mqEntry + 1
    /\ slot' = [slot EXCEPT ![t] = NoSlot]
    /\ MqReturns(t, "EOK")
    /\ ResumeFirst("mq_receivers", {t})
    /\ UNCHANGED <<mqFree, data>>

\* rt_mq_send by an interrupt handler; threads see it as one step.
MqSendIsr(m) ==
    /\ mqFree # <<>>
    /\ mqFree' = Tail(mqFree)
    /\ data' = [data EXCEPT ![Head(mqFree)] = m]
    /\ mqQueue' = Append(mqQueue, Head(mqFree))
    /\ mqEntry' = mqEntry + 1
    /\ ResumeFirst("mq_receivers", {})
    /\ UNCHANGED <<call, slot, buffer>>

\* Fault: the slot is free before its message is copied out.
MqUnlinkFreeing(t) ==
    /\ mqEntry > 0
    /\ mqQueue' = Tail(mqQueue)
    /\ mqEntry' = mqEntry - 1
    /\ mqFree' = Append(mqFree, Head(mqQueue))
    /\ slot' = [slot EXCEPT ![t] = Head(mqQueue)]
    /\ state' = [state EXCEPT ![t] = "run"]
    /\ call' = [call EXCEPT ![t] = MqReceiving]
    /\ buffer' = [buffer EXCEPT ![t] = "EOK"]
    /\ UNCHANGED <<waiting, data>>

\* The first slot is unlinked by t.
MqUnlink(t) ==
    /\ mqEntry > 0
    /\ mqQueue' = Tail(mqQueue)
    /\ mqEntry' = mqEntry - 1
    /\ slot' = [slot EXCEPT ![t] = Head(mqQueue)]
    /\ state' = [state EXCEPT ![t] = "run"]
    /\ call' = [call EXCEPT ![t] = MqReceiving]
    /\ buffer' = [buffer EXCEPT ![t] = "EOK"]
    /\ UNCHANGED <<waiting, mqFree, data>>

\* The queue is empty: rt_mq_recv returns, or t waits for a message.
MqEmpty(t, left) ==
    /\ mqEntry = 0
    /\ IF ~ left
         THEN /\ state' = [state EXCEPT ![t] = "run"]
              /\ MqReturns(t, "failed")
              /\ UNCHANGED waiting
         ELSE /\ SuspendOn("mq_receivers", t, MqReceiving)
              /\ buffer' = [buffer EXCEPT ![t] = "EOK"]
    /\ UNCHANGED <<mqFree, mqQueue, mqEntry, data, slot>>

\* rt_mq_recv
MqRecv(t, left) ==
    /\ Idle(t)
    /\ MqUnlink(t) \/ MqEmpty(t, left)

\* rt_mq_recv after rt_schedule, woken by a sender: the message may be gone.
MqRecvAgain(t) ==
    /\ state[t] = "woken"
    /\ MqUnlink(t) \/ \E left \in BOOLEAN : MqEmpty(t, left)

\* The end of rt_mq_recv: the message is copied out, and its slot is free.
MqFreeSlot(t) ==
    /\ state[t] = "run" /\ slot[t] # NoSlot /\ call[t] = MqReceiving
    /\ MqReturns(t, data[slot[t]])
    /\ mqFree' = <<slot[t]>> \o mqFree
    /\ slot' = [slot EXCEPT ![t] = NoSlot]
    /\ UNCHANGED <<waiting, state, mqQueue, mqEntry, data>>

\* The wait of t for a message failed.
MqFails(t) ==
    /\ WaitFails(t)
    /\ buffer' = [buffer EXCEPT ![t] = "failed"]
    /\ UNCHANGED <<mqFree, mqQueue, mqEntry, data, slot>>

\* Fault: the slots that are being copied are linked to the free list too.
MqResetAll ==
    /\ ResumeAll({"mq_receivers"})
    /\ mqQueue' = <<>>
    /\ mqFree' \in {s \in [1..Cardinality(Slot) -> Slot] : Elements(s) = Slot}
    /\ mqEntry' = 0
    /\ UNCHANGED <<data, slot, buffer>>

\* rt_mq_control with RT_IPC_CMD_RESET: the queue's slots are pushed on the free
\* list, first to last.
MqReset ==
    LET n == Len(mqQueue)
    IN  /\ ResumeAll({"mq_receivers"})
        /\ mqQueue' = <<>>
        /\ mqFree' = [i \in 1..n |-> mqQueue[n + 1 - i]] \o mqFree
        /\ mqEntry' = 0
        /\ UNCHANGED <<data, slot, buffer>>

MqNext ==
    \/ \E t \in Thread :
         \/ \E op \in {"mq_send", "mq_urgent"}, m \in Message : MqClaim(t, op, m)
         \/ \E left \in BOOLEAN : MqRecv(t, left)
         \/ MqFull(t) \/ MqLink(t) \/ MqRecvAgain(t) \/ MqFreeSlot(t) \/ MqFails(t)
         \/ Timeout(t) /\ UNCHANGED mqVars
    \/ \E m \in Message : MqSendIsr(m)
    \/ MqReset

MqSpec == WaitersInit /\ MqInit /\ [][MqNext]_<<waitVars, mqVars>>

-----------------------------------------------------------------------------
(* Properties *)

\* A slot is free, in the queue, or in the hands of one thread that copies, in
\* one of these places and once there; also when the queue is reset while
\* threads copy.  entry counts the queue.
SlotsConserved ==
    LET held == {slot[t] : t \in Thread} \ {NoSlot}
    IN  /\ mqEntry = Len(mqQueue)
        /\ Len(mqFree) + Len(mqQueue) + Cardinality({t \in Thread : slot[t] # NoSlot})
              = Cardinality(Slot)
        /\ Elements(mqFree) \cup Elements(mqQueue) \cup held = Slot

\* A receiver sleeps next to a message only if another one is awake for it.
QueueWakes ==
    waiting["mq_receivers"] # <<>> => mqEntry <= Cardinality(Woken("mq_receive"))

\* The messages in the queue, and the calls and results as those of a channel.
Queued == [i \in 1..Len(mqQueue) |-> data[mqQueue[i]]]
CopyingOut(t) == call[t] = MqReceiving /\ slot[t] # NoSlot
QueueOp == [mq_send |-> "send", mq_urgent |-> "urgent", mq_receive |-> "receive"]
QueueCall ==
    [t \in Thread |->
       IF call[t] # NoCall /\ call[t].op \in DOMAIN QueueOp /\ ~ CopyingOut(t)
         THEN [op |-> QueueOp[call[t].op], arg |-> call[t].arg] ELSE NoCall]
QueueResult ==
    [t \in Thread |-> IF CopyingOut(t) THEN data[slot[t]] ELSE buffer[t]]
QueueChannel == INSTANCE Channel WITH
    queue <- Queued, call <- QueueCall, result <- QueueResult, Capacity <- Cardinality(Slot)

\* The queue is a channel, although a message is written and read outside the
\* protected sections: a message enters when it is linked and leaves when it is
\* unlinked, and the receiver still finds it in the slot when it copies it out.
MessageQueueIsChannel == QueueChannel!Spec
=============================================================================
