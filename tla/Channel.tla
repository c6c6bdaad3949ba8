------------------------------- MODULE Channel -------------------------------
(***************************************************************************)
(* What mailboxes and message queues promise: messages are received in the *)
(* order they were sent, urgent ones first, each by one receiver.  A call  *)
(* that returns an error neither sends nor receives, a call that succeeds  *)
(* does so once, at one moment between its beginning and its end.          *)
(***************************************************************************)
EXTENDS Integers, Sequences

CONSTANTS Thread, Message, Capacity, NoCall

VARIABLES
    queue,      \* the messages sent and not received
    call,       \* the call a thread is inside of that has not taken effect
    result      \* what the last call of a thread gave it: a message,
                \* "EOK" or "failed"

channelVars == <<queue, call, result>>

Init ==
    /\ queue = <<>>
    /\ call = [t \in Thread |-> NoCall]
    /\ result = [t \in Thread |-> "EOK"]

Returns(t, r) ==
    /\ call' = [call EXCEPT ![t] = NoCall]
    /\ result' = [result EXCEPT ![t] = r]

Calls == [op : {"send", "urgent"}, arg : Message] \cup [op : {"receive"}, arg : {"EOK"}]

\* A call begins.
Begin(t) ==
    /\ UNCHANGED queue
    /\ call[t] = NoCall
    /\ result' = [result EXCEPT ![t] = "EOK"]
    /\ call'[t] \in Calls
    /\ call' = [call EXCEPT ![t] = call'[t]]

\* Thread t is inside the call, or does all of it in this step.
In(t, op, arg) == call[t] \in {NoCall, [op |-> op, arg |-> arg]}

Send(t, m) ==
    /\ queue' = Append(queue, m)
    /\ Len(queue) < Capacity
    /\ In(t, "send", m)
    /\ Returns(t, "EOK")

Urgent(t, m) ==
    /\ queue' = <<m>> \o queue
    /\ Len(queue) < Capacity
    /\ In(t, "urgent", m)
    /\ Returns(t, "EOK")

Receive(t) ==
    /\ queue # <<>>
    /\ queue' = Tail(queue)
    /\ In(t, "receive", "EOK")
    /\ Returns(t, Head(queue))

\* A call returns an error.
Fail(t) ==
    /\ UNCHANGED queue
    /\ Returns(t, "failed")

\* An interrupt handler sends.
SendIsr(m) ==
    /\ queue' = Append(queue, m)
    /\ Len(queue) < Capacity
    /\ UNCHANGED <<call, result>>

\* The messages are thrown away.
Reset ==
    /\ queue' = <<>>
    /\ UNCHANGED <<call, result>>

Next ==
    \/ \E t \in Thread :
         \/ Begin(t) \/ Receive(t) \/ Fail(t)
         \/ \E m \in Message : Send(t, m) \/ Urgent(t, m)
    \/ \E m \in Message : SendIsr(m)
    \/ Reset

Spec == Init /\ [][Next]_channelVars
=============================================================================
