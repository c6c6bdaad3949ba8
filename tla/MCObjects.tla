------------------------------ MODULE MCObjects ------------------------------
(* Three threads on one object: a mailbox, a message queue, an event, a memory *)
(* pool, a data queue or a completion.                                       *)
EXTENDS Mailbox, MessageQueue, Event, MemPool, DataQueue, Completion, TLC

CONSTANTS h, l1, l2, b1, b2,
          Objects           \* the objects of the run

VARIABLE object

MCThread == {h, l1, l2}
MCPrio == h :> 1 @@ l1 :> 2 @@ l2 :> 2
MCWant == {[bits |-> {b1, b2}, all |-> TRUE, clear |-> TRUE],
           [bits |-> {b1, b2}, all |-> FALSE, clear |-> TRUE],
           [bits |-> {b1}, all |-> FALSE, clear |-> FALSE]}

allVars == <<waitVars, mbVars, mqVars, evVars, mpVars, dqVars, completed, object>>

\* The order of the slots and blocks matters to nobody else.
AnyOrder(s) == CHOOSE o \in [1..Cardinality(s) -> s] : Elements(o) = s

Init ==
    /\ WaitersInit /\ MbInit /\ MqInit /\ EvInit /\ MpInit /\ DqInit /\ CpInit
    /\ object \in Objects
    /\ object # "queue" => mqFree = AnyOrder(Slot)
    /\ object # "pool" => free = AnyOrder(Block)

Next ==
    /\ \/ object = "mailbox" /\ MbNext /\ UNCHANGED <<mqVars, evVars, mpVars, dqVars, completed>>
       \/ object = "queue" /\ MqNext /\ UNCHANGED <<mbVars, evVars, mpVars, dqVars, completed>>
       \/ object = "event" /\ EvNext /\ UNCHANGED <<mbVars, mqVars, mpVars, dqVars, completed>>
       \/ object = "pool" /\ MpNext /\ UNCHANGED <<mbVars, mqVars, evVars, dqVars, completed>>
       \/ object = "data queue" /\ DqNext /\ UNCHANGED <<mbVars, mqVars, evVars, mpVars, completed>>
       \/ object = "completion" /\ CpNext /\ UNCHANGED <<mbVars, mqVars, evVars, mpVars, dqVars>>
    /\ UNCHANGED object

Spec == Init /\ [][Next]_allVars
=============================================================================
