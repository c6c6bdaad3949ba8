-------------------------------- MODULE Event --------------------------------
(***************************************************************************)
(* RT-Thread events: rt_event_send with its walk over the waiting threads, *)
(* rt_event_recv and rt_event_control.                                     *)
(***************************************************************************)
EXTENDS Waiters

CONSTANTS
    Bit,            \* the bits of event->set
    Want            \* the requests: bits, RT_EVENT_FLAG_AND or _OR, _CLEAR

Requests == [bits : (SUBSET Bit) \ {{}}, all : BOOLEAN, clear : BOOLEAN]

ASSUME EventAssumption ==
    /\ Want \subseteq Requests
    /\ "event" \in List

VARIABLES
    set,            \* event->set
    received        \* thread->event_set of a thread woken with its events, and
                    \* what rt_event_recv stores in *recved

evVars == <<set, received>>

Asking(w) == [op |-> "event", arg |-> w]

\* rt_event_init
EvInit ==
    /\ set = {}
    /\ received = [t \in Thread |-> {}]

\* The bits of s that satisfy request w, or none.
Satisfying(w, s) ==
    IF w.all /\ ~ (w.bits \subseteq s) THEN {} ELSE w.bits \cap s

\* Fault: the walk does not see what the waiters before have cleared.
DeliveryStale(w, s, got) ==
    \A i \in 1..Len(w) : got[i] = Satisfying(w[i], s)

\* The walk of rt_event_send along the requests w of the waiting threads: got[i]
\* is what the i-th gets of the bits s that those before it have left.
Delivery(w, s, got) ==
    \A i \in 1..Len(w) :
      got[i] = Satisfying(w[i], s \ UNION {got[j] : j \in {j \in 1..(i - 1) : w[j].clear}})

\* The numbers of K, a set of numbers, in ascending order.
Ascending(K) ==
    {k \in [1..Cardinality(K) -> K] : \A i, j \in 1..Cardinality(K) : i < j => k[i] < k[j]}

\* Fault: only the first waiter is looked at.
EvSendFirst(s) ==
    LET line == waiting["event"]
        n == IF line = <<>> THEN 0 ELSE 1
        w == [i \in 1..n |-> call[line[i]].arg]
    IN  \E got \in [1..n -> SUBSET Bit] :
          LET Gets(t) == {i \in 1..n : line[i] = t /\ got[i] # {}}
          IN  /\ Delivery(w, set \cup s, got)
              /\ set' = (set \cup s) \ UNION {got[j] : j \in {j \in 1..n : w[j].clear}}
              /\ received' = [t \in Thread |-> IF Gets(t) = {} THEN received[t]
                                               ELSE UNION {got[i] : i \in Gets(t)}]
              /\ \E k \in Ascending({i \in 1..Len(line) : i > n \/ got[i] = {}}) :
                   waiting' = [waiting EXCEPT !["event"] = [i \in DOMAIN k |-> line[k[i]]]]
              /\ state' = [t \in Thread |-> IF Gets(t) = {} THEN state[t] ELSE "woken"]
              /\ UNCHANGED call

\* rt_event_send, by a thread or a handler.
EvSend(s) ==
    LET line == waiting["event"]
        n == Len(line)
        w == [i \in 1..n |-> call[line[i]].arg]
    IN  \E got \in [1..n -> SUBSET Bit] :
          LET Gets(t) == {i \in 1..n : line[i] = t /\ got[i] # {}}
          IN  /\ Delivery(w, set \cup s, got)
              /\ set' = (set \cup s) \ UNION {got[j] : j \in {j \in 1..n : w[j].clear}}
              /\ received' = [t \in Thread |-> IF Gets(t) = {} THEN received[t]
                                               ELSE UNION {got[i] : i \in Gets(t)}]
              /\ \E k \in Ascending({i \in 1..n : got[i] = {}}) :
                   waiting' = [waiting EXCEPT !["event"] = [i \in DOMAIN k |-> line[k[i]]]]
              /\ state' = [t \in Thread |-> IF Gets(t) = {} THEN state[t] ELSE "woken"]
              /\ UNCHANGED call

\* rt_event_recv of events that are there.
RecvNow(t, w) ==
    /\ Idle(t)
    /\ Satisfying(w, set) # {}
    /\ received' = [received EXCEPT ![t] = Satisfying(w, set)]
    /\ set' = IF w.clear THEN set \ w.bits ELSE set
    /\ Leaves(t)
    /\ UNCHANGED <<waiting, state>>

\* rt_event_recv of events that are not there: it returns, or t waits.
RecvWaits(t, w, left) ==
    /\ Idle(t)
    /\ Satisfying(w, set) = {}
    /\ IF ~ left
         THEN /\ Leaves(t)
              /\ UNCHANGED <<waiting, state>>
         ELSE SuspendOn("event", t, Asking(w))
    /\ received' = [received EXCEPT ![t] = {}]
    /\ UNCHANGED set

\* rt_event_recv after rt_schedule, woken with its events.
RecvReturns(t) ==
    /\ state[t] = "woken"
    /\ state' = [state EXCEPT ![t] = "run"]
    /\ Leaves(t)
    /\ UNCHANGED <<waiting, evVars>>

\* rt_event_control with RT_IPC_CMD_RESET
EvReset ==
    /\ ResumeAll({"event"})
    /\ set' = {}
    /\ UNCHANGED received

EvNext ==
    \/ \E t \in Thread :
         \/ \E w \in Want : RecvNow(t, w)
         \/ \E w \in Want, left \in BOOLEAN : RecvWaits(t, w, left)
         \/ RecvReturns(t)
         \/ (WaitFails(t) \/ Timeout(t)) /\ UNCHANGED evVars
    \/ \E s \in (SUBSET Bit) \ {{}} : EvSend(s)
    \/ EvReset

EvSpec == WaitersInit /\ EvInit /\ [][EvNext]_<<waitVars, evVars>>

-----------------------------------------------------------------------------
(* Properties *)

\* No thread sleeps on events that are all there: what the waiters before it in
\* the walk left behind does not satisfy it, nor does what was left by receivers
\* that did not have to wait.
NoEventMissed ==
    \A i \in 1..Len(waiting["event"]) :
      Satisfying(call[waiting["event"][i]].arg, set) = {}

\* The waiting threads that get events in a step, and their requests.
Served == {t \in Thread : /\ state[t] = "suspended" /\ state'[t] = "woken"
                          /\ call[t].op = "event"}

\* However many threads one rt_event_send wakes: each gets bits that satisfy its
\* request, no bit goes to two receivers that clear it, and a bit is taken away
\* only by a receiver that asked for it and clears it, or by a reset.
EventsAccounted ==
    [][/\ \A t \in Served :
            /\ received'[t] # {}
            /\ Satisfying(call[t].arg, received'[t]) = received'[t]
       /\ \A t, u \in Served :
            t # u /\ call[t].arg.clear /\ call[u].arg.clear
              => received'[t] \cap received'[u] = {}
       /\ \A b \in set \ set' :
            \/ \E t \in Served : call[t].arg.clear /\ b \in received'[t]
            \/ \E t \in Thread, w \in Want : w.clear /\ b \in w.bits /\ RecvNow(t, w)
            \/ EvReset]_<<waitVars, evVars>>
=============================================================================
