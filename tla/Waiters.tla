------------------------------- MODULE Waiters -------------------------------
(***************************************************************************)
(* Threads that wait on a kernel object: rt_ipc_list_suspend,              *)
(* rt_ipc_list_resume, rt_ipc_list_resume_all and rt_thread_timeout, as    *)
(* mailboxes, message queues and events use them.                          *)
(*                                                                         *)
(* Every action of these objects is one stretch of code with interrupts    *)
(* disabled, or one access to memory that the thread alone may use.  Any   *)
(* runnable thread may take the next step, and a resumed one may be        *)
(* overtaken by all others before it goes on in its call.                  *)
(*                                                                         *)
(* A thread that waits may time out, and one that was woken and finds      *)
(* nothing may have time left or not.  RT_WAITING_FOREVER is the case in   *)
(* which neither happens.                                                  *)
(***************************************************************************)
EXTENDS Lists, FiniteSets

CONSTANTS
    Thread,
    Prio,           \* thread->current_priority
    Flag,           \* RT_IPC_FLAG_FIFO or RT_IPC_FLAG_PRIO
    List,           \* the waiting lists
    NoCall,         \* what a thread outside the calls is in
    Message,        \* what mailboxes and message queues carry
    NoMessage       \* the unknown contents of memory that was never written

ASSUME WaitersAssumption ==
    /\ IsFiniteSet(Thread)
    /\ Prio \in [Thread -> Nat]
    /\ Flag \in {"FIFO", "PRIO"}

VARIABLES
    waiting,        \* the suspended threads of each list
    state,          \* "run", "suspended" in a call, or resumed in it and not run
                    \* since: "woken" with thread->error = RT_EOK, or "failed"
    call            \* the call a thread is inside of, with its argument

waitVars == <<waiting, state, call>>

WaitersInit ==
    /\ waiting = [l \in List |-> <<>>]
    /\ state = [t \in Thread |-> "run"]
    /\ call = [t \in Thread |-> NoCall]

\* Thread t is outside the calls.
Idle(t) == state[t] = "run" /\ call[t] = NoCall

\* The call of t returns.
Leaves(t) == call' = [call EXCEPT ![t] = NoCall]

\* rt_ipc_list_suspend in call c, and the start of the thread's timer.
SuspendOn(l, t, c) ==
    /\ waiting' = [waiting EXCEPT ![l] = Enqueued(@, t, Flag, Prio)]
    /\ state' = [state EXCEPT ![t] = "suspended"]
    /\ call' = [call EXCEPT ![t] = c]

\* rt_thread_suspend, and the thread appended to list l.
SuspendLast(l, t, c) ==
    /\ waiting' = [waiting EXCEPT ![l] = Append(@, t)]
    /\ state' = [state EXCEPT ![t] = "suspended"]
    /\ call' = [call EXCEPT ![t] = c]

\* rt_ipc_list_resume of the first thread of list l, if there is one, while the
\* threads in running execute: the caller, or nobody if a handler calls.
ResumeFirst(l, running) ==
    LET first == IF waiting[l] = <<>> THEN {} ELSE {Head(waiting[l])}
    IN  /\ waiting' = [waiting EXCEPT ![l] = IF @ = <<>> THEN @ ELSE Tail(@)]
        /\ state' = [t \in Thread |-> IF t \in first THEN "woken"
                                      ELSE IF t \in running THEN "run" ELSE state[t]]

\* rt_ipc_list_resume_all of the lists in ls, with interrupts disabled.
ResumeAll(ls) ==
    LET resumed == UNION {Elements(waiting[l]) : l \in ls}
    IN  /\ waiting' = [l \in List |-> IF l \in ls THEN <<>> ELSE waiting[l]]
        /\ state' = [t \in Thread |-> IF t \in resumed THEN "failed" ELSE state[t]]
        /\ UNCHANGED call

\* The call of a resumed thread returns thread->error.
WaitFails(t) ==
    /\ state[t] = "failed"
    /\ state' = [state EXCEPT ![t] = "run"]
    /\ Leaves(t)
    /\ UNCHANGED waiting

\* rt_thread_timeout: the timer of a suspended thread expires, and it is taken
\* off whatever list it waits on.
Timeout(t) ==
    /\ state[t] = "suspended"
    /\ waiting' = [l \in List |-> Without(waiting[l], t)]
    /\ state' = [state EXCEPT ![t] = "failed"]
    /\ UNCHANGED call

-----------------------------------------------------------------------------

\* The threads that were woken inside a call of kind op and have not gone on.
Woken(op) == {t \in Thread : state[t] = "woken" /\ call[t].op = op}
=============================================================================
