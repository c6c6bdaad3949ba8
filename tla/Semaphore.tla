------------------------------ MODULE Semaphore ------------------------------
(***************************************************************************)
(* RT-Thread semaphores: rt_sem_take, rt_sem_release, the reset of         *)
(* rt_sem_control, rt_sem_delete, the thread timer that ends a timed wait, *)
(* and the changes of a thread's priority, waiting or not.                 *)
(*                                                                         *)
(* Every action is one stretch of code with interrupts disabled.  Which    *)
(* ready thread executes the next one is left open: it is any of them, so  *)
(* that what holds here holds for every priority assignment and for every  *)
(* interrupt that preempts between two stretches.                          *)
(***************************************************************************)
EXTENDS Lists, FiniteSets

CONSTANTS
    Thread, Sem,
    NoSem,          \* not a semaphore
    Flag,           \* [Sem -> {"FIFO", "PRIO"}]
    InitPrio,       \* the threads' priorities at first, 0 is the highest
    Given,          \* [Thread -> SUBSET Nat], those a thread may be given later
    InitValue,      \* the value each semaphore is created with
    Resettable,     \* the semaphores RT_IPC_CMD_RESET is used on
    Deletable,      \* the semaphores that are deleted
    MaxValue        \* bound on sem->value, below RT_UINT16_MAX

ASSUME SemaphoreAssumption ==
    /\ IsFiniteSet(Thread)
    /\ NoSem \notin Sem
    /\ Flag \in [Sem -> {"FIFO", "PRIO"}]
    /\ InitPrio \in [Thread -> Nat]
    /\ Given \in [Thread -> SUBSET Nat]
    /\ Resettable \subseteq Sem /\ Deletable \subseteq Sem
    /\ MaxValue \in Nat
    /\ InitValue \in [Sem -> 0..MaxValue]

VARIABLES
    value,      \* sem->value
    waiting,    \* sem->parent.suspend_thread
    deletion,   \* where rt_sem_delete of it is, "no" before the call
    state,      \* "run", "suspended" in rt_sem_take, or "resumed" in it
    sem,        \* the semaphore a thread is inside rt_sem_take of
    error,      \* thread->error
    armed,      \* thread->thread_timer is activated
    prio,       \* thread->current_priority
    result      \* what the last rt_sem_take of a thread returned

semVars == <<value, waiting, deletion>>
threadVars == <<state, sem, error, armed, prio, result>>
vars == <<semVars, threadVars>>

State == {"run", "suspended", "resumed"}
Error == {"EOK", "ETIMEOUT", "ERROR"}
Deletion == {"no", "test", "resume", "free", "gone", "asserts"}

Init ==
    /\ value = InitValue
    /\ waiting = [s \in Sem |-> <<>>]
    /\ deletion = [s \in Sem |-> "no"]
    /\ state = [t \in Thread |-> "run"]
    /\ sem = [t \in Thread |-> NoSem]
    /\ error = [t \in Thread |-> "EOK"]
    /\ armed = [t \in Thread |-> FALSE]
    /\ prio = InitPrio
    /\ result = [t \in Thread |-> "EOK"]

\* The RT_ASSERTs of the semaphore calls refuse an object that rt_sem_delete has
\* given back; while it still resumes the waiters the calls go on as before.
Exists(s) == deletion[s] # "gone"

\* No RT_ASSERT has failed with interrupts disabled: nothing runs after that.
Alive == \A s \in Sem : deletion[s] # "asserts"

\* rt_thread_control with RT_THREAD_CTRL_CHANGE_PRIORITY of thread t, also by
\* rt_mutex_take and rt_mutex_release: a waiting list is not sorted again.
ChangePriority(t, p) ==
    /\ prio' = [prio EXCEPT ![t] = p]
    /\ UNCHANGED <<semVars, state, sem, error, armed, result>>

\* rt_sem_take when the semaphore is available.
TakeNow(t, s) ==
    /\ state[t] = "run" /\ Exists(s)
    /\ value[s] > 0
    /\ value' = [value EXCEPT ![s] = @ - 1]
    /\ result' = [result EXCEPT ![t] = "EOK"]
    /\ UNCHANGED <<waiting, deletion, state, sem, error, armed, prio>>

\* rt_sem_trytake of an interrupt handler when the semaphore is available.
TakeIsr(s) ==
    /\ Exists(s)
    /\ value[s] > 0
    /\ value' = [value EXCEPT ![s] = @ - 1]
    /\ UNCHANGED <<waiting, deletion, threadVars>>

\* rt_sem_take, unavailable, with time = 0: thread->error is left alone.
TakeFails(t, s) ==
    /\ state[t] = "run" /\ Exists(s)
    /\ value[s] = 0
    /\ result' = [result EXCEPT ![t] = "ETIMEOUT"]
    /\ UNCHANGED <<semVars, state, sem, error, armed, prio>>

\* rt_sem_take, unavailable: the thread is suspended, forever (time < 0) or
\* with its timer started.
TakeWaits(t, s, timed) ==
    /\ state[t] = "run" /\ Exists(s)
    /\ value[s] = 0
    /\ error' = [error EXCEPT ![t] = "EOK"]
    /\ state' = [state EXCEPT ![t] = "suspended"]
    /\ sem' = [sem EXCEPT ![t] = s]
    /\ waiting' = [waiting EXCEPT ![s] = Enqueued(@, t, Flag[s], prio)]
    /\ armed' = [armed EXCEPT ![t] = timed]
    /\ UNCHANGED <<value, deletion, prio, result>>

\* The end of rt_sem_take after rt_schedule: thread->error is the result.
TakeReturns(t) ==
    /\ state[t] = "resumed"
    /\ state' = [state EXCEPT ![t] = "run"]
    /\ sem' = [sem EXCEPT ![t] = NoSem]
    /\ result' = [result EXCEPT ![t] = error[t]]
    /\ UNCHANGED <<semVars, error, armed, prio>>

\* Fault: the timer of the resumed thread keeps running.
ResumeArmed(t) ==
    /\ waiting' = [s \in Sem |-> Without(waiting[s], t)]
    /\ state' = [state EXCEPT ![t] = "resumed"]
    /\ UNCHANGED armed

\* rt_thread_resume: the thread leaves the list, its timer is stopped.
Resume(t) ==
    /\ waiting' = [s \in Sem |-> Without(waiting[s], t)]
    /\ state' = [state EXCEPT ![t] = "resumed"]
    /\ armed' = [armed EXCEPT ![t] = FALSE]

\* Fault: the value is increased although the token goes to a waiter.
ReleaseTwice(s) ==
    /\ Exists(s)
    /\ value[s] < MaxValue
    /\ value' = [value EXCEPT ![s] = @ + 1]
    /\ IF waiting[s] # <<>>
         THEN Resume(Head(waiting[s]))
         ELSE UNCHANGED <<waiting, state, armed>>
    /\ UNCHANGED <<deletion, sem, error, prio, result>>

\* rt_sem_release, by a thread or an interrupt handler: the token goes to the
\* first waiter, else sem->value is increased.
Release(s) ==
    /\ Exists(s)
    /\ \/ /\ waiting[s] # <<>>
          /\ Resume(Head(waiting[s]))
          /\ UNCHANGED value
       \/ /\ waiting[s] = <<>>
          /\ value[s] < MaxValue
          /\ value' = [value EXCEPT ![s] = @ + 1]
          /\ UNCHANGED <<waiting, state, armed>>
    /\ UNCHANGED <<deletion, sem, error, prio, result>>

\* rt_thread_timeout
Timeout(t) ==
    /\ armed[t]
    /\ armed' = [armed EXCEPT ![t] = FALSE]
    /\ error' = [error EXCEPT ![t] = "ETIMEOUT"]
    /\ waiting' = [s \in Sem |-> Without(waiting[s], t)]
    /\ state' = [state EXCEPT ![t] = "resumed"]
    /\ UNCHANGED <<value, deletion, sem, prio, result>>

\* Fault: the waiters are left where they are.
ResetValueOnly(s, v) ==
    /\ Exists(s)
    /\ value' = [value EXCEPT ![s] = v]
    /\ UNCHANGED <<waiting, deletion, threadVars>>

\* RT_IPC_CMD_RESET of rt_sem_control: rt_ipc_list_resume_all with interrupts
\* disabled throughout, then the new value.
Reset(s, v) ==
    LET woken == Elements(waiting[s])
    IN  /\ Exists(s)
        /\ waiting' = [waiting EXCEPT ![s] = <<>>]
        /\ state' = [t \in Thread |-> IF t \in woken THEN "resumed" ELSE state[t]]
        /\ error' = [t \in Thread |-> IF t \in woken THEN "ERROR" ELSE error[t]]
        /\ armed' = [t \in Thread |-> armed[t] /\ t \notin woken]
        /\ value' = [value EXCEPT ![s] = v]
        /\ UNCHANGED <<deletion, sem, prio, result>>

\* rt_sem_delete and rt_sem_detach begin.
Delete(s) ==
    /\ deletion[s] = "no"
    /\ deletion' = [deletion EXCEPT ![s] = "test"]
    /\ UNCHANGED <<value, waiting, threadVars>>

\* rt_ipc_list_resume_all: the loop condition, with interrupts enabled, so that
\* waiters come and go between it and what it decides.
DeleteTests(s) ==
    /\ deletion[s] = "test"
    /\ deletion' = [deletion EXCEPT ![s] = IF waiting[s] # <<>> THEN "resume" ELSE "free"]
    /\ UNCHANGED <<value, waiting, threadVars>>

\* ... the body of the loop ...
DeleteResumes(s) ==
    /\ deletion[s] = "resume"
    /\ waiting[s] # <<>>
    /\ error' = [error EXCEPT ![Head(waiting[s])] = "ERROR"]
    /\ Resume(Head(waiting[s]))
    /\ deletion' = [deletion EXCEPT ![s] = "test"]
    /\ UNCHANGED <<value, sem, prio, result>>

\* ... and the same with nobody left on the list: the semaphore itself, where
\* its list head is, is taken for a thread, and the RT_ASSERT of
\* rt_thread_resume on the type of the object fails.
DeleteAsserts(s) ==
    /\ deletion[s] = "resume"
    /\ waiting[s] = <<>>
    /\ deletion' = [deletion EXCEPT ![s] = "asserts"]
    /\ UNCHANGED <<value, waiting, threadVars>>

\* rt_object_delete, rt_object_detach: whoever has begun to wait since the last
\* test of the list stays on it.
DeleteFrees(s) ==
    /\ deletion[s] = "free"
    /\ deletion' = [deletion EXCEPT ![s] = "gone"]
    /\ UNCHANGED <<value, waiting, threadVars>>

ThreadStep(t) ==
    \/ TakeReturns(t)
    \/ \E s \in Sem :
         \/ TakeNow(t, s) \/ TakeFails(t, s)
         \/ \E timed \in BOOLEAN : TakeWaits(t, s, timed)

Deletes(s) ==
    \/ Delete(s) \/ DeleteTests(s) \/ DeleteResumes(s) \/ DeleteAsserts(s) \/ DeleteFrees(s)

Next ==
    /\ Alive
    /\ \/ \E t \in Thread :
            \/ ThreadStep(t) \/ Timeout(t)
            \/ \E p \in Given[t] : ChangePriority(t, p)
       \/ \E s \in Sem :
            \/ Release(s) \/ TakeIsr(s)
            \/ s \in Deletable /\ Deletes(s)
            \/ s \in Resettable /\ \E v \in 0..MaxValue : Reset(s, v)

Spec == Init /\ [][Next]_vars

-----------------------------------------------------------------------------
(* Properties *)

TypeOK ==
    /\ value \in [Sem -> 0..MaxValue]
    /\ waiting \in [Sem -> Seq(Thread)]
    /\ deletion \in [Sem -> Deletion]
    /\ state \in [Thread -> State]
    /\ sem \in [Thread -> Sem \cup {NoSem}]
    /\ error \in [Thread -> Error]
    /\ armed \in [Thread -> BOOLEAN]
    /\ prio \in [Thread -> Nat]
    /\ result \in [Thread -> Error]

\* No thread sleeps while a token lies unused: whatever the order of takes,
\* releases, timeouts and resets.
NoTokenWhileWaiting == \A s \in Sem : value[s] > 0 => waiting[s] = <<>>

\* A thread is on the list of the semaphore it waits for exactly while it is
\* suspended, once, and only then can its timer fire.
WaitersAreSuspended ==
    /\ \A t \in Thread, s \in Sem :
         Cardinality({i \in 1..Len(waiting[s]) : waiting[s][i] = t})
           = IF state[t] = "suspended" /\ sem[t] = s THEN 1 ELSE 0
    /\ \A t \in Thread : armed[t] => state[t] = "suspended"

Served(t) == state[t] = "suspended" /\ state'[t] = "resumed" /\ error'[t] = "EOK"
Precedes(l, t, u) == \E i, j \in 1..Len(l) : i < j /\ l[i] = t /\ l[j] = u
Ahead(s, t, u) == Flag[s] = "PRIO" /\ prio[t] < prio[u]

\* For RT_IPC_FLAG_PRIO, the list of s is in the order of the priorities.
InOrder(s) ==
    \A i, j \in 1..Len(waiting[s]) : i < j => ~Ahead(s, waiting[s][j], waiting[s][i])

\* Nobody that t waits behind, nor t, is of a lower priority than u.
NotAheadOfAny(s, t, u) ==
    /\ ~Ahead(s, u, t)
    /\ \A v \in Elements(waiting[s]) : Precedes(waiting[s], v, t) => ~Ahead(s, u, v)

\* A token is handed to the thread that was in front of all that go on waiting.
\* Nobody gets in front of a thread that was there before, whatever timeouts,
\* resets and deletions do to the list, except by the priority it has when it
\* begins to wait.  A list of RT_IPC_FLAG_PRIO that is in the order of the
\* priorities stays so until the priority of a waiter changes; while it is, the
\* thread that is served is one of the highest priority (kernel.h).
BestWaiterFirst ==
    [][\A s \in Sem :
         /\ \A t \in Elements(waiting[s]) : \A u \in Elements(waiting'[s]) \ {t} :
              /\ Served(t) => /\ Precedes(waiting[s], t, u)
                              /\ InOrder(s) => ~Ahead(s, u, t)
              /\ /\ t \in Elements(waiting'[s])
                 /\ \/ Precedes(waiting[s], t, u)
                    \/ u \notin Elements(waiting[s]) /\ NotAheadOfAny(s, t, u)
                 => Precedes(waiting'[s], t, u)
         /\ InOrder(s) /\ (\A t \in Elements(waiting[s]) : prio'[t] = prio[t])
              => InOrder(s)']_vars

\* A semaphore counts: see CountingSemaphore.  A token handed to a thread that
\* has not run since is still one of the semaphore's.
Granted(s) ==
    {t \in Thread : state[t] = "resumed" /\ sem[t] = s /\ error[t] = "EOK"}

Counting == INSTANCE CountingSemaphore WITH
    avail <- [s \in Sem |-> value[s] + Cardinality(Granted(s))],
    wants <- sem

CountsTokens == Counting!Spec

=============================================================================
