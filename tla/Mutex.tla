-------------------------------- MODULE Mutex --------------------------------
(***************************************************************************)
(* RT-Thread mutexes: recursive rt_mutex_take with priority inheritance,   *)
(* rt_mutex_release with the hand-over to the first waiter, and the thread *)
(* timer that ends a timed wait.                                           *)
(*                                                                         *)
(* Every action is one stretch of code with interrupts disabled, and any   *)
(* ready thread may execute the next one.  RT_THREAD_CTRL_CHANGE_PRIORITY  *)
(* moves a ready thread between ready lists (module Scheduler); a waiting  *)
(* thread keeps its place in the list it waits on.                         *)
(***************************************************************************)
EXTENDS Lists, FiniteSets

CONSTANTS
    Thread, Mutex,
    None,           \* RT_NULL as an owner, and "waits for no mutex"
    Flag,           \* RT_IPC_FLAG_FIFO or RT_IPC_FLAG_PRIO, for every mutex
    BasePrio,       \* the priorities the threads are created with
    MaxHold,        \* bound on mutex->hold, an rt_uint8_t
    Nested          \* TRUE: a thread releases the mutex it took last first

NoPriority == 255

ASSUME MutexAssumption ==
    /\ None \notin Thread \cup Mutex
    /\ Flag \in {"FIFO", "PRIO"}
    /\ BasePrio \in [Thread -> 0..(NoPriority - 1)]
    /\ MaxHold \in 1..255
    /\ Nested \in BOOLEAN

VARIABLES
    value,      \* mutex->value
    owner,      \* mutex->owner
    original,   \* mutex->original_priority
    hold,       \* mutex->hold
    waiting,    \* mutex->parent.suspend_thread
    prio,       \* thread->current_priority
    state,      \* "run", "suspended" in rt_mutex_take, or "resumed" in it
    wants,      \* the mutex a thread is inside rt_mutex_take of
    error,      \* thread->error
    armed,      \* thread->thread_timer is activated
    taken       \* the mutexes each thread took and did not give back, in the
                \* order of its takes, as its program knows it

mutexVars == <<value, owner, original, hold, waiting>>
threadVars == <<prio, state, wants, error, armed, taken>>
vars == <<mutexVars, threadVars>>

\* rt_mutex_init
Init ==
    /\ value = [m \in Mutex |-> 1]
    /\ owner = [m \in Mutex |-> None]
    /\ original = [m \in Mutex |-> NoPriority]
    /\ hold = [m \in Mutex |-> 0]
    /\ waiting = [m \in Mutex |-> <<>>]
    /\ prio = BasePrio
    /\ state = [t \in Thread |-> "run"]
    /\ wants = [t \in Thread |-> None]
    /\ error = [t \in Thread |-> "EOK"]
    /\ armed = [t \in Thread |-> FALSE]
    /\ taken = [t \in Thread |-> <<>>]

\* The call of rt_mutex_take returns RT_EOK.
Took(t, m) == taken' = [taken EXCEPT ![t] = Append(@, m)]

\* rt_mutex_take by the owner.
TakeAgain(t, m) ==
    /\ state[t] = "run"
    /\ owner[m] = t
    /\ hold[m] < MaxHold
    /\ error' = [error EXCEPT ![t] = "EOK"]
    /\ hold' = [hold EXCEPT ![m] = @ + 1]
    /\ Took(t, m)
    /\ UNCHANGED <<value, owner, original, waiting, prio, state, wants, armed>>

\* rt_mutex_take when the mutex is available.
TakeNow(t, m) ==
    /\ state[t] = "run"
    /\ owner[m] # t
    /\ value[m] > 0
    /\ error' = [error EXCEPT ![t] = "EOK"]
    /\ value' = [value EXCEPT ![m] = @ - 1]
    /\ owner' = [owner EXCEPT ![m] = t]
    /\ original' = [original EXCEPT ![m] = prio[t]]
    /\ hold' = [hold EXCEPT ![m] = @ + 1]
    /\ Took(t, m)
    /\ UNCHANGED <<waiting, prio, state, wants, armed>>

\* rt_mutex_take, unavailable, with time = 0.
TakeFails(t, m) ==
    /\ state[t] = "run"
    /\ owner[m] # t
    /\ value[m] = 0
    /\ error' = [error EXCEPT ![t] = "ETIMEOUT"]
    /\ UNCHANGED <<mutexVars, prio, state, wants, armed, taken>>

\* rt_mutex_take, unavailable: the owner inherits the caller's priority if it
\* is higher, and the caller is suspended.
TakeWaits(t, m, timed) ==
    LET o == owner[m]
    IN  /\ state[t] = "run"
        /\ o # t
        /\ value[m] = 0
        /\ error' = [error EXCEPT ![t] = "EOK"]
        /\ prio' = IF prio[t] < prio[o] THEN [prio EXCEPT ![o] = prio[t]] ELSE prio
        /\ state' = [state EXCEPT ![t] = "suspended"]
        /\ wants' = [wants EXCEPT ![t] = m]
        /\ waiting' = [waiting EXCEPT ![m] = Enqueued(@, t, Flag, prio)]
        /\ armed' = [armed EXCEPT ![t] = timed]
        /\ UNCHANGED <<value, owner, original, hold, taken>>

\* The end of rt_mutex_take after rt_schedule.
TakeReturns(t) ==
    /\ state[t] = "resumed"
    /\ state' = [state EXCEPT ![t] = "run"]
    /\ wants' = [wants EXCEPT ![t] = None]
    /\ IF error[t] = "EOK" THEN Took(t, wants[t]) ELSE UNCHANGED taken
    /\ UNCHANGED <<mutexVars, prio, error, armed>>

\* rt_mutex_release by a thread that is not the owner.
ReleaseRefused(t, m) ==
    /\ state[t] = "run"
    /\ owner[m] # t
    /\ error' = [error EXCEPT ![t] = "ERROR"]
    /\ UNCHANGED <<mutexVars, prio, state, wants, armed, taken>>

\* The program gives m back: its last take, or any one it has.
GivesBack(t, m) ==
    \E i \in 1..Len(taken[t]) :
      /\ taken[t][i] = m
      /\ Nested => i = Len(taken[t])
      /\ \A j \in (i + 1)..Len(taken[t]) : taken[t][j] # m
      /\ taken' = [taken EXCEPT ![t] = SubSeq(@, 1, i - 1) \o SubSeq(@, i + 1, Len(@))]

\* rt_mutex_release that leaves the mutex held.
ReleaseInner(t, m) ==
    /\ state[t] = "run"
    /\ owner[m] = t
    /\ hold[m] > 1
    /\ hold' = [hold EXCEPT ![m] = @ - 1]
    /\ GivesBack(t, m)
    /\ UNCHANGED <<value, owner, original, waiting, prio, state, wants, error, armed>>

\* Fault: the mutex is made available although it is handed over.
HandOverAvailable(m) ==
    LET w == Head(waiting[m])
    IN  /\ waiting[m] # <<>>
        /\ value' = [value EXCEPT ![m] = @ + 1]
        /\ owner' = [owner EXCEPT ![m] = w]
        /\ original' = [original EXCEPT ![m] = prio[w]]
        /\ hold' = [hold EXCEPT ![m] = 1]
        /\ waiting' = [waiting EXCEPT ![m] = Without(@, w)]
        /\ state' = [state EXCEPT ![w] = "resumed"]
        /\ armed' = [armed EXCEPT ![w] = FALSE]

\* The mutex goes to its first waiter, who is resumed as its owner.
HandOver(m) ==
    LET w == Head(waiting[m])
    IN  /\ waiting[m] # <<>>
        /\ owner' = [owner EXCEPT ![m] = w]
        /\ original' = [original EXCEPT ![m] = prio[w]]
        /\ hold' = [hold EXCEPT ![m] = 1]
        /\ waiting' = [waiting EXCEPT ![m] = Without(@, w)]
        /\ state' = [state EXCEPT ![w] = "resumed"]
        /\ armed' = [armed EXCEPT ![w] = FALSE]
        /\ UNCHANGED value

\* Nobody waits: the mutex is free.
SetFree(m) ==
    /\ waiting[m] = <<>>
    /\ value' = [value EXCEPT ![m] = @ + 1]
    /\ owner' = [owner EXCEPT ![m] = None]
    /\ original' = [original EXCEPT ![m] = NoPriority]
    /\ hold' = [hold EXCEPT ![m] = 0]
    /\ UNCHANGED <<waiting, state, armed>>

\* Fault: the owner keeps the inherited priority.
ReleaseLastBoosted(t, m) ==
    /\ state[t] = "run" /\ owner[m] = t /\ hold[m] = 1
    /\ HandOver(m) \/ SetFree(m)
    /\ GivesBack(t, m)
    /\ UNCHANGED <<prio, wants, error>>

\* rt_mutex_release by the owner for the last time: the priority it had when
\* it became the owner is restored.
ReleaseLast(t, m) ==
    /\ state[t] = "run"
    /\ owner[m] = t
    /\ hold[m] = 1
    /\ prio' = [prio EXCEPT ![t] = original[m]]
    /\ HandOver(m) \/ SetFree(m)
    /\ GivesBack(t, m)
    /\ UNCHANGED <<wants, error>>

\* rt_thread_timeout; an inherited priority is left as it is.
Timeout(t) ==
    /\ armed[t]
    /\ armed' = [armed EXCEPT ![t] = FALSE]
    /\ error' = [error EXCEPT ![t] = "ETIMEOUT"]
    /\ waiting' = [m \in Mutex |-> Without(waiting[m], t)]
    /\ state' = [state EXCEPT ![t] = "resumed"]
    /\ UNCHANGED <<value, owner, original, hold, prio, wants, taken>>

\* What the program of thread t may do.
Works(t) ==
    \/ TakeReturns(t)
    \/ \E m \in Mutex :
         \/ TakeAgain(t, m) \/ TakeNow(t, m) \/ TakeFails(t, m)
         \/ \E timed \in BOOLEAN : TakeWaits(t, m, timed)
         \/ ReleaseRefused(t, m) \/ ReleaseInner(t, m) \/ ReleaseLast(t, m)

Next == \E t \in Thread : Works(t) \/ Timeout(t)

Spec == Init /\ [][Next]_vars

-----------------------------------------------------------------------------
(* Properties *)

TypeOK ==
    /\ value \in [Mutex -> {0, 1}]
    /\ owner \in [Mutex -> Thread \cup {None}]
    /\ original \in [Mutex -> 0..NoPriority]
    /\ hold \in [Mutex -> 0..MaxHold]
    /\ waiting \in [Mutex -> Seq(Thread)]
    /\ prio \in [Thread -> 0..NoPriority]
    /\ state \in [Thread -> {"run", "suspended", "resumed"}]
    /\ wants \in [Thread -> Mutex \cup {None}]
    /\ error \in [Thread -> {"EOK", "ETIMEOUT", "ERROR"}]
    /\ armed \in [Thread -> BOOLEAN]
    /\ taken \in [Thread -> Seq(Mutex)]

Count(t, m) == Cardinality({i \in 1..Len(taken[t]) : taken[t][i] = m})

\* What the mutex records agrees with what the threads' programs know: the
\* owner is the one thread whose takes succeeded, hold counts them, and a
\* mutex handed to a thread that has not run since counts as one take.  So no
\* two threads ever hold a mutex, and one without an owner is available and
\* nobody waits for it.
OwnerHolds ==
    \A m \in Mutex :
      /\ value[m] = 1 <=> owner[m] = None
      /\ owner[m] = None => hold[m] = 0 /\ waiting[m] = <<>>
      /\ \A t \in Thread :
           LET handed == IF state[t] = "resumed" /\ wants[t] = m /\ error[t] = "EOK"
                           THEN 1 ELSE 0
           IN  IF owner[m] = t THEN hold[m] = Count(t, m) + handed
                               ELSE Count(t, m) + handed = 0

\* A thread that holds no mutex runs at the priority it was created with: what
\* it inherited is taken back ("change the owner thread to original priority",
\* rt_mutex_release).
PriorityRestored ==
    \A t \in Thread :
      (\A m \in Mutex : owner[m] # t) => prio[t] = BasePrio[t]
=============================================================================
