------------------------------ MODULE Scheduler ------------------------------
(***************************************************************************)
(* The uniprocessor scheduler of RT-Thread: the priority table and its     *)
(* bitmap, rt_schedule, the scheduler lock, the life of a thread from      *)
(* rt_thread_create to the idle thread's reaping, time slices, interrupts  *)
(* and the deferred Cortex-M3 context switch.                              *)
(*                                                                         *)
(* One action is one stretch of code that runs with interrupts disabled,   *)
(* or one unprotected read or write; a call made of several such stretches *)
(* is several actions, chained by the caller's pc, so that an interrupt,   *)
(* and the thread it wakes, can come in between.                           *)
(*                                                                         *)
(* A thread's tlist node is on at most one list: a ready list, the list of *)
(* one IPC object, or the list of defunct threads.  They are numbered: p   *)
(* for the ready list of priority p, then Wait, then Defunct.              *)
(***************************************************************************)
EXTENDS Lists

CONSTANTS
    Thread,       \* every thread, the idle thread included
    Idle,         \* tidle0: it never blocks
    Main,         \* the thread that creates, starts and controls the others
    MaxPrio,      \* RT_THREAD_PRIORITY_MAX - 1, the idle thread's priority
    InitPrio,     \* init_priority of each thread
    Controlled,   \* threads Main suspends and resumes
    Deletable,    \* threads Main deletes
    Blocker,      \* threads that wait on the IPC object
    Timed,        \* threads that sleep, and wait with a timeout if in Blocker
    Boostable,    \* threads whose priority is changed, by any thread
    BoostLevels,  \* priorities RT_THREAD_CTRL_CHANGE_PRIORITY is called with
    Slice,        \* init_tick of every thread
    MaxLock,      \* bound on rt_scheduler_lock_nest
    MaxNest       \* bound on rt_interrupt_nest

Prio == 0..MaxPrio
Wait == MaxPrio + 1
Defunct == MaxPrio + 2
List == 0..(MaxPrio + 2)

ASSUME SchedulerAssumption ==
    /\ MaxPrio \in Nat
    /\ Idle \in Thread
    /\ Main \in Thread \ {Idle}
    /\ InitPrio \in [Thread -> Prio]
    /\ InitPrio[Idle] = MaxPrio
    /\ Controlled \cup Deletable \subseteq Thread \ {Idle, Main}
    /\ Blocker \cup Timed \subseteq Thread \ {Idle}
    /\ Boostable \subseteq Thread \ {Idle}
    /\ BoostLevels \subseteq Prio
    /\ Slice \in Nat \ {0}
    /\ MaxLock \in Nat /\ MaxNest \in Nat

VARIABLES
    stat,       \* thread->stat, "FREED" when there is no such object
    prio,       \* thread->current_priority
    list,       \* the lists a tlist node can be on
    group,      \* rt_thread_ready_priority_group, as the set of its bits
    armed,      \* thread->thread_timer is activated
    slice,      \* thread->remaining_tick
    current,    \* rt_current_thread
    lockNest,   \* rt_scheduler_lock_nest
    irqNest,    \* rt_interrupt_nest
    isrSched,   \* the nest levels of the handlers about to call rt_schedule
    switch,     \* rt_thread_switch_interrupt_flag, rt_interrupt_from/to_thread
    cpu,        \* the thread whose context is on the processor
    owed,       \* history: rt_thread_resume or a change of priority by itself
                \* came after the last rt_schedule that was not locked out
    pc          \* what each thread does next, and to which thread

threadVars == <<stat, prio, armed, slice>>
queueVars  == <<list, group>>
cpuVars    == <<current, lockNest, irqNest, isrSched, switch, cpu, owed>>
vars == <<threadVars, queueVars, cpuVars, pc>>

Stat == {"INIT", "SUSPEND", "READY", "RUNNING", "CLOSE", "FREED"}
Op == {"run", "sched", "suspend", "unlink", "insert",
       "startUnlink", "startInsert",
       "delTimer", "delClose", "delDefunct", "reapSched", "reapFree"}
Idling == [op |-> "run", arg |-> Idle]     \* between two kernel calls

-----------------------------------------------------------------------------
(* Lists, and the two scheduler operations on them *)

Unlinked(l, x) == [q \in List |-> Without(l[q], x)]
Appended(l, q, x) == [l EXCEPT ![q] = Append(@, x)]

\* Fault: the bit of an emptied list stays set.
ClearedBitNever(g, l, p) == g

\* The bitmap after rt_schedule_remove_thread left the lists l.
ClearedBit(g, l, p) == IF l[p] = <<>> THEN g \ {p} ELSE g

\* rt_schedule_remove_thread
RemoveThread(x) ==
    /\ list' = Unlinked(list, x)
    /\ group' = ClearedBit(group, list', prio[x])

\* rt_schedule_insert_thread, for a thread whose node is on the lists l with
\* the bitmap g: the current thread is made RUNNING and not queued.
InsertThread(x, l, g, p) ==
    IF x = current
      THEN /\ stat' = [stat EXCEPT ![x] = "RUNNING"]
           /\ list' = l
           /\ group' = g
      ELSE /\ stat' = [stat EXCEPT ![x] = "READY"]
           /\ list' = Appended(l, p, x)
           /\ group' = g \cup {p}

Highest == CHOOSE p \in group : \A r \in group : p <= r

\* Fault: a second switch before PendSV overwrites rt_interrupt_from_thread.
ContextSwitchOverwrites(from, to) ==
    switch' = [flag |-> TRUE, from |-> from, to |-> to]

\* rt_hw_context_switch and rt_hw_context_switch_interrupt: PendSV is raised;
\* the thread to save is the first one since the last PendSV.
ContextSwitch(from, to) ==
    switch' = [flag |-> TRUE,
               from |-> IF switch.flag THEN switch.from ELSE from,
               to   |-> to]

\* The part of rt_schedule that gives the processor to the thread to.
SwitchTo(to) ==
    LET requeue == stat[current] = "RUNNING"
        l == IF requeue THEN Appended(list, prio[current], current) ELSE list
        g == IF requeue THEN group \cup {prio[current]} ELSE group
    IN  /\ current' = to
        /\ stat' = [stat EXCEPT ![current] = IF requeue THEN "READY" ELSE @,
                                ![to] = "RUNNING"]
        /\ list' = Unlinked(l, to)
        /\ group' = ClearedBit(g, list', prio[to])
        /\ ContextSwitch(current, to)

\* Fault: <= for <, a thread of equal priority never gets its turn.
ChosenNoRotation == IF stat[current] = "RUNNING" /\ prio[current] <= Highest
                      THEN current
                      ELSE Head(list[Highest])

\* The thread rt_schedule gives the processor to: the running thread if it
\* is strictly ahead of every ready one, else the head of the highest list.
Chosen == IF stat[current] = "RUNNING" /\ prio[current] < Highest
            THEN current
            ELSE Head(list[Highest])

\* Fault: rt_scheduler_lock_nest is not tested.
ScheduleUnlocked ==
    /\ owed' = FALSE
    /\ IF group # {} /\ Chosen # current
         THEN SwitchTo(Chosen)
         ELSE UNCHANGED <<stat, list, group, current, switch>>

\* rt_schedule
Schedule ==
    /\ owed' = (owed /\ lockNest # 0)
    /\ \/ /\ lockNest # 0 \/ group = {}
          /\ UNCHANGED <<stat, list, group, current, switch>>
       \/ /\ lockNest = 0 /\ group # {}
          /\ Chosen # current
          /\ SwitchTo(Chosen)
       \/ /\ lockNest = 0 /\ group # {}
          /\ Chosen = current
          /\ RemoveThread(current)
          /\ stat' = [stat EXCEPT ![current] = "RUNNING"]
          /\ UNCHANGED <<current, switch>>

-----------------------------------------------------------------------------
(* Threads *)

\* Thread t executes instructions: its context is loaded, no handler is
\* active and no PendSV is pending.
Executes(t) == cpu = t /\ irqNest = 0 /\ ~switch.flag

Calls(t, op) == Executes(t) /\ pc[t].op = op
Free(t) == Calls(t, "run")
Goto(t, op, x) == pc' = [pc EXCEPT ![t] = [op |-> op, arg |-> x]]
Return(t) == pc' = [pc EXCEPT ![t] = Idling]
ThenSchedule(t) == Goto(t, "sched", t)

\* The call of rt_schedule a thread ends an operation with.
ThreadSchedule(t) ==
    /\ Calls(t, "sched")
    /\ Schedule
    /\ Return(t)
    /\ UNCHANGED <<prio, armed, slice, lockNest, irqNest, isrSched, cpu>>

\* rt_thread_yield
Yield(t) ==
    /\ Free(t)
    /\ Schedule
    /\ UNCHANGED <<prio, armed, slice, lockNest, irqNest, isrSched, cpu, pc>>

\* rt_thread_create
Create(x) ==
    /\ Free(Main)
    /\ stat[x] = "FREED"
    /\ stat' = [stat EXCEPT ![x] = "INIT"]
    /\ prio' = [prio EXCEPT ![x] = InitPrio[x]]
    /\ slice' = [slice EXCEPT ![x] = Slice]
    /\ armed' = [armed EXCEPT ![x] = FALSE]
    /\ pc' = [pc EXCEPT ![x] = Idling]
    /\ UNCHANGED <<queueVars, cpuVars>>

\* rt_thread_startup, up to its call of rt_thread_resume, whose steps follow.
Startup(x) ==
    /\ Free(Main)
    /\ stat[x] = "INIT"
    /\ prio' = [prio EXCEPT ![x] = InitPrio[x]]
    /\ stat' = [stat EXCEPT ![x] = "SUSPEND"]
    /\ Goto(Main, "startUnlink", x)
    /\ UNCHANGED <<armed, slice, queueVars, cpuVars>>

\* rt_thread_resume: the test of stat is made before interrupts are disabled.
ResumeCheck(x) ==
    /\ Free(Main)
    /\ stat[x] = "SUSPEND"
    /\ Goto(Main, "unlink", x)
    /\ UNCHANGED <<threadVars, queueVars, cpuVars>>

\* rt_thread_resume, its protected section: the bitmap is left alone.
ResumeUnlink ==
    LET x == pc[Main].arg
        op == pc[Main].op
    IN  /\ Executes(Main)
        /\ op \in {"unlink", "startUnlink"}
        /\ list' = Unlinked(list, x)
        /\ armed' = [armed EXCEPT ![x] = FALSE]
        /\ Goto(Main, IF op = "unlink" THEN "insert" ELSE "startInsert", x)
        /\ UNCHANGED <<stat, prio, slice, group, cpuVars>>

\* rt_thread_resume, its insertion, after interrupts were enabled again: it
\* does not reschedule, that is left to a caller such as rt_thread_startup.
ResumeInsert ==
    LET x == pc[Main].arg
        op == pc[Main].op
    IN  /\ Executes(Main)
        /\ op \in {"insert", "startInsert"}
        /\ InsertThread(x, list, group, prio[x])
        /\ IF op = "insert" THEN Return(Main) ELSE ThenSchedule(Main)
        /\ owed' = (owed \/ op = "insert")
        /\ UNCHANGED <<prio, armed, slice, current, lockNest, irqNest, isrSched,
                       switch, cpu>>

\* rt_thread_suspend: the test of stat is made before interrupts are disabled.
SuspendCheck(x) ==
    /\ Free(Main)
    /\ stat[x] \in {"READY", "RUNNING"}
    /\ Goto(Main, "suspend", x)
    /\ UNCHANGED <<threadVars, queueVars, cpuVars>>

\* rt_thread_suspend, its protected section.
Suspend ==
    LET x == pc[Main].arg
    IN  /\ Calls(Main, "suspend")
        /\ RemoveThread(x)
        /\ stat' = [stat EXCEPT ![x] = "SUSPEND"]
        /\ armed' = [armed EXCEPT ![x] = FALSE]
        /\ Return(Main)
        /\ UNCHANGED <<prio, slice, cpuVars>>

\* Fault: a ready thread is not moved to the list of its new priority.
ChangePriorityInPlace(t, x, p) ==
    /\ Free(t)
    /\ stat[x] \in {"SUSPEND", "READY", "RUNNING"}
    /\ prio' = [prio EXCEPT ![x] = p]
    /\ owed' = TRUE
    /\ UNCHANGED <<stat, armed, slice, queueVars, current, lockNest, irqNest,
                   isrSched, switch, cpu, pc>>

\* RT_THREAD_CTRL_CHANGE_PRIORITY: rt_thread_control does not reschedule, and
\* neither does rt_mutex_release unless it hands the mutex over.
ChangePriority(t, x, p) ==
    /\ Free(t)
    /\ stat[x] \in {"SUSPEND", "READY", "RUNNING"}
    /\ prio' = [prio EXCEPT ![x] = p]
    /\ IF stat[x] = "READY"
         THEN LET l == Unlinked(list, x)
              IN  InsertThread(x, l, ClearedBit(group, l, prio[x]), p)
         ELSE UNCHANGED <<stat, list, group>>
    /\ owed' = TRUE
    /\ UNCHANGED <<armed, slice, current, lockNest, irqNest, isrSched, switch,
                   cpu, pc>>

\* rt_thread_sleep, and the waiting path of the IPC calls (onList, with the
\* thread timer started if timed), up to rt_schedule.
Block(t, onList, timed) ==
    LET l == Unlinked(list, t)
    IN  /\ Free(t)
        /\ stat[t] = "RUNNING"
        /\ stat' = [stat EXCEPT ![t] = "SUSPEND"]
        /\ list' = IF onList THEN Appended(l, Wait, t) ELSE l
        /\ group' = ClearedBit(group, l, prio[t])
        /\ armed' = [armed EXCEPT ![t] = timed]
        /\ ThenSchedule(t)
        /\ UNCHANGED <<prio, slice, cpuVars>>

\* Fault: the waiter stays on the IPC object's list.
ResumeWaiterLinked ==
    LET x == Head(list[Wait])
    IN  /\ list[Wait] # <<>>
        /\ InsertThread(x, list, group, prio[x])
        /\ armed' = [armed EXCEPT ![x] = FALSE]

\* Fault: the timer of the resumed thread is not stopped.
ResumeWaiterArmed ==
    LET x == Head(list[Wait])
    IN  /\ list[Wait] # <<>>
        /\ InsertThread(x, Unlinked(list, x), group, prio[x])
        /\ UNCHANGED armed

\* rt_ipc_list_resume: the IPC object's first waiter, resumed in full with
\* interrupts disabled by the caller.
ResumeWaiter ==
    LET x == Head(list[Wait])
    IN  /\ list[Wait] # <<>>
        /\ InsertThread(x, Unlinked(list, x), group, prio[x])
        /\ armed' = [armed EXCEPT ![x] = FALSE]

\* The waking path of the IPC calls, by a thread.
Wake(t) ==
    /\ Free(t)
    /\ ResumeWaiter
    /\ ThenSchedule(t)
    /\ UNCHANGED <<prio, slice, cpuVars>>

\* rt_enter_critical
EnterCritical(t) ==
    /\ Free(t)
    /\ lockNest < MaxLock
    /\ lockNest' = lockNest + 1
    /\ UNCHANGED <<threadVars, queueVars, current, irqNest, isrSched, switch,
                   cpu, owed, pc>>

\* Fault: what became ready while the scheduler was locked is not run.
ExitCriticalOnly(t) ==
    /\ Free(t)
    /\ lockNest' = IF lockNest - 1 <= 0 THEN 0 ELSE lockNest - 1
    /\ UNCHANGED <<threadVars, queueVars, current, irqNest, isrSched, switch,
                   cpu, owed, pc>>

\* rt_exit_critical, with or without a matching rt_enter_critical.
ExitCritical(t) ==
    /\ Free(t)
    /\ lockNest' = IF lockNest - 1 <= 0 THEN 0 ELSE lockNest - 1
    /\ IF lockNest - 1 <= 0 THEN ThenSchedule(t) ELSE UNCHANGED pc
    /\ UNCHANGED <<threadVars, queueVars, current, irqNest, isrSched, switch,
                   cpu, owed>>

\* Fault: the thread frees its own stack and object.
ExitFreeing(t) ==
    LET l == Unlinked(list, t)
    IN  /\ Free(t)
        /\ lockNest = 0
        /\ stat' = [stat EXCEPT ![t] = "FREED"]
        /\ list' = l
        /\ group' = ClearedBit(group, l, prio[t])
        /\ armed' = [armed EXCEPT ![t] = FALSE]
        /\ ThenSchedule(t)
        /\ UNCHANGED <<prio, slice, cpuVars>>

\* rt_thread_exit of a thread from rt_thread_create, which does not hold the
\* scheduler lock; the defunct list is a stack.
Exit(t) ==
    LET l == Unlinked(list, t)
    IN  /\ Free(t)
        /\ lockNest = 0
        /\ stat' = [stat EXCEPT ![t] = "CLOSE"]
        /\ list' = [l EXCEPT ![Defunct] = <<t>> \o @]
        /\ group' = ClearedBit(group, l, prio[t])
        /\ armed' = [armed EXCEPT ![t] = FALSE]
        /\ ThenSchedule(t)
        /\ UNCHANGED <<prio, slice, cpuVars>>

\* rt_thread_delete runs with interrupts enabled but for its four calls:
\* rt_schedule_remove_thread, ...
DeleteUnlink(x) ==
    /\ Free(Main)
    /\ stat[x] \notin {"CLOSE", "FREED"}
    /\ IF stat[x] = "INIT" THEN UNCHANGED queueVars ELSE RemoveThread(x)
    /\ Goto(Main, "delTimer", x)
    /\ UNCHANGED <<threadVars, cpuVars>>

\* ... rt_timer_detach, ...
DeleteTimer ==
    LET x == pc[Main].arg
    IN  /\ Calls(Main, "delTimer")
        /\ armed' = [armed EXCEPT ![x] = FALSE]
        /\ Goto(Main, "delClose", x)
        /\ UNCHANGED <<stat, prio, slice, queueVars, cpuVars>>

\* ... the assignment of stat ...
DeleteClose ==
    LET x == pc[Main].arg
    IN  /\ Calls(Main, "delClose")
        /\ stat' = [stat EXCEPT ![x] = "CLOSE"]
        /\ Goto(Main, "delDefunct", x)
        /\ UNCHANGED <<prio, armed, slice, queueVars, cpuVars>>

\* ... and the insertion into the defunct list.
DeleteDefunct ==
    LET x == pc[Main].arg
    IN  /\ Calls(Main, "delDefunct")
        /\ list' = [list EXCEPT ![Defunct] = <<x>> \o @]
        /\ Return(Main)
        /\ UNCHANGED <<threadVars, group, cpuVars>>

-----------------------------------------------------------------------------
(* The idle thread: rt_thread_idle_excute *)

\* It takes the first defunct thread off the list ...
Reap ==
    LET x == Head(list[Defunct])
    IN  /\ Free(Idle)
        /\ list[Defunct] # <<>>
        /\ list' = Unlinked(list, x)
        /\ Goto(Idle, "reapSched", x)
        /\ UNCHANGED <<threadVars, group, cpuVars>>

\* ... reschedules in the rt_exit_critical that follows the cleanup ...
ReapSchedule ==
    /\ Calls(Idle, "reapSched")
    /\ Schedule
    /\ Goto(Idle, "reapFree", pc[Idle].arg)
    /\ UNCHANGED <<prio, armed, slice, lockNest, irqNest, isrSched, cpu>>

\* ... and frees the stack and the object.
ReapFree ==
    /\ Calls(Idle, "reapFree")
    /\ stat' = [stat EXCEPT ![pc[Idle].arg] = "FREED"]
    /\ Return(Idle)
    /\ UNCHANGED <<prio, armed, slice, queueVars, cpuVars>>

-----------------------------------------------------------------------------
(* Interrupts *)

\* A handler executes and is not about to call rt_schedule.
InIsr == irqNest > 0 /\ irqNest \notin isrSched

\* rt_interrupt_enter: a handler may be interrupted anywhere, also between the
\* end of an operation and its rt_schedule.
IsrEnter ==
    /\ irqNest < MaxNest
    /\ irqNest' = irqNest + 1
    /\ UNCHANGED <<threadVars, queueVars, current, lockNest, isrSched, switch,
                   cpu, owed, pc>>

\* rt_interrupt_leave
IsrLeave ==
    /\ InIsr
    /\ irqNest' = irqNest - 1
    /\ UNCHANGED <<threadVars, queueVars, current, lockNest, isrSched, switch,
                   cpu, owed, pc>>

\* The call of rt_schedule a handler ends an operation with.
IsrSchedule ==
    /\ irqNest \in isrSched
    /\ isrSched' = isrSched \ {irqNest}
    /\ Schedule
    /\ UNCHANGED <<prio, armed, slice, lockNest, irqNest, cpu, pc>>

\* rt_tick_increase, up to its rt_thread_yield: the time slice charged is
\* that of rt_current_thread, even while its context is not loaded yet.
Tick ==
    /\ InIsr
    /\ slice' = [slice EXCEPT ![current] = IF @ = 1 THEN Slice ELSE @ - 1]
    /\ isrSched' = IF slice[current] = 1 THEN isrSched \cup {irqNest} ELSE isrSched
    /\ UNCHANGED <<stat, prio, armed, queueVars, current, lockNest, irqNest,
                   switch, cpu, owed, pc>>

\* rt_timer_check reaching the timer of x: it is stopped and
\* rt_thread_timeout called, up to its rt_schedule.
Timeout(x) ==
    /\ InIsr
    /\ armed[x]
    /\ armed' = [armed EXCEPT ![x] = FALSE]
    /\ InsertThread(x, Unlinked(list, x), group, prio[x])
    /\ isrSched' = isrSched \cup {irqNest}
    /\ UNCHANGED <<prio, slice, current, lockNest, irqNest, switch, cpu, owed, pc>>

\* The waking path of the IPC calls, by an interrupt handler.
IsrWake ==
    /\ InIsr
    /\ ResumeWaiter
    /\ isrSched' = isrSched \cup {irqNest}
    /\ UNCHANGED <<prio, slice, current, lockNest, irqNest, switch, cpu, owed, pc>>

\* PendSV_Handler, which has the lowest priority: the thread named by
\* rt_interrupt_from_thread is saved, the other one loaded.
PendSV ==
    /\ switch.flag
    /\ irqNest = 0
    /\ cpu' = switch.to
    /\ switch' = [switch EXCEPT !.flag = FALSE]
    /\ UNCHANGED <<threadVars, queueVars, current, lockNest, irqNest, isrSched,
                   owed, pc>>

-----------------------------------------------------------------------------

\* rt_system_scheduler_start: Main has been chosen, the idle thread is ready,
\* the other threads are initialised and not started.
Init ==
    /\ stat = [t \in Thread |-> IF t = Main THEN "RUNNING"
                                ELSE IF t = Idle THEN "READY" ELSE "INIT"]
    /\ prio = InitPrio
    /\ list = [q \in List |-> IF q = MaxPrio THEN <<Idle>> ELSE <<>>]
    /\ group = {MaxPrio}
    /\ armed = [t \in Thread |-> FALSE]
    /\ slice = [t \in Thread |-> Slice]
    /\ current = Main
    /\ lockNest = 0 /\ irqNest = 0 /\ isrSched = {}
    /\ switch = [flag |-> FALSE, from |-> Main, to |-> Main]
    /\ cpu = Main
    /\ owed = FALSE
    /\ pc = [t \in Thread |-> Idling]

\* What an application thread does.
Work(t) ==
    \/ ThreadSchedule(t)
    \/ Yield(t)
    \/ Wake(t)
    \/ EnterCritical(t)
    \/ ExitCritical(t)
    \/ \E x \in Boostable, p \in BoostLevels : ChangePriority(t, x, p)
    \/ t \in Blocker /\ Block(t, TRUE, FALSE)
    \/ t \in Timed /\ Block(t, t \in Blocker, TRUE)
    \/ t \notin Controlled \cup Deletable \cup {Main} /\ Exit(t)

\* What Main does besides.
Control ==
    \/ \E x \in Thread \ {Idle, Main} : Create(x) \/ Startup(x)
    \/ \E x \in Controlled : ResumeCheck(x) \/ SuspendCheck(x)
    \/ \E x \in Deletable : DeleteUnlink(x)
    \/ ResumeUnlink \/ ResumeInsert \/ Suspend
    \/ DeleteTimer \/ DeleteClose \/ DeleteDefunct

IdleLoop == Reap \/ ReapSchedule \/ ReapFree

Interrupt ==
    \/ IsrEnter \/ IsrLeave \/ IsrSchedule \/ Tick \/ IsrWake
    \/ \E x \in Thread : Timeout(x)

Next ==
    \/ \E t \in Thread \ {Idle} : Work(t)
    \/ Control
    \/ IdleLoop
    \/ Interrupt
    \/ PendSV

Spec == Init /\ [][Next]_vars

\* Fairness: the tick interrupt keeps coming, a handler finishes, a thread that
\* is given the processor again and again completes the call it is in.
LiveSpec ==
    /\ Spec
    /\ SF_vars(IsrEnter) /\ SF_vars(Tick) /\ SF_vars(IsrLeave)
    /\ WF_vars(IsrSchedule) /\ SF_vars(PendSV)
    /\ \A t \in Thread \ {Idle} : SF_vars(ThreadSchedule(t))

-----------------------------------------------------------------------------
(* Properties *)

TypeOK ==
    /\ stat \in [Thread -> Stat]
    /\ prio \in [Thread -> Prio]
    /\ list \in [List -> Seq(Thread)]
    /\ group \in SUBSET Prio
    /\ armed \in [Thread -> BOOLEAN]
    /\ slice \in [Thread -> 1..Slice]
    /\ current \in Thread
    /\ lockNest \in 0..MaxLock
    /\ irqNest \in 0..MaxNest
    /\ isrSched \in SUBSET (1..MaxNest)
    /\ switch \in [flag : BOOLEAN, from : Thread, to : Thread]
    /\ cpu \in Thread
    /\ owed \in BOOLEAN
    /\ pc \in [Thread -> [op : Op, arg : Thread]]

On(q, x) == \E i \in 1..Len(list[q]) : list[q][i] = x
Linked(x) == \E q \in List : On(q, x)

\* Main is inside rt_thread_delete of x.
BeingDeleted(x) ==
    pc[Main].arg = x /\ pc[Main].op \in {"delTimer", "delClose", "delDefunct"}

\* A bit of the ready group is set exactly when the list of its priority has a
\* thread, so rt_schedule never takes the head of an empty list: the insertions
\* and removals keep the two in step, although rt_thread_resume unlinks a node
\* without looking at the bitmap.
ReadyBitmap == \A p \in Prio : p \in group <=> list[p] # <<>>

\* A tlist node is once on one list at most.
OneList ==
    \A q, r \in List : \A i \in 1..Len(list[q]), j \in 1..Len(list[r]) :
      list[q][i] = list[r][j] => q = r /\ i = j

\* The list a node is on is the one thread->stat and the priority call for, and
\* a READY thread is always on one, except while rt_thread_delete takes it away.
ListsMatchStat ==
    \A x \in Thread :
      /\ \A p \in Prio : On(p, x) => prio[x] = p /\ stat[x] = "READY"
      /\ On(Wait, x) => stat[x] = "SUSPEND"
      /\ On(Defunct, x) => stat[x] = "CLOSE"
      /\ stat[x] = "READY" => On(prio[x], x) \/ BeingDeleted(x)

\* rt_schedule is never left without a thread to run: the current thread may be
\* suspended or closed on its way to rt_schedule, but then another one (at worst
\* the idle thread) is ready.
AlwaysRunnable ==
    /\ stat[current] = "RUNNING" \/ group # {}
    /\ \A x \in Thread : stat[x] = "RUNNING" => x = current

\* When a thread is back from the kernel with the scheduler unlocked it is
\* RUNNING, and no thread of a higher priority is ready, whatever handlers and
\* other threads woke meanwhile, also while the scheduler was locked.  The two
\* calls that do not reschedule, rt_thread_resume and a change of priority, are
\* the exception: after them (owed) it holds from the next rt_schedule on.
HighestRuns ==
    \A t \in Thread :
      Free(t) /\ lockNest = 0 =>
        stat[t] = "RUNNING" /\ (~owed => \A p \in group : prio[t] <= p)

\* However many reschedules precede a PendSV, it saves the context of the
\* thread that is really on the processor and loads that of rt_current_thread.
SavesTheRunner ==
    IF switch.flag THEN switch.from = cpu /\ switch.to = current
                   ELSE cpu = current

\* RT_ASSERT(thread->stat == RT_THREAD_SUSPEND) of rt_thread_timeout: only a
\* suspended thread's timer runs.
TimeoutAssertion == \A x \in Thread : armed[x] => stat[x] = "SUSPEND"

\* The idle thread frees no stack that is still in use: the thread is on no
\* list, its timer is stopped, and it is neither on the processor nor the thread
\* a pending switch saves or loads.
NoUseAfterFree ==
    \A x \in Thread :
      stat[x] = "FREED" =>
        /\ ~Linked(x) /\ ~armed[x]
        /\ x \notin {current, cpu}
        /\ switch.flag => x \notin {switch.from, switch.to}

\* While the scheduler is locked no other thread gets the processor.
LockPinsCpu == [][lockNest > 0 => cpu' = cpu /\ current' = current]_vars

\* rt_thread_delete's promise, "the thread object will be removed from thread
\* queue": a closed thread is on no ready list.
DeletedIsDequeued ==
    \A x \in Thread : stat[x] = "CLOSE" => \A p \in Prio : ~On(p, x)

\* Time slices share the processor: a ready thread becomes the current one,
\* unless it stops being ready or a thread of a higher priority is runnable.
RoundRobin ==
    \A x \in Thread :
      stat[x] = "READY" ~>
        \/ current = x \/ stat[x] # "READY"
        \/ \E y \in Thread : stat[y] \in {"READY", "RUNNING"} /\ prio[y] < prio[x]

=============================================================================
