---------------------------- MODULE SchedulerProofs ----------------------------
(***************************************************************************)
(* The safety of the scheduler: of the deferred context switch for any     *)
(* roles of the threads, of the lists and the statuses for roles that keep *)
(* the kernel's discipline: a thread that another one suspends and resumes *)
(* does not block by itself, and one that is deleted has no timer and no    *)
(* priority that others change.  Module Scheduler's run scheduler_delete    *)
(* shows what happens without it.                                          *)
(***************************************************************************)
EXTENDS Scheduler, ListTheorems

-----------------------------------------------------------------------------
(* The deferred context switch: PendSV saves and loads the right contexts, *)
(* and the scheduler lock pins the processor, for any roles.               *)

\* The shape of the record, and the scheduler lock against the pending switch:
\* rt_schedule does nothing while it is held, and it is taken by a thread that
\* executes, hence with no switch pending.
SwitchInv ==
    /\ switch \in [flag : BOOLEAN, from : {switch.from}, to : {switch.to}]
    /\ lockNest \in Nat
    /\ lockNest > 0 => ~switch.flag
    /\ SavesTheRunner

\* rt_schedule keeps SwitchInv.
LEMMA ScheduleSwitch ==
    ASSUME SwitchInv, Schedule, UNCHANGED <<lockNest, cpu>>
    PROVE  SwitchInv'
<1>1. CASE UNCHANGED <<current, switch>>
  BY <1>1 DEF SwitchInv, SavesTheRunner
<1>2. CASE lockNest = 0 /\ SwitchTo(Chosen)
  <2>1. current' = Chosen /\ ContextSwitch(current, Chosen)
    BY <1>2 DEF SwitchTo
  <2> QED
    BY <1>2, <2>1 DEF SwitchInv, SavesTheRunner, ContextSwitch
<1> QED
  BY <1>1, <1>2 DEF Schedule

\* rt_system_scheduler_start leaves no switch pending.
LEMMA InitSwitch == Init => SwitchInv
  BY DEF Init, SwitchInv, SavesTheRunner

\* Every step keeps SwitchInv.
LEMMA NextSwitch == SwitchInv /\ [Next]_vars => SwitchInv'
<1> SUFFICES ASSUME SwitchInv, [Next]_vars PROVE SwitchInv'
  OBVIOUS
<1>1. CASE UNCHANGED <<current, switch, lockNest, cpu>>
  BY <1>1 DEF SwitchInv, SavesTheRunner
<1>2. CASE Schedule /\ UNCHANGED <<lockNest, cpu>>
  BY <1>2, ScheduleSwitch
<1>3. ASSUME NEW t, EnterCritical(t) PROVE SwitchInv'
  BY <1>3 DEF EnterCritical, Free, Calls, Executes, SwitchInv, SavesTheRunner
<1>4. ASSUME NEW t, ExitCritical(t) PROVE SwitchInv'
  BY <1>4 DEF ExitCritical, Free, Calls, Executes, SwitchInv, SavesTheRunner
<1>5. CASE PendSV
  BY <1>5 DEF PendSV, SwitchInv, SavesTheRunner
<1>6. ASSUME NEW t \in Thread \ {Idle}, Work(t) PROVE SwitchInv'
  <2>1. CASE ThreadSchedule(t) \/ Yield(t)
    BY <1>2, <2>1 DEF ThreadSchedule, Yield
  <2>2. CASE EnterCritical(t) \/ ExitCritical(t)
    BY <1>3, <1>4, <2>2
  <2>3. CASE Wake(t) \/ Exit(t)
    BY <1>1, <2>3 DEF Wake, Exit, cpuVars
  <2>4. ASSUME NEW x, NEW p, ChangePriority(t, x, p) PROVE SwitchInv'
    BY <1>1, <2>4 DEF ChangePriority, cpuVars
  <2>5. ASSUME NEW l, NEW timed, Block(t, l, timed) PROVE SwitchInv'
    BY <1>1, <2>5 DEF Block, cpuVars
  <2> QED
    BY <1>6, <2>1, <2>2, <2>3, <2>4, <2>5 DEF Work
<1>7. CASE Control
  <2>1. ASSUME NEW x, Create(x) \/ Startup(x) \/ ResumeCheck(x) \/ SuspendCheck(x)
                      \/ DeleteUnlink(x)
        PROVE  UNCHANGED cpuVars
    BY <2>1 DEF Create, Startup, ResumeCheck, SuspendCheck, DeleteUnlink
  <2>2. CASE ResumeUnlink \/ ResumeInsert \/ Suspend \/ DeleteTimer \/ DeleteClose
             \/ DeleteDefunct
    BY <1>1, <2>2 DEF ResumeUnlink, ResumeInsert, Suspend, DeleteTimer, DeleteClose,
                      DeleteDefunct, cpuVars
  <2> QED
    BY <1>1, <1>7, <2>1, <2>2 DEF Control, cpuVars
<1>8. CASE IdleLoop
  BY <1>1, <1>2, <1>8 DEF IdleLoop, Reap, ReapSchedule, ReapFree, cpuVars
<1>9. CASE Interrupt
  <2>1. CASE IsrSchedule
    BY <1>2, <2>1 DEF IsrSchedule
  <2>2. CASE IsrEnter \/ IsrLeave \/ Tick \/ IsrWake
    BY <1>1, <2>2 DEF IsrEnter, IsrLeave, Tick, IsrWake
  <2>3. ASSUME NEW x, Timeout(x) PROVE SwitchInv'
    BY <1>1, <2>3 DEF Timeout
  <2> QED
    BY <1>9, <2>1, <2>2, <2>3 DEF Interrupt
<1>10. CASE UNCHANGED vars
  BY <1>1, <1>10 DEF vars, cpuVars
<1> QED
  BY <1>5, <1>6, <1>7, <1>8, <1>9, <1>10 DEF Next

\* PendSV saves the thread that is on the processor and loads the one rt_schedule
\* chose last, however many reschedules came before it.
THEOREM SavesTheRunnerHolds == Spec => []SavesTheRunner
<1>1. SwitchInv => SavesTheRunner
  BY DEF SwitchInv
<1> QED
  BY InitSwitch, NextSwitch, <1>1, PTL DEF Spec

\* No other thread gets the processor while the scheduler is locked.
THEOREM LockPinsCpuHolds == Spec => LockPinsCpu
<1> DEFINE Pinned == lockNest > 0 => cpu' = cpu /\ current' = current
<1>1. SwitchInv /\ [Next]_vars => [Pinned]_vars
  <2> SUFFICES ASSUME SwitchInv, Next, lockNest > 0
               PROVE  cpu' = cpu /\ current' = current
    BY DEF vars
  <2>1. lockNest # 0 /\ ~switch.flag
    BY DEF SwitchInv
  <2>2. Schedule => UNCHANGED current
    BY <2>1 DEF Schedule
  <2>3. ASSUME NEW t \in Thread \ {Idle}, Work(t) PROVE UNCHANGED <<cpu, current>>
    BY <2>2, <2>3 DEF Work, ThreadSchedule, Yield, Wake, EnterCritical, ExitCritical,
                      ChangePriority, Block, Exit, cpuVars
  <2>4. CASE Control
    BY <2>4 DEF Control, Create, Startup, ResumeCheck, SuspendCheck, DeleteUnlink,
                ResumeUnlink, ResumeInsert, Suspend, DeleteTimer, DeleteClose,
                DeleteDefunct, cpuVars
  <2>5. CASE IdleLoop \/ Interrupt
    BY <2>2, <2>5 DEF IdleLoop, Reap, ReapSchedule, ReapFree, Interrupt, IsrEnter,
                      IsrLeave, IsrSchedule, Tick, IsrWake, Timeout, cpuVars
  <2>6. ~PendSV
    BY <2>1 DEF PendSV
  <2> QED
    BY <2>3, <2>4, <2>5, <2>6 DEF Next
<1> QED
  BY InitSwitch, NextSwitch, <1>1, PTL DEF Spec, LockPinsCpu

-----------------------------------------------------------------------------
(* The lists, the bitmap and the status of the threads. *)

Disciplined ==
    /\ Controlled \cap (Blocker \cup Timed) = {}
    /\ Deletable \cap (Timed \cup Boostable) = {}

\* The lists the node of x is on.
At(l, x) == {q \in List : x \in Elements(l[q])}

\* Lists l without repetition, and a bitmap g that agrees with them.
Tidy(l, g) ==
    /\ l \in [List -> Seq(Thread)]
    /\ \A q \in List : Distinct(l[q])
    /\ g \in SUBSET Prio
    /\ \A p \in Prio : p \in g <=> \E y \in Thread : p \in At(l, y)

\* The type of what no list is part of.
Types ==
    /\ stat \in [Thread -> Stat]
    /\ prio \in [Thread -> Prio]
    /\ armed \in [Thread -> BOOLEAN]
    /\ slice \in [Thread -> 1..Slice]
    /\ current \in Thread
    /\ lockNest \in 0..MaxLock
    /\ irqNest \in 0..MaxNest
    /\ isrSched \in SUBSET (1..MaxNest)
    /\ owed \in BOOLEAN
    /\ switch \in [flag : BOOLEAN, from : Thread, to : Thread]
    /\ cpu \in Thread
    /\ pc \in [Thread -> [op : Op, arg : Thread]]

\* stat and prio tell where the node of a thread is.
PlacedAt(x) ==
    /\ stat[x] = "READY" => At(list, x) = IF BeingDeleted(x) THEN {} ELSE {prio[x]}
    /\ stat[x] = "SUSPEND" => At(list, x) \subseteq (IF x \in Blocker THEN {Wait} ELSE {})
    /\ stat[x] = "CLOSE" => At(list, x) \subseteq {Defunct}
    /\ stat[x] \in {"INIT", "RUNNING", "FREED"} => At(list, x) = {}
    /\ armed[x] => stat[x] = "SUSPEND" /\ x \in Timed

Placed == \A x \in Thread : PlacedAt(x)

\* rt_current_thread, the idle thread, and the threads that do not run.
Runner ==
    /\ \A x \in Thread : stat[x] = "RUNNING" => x = current
    /\ \A x \in Thread : stat[x] \in {"INIT", "FREED"} => x \notin {current, cpu}
    /\ stat[current] # "READY"
    /\ stat[current] = "CLOSE" => lockNest = 0
    /\ stat[Idle] \in {"READY", "RUNNING"}
    /\ isrSched \subseteq 1..irqNest

\* What Main relies on between the steps of its calls.
MainHolds ==
    LET x == pc[Main].arg
        op == pc[Main].op
    IN  /\ op \in {"unlink", "insert", "startUnlink", "startInsert"} =>
             /\ stat[x] = "SUSPEND" /\ At(list, x) = {} /\ ~armed[x]
             /\ x \notin {Main, current, cpu}
        /\ op = "suspend" => x \in Controlled /\ stat[x] \in {"READY", "RUNNING"}
        /\ op \in {"delTimer", "delClose"} => stat[x] \in {"INIT", "SUSPEND", "READY"}
        /\ op = "delDefunct" => stat[x] = "CLOSE"
        /\ op \in {"delTimer", "delClose", "delDefunct"} =>
             /\ x \in Deletable /\ At(list, x) = {} /\ x \notin {current, cpu}

\* What the idle thread relies on between the steps of its loop.
IdleHolds ==
    pc[Idle].op \in {"reapSched", "reapFree"} =>
      /\ stat[pc[Idle].arg] = "CLOSE" /\ At(list, pc[Idle].arg) = {}
      /\ ~BeingDeleted(pc[Idle].arg)

\* A reschedule is under way, or it is not needed, or it is owed.
Rescheduled ==
    lockNest = 0 /\ isrSched = {} /\ (switch.flag \/ pc[cpu].op # "sched") =>
      /\ stat[current] = "RUNNING"
      /\ owed \/ \A p \in group : prio[current] <= p

Safe ==
    /\ Types /\ Tidy(list, group)
    /\ Placed /\ Runner /\ MainHolds /\ IdleHolds /\ Rescheduled

SchedInv == SwitchInv /\ Safe

-----------------------------------------------------------------------------
(* What the list operations do to the place of every thread *)

\* The numbers of the lists are distinct.
LEMMA Numbers ==
    /\ Prio \subseteq List /\ Wait \in List \ Prio /\ Defunct \in List \ Prio
    /\ Wait # Defunct
    /\ MaxPrio \in Prio
  BY SchedulerAssumption DEF Prio, List, Wait, Defunct

\* Unlinking x takes it off every list and leaves the others in their place.
LEMMA UnlinkedAt ==
    ASSUME NEW l \in [List -> Seq(Thread)], \A q \in List : Distinct(l[q]), NEW x
    PROVE  /\ Unlinked(l, x) \in [List -> Seq(Thread)]
           /\ \A q \in List : Distinct(Unlinked(l, x)[q])
           /\ \A y : At(Unlinked(l, x), y) = IF y = x THEN {} ELSE At(l, y)
<1>1. ASSUME NEW q \in List
      PROVE  /\ Without(l[q], x) \in Seq(Thread)
             /\ Distinct(Without(l[q], x))
             /\ Elements(Without(l[q], x)) = Elements(l[q]) \ {x}
  BY l[q] \in Seq(Thread), WithoutElements, WithoutDistinct
<1> QED
  BY <1>1 DEF Unlinked, At

\* The lists m are the lists l with x added to l[q].
Gains(m, l, q, x) ==
    /\ m \in [List -> Seq(Thread)]
    /\ \A r \in List : Distinct(m[r])
    /\ \A y : At(m, y) = IF y = x THEN {q} ELSE At(l, y)

\* Linking x, at either end, leaves the others in their place.
LEMMA LinkedAt ==
    ASSUME NEW l \in [List -> Seq(Thread)], \A q \in List : Distinct(l[q]),
           NEW x \in Thread, At(l, x) = {}, NEW q \in List
    PROVE  /\ Gains(Appended(l, q, x), l, q, x)
           /\ Gains([l EXCEPT ![q] = <<x>> \o @], l, q, x)
<1>1. l[q] \in Seq(Thread) /\ Distinct(l[q]) /\ x \notin Elements(l[q])
  BY DEF At
<1>2. ASSUME NEW w \in Seq(Thread), Distinct(w), Elements(w) = Elements(l[q]) \cup {x}
      PROVE  Gains([l EXCEPT ![q] = w], l, q, x)
  BY <1>2 DEF Gains, At
<1>3. Gains(Appended(l, q, x), l, q, x)
  <2>1. /\ Append(l[q], x) \in Seq(Thread) /\ Distinct(Append(l[q], x))
        /\ Elements(Append(l[q], x)) = Elements(l[q]) \cup {x}
    BY <1>1, AppendElements
  <2> QED
    BY <1>2, <2>1 DEF Appended
<1>4. Gains([l EXCEPT ![q] = <<x>> \o @], l, q, x)
  <2>1. /\ <<x>> \o l[q] \in Seq(Thread) /\ Distinct(<<x>> \o l[q])
        /\ Elements(<<x>> \o l[q]) = Elements(l[q]) \cup {x}
    BY <1>1, PushElements
  <2> QED
    BY <1>2, <2>1
<1> QED
  BY <1>3, <1>4

\* rt_schedule_remove_thread keeps lists and bitmap in step.
LEMMA UnlinkTidy ==
    ASSUME NEW l, NEW g, Tidy(l, g), NEW x, NEW p \in Prio, At(l, x) \cap Prio \subseteq {p}
    PROVE  Tidy(Unlinked(l, x), ClearedBit(g, Unlinked(l, x), p))
<1> DEFINE m == Unlinked(l, x)
<1>1. /\ m \in [List -> Seq(Thread)]
      /\ \A q \in List : Distinct(m[q])
      /\ \A y : At(m, y) = IF y = x THEN {} ELSE At(l, y)
  BY UnlinkedAt DEF Tidy
<1> HIDE DEF m
<1>2. m[p] = <<>> <=> \A y \in Thread : p \notin At(m, y)
  BY <1>1, HeadElement, Numbers, m[p] \in Seq(Thread) DEF At
<1>3. ASSUME NEW r \in Prio
      PROVE  r \in ClearedBit(g, m, p) <=> \E y \in Thread : r \in At(m, y)
  <2>1. CASE r = p
    BY <1>1, <1>2, <2>1 DEF Tidy, ClearedBit
  <2>2. CASE r # p
    BY <1>1, <2>2 DEF Tidy, ClearedBit
  <2> QED
    BY <2>1, <2>2
<1> QED
  BY <1>1, <1>3 DEF Tidy, ClearedBit, m

\* A thread that is on no ready list is unlinked without a look at the bitmap.
LEMMA UnlinkWaiting ==
    ASSUME NEW l, NEW g, Tidy(l, g), NEW x, At(l, x) \cap Prio = {}
    PROVE  Tidy(Unlinked(l, x), g)
  BY UnlinkedAt DEF Tidy

\* A thread that is on no list is put on one, and the bit is set.
LEMMA LinkTidy ==
    ASSUME NEW l, NEW g, Tidy(l, g), NEW x \in Thread, NEW q \in List,
           NEW m, Gains(m, l, q, x), At(l, x) = {}
    PROVE  Tidy(m, IF q \in Prio THEN g \cup {q} ELSE g)
  BY DEF Tidy, Gains

\* The head of a list is a thread that is on it, and a bit stands for one.
LEMMA HeadAt ==
    ASSUME NEW l, NEW g, Tidy(l, g)
    PROVE  /\ \A q \in List : l[q] # <<>> => Head(l[q]) \in Thread /\ q \in At(l, Head(l[q]))
           /\ \A p \in g : l[p] # <<>>
           /\ \A q \in List : l[q] # <<>> <=> \E y \in Thread : q \in At(l, y)
<1>1. ASSUME NEW q \in List
      PROVE  /\ l[q] # <<>> => Head(l[q]) \in Thread /\ Head(l[q]) \in Elements(l[q])
             /\ l[q] = <<>> <=> Elements(l[q]) = {}
             /\ Elements(l[q]) \subseteq Thread
  BY HeadElement, l[q] \in Seq(Thread) DEF Tidy
<1> QED
  BY <1>1, Numbers DEF Tidy, At

\* _get_highest_priority_thread finds the lowest bit of a bitmap that is not zero.
LEMMA HighestIsLowest ==
    ASSUME group \in SUBSET Prio, group # {}
    PROVE  Highest \in group /\ \A r \in group : Highest <= r
<1>1. MaxPrio \in Nat /\ group \in SUBSET (0..MaxPrio)
  BY SchedulerAssumption DEF Prio
<1>2. \E p \in group : \A r \in group : p <= r
  BY <1>1, LeastElement
<1> QED
  BY <1>2 DEF Highest

-----------------------------------------------------------------------------
(* What the scheduler's operations do to the lists, the bitmap and stat *)

\* x goes to place, the lists it is on after the step; nobody else moves.
Moves(x, place) ==
    /\ Tidy(list', group')
    /\ \A y : At(list', y) = IF y = x THEN place ELSE At(list, y)

\* rt_schedule_remove_thread takes x off its list and adds no bit.
LEMMA RemoveEffect ==
    ASSUME Tidy(list, group), NEW x \in Thread, prio[x] \in Prio,
           At(list, x) \cap Prio \subseteq {prio[x]}, RemoveThread(x)
    PROVE  Moves(x, {}) /\ group' \subseteq group
<1>1. Tidy(list', group')
  BY UnlinkTidy DEF RemoveThread
<1>2. \A y : At(list', y) = IF y = x THEN {} ELSE At(list, y)
  BY UnlinkedAt DEF RemoveThread, Tidy
<1> QED
  BY <1>1, <1>2 DEF Moves, RemoveThread, ClearedBit

\* rt_schedule_insert_thread puts x on the list of its priority, or, if it is the
\* current thread, on none.
LEMMA InsertEffect ==
    ASSUME NEW x \in Thread, NEW p \in Prio, NEW l, NEW g, Tidy(l, g),
           \A y : At(l, y) = IF y = x THEN {} ELSE At(list, y),
           InsertThread(x, l, g, p)
    PROVE  /\ Moves(x, IF x = current THEN {} ELSE {p})
           /\ stat' = [stat EXCEPT ![x] = IF x = current THEN "RUNNING" ELSE "READY"]
           /\ group' \subseteq g \cup {p}
           /\ x = current => group' = g
<1>1. CASE x = current
  BY <1>1 DEF InsertThread, Moves
<1>2. CASE x # current
  <2>1. At(l, x) = {} /\ p \in List
    BY Numbers
  <2>2. Gains(Appended(l, p, x), l, p, x)
    BY <2>1, LinkedAt DEF Tidy
  <2>3. Tidy(Appended(l, p, x), g \cup {p})
    BY <2>1, <2>2, LinkTidy
  <2>4. Tidy(list', group')
    BY <1>2, <2>3 DEF InsertThread
  <2> QED
    BY <1>2, <2>2, <2>4 DEF InsertThread, Moves, Gains
<1> QED
  BY <1>1, <1>2

\* rt_schedule keeps the current thread, which is then the right one unless the
\* scheduler is locked, ...
Stays ==
    /\ UNCHANGED <<stat, current, switch>>
    /\ Tidy(list', group') /\ \A y : At(list', y) = At(list, y)
    /\ group' \subseteq group
    /\ lockNest = 0 => stat[current] = "RUNNING" /\ \A p \in group : prio[current] <= p

\* ... or changes it for a thread of the highest ready priority.
Switches(to) ==
    /\ lockNest = 0
    /\ stat[to] = "READY" /\ At(list, to) # {}
    /\ current' = to
    /\ stat' = [stat EXCEPT ![current] = IF stat[current] = "RUNNING" THEN "READY" ELSE @,
                            ![to] = "RUNNING"]
    /\ Tidy(list', group')
    /\ \A y : At(list', y) = IF y = to THEN {}
                             ELSE IF y = current /\ stat[y] = "RUNNING" THEN {prio[y]}
                             ELSE At(list, y)
    /\ \A p \in group' : prio[to] <= p
    /\ ContextSwitch(current, to)

\* rt_schedule does one of the two, and stands still only when it is right to: the
\* idle thread makes sure that there is a thread to choose.
LEMMA ScheduleEffect ==
    ASSUME SchedInv, Schedule, Disciplined
    PROVE  Stays \/ \E to \in Thread : Switches(to)
<1> USE DEF SchedInv, Safe
<1>1. /\ current \in Thread /\ Idle \in Thread
      /\ prio[current] \in Prio /\ prio[current] \in Int
      /\ group \subseteq Prio /\ \A r \in group : r \in Int
  BY SchedulerAssumption DEF Types, Tidy, Prio
<1>2. CASE UNCHANGED <<stat, list, group, current, switch>> /\ lockNest # 0
  BY <1>2 DEF Stays
<1>3. CASE UNCHANGED <<stat, list, group, current, switch>> /\ group = {}
  <2>1. prio[Idle] \notin At(list, Idle)
    BY <1>1, <1>3 DEF Types, Tidy
  <2>2. ~BeingDeleted(Idle)
    BY SchedulerAssumption DEF MainHolds, BeingDeleted
  <2>3. stat[Idle] = "RUNNING"
    BY <1>1, <2>1, <2>2 DEF Placed, PlacedAt, Runner
  <2> QED
    BY <1>1, <1>3, <2>3 DEF Stays, Runner
<1>4. CASE lockNest = 0 /\ group # {}
  <2> DEFINE h == Head(list[Highest])
  <2>1. /\ Highest \in group /\ Highest \in Prio /\ Highest \in Int
        /\ \A r \in group : Highest <= r
    BY <1>1, <1>4, HighestIsLowest
  <2>2. h \in Thread /\ Highest \in At(list, h)
    BY <2>1, HeadAt, Numbers
  <2>3. stat[h] = "READY" /\ prio[h] = Highest /\ At(list, h) = {Highest}
    BY <2>1, <2>2, Numbers DEF Placed, PlacedAt, Types, Stat
  <2>4. h # current
    BY <2>3 DEF Runner
  <2>5. CASE Chosen = current
    <3>1. stat[current] = "RUNNING" /\ prio[current] < Highest
      BY <2>4, <2>5 DEF Chosen
    <3>2. RemoveThread(current) /\ UNCHANGED <<current, switch>>
             /\ stat' = [stat EXCEPT ![current] = "RUNNING"]
      BY <1>4, <2>5 DEF Schedule
    <3>3. At(list, current) = {}
      BY <1>1, <3>1 DEF Placed, PlacedAt
    <3>4. Moves(current, {}) /\ group' \subseteq group
      BY <1>1, <3>2, <3>3, RemoveEffect
    <3>5. stat' = stat
      BY <3>1, <3>2 DEF Types
    <3>6. \A p \in group : prio[current] <= p
      BY <1>1, <2>1, <3>1
    <3> QED
      BY <3>1, <3>2, <3>3, <3>4, <3>5, <3>6 DEF Stays, Moves
  <2>6. CASE Chosen # current
    <3>1. Chosen = h /\ SwitchTo(h)
      BY <1>4, <2>6 DEF Chosen, Schedule
    <3>2. stat[current] = "RUNNING" => Highest <= prio[current]
      BY <1>1, <2>1, <2>6 DEF Chosen
    <3> HIDE DEF h
    <3> DEFINE requeue == stat[current] = "RUNNING"
               l == IF requeue THEN Appended(list, prio[current], current) ELSE list
               g == IF requeue THEN group \cup {prio[current]} ELSE group
    <3>3. /\ Tidy(l, g)
          /\ \A y : At(l, y) = IF y = current /\ requeue THEN {prio[y]} ELSE At(list, y)
      <4>1. CASE requeue
        <5>1. At(list, current) = {} /\ prio[current] \in List
          BY <1>1, <4>1, Numbers DEF Placed, PlacedAt
        <5>2. Gains(Appended(list, prio[current], current), list, prio[current], current)
          BY <1>1, <5>1, LinkedAt DEF Tidy
        <5>3. Tidy(Appended(list, prio[current], current), group \cup {prio[current]})
          BY <1>1, <5>1, <5>2, LinkTidy
        <5> QED
          BY <4>1, <5>2, <5>3 DEF Gains
      <4> QED
        BY <4>1
    <3>4. At(l, h) \cap Prio \subseteq {prio[h]} /\ prio[h] \in Prio
      BY <2>1, <2>3, <2>4, <3>3
    <3>5. list' = Unlinked(l, h) /\ group' = ClearedBit(g, list', prio[h])
      BY <3>1 DEF SwitchTo
    <3> HIDE DEF l, g
    <3>6. Tidy(list', group')
      BY <3>3, <3>4, <3>5, UnlinkTidy
    <3>7. \A y : At(list', y) = IF y = h THEN {} ELSE At(l, y)
      BY <3>3, <3>5, UnlinkedAt DEF Tidy
    <3>8. \A p \in group' : prio[h] <= p
      BY <1>1, <2>1, <2>3, <3>2, <3>5 DEF g, ClearedBit
    <3>9. Switches(h)
      BY <1>4, <2>3, <2>4, <3>1, <3>3, <3>6, <3>7, <3>8 DEF Switches, SwitchTo
    <3> QED
      BY <2>2, <3>9
  <2> QED
    BY <2>5, <2>6
<1> QED
  BY <1>2, <1>3, <1>4 DEF Schedule

-----------------------------------------------------------------------------
(* The invariant is inductive *)

\* rt_system_scheduler_start establishes the invariant.
LEMMA InitSafe == Init => Safe
<1> SUFFICES ASSUME Init PROVE Safe
  OBVIOUS
<1>1. Types
  <2>1. Slice \in 1..Slice /\ 0 \in 0..MaxLock /\ 0 \in 0..MaxNest
    BY SchedulerAssumption
  <2>2. Idling \in [op : Op, arg : Thread]
    BY SchedulerAssumption DEF Idling, Op
  <2> QED
    BY <2>1, <2>2, SchedulerAssumption DEF Init, Types, Stat
<1>2. /\ list \in [List -> Seq(Thread)]
      /\ \A q \in List : Distinct(list[q])
      /\ \A x : At(list, x) = IF x = Idle THEN {MaxPrio} ELSE {}
  <2>1. Elements(<<>>) = {} /\ Distinct(<<>>)
    BY DEF Elements, Distinct
  <2>2. Elements(<<Idle>>) = {Idle} /\ Distinct(<<Idle>>)
    BY DEF Elements, Distinct
  <2> QED
    BY <2>1, <2>2, Numbers, SchedulerAssumption DEF Init, At
<1>3. Tidy(list, group)
  BY <1>2, Numbers, SchedulerAssumption DEF Init, Tidy
<1>4. Placed /\ Runner /\ MainHolds /\ IdleHolds
  BY <1>2, SchedulerAssumption
     DEF Init, Placed, PlacedAt, Runner, MainHolds, IdleHolds, BeingDeleted, Idling
<1>5. Rescheduled
  BY SchedulerAssumption DEF Init, Rescheduled, Prio
<1> QED
  BY <1>1, <1>3, <1>4, <1>5 DEF Safe

\* A thread that executes is the current one; back from its kernel calls with
\* the scheduler unlocked, it is the RUNNING one.
LEMMA ExecutesCurrent ==
    ASSUME SchedInv, NEW t, Executes(t)
    PROVE  /\ t = current /\ t = cpu /\ ~switch.flag /\ isrSched = {}
           /\ lockNest = 0 /\ pc[t].op # "sched" => stat[t] = "RUNNING"
  BY DEF SchedInv, Safe, SwitchInv, SavesTheRunner, Executes, Runner, Rescheduled

\* Main and the idle thread are not in the middle of a call that holds a thread,
\* or stay where they are in it.
Aside ==
    \A m \in {Main, Idle} :
      \/ pc'[m] = pc[m]
      \/ {pc[m].op, pc'[m].op} \subseteq {"run", "sched"}
      \/ /\ {pc[m].op, pc'[m].op} \subseteq {"reapSched", "reapFree"}
         /\ pc'[m].arg = pc[m].arg

\* Such a step neither begins nor goes on with an rt_thread_delete.
LEMMA AsideDeletes ==
    ASSUME Aside
    PROVE  \A x : BeingDeleted(x)' <=> BeingDeleted(x)
  BY DEF Aside, BeingDeleted

\* No thread moves, and stat, prio and the timers stay as they are.
Still ==
    /\ UNCHANGED <<stat, prio, armed, current>>
    /\ Tidy(list', group') /\ \A y : At(list', y) = At(list, y)

\* A step that moves no thread keeps the invariant if no reschedule is missed.
LEMMA StillKeeps ==
    ASSUME SchedInv, Still, Aside, Types', cpu' \in {cpu, current}, Rescheduled',
           isrSched' \subseteq 1..irqNest', stat[current] = "CLOSE" => lockNest' = 0
    PROVE  Safe'
<1> USE AsideDeletes DEF SchedInv, Safe, Still
<1>1. Placed'
  BY DEF Placed, PlacedAt
<1>2. Runner'
  BY DEF Runner
<1>3. MainHolds' /\ IdleHolds'
  BY DEF MainHolds, IdleHolds, Runner, Aside
<1> QED
  BY <1>1, <1>2, <1>3

\* Entering and leaving a handler, the tick up to its yield, and PendSV.
LEMMA IsrStep ==
    ASSUME SchedInv, IsrEnter \/ IsrLeave \/ Tick \/ PendSV
    PROVE  Safe'
<1> USE DEF SchedInv, Safe
<1>0. /\ irqNest \in Nat /\ MaxNest \in Nat /\ irqNest <= MaxNest
      /\ isrSched \subseteq 1..irqNest
  BY SchedulerAssumption DEF Types, Runner
<1>1. CASE IsrEnter \/ IsrLeave
  <2>1. irqNest' \in 0..MaxNest /\ isrSched' = isrSched /\ isrSched \subseteq 1..irqNest'
    <3>1. CASE IsrEnter
      BY <1>0, <3>1 DEF IsrEnter
    <3>2. CASE IsrLeave
      <4>1. irqNest > 0 /\ irqNest \notin isrSched /\ irqNest' = irqNest - 1
            /\ isrSched' = isrSched
        BY <3>2 DEF IsrLeave, InIsr
      <4> QED
        BY <1>0, <4>1
    <3> QED
      BY <1>1, <3>1, <3>2
  <2>2. Types' /\ Rescheduled'
    BY <1>1, <2>1 DEF IsrEnter, IsrLeave, Types, threadVars, queueVars, Rescheduled
  <2> QED
    BY <1>1, <2>1, <2>2, StillKeeps
       DEF IsrEnter, IsrLeave, Still, Aside, Runner, threadVars, queueVars
<1>2. CASE Tick
  <2>0. /\ irqNest \in 1..irqNest /\ irqNest' = irqNest
        /\ isrSched' \subseteq 1..irqNest /\ isrSched \subseteq isrSched'
        /\ 1..irqNest \subseteq 1..MaxNest
    BY <1>0, <1>2 DEF Tick, InIsr
  <2>1. Types'
    <3>1. slice' \in [Thread -> 1..Slice]
      BY <1>2, SchedulerAssumption DEF Tick, Types
    <3> QED
      BY <1>2, <2>0, <3>1 DEF Tick, Types, queueVars
  <2>2. Rescheduled' /\ isrSched' \subseteq 1..irqNest'
    BY <1>2, <2>0 DEF Tick, queueVars, Rescheduled
  <2> QED
    BY <1>2, <2>1, <2>2, StillKeeps DEF Tick, Still, Aside, Runner, queueVars
<1>3. CASE PendSV
  <2>1. Types'
    BY <1>3 DEF PendSV, Types, threadVars
  <2>2. Rescheduled' /\ isrSched' = {} /\ cpu' = current
    BY <1>3 DEF PendSV, Types, Runner, threadVars, queueVars, Rescheduled, SwitchInv, SavesTheRunner
  <2> QED
    BY <1>3, <2>1, <2>2, StillKeeps DEF PendSV, Still, Aside, Runner, threadVars, queueVars
<1> QED
  BY <1>1, <1>2, <1>3

\* What the calls of a thread do to its program counter.
LEMMA WorkPc ==
    ASSUME SchedInv, NEW t \in Thread, Free(t) \/ Calls(t, "sched"),
           ThenSchedule(t) \/ Return(t) \/ UNCHANGED pc
    PROVE  /\ Aside
           /\ pc' \in [Thread -> [op : Op, arg : Thread]]
           /\ ThenSchedule(t) => pc'[t].op = "sched"
           /\ pc[t].op \in {"run", "sched"}
<1>1. pc[t].op \in {"run", "sched"} /\ pc \in [Thread -> [op : Op, arg : Thread]]
  BY DEF SchedInv, Safe, Types, Free, Calls
<1>2. ThenSchedule(t) => pc'[t].op = "sched"
  BY <1>1 DEF ThenSchedule, Goto
<1>3. Aside /\ pc' \in [Thread -> [op : Op, arg : Thread]]
  <2>1. CASE ThenSchedule(t)
    BY <1>1, <2>1 DEF ThenSchedule, Goto, Aside, Op
  <2>2. CASE Return(t)
    BY <1>1, <2>2, SchedulerAssumption DEF Return, Idling, Aside, Op
  <2>3. CASE UNCHANGED pc
    BY <1>1, <2>3 DEF Aside
  <2> QED
    BY <2>1, <2>2, <2>3
<1> QED
  BY <1>1, <1>2, <1>3

\* rt_enter_critical, and rt_exit_critical up to its rt_schedule.
LEMMA LockStep ==
    ASSUME SchedInv, NEW t \in Thread, EnterCritical(t) \/ ExitCritical(t)
    PROVE  Safe'
<1> USE DEF SchedInv, Safe
<1>1. t = current /\ t = cpu /\ ~switch.flag /\ isrSched = {} /\ Free(t)
      /\ (lockNest = 0 => stat[t] = "RUNNING")
  BY ExecutesCurrent DEF EnterCritical, ExitCritical, Free, Calls
<1>2. Aside /\ pc' \in [Thread -> [op : Op, arg : Thread]]
      /\ (ThenSchedule(t) => pc'[t].op = "sched")
  BY <1>1, WorkPc DEF EnterCritical, ExitCritical
<1>3. Still /\ UNCHANGED <<isrSched, irqNest, cpu, slice, switch, owed>>
  BY DEF EnterCritical, ExitCritical, Still, threadVars, queueVars
<1>4. Types'
  BY <1>2, <1>3, SchedulerAssumption DEF EnterCritical, ExitCritical, Types, Still
<1>5. stat[current] = "CLOSE" => lockNest' = 0
  BY <1>1 DEF EnterCritical, ExitCritical, Runner, Types
<1>6. Rescheduled'
  BY <1>1, <1>2, <1>3 DEF EnterCritical, ExitCritical, Rescheduled, Types
<1> QED
  BY <1>2, <1>3, <1>4, <1>5, <1>6, StillKeeps DEF Runner

\* rt_schedule keeps the invariant, whoever calls it.
LEMMA ScheduleKeeps ==
    ASSUME SchedInv, Disciplined, Schedule, Aside,
           UNCHANGED <<prio, armed, slice, lockNest, irqNest, cpu>>,
           pc' \in [Thread -> [op : Op, arg : Thread]],
           isrSched' \subseteq isrSched
    PROVE  Safe'
<1> USE DEF SchedInv, Safe
<1>1. isrSched' \subseteq 1..irqNest /\ owed' \in BOOLEAN
  BY DEF Types, Runner, Schedule
<1>2. CASE Stays
  <2>1. Still /\ Types'
    BY <1>1, <1>2 DEF Stays, Still, Types
  <2>2. Rescheduled'
    BY <1>2 DEF Stays, Rescheduled
  <2> QED
    BY <1>1, <2>1, <2>2, StillKeeps DEF Runner
<1>3. ASSUME NEW to \in Thread, Switches(to) PROVE Safe'
  <2> USE <1>3 DEF Switches
  <2>1. /\ stat[to] = "READY" /\ current \in Thread /\ to # current
        /\ \A y \in Thread :
             stat'[y] = IF y = to THEN "RUNNING"
                        ELSE IF y = current /\ stat[y] = "RUNNING" THEN "READY"
                        ELSE stat[y]
    BY DEF Types, Runner
  <2>2. Types'
    BY <1>1, <2>1 DEF Types, ContextSwitch, Stat
  <2>3. ~BeingDeleted(current) /\ ~BeingDeleted(to)
    BY <2>1 DEF MainHolds, BeingDeleted
  <2>4. Placed'
    BY <2>1, <2>3, AsideDeletes DEF Placed, PlacedAt
  <2>5. Runner'
    <3>1. stat'[current'] = "RUNNING" /\ stat'[Idle] \in {"READY", "RUNNING"}
      BY <2>1, SchedulerAssumption DEF Runner
    <3>2. \A x \in Thread : /\ stat'[x] = "RUNNING" => x = current'
                            /\ stat'[x] \in {"INIT", "FREED"} => x \notin {current', cpu'}
      <4>1. \A x \in Thread : /\ stat[x] = "RUNNING" => x = current
                              /\ stat[x] \in {"INIT", "FREED"} => x \notin {current, cpu}
        BY DEF Runner
      <4>2. cpu' = cpu /\ current' = to
        OBVIOUS
      <4> HIDE <1>3
      <4> QED
        BY <2>1, <4>1, <4>2
    <3>3. isrSched' \subseteq 1..irqNest'
      BY <1>1
    <3> QED
      BY <3>1, <3>2, <3>3 DEF Runner
  <2>6. MainHolds' /\ IdleHolds'
    <3>1. pc[Main].arg \in Thread /\ pc[Idle].arg \in Thread
      BY SchedulerAssumption DEF Types
    <3>2. MainHolds'
      BY <2>1, <3>1 DEF MainHolds, Aside
    <3>3. IdleHolds'
      BY <2>1, <3>1, AsideDeletes DEF IdleHolds, Aside
    <3> QED
      BY <3>2, <3>3
  <2>7. Rescheduled'
    BY <2>1 DEF Rescheduled
  <2> QED
    BY <2>2, <2>4, <2>5, <2>6, <2>7
<1> QED
  BY <1>2, <1>3, ScheduleEffect

\* rt_schedule called by a thread, by a handler and by the idle thread.
LEMMA ScheduleStep ==
    ASSUME SchedInv, Disciplined, NEW t \in Thread,
           ThreadSchedule(t) \/ Yield(t) \/ IsrSchedule \/ ReapSchedule
    PROVE  Safe'
<1>1. CASE ThreadSchedule(t) \/ Yield(t)
  BY <1>1, WorkPc, ScheduleKeeps DEF ThreadSchedule, Yield, Free
<1>2. CASE IsrSchedule
  BY <1>2, ScheduleKeeps DEF IsrSchedule, Aside, SchedInv, Safe, Types
<1>3. CASE ReapSchedule
  <2>1. pc' \in [Thread -> [op : Op, arg : Thread]] /\ Aside
    BY <1>3, SchedulerAssumption
       DEF ReapSchedule, Calls, Goto, Aside, Op, SchedInv, Safe, Types
  <2> QED
    BY <1>3, <2>1, ScheduleKeeps DEF ReapSchedule
<1> QED
  BY <1>1, <1>2, <1>3

\* The step touches no thread but x.
Only(x) ==
    \A y \in Thread \ {x} :
      stat'[y] = stat[y] /\ At(list', y) = At(list, y) /\ (armed'[y] => armed[y])

\* Main or the idle thread is in the middle of a call that is about x.
Held(x) ==
    \/ /\ pc[Main].arg = x
       /\ pc[Main].op \in {"unlink", "insert", "startUnlink", "startInsert", "suspend",
                            "delTimer", "delClose", "delDefunct"}
    \/ pc[Idle].arg = x /\ pc[Idle].op \in {"reapSched", "reapFree"}

\* What Main and the idle thread hold is left alone by a step on another thread.
LEMMA AsideHolds ==
    ASSUME SchedInv, Aside, NEW x, Only(x), ~Held(x), UNCHANGED <<current, cpu>>
    PROVE  MainHolds' /\ IdleHolds'
<1>1. pc[Main].arg \in Thread /\ pc[Idle].arg \in Thread
  BY SchedulerAssumption DEF SchedInv, Safe, Types
<1>2. MainHolds'
  BY <1>1 DEF SchedInv, Safe, MainHolds, Only, Held, Aside
<1>3. IdleHolds'
  BY <1>1, AsideDeletes DEF SchedInv, Safe, IdleHolds, Only, Held, Aside
<1> QED
  BY <1>2, <1>3

\* A thread that a timer or another thread can wake is in nobody's hands.
LEMMA WokenNotHeld ==
    ASSUME SchedInv, Disciplined, NEW x \in Thread, stat[x] = "SUSPEND",
           armed[x] \/ At(list, x) # {}
    PROVE  ~Held(x)
<1>1. armed[x] => x \notin Deletable
  BY DEF SchedInv, Safe, Placed, PlacedAt, Disciplined
<1> QED
  BY <1>1 DEF SchedInv, Safe, MainHolds, IdleHolds, Held

\* A suspended thread is resumed, and a reschedule is on its way or owed.
LEMMA ResumedKeeps ==
    ASSUME SchedInv, NEW x \in Thread, stat[x] = "SUSPEND", ~BeingDeleted(x),
           Moves(x, IF x = current THEN {} ELSE {prio[x]}),
           stat' = [stat EXCEPT ![x] = IF x = current THEN "RUNNING" ELSE "READY"],
           armed' = [armed EXCEPT ![x] = FALSE],
           UNCHANGED <<prio, slice, current, lockNest, irqNest, switch, cpu>>,
           pc' \in [Thread -> [op : Op, arg : Thread]],
           isrSched' \in SUBSET (1..MaxNest), isrSched' \subseteq 1..irqNest,
           owed' \in BOOLEAN,
           \/ isrSched' # {}
           \/ ~switch.flag /\ pc'[cpu].op = "sched"
           \/ owed' /\ x # current /\ isrSched = {} /\ pc[cpu].op # "sched",
           MainHolds', IdleHolds', \A y : BeingDeleted(y)' <=> BeingDeleted(y)
    PROVE  Safe'
<1> USE DEF SchedInv, Safe
<1>1. Types'
  BY DEF Types, Stat
<1>2. \A y \in Thread :
        /\ stat'[y] = IF y # x THEN stat[y] ELSE IF x = current THEN "RUNNING" ELSE "READY"
        /\ armed'[y] = IF y # x THEN armed[y] ELSE FALSE
        /\ At(list', y) = IF y # x THEN At(list, y)
                          ELSE IF x = current THEN {} ELSE {prio[x]}
  BY DEF Types, Moves
<1>3. Placed'
  <2> SUFFICES ASSUME NEW y \in Thread PROVE PlacedAt(y)'
    BY DEF Placed
  <2>1. CASE y = x
    <3>1. ~BeingDeleted(x)'
      OBVIOUS
    <3>2. /\ stat'[y] = IF y = current THEN "RUNNING" ELSE "READY"
          /\ At(list', y) = IF y = current THEN {} ELSE {prio'[y]}
          /\ ~armed'[y]
      BY <1>2, <2>1
    <3> QED
      BY <2>1, <3>1, <3>2 DEF PlacedAt
  <2>2. CASE y # x
    BY <1>2, <2>2 DEF Placed, PlacedAt
  <2> QED
    BY <2>1, <2>2
<1>4. Runner'
  BY <1>2, SchedulerAssumption DEF Runner, Types
<1>5. Rescheduled'
  <2>1. x # current => stat'[current] = stat[current]
    BY <1>2 DEF Types
  <2> QED
    BY <2>1 DEF Rescheduled
<1> QED
  BY <1>1, <1>3, <1>4, <1>5 DEF Moves

\* The first waiter of the IPC object, or the thread of an expired timer, wakes.
LEMMA WakeStep ==
    ASSUME SchedInv, Disciplined, NEW t \in Thread, Wake(t) \/ IsrWake \/ Timeout(t)
    PROVE  Safe'
<1> USE DEF SchedInv, Safe
<1>1. \E x \in Thread :
        /\ stat[x] = "SUSPEND"
        /\ armed[x] \/ At(list, x) # {}
        /\ InsertThread(x, Unlinked(list, x), group, prio[x])
        /\ armed' = [armed EXCEPT ![x] = FALSE]
  <2>1. CASE Wake(t) \/ IsrWake
    <3>1. list[Wait] # <<>> /\ ResumeWaiter
      BY <2>1 DEF Wake, IsrWake, ResumeWaiter
    <3>2. Head(list[Wait]) \in Thread /\ Wait \in At(list, Head(list[Wait]))
      BY <3>1, HeadAt, Numbers
    <3>3. stat[Head(list[Wait])] = "SUSPEND"
      BY <3>2, Numbers DEF Placed, PlacedAt, Types, Stat
    <3> QED
      BY <3>1, <3>2, <3>3 DEF ResumeWaiter
  <2>2. CASE Timeout(t)
    BY <2>2 DEF Timeout, Placed, PlacedAt
  <2> QED
    BY <2>1, <2>2
<1>2. PICK x \in Thread :
        /\ stat[x] = "SUSPEND"
        /\ armed[x] \/ At(list, x) # {}
        /\ InsertThread(x, Unlinked(list, x), group, prio[x])
        /\ armed' = [armed EXCEPT ![x] = FALSE]
  BY <1>1
<1>3. ~Held(x) /\ prio[x] \in Prio
  BY <1>2, WokenNotHeld DEF Types
<1>4. At(list, x) \cap Prio = {}
  BY <1>2, Numbers DEF Placed, PlacedAt
<1>5. /\ Tidy(Unlinked(list, x), group)
      /\ \A y : At(Unlinked(list, x), y) = IF y = x THEN {} ELSE At(list, y)
  BY <1>4, UnlinkWaiting, UnlinkedAt DEF Tidy
<1>6. /\ Moves(x, IF x = current THEN {} ELSE {prio[x]})
      /\ stat' = [stat EXCEPT ![x] = IF x = current THEN "RUNNING" ELSE "READY"]
  BY <1>2, <1>3, <1>5, InsertEffect
<1>7. UNCHANGED <<prio, slice, current, lockNest, irqNest, switch, cpu, owed>>
  BY DEF Wake, IsrWake, Timeout, cpuVars
<1>8. /\ Aside /\ pc' \in [Thread -> [op : Op, arg : Thread]]
      /\ isrSched' \in SUBSET (1..MaxNest) /\ isrSched' \subseteq 1..irqNest
      /\ isrSched' # {} \/ (~switch.flag /\ pc'[cpu].op = "sched")
  <2>1. CASE Wake(t)
    <3>1. /\ t = cpu /\ ~switch.flag
          /\ Aside /\ pc' \in [Thread -> [op : Op, arg : Thread]]
          /\ pc'[t].op = "sched"
      BY <2>1, WorkPc, ExecutesCurrent DEF Wake, Free, Calls
    <3>2. isrSched' = isrSched
      BY <2>1 DEF Wake, cpuVars
    <3> QED
      BY <3>1, <3>2 DEF Types, Runner
  <2>2. CASE IsrWake \/ Timeout(t)
    <3>1. /\ isrSched' = isrSched \cup {irqNest} /\ UNCHANGED pc
          /\ irqNest > 0
      BY <2>2 DEF IsrWake, Timeout, InIsr
    <3>2. irqNest \in Nat /\ MaxNest \in Nat /\ irqNest <= MaxNest
      BY SchedulerAssumption DEF Types
    <3>3. irqNest \in 1..irqNest /\ isrSched' \subseteq 1..irqNest
          /\ 1..irqNest \subseteq 1..MaxNest
      BY <3>1, <3>2 DEF Runner
    <3> QED
      BY <3>1, <3>3 DEF Types, Aside
  <2> QED
    BY <2>1, <2>2
<1>9. Only(x)
  BY <1>2, <1>6 DEF Only, Moves, Types
<1>10. MainHolds' /\ IdleHolds' /\ ~BeingDeleted(x)
  BY <1>3, <1>7, <1>8, <1>9, AsideHolds DEF Held, BeingDeleted
<1>11. owed' \in BOOLEAN
  BY <1>7 DEF Types
<1> QED
  BY <1>2, <1>6, <1>7, <1>8, <1>10, <1>11, AsideDeletes, ResumedKeeps

\* rt_thread_resume, its insertion, while the lists may have changed since the
\* protected section.
LEMMA ResumeInsertStep ==
    ASSUME SchedInv, ResumeInsert
    PROVE  Safe'
<1> DEFINE x == pc[Main].arg
<1> USE SchedulerAssumption DEF SchedInv, Safe
<1>1. /\ x \in Thread /\ prio[x] \in Prio /\ pc \in [Thread -> [op : Op, arg : Thread]]
      /\ pc[Main].op \in {"insert", "startInsert"}
  BY DEF ResumeInsert, Types
<1>2. /\ stat[x] = "SUSPEND" /\ At(list, x) = {} /\ ~armed[x]
      /\ x \notin {Main, current, cpu}
  BY <1>1 DEF MainHolds
<1>3. cpu = Main /\ ~switch.flag /\ isrSched = {}
  BY ExecutesCurrent DEF ResumeInsert
<1>4. /\ pc' = [pc EXCEPT ![Main] = IF pc[Main].op = "insert"
                                      THEN Idling ELSE [op |-> "sched", arg |-> Main]]
      /\ owed' = (owed \/ pc[Main].op = "insert")
  BY DEF ResumeInsert, Return, ThenSchedule, Goto
<1>5. /\ pc' \in [Thread -> [op : Op, arg : Thread]]
      /\ pc'[Main].op \in {"run", "sched"} /\ pc'[Idle] = pc[Idle]
      /\ owed' \in BOOLEAN
      /\ owed' \/ pc'[Main].op = "sched"
  BY <1>1, <1>4 DEF Idling, Op, Types
<1>6. UNCHANGED <<prio, armed, slice, current, lockNest, irqNest, isrSched, switch, cpu>>
  BY DEF ResumeInsert
<1>7. /\ Moves(x, IF x = current THEN {} ELSE {prio[x]})
      /\ stat' = [stat EXCEPT ![x] = IF x = current THEN "RUNNING" ELSE "READY"]
  <2>1. InsertThread(x, list, group, prio[x])
    BY DEF ResumeInsert
  <2>2. \A y : At(list, y) = IF y = x THEN {} ELSE At(list, y)
    BY <1>2
  <2>3. x \in Thread /\ prio[x] \in Prio /\ Tidy(list, group)
    BY <1>1
  <2> HIDE <1>1 DEF x
  <2> QED
    BY <2>1, <2>2, <2>3, InsertEffect
<1>8. armed' = [armed EXCEPT ![x] = FALSE]
  BY <1>1, <1>2, <1>6 DEF Types
<1>9. \A y : BeingDeleted(y)' <=> BeingDeleted(y)
  BY <1>1, <1>5 DEF BeingDeleted
<1>10. MainHolds'
  BY <1>5 DEF MainHolds
<1>11. IdleHolds'
  <2>1. pc[Idle].arg \in Thread
    BY <1>1
  <2>2. IdleHolds /\ stat[x] # "CLOSE"
    BY <1>2
  <2> HIDE DEF x
  <2> QED
    BY <1>5, <1>7, <1>9, <2>1, <2>2 DEF IdleHolds, Moves, Types
<1>12. /\ ~BeingDeleted(x)
       /\ isrSched' \in SUBSET (1..MaxNest) /\ isrSched' \subseteq 1..irqNest
  BY <1>1, <1>6 DEF BeingDeleted, Types, Runner
<1> HIDE DEF x
<1> QED
  BY <1>1, <1>2, <1>3, <1>5, <1>6, <1>7, <1>8, <1>9, <1>10, <1>11, <1>12, ResumedKeeps

\* RT_THREAD_CTRL_CHANGE_PRIORITY, of a waiting, a ready or the running thread.
LEMMA ChangePriorityStep ==
    ASSUME SchedInv, Disciplined, NEW t \in Thread, NEW x \in Boostable,
           NEW p \in BoostLevels, ChangePriority(t, x, p)
    PROVE  Safe'
<1> USE SchedulerAssumption DEF SchedInv, Safe
<1>1. p \in Prio /\ x \in Thread \ (Deletable \cup {Idle}) /\ prio[x] \in Prio
  BY DEF Types, Disciplined
<1>2. /\ t = current /\ t = cpu /\ isrSched = {} /\ pc[t].op = "run"
      /\ UNCHANGED pc /\ Aside
  BY ExecutesCurrent DEF ChangePriority, Free, Calls, Aside
<1>3. /\ UNCHANGED <<armed, slice, current, lockNest, irqNest, isrSched, switch, cpu>>
      /\ prio' = [prio EXCEPT ![x] = p] /\ owed' = TRUE
  BY DEF ChangePriority
<1>4. ~BeingDeleted(x)
  BY <1>1 DEF BeingDeleted, MainHolds
<1>5. /\ stat' = stat
      /\ stat[x] = "READY" => Moves(x, {p})
      /\ stat[x] # "READY" => UNCHANGED <<list, group>>
  <2>1. CASE stat[x] = "READY"
    <3> DEFINE l == Unlinked(list, x)
               g == ClearedBit(group, l, prio[x])
    <3>1. x # current
      BY <2>1 DEF Runner
    <3>2. At(list, x) \cap Prio \subseteq {prio[x]}
      BY <1>1, <1>4, <2>1 DEF Placed, PlacedAt
    <3>3. Tidy(l, g)
      BY <1>1, <3>2, UnlinkTidy
    <3>4. \A y : At(l, y) = IF y = x THEN {} ELSE At(list, y)
      BY UnlinkedAt DEF Tidy
    <3>5. InsertThread(x, l, g, p)
      BY <2>1 DEF ChangePriority
    <3> HIDE DEF l, g
    <3>6. Moves(x, {p}) /\ stat' = [stat EXCEPT ![x] = "READY"]
      BY <1>1, <3>1, <3>3, <3>4, <3>5, InsertEffect
    <3> QED
      BY <2>1, <3>6 DEF Types
  <2>2. CASE stat[x] # "READY"
    BY <2>2 DEF ChangePriority
  <2> QED
    BY <2>1, <2>2
<1>6. Tidy(list', group')
  BY <1>5 DEF Moves
<1>7. \A y \in Thread : At(list', y) = IF y = x /\ stat[x] = "READY" THEN {p} ELSE At(list, y)
  BY <1>5 DEF Moves
<1>8. Types' /\ Runner'
  BY <1>1, <1>2, <1>3, <1>5 DEF Types, Runner
<1>9. Rescheduled'
  BY <1>2, <1>3, <1>5 DEF Rescheduled
<1>10. MainHolds' /\ IdleHolds'
  <2>1. pc[Main].arg \in Thread /\ pc[Idle].arg \in Thread
    BY DEF Types
  <2>2. MainHolds'
    BY <1>1, <1>2, <1>3, <1>5, <1>7, <2>1 DEF MainHolds
  <2>3. IdleHolds'
    BY <1>2, <1>3, <1>5, <1>7, <2>1, AsideDeletes DEF IdleHolds
  <2> QED
    BY <2>2, <2>3
<1>11. Placed'
  <2>1. \A y \in Thread : prio'[y] = IF y = x THEN p ELSE prio[y]
    BY <1>3 DEF Types
  <2> QED
    BY <1>2, <1>3, <1>4, <1>5, <1>7, <2>1, AsideDeletes DEF Placed, PlacedAt
<1> QED
  BY <1>6, <1>8, <1>9, <1>10, <1>11

\* The running thread suspends itself or exits, and is about to reschedule.
LEMMA StopsKeeps ==
    ASSUME SchedInv, NEW t \in Thread \ {Idle}, t = current, t = cpu, ~switch.flag,
           stat[t] = "RUNNING", ~Held(t), NEW s, NEW place, NEW timed \in BOOLEAN,
           \/ s = "SUSPEND" /\ place \subseteq (IF t \in Blocker THEN {Wait} ELSE {})
           \/ s = "CLOSE" /\ place = {Defunct} /\ ~timed /\ lockNest = 0,
           timed => t \in Timed,
           Moves(t, place),
           stat' = [stat EXCEPT ![t] = s], armed' = [armed EXCEPT ![t] = timed],
           UNCHANGED <<prio, slice, current, lockNest, irqNest, isrSched, switch, cpu, owed>>,
           pc' \in [Thread -> [op : Op, arg : Thread]], pc'[t].op = "sched", Aside
    PROVE  Safe'
<1> USE DEF SchedInv, Safe
<1>1. Types' /\ Rescheduled'
  BY DEF Types, Stat, Rescheduled
<1>2. \A y \in Thread :
        /\ stat'[y] = IF y # t THEN stat[y] ELSE s
        /\ armed'[y] = IF y # t THEN armed[y] ELSE timed
        /\ At(list', y) = IF y # t THEN At(list, y) ELSE place
  BY DEF Types, Moves
<1>3. Placed'
  <2>1. \A y \in Thread : BeingDeleted(y)' <=> BeingDeleted(y)
    BY AsideDeletes
  <2> SUFFICES ASSUME NEW y \in Thread PROVE PlacedAt(y)'
    BY DEF Placed
  <2>2. CASE y = t
    BY <1>2, <2>2 DEF PlacedAt
  <2>3. CASE y # t
    BY <1>2, <2>1, <2>3 DEF Placed, PlacedAt
  <2> QED
    BY <2>2, <2>3
<1>4. Runner'
  BY <1>2, SchedulerAssumption DEF Runner
<1>5. MainHolds' /\ IdleHolds'
  BY <1>2, AsideHolds DEF Only
<1> QED
  BY <1>1, <1>3, <1>4, <1>5 DEF Moves

\* rt_thread_sleep and the waiting path of the IPC calls.
LEMMA BlockStep ==
    ASSUME SchedInv, Disciplined, NEW t \in Thread \ {Idle}, NEW onList \in BOOLEAN,
           NEW timed \in BOOLEAN, Block(t, onList, timed),
           onList => t \in Blocker, timed => t \in Timed, onList \/ timed
    PROVE  Safe'
<1> USE DEF SchedInv, Safe
<1>1. /\ t = current /\ t = cpu /\ ~switch.flag /\ stat[t] = "RUNNING"
      /\ Aside /\ pc' \in [Thread -> [op : Op, arg : Thread]] /\ pc'[t].op = "sched"
  BY WorkPc, ExecutesCurrent DEF Block, Free, Calls
<1>2. ~Held(t)
  BY <1>1 DEF Held, MainHolds, IdleHolds, Disciplined
<1>3. prio[t] \in Prio /\ At(list, t) = {}
  BY <1>1 DEF Types, Placed, PlacedAt
<1> DEFINE l == Unlinked(list, t)
           place == IF onList THEN {Wait} ELSE {}
<1>4. Tidy(l, group') /\ \A y : At(l, y) = IF y = t THEN {} ELSE At(list, y)
  BY <1>3, UnlinkTidy, UnlinkedAt DEF Tidy, Block
<1>5. Moves(t, place)
  <2>1. CASE ~onList
    BY <1>4, <2>1 DEF Block, Moves
  <2>2. CASE onList
    <3>1. list' = Appended(l, Wait, t)
      BY <2>2 DEF Block
    <3> HIDE DEF l
    <3>2. Gains(Appended(l, Wait, t), l, Wait, t) /\ Wait \in List \ Prio /\ At(l, t) = {}
      BY <1>4, LinkedAt, Numbers DEF Tidy
    <3>3. Tidy(Appended(l, Wait, t), group')
      BY <1>4, <3>2, LinkTidy
    <3> QED
      BY <1>4, <2>2, <3>1, <3>2, <3>3 DEF Moves, Gains
  <2> QED
    BY <2>1, <2>2
<1>6. /\ stat' = [stat EXCEPT ![t] = "SUSPEND"] /\ armed' = [armed EXCEPT ![t] = timed]
      /\ UNCHANGED <<prio, slice, current, lockNest, irqNest, isrSched, switch, cpu, owed>>
  BY DEF Block, cpuVars
<1> QED
  BY <1>1, <1>2, <1>5, <1>6, StopsKeeps

\* rt_thread_exit.
LEMMA ExitStep ==
    ASSUME SchedInv, NEW t \in Thread \ (Controlled \cup Deletable \cup {Main, Idle}), Exit(t)
    PROVE  Safe'
<1> USE DEF SchedInv, Safe
<1>1. /\ t = current /\ t = cpu /\ ~switch.flag /\ stat[t] = "RUNNING" /\ lockNest = 0
      /\ Aside /\ pc' \in [Thread -> [op : Op, arg : Thread]] /\ pc'[t].op = "sched"
  BY WorkPc, ExecutesCurrent DEF Exit, Free, Calls
<1>2. ~Held(t)
  BY <1>1 DEF Held, MainHolds, IdleHolds
<1>3. prio[t] \in Prio /\ At(list, t) = {}
  BY <1>1 DEF Types, Placed, PlacedAt
<1> DEFINE l == Unlinked(list, t)
<1>4. Tidy(l, group') /\ \A y : At(l, y) = IF y = t THEN {} ELSE At(list, y)
  BY <1>3, UnlinkTidy, UnlinkedAt DEF Tidy, Exit
<1>5. Moves(t, {Defunct})
  <2>1. list' = [l EXCEPT ![Defunct] = <<t>> \o @]
    BY DEF Exit
  <2> HIDE DEF l
  <2>2. Gains(list', l, Defunct, t) /\ Defunct \in List \ Prio /\ At(l, t) = {}
    BY <1>4, <2>1, LinkedAt, Numbers DEF Tidy
  <2>3. Tidy(list', group')
    BY <1>4, <2>2, LinkTidy
  <2> QED
    BY <1>4, <2>2, <2>3 DEF Moves, Gains
<1>6. /\ stat' = [stat EXCEPT ![t] = "CLOSE"] /\ armed' = [armed EXCEPT ![t] = FALSE]
      /\ UNCHANGED <<prio, slice, current, lockNest, irqNest, isrSched, switch, cpu, owed>>
  BY DEF Exit, cpuVars
<1> QED
  BY <1>1, <1>2, <1>5, <1>6, StopsKeeps

\* Thread t, between two calls or in the middle of one, does something to x.
Touches(t, x) ==
    /\ Executes(t) /\ pc[t].op # "sched" /\ pc'[t].op # "sched"
    /\ UNCHANGED cpuVars
    /\ Tidy(list', group') /\ group' \subseteq group
    /\ \A y \in Thread \ {x} :
         /\ stat'[y] = stat[y] /\ prio'[y] = prio[y] /\ armed'[y] = armed[y]
         /\ At(list', y) = At(list, y)
         /\ BeingDeleted(y)' <=> BeingDeleted(y)

\* A thread that does something to another one, which it does not make RUNNING,
\* stays the one to run.
LEMMA TouchKeeps ==
    ASSUME SchedInv, NEW t \in Thread, NEW x \in Thread \ {Idle, t}, Touches(t, x),
           Types', PlacedAt(x)', stat'[x] # "RUNNING", MainHolds', IdleHolds'
    PROVE  Safe'
<1> USE DEF SchedInv, Safe
<1>1. t = current /\ t = cpu /\ ~switch.flag
  BY ExecutesCurrent DEF Touches
<1>2. UNCHANGED <<current, lockNest, irqNest, isrSched, switch, cpu, owed>>
  BY DEF Touches, cpuVars
<1>3. Placed'
  <2> SUFFICES ASSUME NEW y \in Thread, y # x PROVE PlacedAt(y)'
    BY DEF Placed
  <2> QED
    BY DEF Touches, Placed, PlacedAt
<1>4. Runner'
  <2>1. \A y \in Thread : y # x => stat'[y] = stat[y]
    BY DEF Touches
  <2> QED
    BY <1>1, <1>2, <2>1, SchedulerAssumption DEF Runner
<1>5. Rescheduled'
  <2>1. stat'[t] = stat[t] /\ prio'[t] = prio[t] /\ group' \subseteq group
    BY DEF Touches
  <2>2. pc[t].op # "sched"
    BY DEF Touches
  <2> QED
    BY <1>1, <1>2, <2>1, <2>2 DEF Rescheduled
<1> QED
  BY <1>3, <1>4, <1>5 DEF Touches

\* What a call of a thread does to its program counter.
LEMMA GotoPc ==
    ASSUME pc \in [Thread -> [op : Op, arg : Thread]], NEW t \in Thread,
           NEW x \in Thread, NEW op \in Op, Goto(t, op, x)
    PROVE  /\ pc' \in [Thread -> [op : Op, arg : Thread]]
           /\ pc'[t].op = op /\ pc'[t].arg = x
           /\ \A u \in Thread \ {t} : pc'[u] = pc[u]
  BY DEF Goto

\* The idle thread's own call is not about a thread that Main may touch.
LEMMA IdleKept ==
    ASSUME SchedInv, NEW x \in Thread, Touches(Main, x), pc'[Idle] = pc[Idle],
           stat[x] = "CLOSE" => BeingDeleted(x)
    PROVE  IdleHolds'
<1>1. pc[Idle].arg \in Thread
  BY SchedulerAssumption DEF SchedInv, Safe, Types
<1> QED
  BY <1>1 DEF SchedInv, Safe, IdleHolds, Touches

\* Main touches no other thread than the one its call is about.
LEMMA MainDeletes ==
    ASSUME NEW x,
           BeingDeleted(pc[Main].arg) => pc[Main].arg = x,
           BeingDeleted(pc[Main].arg)' => pc'[Main].arg = x
    PROVE  \A y \in Thread \ {x} : BeingDeleted(y)' <=> BeingDeleted(y)
  BY DEF BeingDeleted

\* When Main executes, it is the current thread, and its calls are about others.
LEMMA MainExecutes ==
    ASSUME SchedInv, Executes(Main)
    PROVE  /\ Main \in Thread /\ Idle \in Thread /\ Main # Idle
           /\ current = Main /\ cpu = Main
           /\ pc \in [Thread -> [op : Op, arg : Thread]]
           /\ pc[Main].arg \in Thread
  BY ExecutesCurrent, SchedulerAssumption DEF SchedInv, Safe, Types

\* rt_thread_create
LEMMA CreateStep ==
    ASSUME SchedInv, NEW x \in Thread \ {Idle, Main}, Create(x)
    PROVE  Safe'
<1> USE DEF SchedInv, Safe
<1>1. /\ Executes(Main) /\ pc[Main].op = "run" /\ stat[x] = "FREED"
      /\ UNCHANGED <<queueVars, cpuVars>>
  BY DEF Create, Free, Calls
<1>2. At(list, x) = {} /\ UNCHANGED <<list, group>>
  BY <1>1 DEF Placed, PlacedAt, queueVars
<1>3. pc' = [pc EXCEPT ![x] = Idling] /\ Idling \in [op : Op, arg : Thread]
  BY SchedulerAssumption DEF Create, Idling, Op
<1>4. /\ pc' \in [Thread -> [op : Op, arg : Thread]]
      /\ pc'[Main] = pc[Main] /\ pc'[Idle] = pc[Idle]
  BY <1>1, <1>3, MainExecutes
<1>5. /\ stat' = [stat EXCEPT ![x] = "INIT"] /\ prio' = [prio EXCEPT ![x] = InitPrio[x]]
      /\ slice' = [slice EXCEPT ![x] = Slice] /\ armed' = [armed EXCEPT ![x] = FALSE]
  BY DEF Create
<1>6. Types'
  <2>1. InitPrio[x] \in Prio /\ Slice \in 1..Slice
    BY SchedulerAssumption
  <2> QED
    BY <1>1, <1>4, <1>5, <2>1 DEF Types, Stat, cpuVars
<1>7. \A y \in Thread \ {x} : stat'[y] = stat[y] /\ prio'[y] = prio[y] /\ armed'[y] = armed[y]
  BY <1>5 DEF Types
<1>8. Touches(Main, x)
  BY <1>1, <1>2, <1>4, <1>7 DEF Touches, BeingDeleted
<1>9. stat'[x] = "INIT" /\ armed'[x] = FALSE /\ At(list', x) = {}
  BY <1>2, <1>5 DEF Types
<1>10. MainHolds'
  BY <1>1, <1>4 DEF MainHolds
<1>11. IdleHolds'
  BY <1>1, <1>4, <1>8, IdleKept
<1> QED
  BY <1>1, <1>6, <1>8, <1>9, <1>10, <1>11, MainExecutes, TouchKeeps DEF PlacedAt

\* rt_thread_startup, up to rt_thread_resume
LEMMA StartupStep ==
    ASSUME SchedInv, NEW x \in Thread \ {Idle, Main}, Startup(x)
    PROVE  Safe'
<1> USE DEF SchedInv, Safe
<1>1. /\ Executes(Main) /\ pc[Main].op = "run" /\ stat[x] = "INIT"
      /\ UNCHANGED <<armed, slice, queueVars, cpuVars>>
      /\ Goto(Main, "startUnlink", x)
  BY DEF Startup, Free, Calls
<1>2. At(list, x) = {} /\ ~armed[x] /\ UNCHANGED <<list, group>>
  BY <1>1 DEF Placed, PlacedAt, queueVars
<1>3. /\ pc' \in [Thread -> [op : Op, arg : Thread]]
      /\ pc'[Main].op = "startUnlink" /\ pc'[Main].arg = x /\ pc'[Idle] = pc[Idle]
  BY <1>1, MainExecutes, GotoPc, "startUnlink" \in Op DEF Op
<1>4. stat' = [stat EXCEPT ![x] = "SUSPEND"] /\ prio' = [prio EXCEPT ![x] = InitPrio[x]]
  BY DEF Startup
<1>5. Types'
  BY <1>1, <1>3, <1>4, SchedulerAssumption DEF Types, Stat, cpuVars
<1>6. \A y \in Thread \ {x} : stat'[y] = stat[y] /\ prio'[y] = prio[y] /\ armed'[y] = armed[y]
  BY <1>1, <1>4 DEF Types
<1>7. Touches(Main, x)
  BY <1>1, <1>2, <1>3, <1>6 DEF Touches, BeingDeleted
<1>8. stat'[x] = "SUSPEND" /\ ~armed'[x] /\ At(list', x) = {}
  BY <1>1, <1>2, <1>4 DEF Types
<1>9. current' = Main /\ cpu' = Main
  BY <1>1, MainExecutes DEF cpuVars
<1>10. MainHolds'
  BY <1>3, <1>8, <1>9 DEF MainHolds
<1>11. IdleHolds'
  BY <1>1, <1>3, <1>7, IdleKept
<1> QED
  BY <1>1, <1>5, <1>7, <1>8, <1>10, <1>11, MainExecutes, TouchKeeps DEF PlacedAt

\* The tests of stat that rt_thread_resume and rt_thread_suspend start with
LEMMA CheckStep ==
    ASSUME SchedInv, Disciplined, NEW x \in Controlled, ResumeCheck(x) \/ SuspendCheck(x)
    PROVE  Safe'
<1> USE DEF SchedInv, Safe
<1>1. /\ Executes(Main) /\ pc[Main].op = "run"
      /\ UNCHANGED <<threadVars, queueVars, cpuVars>>
      /\ x \in Thread \ {Idle, Main}
  BY SchedulerAssumption DEF ResumeCheck, SuspendCheck, Free, Calls
<1>2. PICK op \in {"unlink", "suspend"} :
        /\ Goto(Main, op, x)
        /\ op = "unlink" => stat[x] = "SUSPEND"
        /\ op = "suspend" => stat[x] \in {"READY", "RUNNING"}
  BY DEF ResumeCheck, SuspendCheck
<1>3. /\ pc' \in [Thread -> [op : Op, arg : Thread]]
      /\ pc'[Main].op = op /\ pc'[Main].arg = x /\ pc'[Idle] = pc[Idle]
  BY <1>1, <1>2, MainExecutes, GotoPc, op \in Op DEF Op
<1>4. UNCHANGED <<stat, prio, armed, slice, list, group>>
  BY <1>1 DEF threadVars, queueVars
<1>5. Types'
  BY <1>1, <1>3, <1>4 DEF Types, cpuVars
<1>6. Touches(Main, x)
  BY <1>1, <1>3, <1>4 DEF Touches, BeingDeleted
<1>7. current = Main /\ cpu = Main /\ current' = Main /\ cpu' = Main
  BY <1>1, MainExecutes DEF cpuVars
<1>8. op = "unlink" => At(list', x) = {} /\ ~armed'[x]
  BY <1>1, <1>2, <1>4 DEF Disciplined, Placed, PlacedAt
<1>9. MainHolds'
  BY <1>1, <1>2, <1>3, <1>4, <1>7, <1>8 DEF MainHolds
<1>10. IdleHolds'
  BY <1>1, <1>2, <1>3, <1>6, IdleKept
<1>11. PlacedAt(x)' /\ stat'[x] # "RUNNING"
  BY <1>1, <1>3, <1>4, <1>7 DEF Placed, PlacedAt, BeingDeleted, Runner
<1> QED
  BY <1>1, <1>5, <1>6, <1>9, <1>10, <1>11, MainExecutes, TouchKeeps

\* rt_thread_resume, its protected section
LEMMA ResumeUnlinkStep ==
    ASSUME SchedInv, ResumeUnlink
    PROVE  Safe'
<1> USE DEF SchedInv, Safe
<1>0. PICK x \in Thread : x = pc[Main].arg
  BY MainExecutes DEF ResumeUnlink
<1>1. /\ Executes(Main) /\ pc[Main].op \in {"unlink", "startUnlink"} /\ x \in Thread
      /\ list' = Unlinked(list, x) /\ armed' = [armed EXCEPT ![x] = FALSE]
      /\ Goto(Main, IF pc[Main].op = "unlink" THEN "insert" ELSE "startInsert", x)
      /\ UNCHANGED <<stat, prio, slice, group, cpuVars>>
  BY <1>0 DEF ResumeUnlink
<1>2. /\ stat[x] = "SUSPEND" /\ At(list, x) = {} /\ ~armed[x]
      /\ x \notin {Idle, Main, current, cpu}
  BY <1>0, <1>1 DEF MainHolds, Runner
<1>3. /\ pc' \in [Thread -> [op : Op, arg : Thread]]
      /\ pc'[Main].op \in {"insert", "startInsert"} /\ pc'[Main].arg = x
      /\ pc'[Idle] = pc[Idle]
  BY <1>1, MainExecutes, GotoPc, {"insert", "startInsert"} \subseteq Op DEF Op
<1>4. Tidy(list', group') /\ \A y : At(list', y) = At(list, y)
  <2>1. Tidy(Unlinked(list, x), group)
    BY <1>2, UnlinkWaiting
  <2>2. \A y : At(Unlinked(list, x), y) = IF y = x THEN {} ELSE At(list, y)
    BY UnlinkedAt DEF Tidy
  <2> QED
    BY <1>1, <1>2, <2>1, <2>2
<1>5. armed' = armed
  BY <1>1, <1>2 DEF Types
<1>6. Types'
  BY <1>1, <1>3, <1>5 DEF Types, cpuVars
<1>7. Touches(Main, x)
  BY <1>0, <1>1, <1>3, <1>4, <1>5 DEF Touches, BeingDeleted
<1>8. current' = current /\ cpu' = cpu
  BY <1>1 DEF cpuVars
<1>9. MainHolds'
  BY <1>1, <1>2, <1>3, <1>4, <1>5, <1>8 DEF MainHolds
<1>10. IdleHolds'
  BY <1>1, <1>2, <1>3, <1>7, IdleKept
<1>11. PlacedAt(x)' /\ stat'[x] # "RUNNING"
  BY <1>1, <1>2, <1>4, <1>5 DEF PlacedAt
<1> QED
  BY <1>1, <1>2, <1>6, <1>7, <1>9, <1>10, <1>11, MainExecutes, TouchKeeps

\* rt_thread_suspend, its protected section
LEMMA SuspendStep ==
    ASSUME SchedInv, Suspend
    PROVE  Safe'
<1> USE DEF SchedInv, Safe
<1>0. PICK x \in Thread : x = pc[Main].arg
  BY MainExecutes DEF Suspend, Calls
<1>1. /\ Executes(Main) /\ pc[Main].op = "suspend" /\ x \in Thread
      /\ RemoveThread(x)
      /\ stat' = [stat EXCEPT ![x] = "SUSPEND"] /\ armed' = [armed EXCEPT ![x] = FALSE]
      /\ Return(Main)
      /\ UNCHANGED <<prio, slice, cpuVars>>
  BY <1>0 DEF Suspend, Calls
<1>2. /\ x \in Thread \ {Idle, Main} /\ x # current /\ x # cpu
      /\ stat[x] \in {"READY", "RUNNING"}
  BY <1>0, <1>1, MainExecutes, SchedulerAssumption DEF MainHolds
<1>3. prio[x] \in Prio /\ At(list, x) \cap Prio \subseteq {prio[x]}
  BY <1>0, <1>1, <1>2 DEF Types, Placed, PlacedAt, BeingDeleted
<1>4. Moves(x, {}) /\ group' \subseteq group
  BY <1>1, <1>3, RemoveEffect
<1>5. /\ pc' \in [Thread -> [op : Op, arg : Thread]]
      /\ pc'[Main].op = "run" /\ pc'[Idle] = pc[Idle]
  BY <1>1, MainExecutes DEF Return, Idling, Op
<1>6. \A y \in Thread \ {x} : stat'[y] = stat[y] /\ prio'[y] = prio[y] /\ armed'[y] = armed[y]
  BY <1>1 DEF Types
<1>7. Types'
  BY <1>1, <1>5 DEF Types, Stat, cpuVars
<1>8. Touches(Main, x)
  BY <1>0, <1>1, <1>4, <1>5, <1>6 DEF Touches, Moves, BeingDeleted
<1>9. stat'[x] = "SUSPEND" /\ ~armed'[x] /\ At(list', x) = {}
  BY <1>1, <1>4 DEF Types, Moves
<1>10. MainHolds'
  BY <1>5 DEF MainHolds
<1>11. IdleHolds'
  BY <1>2, <1>5, <1>8, IdleKept
<1> QED
  BY <1>1, <1>2, <1>7, <1>8, <1>9, <1>10, <1>11, MainExecutes, TouchKeeps DEF PlacedAt

\* rt_thread_delete, its call of rt_schedule_remove_thread
LEMMA DeleteUnlinkStep ==
    ASSUME SchedInv, Disciplined, NEW x \in Deletable, DeleteUnlink(x)
    PROVE  Safe'
<1> USE DEF SchedInv, Safe
<1>1. /\ Executes(Main) /\ pc[Main].op = "run"
      /\ UNCHANGED <<threadVars, cpuVars>>
      /\ Goto(Main, "delTimer", x)
      /\ x \in Thread \ {Idle, Main}
  BY SchedulerAssumption DEF DeleteUnlink, Free, Calls
<1>2. /\ stat[x] \in {"INIT", "SUSPEND", "READY"} /\ ~armed[x]
      /\ current = Main /\ cpu = Main
  <2>1. stat[x] \in Stat /\ stat[x] \notin {"CLOSE", "FREED"}
    BY <1>1 DEF Types, DeleteUnlink
  <2> QED
    BY <1>1, <2>1, MainExecutes DEF Stat, Runner, Placed, PlacedAt, Disciplined
<1>3. UNCHANGED <<stat, prio, armed, slice>>
  BY <1>1 DEF threadVars
<1>4. /\ pc' \in [Thread -> [op : Op, arg : Thread]]
      /\ pc'[Main].op = "delTimer" /\ pc'[Main].arg = x /\ pc'[Idle] = pc[Idle]
  BY <1>1, MainExecutes, GotoPc, "delTimer" \in Op DEF Op
<1>5. Moves(x, {}) /\ group' \subseteq group
  <2>1. CASE stat[x] = "INIT"
    BY <1>1, <2>1 DEF DeleteUnlink, Moves, Placed, PlacedAt, queueVars
  <2>2. CASE stat[x] # "INIT"
    <3>1. prio[x] \in Prio /\ At(list, x) \cap Prio \subseteq {prio[x]}
      BY <1>1, <1>2, <2>2, Numbers DEF Types, Placed, PlacedAt, BeingDeleted
    <3> QED
      BY <1>1, <2>2, <3>1, RemoveEffect DEF DeleteUnlink
  <2> QED
    BY <2>1, <2>2
<1>6. Types'
  BY <1>1, <1>3, <1>4 DEF Types, cpuVars
<1>7. Touches(Main, x)
  BY <1>1, <1>3, <1>4, <1>5 DEF Touches, Moves, BeingDeleted
<1>8. At(list', x) = {} /\ stat'[x] \in {"INIT", "SUSPEND", "READY"} /\ ~armed'[x]
      /\ BeingDeleted(x)' /\ current' = Main /\ cpu' = Main
  BY <1>1, <1>2, <1>3, <1>4, <1>5 DEF Moves, BeingDeleted, cpuVars
<1>9. MainHolds'
  BY <1>1, <1>4, <1>8 DEF MainHolds
<1>10. IdleHolds'
  BY <1>1, <1>2, <1>4, <1>7, IdleKept
<1>11. PlacedAt(x)'
  BY <1>8 DEF PlacedAt
<1> QED
  BY <1>1, <1>6, <1>7, <1>8, <1>9, <1>10, <1>11, MainExecutes, TouchKeeps

\* rt_thread_delete, rt_timer_detach and the assignment of stat
LEMMA DeleteTimerStep ==
    ASSUME SchedInv, Disciplined, DeleteTimer \/ DeleteClose
    PROVE  Safe'
<1> USE DEF SchedInv, Safe
<1>0. PICK x \in Thread : x = pc[Main].arg
  BY MainExecutes DEF DeleteTimer, DeleteClose, Calls
<1>1. /\ Executes(Main) /\ pc[Main].op \in {"delTimer", "delClose"}
      /\ UNCHANGED <<prio, slice, queueVars, cpuVars>>
  BY DEF DeleteTimer, DeleteClose, Calls
<1>2. /\ stat[x] \in {"INIT", "SUSPEND", "READY"} /\ At(list, x) = {}
      /\ x \in Deletable /\ x \notin {current, cpu} /\ x \notin {Idle, Main} /\ ~armed[x]
  BY <1>0, <1>1, SchedulerAssumption DEF MainHolds, Disciplined, Placed, PlacedAt
<1>3. PICK s \in {"INIT", "SUSPEND", "READY", "CLOSE"}, op \in {"delClose", "delDefunct"} :
        /\ Goto(Main, op, x)
        /\ stat' = [stat EXCEPT ![x] = s]
        /\ armed' = armed
        /\ op = "delClose" <=> s # "CLOSE"
  <2>1. CASE DeleteTimer
    <3>1. stat' = [stat EXCEPT ![x] = stat[x]] /\ armed' = armed
      BY <1>0, <1>2, <2>1 DEF DeleteTimer, Types
    <3>2. Goto(Main, "delClose", x)
      BY <1>0, <2>1 DEF DeleteTimer
    <3> QED
      BY <1>2, <3>1, <3>2
  <2>2. CASE DeleteClose
    BY <1>0, <2>2 DEF DeleteClose
  <2> QED
    BY <2>1, <2>2
<1>4. /\ pc' \in [Thread -> [op : Op, arg : Thread]]
      /\ pc'[Main].op = op /\ pc'[Main].arg = x /\ pc'[Idle] = pc[Idle]
  BY <1>1, <1>3, MainExecutes, GotoPc, op \in Op DEF Op
<1>5. \A y \in Thread : stat'[y] = IF y = x THEN s ELSE stat[y]
  BY <1>3 DEF Types
<1>6. UNCHANGED <<prio, slice, list, group, current, cpu>>
  BY <1>1 DEF queueVars, cpuVars
<1>7. Types'
  BY <1>1, <1>3, <1>4, <1>6 DEF Types, Stat, cpuVars
<1>8. Touches(Main, x)
  BY <1>0, <1>1, <1>3, <1>4, <1>5, <1>6 DEF Touches, BeingDeleted
<1>9. stat'[x] = s /\ At(list', x) = {} /\ ~armed'[x] /\ BeingDeleted(x)'
  BY <1>2, <1>3, <1>4, <1>5, <1>6 DEF BeingDeleted
<1>10. MainHolds'
  BY <1>2, <1>3, <1>4, <1>6, <1>9 DEF MainHolds
<1>11. IdleHolds'
  BY <1>2, <1>4, <1>8, IdleKept
<1>12. PlacedAt(x)' /\ stat'[x] # "RUNNING"
  BY <1>9 DEF PlacedAt
<1> QED
  BY <1>1, <1>2, <1>7, <1>8, <1>10, <1>11, <1>12, MainExecutes, TouchKeeps

\* rt_thread_delete, the insertion into the defunct list
LEMMA DeleteDefunctStep ==
    ASSUME SchedInv, DeleteDefunct
    PROVE  Safe'
<1> USE DEF SchedInv, Safe
<1>0. PICK x \in Thread : x = pc[Main].arg
  BY MainExecutes DEF DeleteDefunct, Calls
<1>1. /\ Executes(Main) /\ pc[Main].op = "delDefunct"
      /\ list' = [list EXCEPT ![Defunct] = <<x>> \o @]
      /\ Return(Main)
      /\ UNCHANGED <<threadVars, group, cpuVars>>
  BY <1>0 DEF DeleteDefunct, Calls
<1>2. /\ stat[x] = "CLOSE" /\ At(list, x) = {} /\ BeingDeleted(x)
      /\ x \notin {current, cpu} /\ x \notin {Idle, Main} /\ ~armed[x]
  BY <1>0, <1>1, SchedulerAssumption DEF MainHolds, BeingDeleted, Placed, PlacedAt
<1>3. UNCHANGED <<stat, prio, armed, slice>>
  BY <1>1 DEF threadVars
<1>4. /\ pc' \in [Thread -> [op : Op, arg : Thread]]
      /\ pc'[Main].op = "run" /\ pc'[Idle] = pc[Idle]
  BY <1>1, MainExecutes DEF Return, Idling, Op
<1>5. Moves(x, {Defunct}) /\ group' = group
  <2>1. Gains(list', list, Defunct, x) /\ Defunct \in List \ Prio
    BY <1>1, <1>2, LinkedAt, Numbers DEF Tidy
  <2>2. Tidy(list', group)
    BY <1>2, <2>1, LinkTidy
  <2> QED
    BY <1>1, <2>1, <2>2 DEF Moves, Gains
<1>6. Types'
  BY <1>1, <1>3, <1>4 DEF Types, cpuVars
<1>7. Touches(Main, x)
  BY <1>0, <1>1, <1>3, <1>4, <1>5 DEF Touches, Moves, BeingDeleted
<1>8. stat'[x] = "CLOSE" /\ At(list', x) = {Defunct} /\ ~armed'[x]
  BY <1>2, <1>3, <1>5 DEF Moves
<1>9. MainHolds'
  BY <1>4 DEF MainHolds
<1>10. IdleHolds'
  BY <1>2, <1>4, <1>7, IdleKept
<1>11. PlacedAt(x)' /\ stat'[x] # "RUNNING"
  BY <1>8 DEF PlacedAt
<1> QED
  BY <1>1, <1>2, <1>6, <1>7, <1>9, <1>10, <1>11, MainExecutes, TouchKeeps

\* When the idle thread executes, it is the current thread.
LEMMA IdleExecutes ==
    ASSUME SchedInv, Executes(Idle)
    PROVE  /\ Main \in Thread /\ Idle \in Thread /\ Main # Idle
           /\ current = Idle /\ cpu = Idle
           /\ pc \in [Thread -> [op : Op, arg : Thread]]
           /\ pc[Main].arg \in Thread /\ pc[Idle].arg \in Thread
  BY ExecutesCurrent, SchedulerAssumption DEF SchedInv, Safe, Types

\* The idle thread takes a thread off the defunct list.
LEMMA ReapStep ==
    ASSUME SchedInv, Reap
    PROVE  Safe'
<1> USE DEF SchedInv, Safe
<1>0. PICK x \in Thread : x = Head(list[Defunct]) /\ Defunct \in At(list, x)
  BY HeadAt, Numbers DEF Reap
<1>1. /\ Executes(Idle) /\ pc[Idle].op = "run"
      /\ list' = Unlinked(list, x)
      /\ Goto(Idle, "reapSched", x)
      /\ UNCHANGED <<threadVars, group, cpuVars>>
  BY <1>0 DEF Reap, Free, Calls
<1>2. stat[x] = "CLOSE" /\ ~BeingDeleted(x) /\ x # Idle /\ ~armed[x]
  <2>1. ~BeingDeleted(x)
    BY <1>0 DEF MainHolds, BeingDeleted
  <2> QED
    BY <1>0, <2>1, Numbers DEF Placed, PlacedAt, Types, Stat, Runner
<1>3. UNCHANGED <<stat, prio, armed, slice>>
  BY <1>1 DEF threadVars
<1>4. /\ pc' \in [Thread -> [op : Op, arg : Thread]]
      /\ pc'[Idle].op = "reapSched" /\ pc'[Idle].arg = x /\ pc'[Main] = pc[Main]
  BY <1>1, IdleExecutes, GotoPc, "reapSched" \in Op DEF Op
<1>5. Moves(x, {}) /\ group' = group
  <2>1. At(list, x) \cap Prio = {}
    BY <1>2, Numbers DEF Placed, PlacedAt
  <2>2. Tidy(Unlinked(list, x), group)
    BY <2>1, UnlinkWaiting
  <2>3. \A y : At(Unlinked(list, x), y) = IF y = x THEN {} ELSE At(list, y)
    BY UnlinkedAt DEF Tidy
  <2> QED
    BY <1>1, <2>2, <2>3 DEF Moves
<1>6. Types'
  BY <1>1, <1>3, <1>4 DEF Types, cpuVars
<1>7. Touches(Idle, x)
  BY <1>1, <1>3, <1>4, <1>5 DEF Touches, Moves, BeingDeleted
<1>8. stat'[x] = "CLOSE" /\ At(list', x) = {} /\ ~armed'[x] /\ ~BeingDeleted(x)'
  BY <1>2, <1>3, <1>4, <1>5 DEF Moves, BeingDeleted
<1>9. MainHolds'
  <2>1. current' = current /\ cpu' = cpu
    BY <1>1 DEF cpuVars
  <2>2. At(list', pc[Main].arg) = At(list, pc[Main].arg) \/ pc[Main].arg = x
    BY <1>5 DEF Moves
  <2> QED
    BY <1>2, <1>3, <1>4, <2>1, <2>2, <1>8 DEF MainHolds
<1>10. IdleHolds'
  BY <1>4, <1>8 DEF IdleHolds
<1>11. PlacedAt(x)' /\ stat'[x] # "RUNNING"
  BY <1>8 DEF PlacedAt
<1> QED
  BY <1>1, <1>2, <1>6, <1>7, <1>9, <1>10, <1>11, IdleExecutes, TouchKeeps

\* The idle thread frees the stack and the object.
LEMMA ReapFreeStep ==
    ASSUME SchedInv, ReapFree
    PROVE  Safe'
<1> USE DEF SchedInv, Safe
<1>0. PICK x \in Thread : x = pc[Idle].arg
  BY IdleExecutes DEF ReapFree, Calls
<1>1. /\ Executes(Idle) /\ pc[Idle].op = "reapFree"
      /\ stat' = [stat EXCEPT ![x] = "FREED"]
      /\ Return(Idle)
      /\ UNCHANGED <<prio, armed, slice, queueVars, cpuVars>>
  BY <1>0 DEF ReapFree, Calls
<1>2. stat[x] = "CLOSE" /\ At(list, x) = {} /\ ~BeingDeleted(x) /\ x # Idle /\ ~armed[x]
  BY <1>0, <1>1 DEF IdleHolds, Runner, Placed, PlacedAt
<1>3. UNCHANGED <<prio, armed, slice, list, group, current, cpu>>
  BY <1>1 DEF queueVars, cpuVars
<1>4. /\ pc' \in [Thread -> [op : Op, arg : Thread]]
      /\ pc'[Idle].op = "run" /\ pc'[Main] = pc[Main]
  BY <1>1, IdleExecutes DEF Return, Idling, Op
<1>5. \A y \in Thread : stat'[y] = IF y = x THEN "FREED" ELSE stat[y]
  BY <1>1 DEF Types
<1>6. Types'
  BY <1>1, <1>3, <1>4 DEF Types, Stat, cpuVars
<1>7. Touches(Idle, x)
  BY <1>1, <1>3, <1>4, <1>5 DEF Touches, BeingDeleted
<1>8. stat'[x] = "FREED" /\ At(list', x) = {} /\ ~armed'[x]
  BY <1>2, <1>3, <1>5
<1>9. MainHolds'
  <2>1. pc[Main].arg \in Thread
    BY <1>1, IdleExecutes
  <2>2. pc[Main].arg = x => pc[Main].op \in {"run", "sched", "reapSched", "reapFree"}
    <3>1. pc[Main].op \in Op
      BY <1>1, IdleExecutes
    <3> QED
      BY <1>2, <3>1 DEF Op, MainHolds, BeingDeleted
  <2> QED
    BY <1>3, <1>4, <1>5, <2>1, <2>2 DEF MainHolds
<1>10. IdleHolds'
  BY <1>4 DEF IdleHolds
<1>11. PlacedAt(x)' /\ stat'[x] # "RUNNING"
  BY <1>8 DEF PlacedAt
<1> QED
  BY <1>1, <1>2, <1>6, <1>7, <1>9, <1>10, <1>11, IdleExecutes, TouchKeeps

\* Every step of a thread, of a handler and of the hardware keeps Safe.
LEMMA NextSafe ==
    ASSUME SchedInv, Disciplined, [Next]_vars
    PROVE  Safe'
<1>1. ASSUME NEW t \in Thread \ {Idle}, Work(t) PROVE Safe'
  <2>1. CASE ThreadSchedule(t) \/ Yield(t)
    BY <2>1, ScheduleStep
  <2>2. CASE Wake(t)
    BY <2>2, WakeStep
  <2>3. CASE EnterCritical(t) \/ ExitCritical(t)
    BY <2>3, LockStep
  <2>4. CASE \E x \in Boostable, p \in BoostLevels : ChangePriority(t, x, p)
    BY <2>4, ChangePriorityStep
  <2>5. CASE t \in Blocker /\ Block(t, TRUE, FALSE)
    BY <2>5, BlockStep
  <2>6. CASE t \in Timed /\ Block(t, t \in Blocker, TRUE)
    BY <2>6, (t \in Blocker) \in BOOLEAN, BlockStep
  <2>7. CASE t \notin Controlled \cup Deletable \cup {Main} /\ Exit(t)
    BY <2>7, ExitStep
  <2> QED
    BY <1>1, <2>1, <2>2, <2>3, <2>4, <2>5, <2>6, <2>7 DEF Work
<1>2. CASE Control
  BY <1>2, CreateStep, StartupStep, CheckStep, DeleteUnlinkStep, ResumeUnlinkStep,
     ResumeInsertStep, SuspendStep, DeleteTimerStep, DeleteDefunctStep DEF Control
<1>3. CASE IdleLoop
  BY <1>3, ReapStep, ScheduleStep, ReapFreeStep, SchedulerAssumption DEF IdleLoop
<1>4. CASE Interrupt \/ PendSV
  BY <1>4, IsrStep, ScheduleStep, WakeStep, SchedulerAssumption DEF Interrupt
<1>5. CASE UNCHANGED vars
  <2> USE <1>5 DEF vars, threadVars, queueVars, cpuVars, SchedInv, Safe
  <2>1. Still /\ Aside /\ Types'
    BY DEF Still, Aside, Types, Tidy, At
  <2>2. Rescheduled'
    BY DEF Rescheduled
  <2> QED
    BY <2>1, <2>2, StillKeeps DEF Runner
<1> QED
  BY <1>1, <1>2, <1>3, <1>4, <1>5 DEF Next

-----------------------------------------------------------------------------
(* What the invariant says *)

\* On and OneList in terms of the lists a thread is on.
LEMMA OnAt ==
    ASSUME NEW q \in List, NEW x
    PROVE  On(q, x) <=> q \in At(list, x)
  BY DEF On, At, Elements

\* The invariant holds in every state.
LEMMA SchedInvHolds == Disciplined /\ Spec => []SchedInv
<1>1. Disciplined => (Init => SchedInv)
  BY InitSafe, InitSwitch DEF SchedInv
<1>2. Disciplined => (SchedInv /\ [Next]_vars => SchedInv')
  BY NextSafe, NextSwitch DEF SchedInv
<1>3. Disciplined => (Init /\ [][Next]_vars => []SchedInv)
  <2> SUFFICES ASSUME Disciplined PROVE Init /\ [][Next]_vars => []SchedInv
    OBVIOUS
  <2>1. Init => SchedInv
    BY <1>1
  <2>2. SchedInv /\ [Next]_vars => SchedInv'
    BY <1>2
  <2> QED
    BY <2>1, <2>2, PTL
<1> QED
  BY <1>3 DEF Spec

\* Every variable keeps its type, the lists and the bitmap included.
THEOREM SchedulerTypes == Disciplined /\ Spec => []TypeOK
<1>1. SchedInv => TypeOK
  BY DEF SchedInv, Safe, Types, Tidy, TypeOK
<1> QED
  BY <1>1, SchedInvHolds, PTL

\* rt_schedule never takes the head of an empty list, and overlooks no thread.
THEOREM ReadyBitmapHolds == Disciplined /\ Spec => []ReadyBitmap
<1>1. SchedInv => ReadyBitmap
  <2> SUFFICES ASSUME SchedInv, NEW p \in Prio PROVE p \in group <=> list[p] # <<>>
    BY DEF ReadyBitmap
  <2>1. Tidy(list, group) /\ p \in List
    BY Numbers DEF SchedInv, Safe
  <2> QED
    BY <2>1, HeadAt DEF Tidy
<1> QED
  BY <1>1, SchedInvHolds, PTL

\* No node is linked twice, so unlinking it takes it off for good.
THEOREM OneListHolds == Disciplined /\ Spec => []OneList
<1>1. SchedInv => OneList
  <2> SUFFICES ASSUME SchedInv, NEW q \in List, NEW r \in List,
                      NEW i \in 1..Len(list[q]), NEW j \in 1..Len(list[r]),
                      list[q][i] = list[r][j]
               PROVE  q = r /\ i = j
    BY DEF OneList
  <2> USE DEF SchedInv, Safe
  <2>1. \A s \in List : list[s] \in Seq(Thread) /\ Distinct(list[s])
    BY DEF Tidy
  <2>2. PICK x \in Thread : x = list[q][i]
    BY <2>1, ElementOfSeq, LenProperties
  <2>3. q \in At(list, x) /\ r \in At(list, x)
    BY <2>2 DEF At, Elements
  <2>4. stat[x] \in Stat /\ PlacedAt(x)
    BY DEF Types, Placed
  <2>5. q = r
    BY <2>3, <2>4 DEF PlacedAt, Stat
  <2> QED
    BY <2>1, <2>5 DEF Distinct
<1> QED
  BY <1>1, SchedInvHolds, PTL

\* A node is where stat and current_priority say it is.
THEOREM ListsMatchStatHolds == Disciplined /\ Spec => []ListsMatchStat
<1>1. SchedInv => ListsMatchStat
  <2> SUFFICES ASSUME SchedInv, NEW x \in Thread
               PROVE  /\ \A p \in Prio : On(p, x) => prio[x] = p /\ stat[x] = "READY"
                      /\ On(Wait, x) => stat[x] = "SUSPEND"
                      /\ On(Defunct, x) => stat[x] = "CLOSE"
                      /\ stat[x] = "READY" => On(prio[x], x) \/ BeingDeleted(x)
    BY DEF ListsMatchStat
  <2>1. stat[x] \in Stat /\ prio[x] \in Prio /\ PlacedAt(x)
    BY DEF SchedInv, Safe, Types, Placed
  <2> QED
    BY <2>1, Numbers, OnAt DEF PlacedAt, Stat
<1> QED
  BY <1>1, SchedInvHolds, PTL

\* There is always a thread to run, and one is RUNNING at most.
THEOREM AlwaysRunnableHolds == Disciplined /\ Spec => []AlwaysRunnable
<1>1. SchedInv => AlwaysRunnable
  <2> SUFFICES ASSUME SchedInv PROVE AlwaysRunnable
    OBVIOUS
  <2> USE DEF SchedInv, Safe
  <2>1. Idle \in Thread /\ prio[Idle] \in Prio /\ ~BeingDeleted(Idle)
    BY SchedulerAssumption DEF Types, MainHolds, BeingDeleted
  <2>2. stat[Idle] = "READY" => group # {}
    BY <2>1 DEF Placed, PlacedAt, Tidy
  <2> QED
    BY <2>1, <2>2 DEF AlwaysRunnable, Runner
<1> QED
  BY <1>1, SchedInvHolds, PTL

\* Whatever became ready, no thread goes on while one of a higher priority is
\* ready, unless rt_thread_resume or a change of priority by itself came after
\* the last rt_schedule.
THEOREM HighestRunsHolds == Disciplined /\ Spec => []HighestRuns
<1>1. SchedInv => HighestRuns
  <2> SUFFICES ASSUME SchedInv, NEW t \in Thread, Free(t), lockNest = 0
               PROVE  stat[t] = "RUNNING" /\ (~owed => \A p \in group : prio[t] <= p)
    BY DEF HighestRuns
  <2>1. t = current /\ t = cpu /\ isrSched = {} /\ pc[t].op = "run"
    BY ExecutesCurrent DEF Free, Calls
  <2> QED
    BY <2>1 DEF SchedInv, Safe, Rescheduled
<1> QED
  BY <1>1, SchedInvHolds, PTL

\* The assertion in rt_thread_timeout.
THEOREM TimeoutAssertionHolds == Disciplined /\ Spec => []TimeoutAssertion
<1>1. SchedInv => TimeoutAssertion
  BY DEF SchedInv, Safe, Placed, PlacedAt, TimeoutAssertion
<1> QED
  BY <1>1, SchedInvHolds, PTL

\* What the idle thread frees is in no list, has no timer, and is not the stack
\* a switch saves to or loads from.
THEOREM NoUseAfterFreeHolds == Disciplined /\ Spec => []NoUseAfterFree
<1>1. SchedInv => NoUseAfterFree
  <2> SUFFICES ASSUME SchedInv, NEW x \in Thread, stat[x] = "FREED"
               PROVE  /\ ~Linked(x) /\ ~armed[x] /\ x \notin {current, cpu}
                      /\ switch.flag => x \notin {switch.from, switch.to}
    BY DEF NoUseAfterFree
  <2>1. At(list, x) = {} /\ ~armed[x] /\ x \notin {current, cpu}
    BY DEF SchedInv, Safe, Placed, PlacedAt, Runner
  <2> QED
    BY <2>1, OnAt DEF Linked, SchedInv, SwitchInv, SavesTheRunner
<1> QED
  BY <1>1, SchedInvHolds, PTL
=============================================================================
