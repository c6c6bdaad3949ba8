------------------------------ MODULE SoftTimer ------------------------------
(***************************************************************************)
(* The soft timers of RT-Thread: the timer thread, which sleeps until the  *)
(* first timer of rt_soft_timer_list expires and runs the callbacks with   *)
(* interrupts enabled.  The list is the one of module Timer; the tick      *)
(* interrupt only ends the sleep of the timer thread.                      *)
(*                                                                         *)
(* A thread that calls rt_timer_start or rt_timer_stop executes while the  *)
(* timer thread waits, unless it is one of Above: a thread of a higher     *)
(* priority, or an interrupt handler.                                      *)
(***************************************************************************)
EXTENDS Timer

CONSTANTS
    Above,          \* the callers that execute while the timer thread is awake
    MaxBusy         \* bound on the ticks that pass while the timer thread is
                    \* awake, or about to be resumed

\* A bound on the ticks a timer is overdue when the timer thread is resumed for it:
\* it was inserted late, or the thread began its sleep late and a tick ends it.
Overdue == IF MaxLate > MaxBusy THEN MaxLate ELSE MaxBusy + 1

ASSUME SoftTimerAssumption ==
    /\ Above \subseteq Thread
    /\ MaxBusy \in Nat
    /\ \A t \in Timer : InitTick[t] + Overdue + MaxBusy <= Half

VARIABLES
    server,         \* where the timer thread is
    current,        \* current_tick, next_timeout or the tick it sleeps until
                    \* (in "sleep", the ticks it is about to sleep)
    successor,      \* n, the next timer to look at, or NoTimer at the list head
    busy            \* the ticks since the timer thread woke up, or had to

softVars == <<vars, server, current, successor, busy>>

ServerWaits == server \in {"suspended", "delay"}

\* Caller th has the processor.
MayAct(th) == th \notin Above => ServerWaits

\* The timer behind t on the list; one that is on no list is linked to itself.
NextOf(t) ==
    IF ~ Linked(t) THEN t
    ELSE LET i == CHOOSE i \in 1..Len(list) : list[i] = t
         IN  IF i = Len(list) THEN NoTimer ELSE list[i + 1]

First == IF list = <<>> THEN NoTimer ELSE Head(list)

\* rt_system_timer_thread_init
SoftInit ==
    /\ Init
    /\ server = "look"
    /\ current = 0
    /\ successor = NoTimer
    /\ busy = 0

-----------------------------------------------------------------------------
(* Threads *)

\* rt_timer_start and rt_timer_stop as module Timer has them, up to ...
SoftCall(th) ==
    /\ MayAct(th)
    /\ \/ StartCompute(th) \/ StopUnlink(th) \/ StopClear(th)
       \/ \E t \in Managed[th] : StartUnlink(th, t) \/ StopTest(th, t)
    /\ UNCHANGED <<server, current, successor, busy>>

\* ... the insertion into rt_soft_timer_list ...
SoftInsert(th) ==
    LET t == pc[th].timer
    IN  /\ MayAct(th)
        /\ Calls(th, "insert")
        /\ list' = WithTimer(t, timeout[t])
        /\ active' = [active EXCEPT ![t] = TRUE]
        /\ Goto(th, "resume", NoTimer)
        /\ UNCHANGED <<tick, timeout, check, server, current, successor, busy>>

\* Fault: the timer thread is left to sleep until the time it has chosen.
SoftResumeIfIdle(th) ==
    /\ MayAct(th)
    /\ Calls(th, "resume")
    /\ Return(th)
    /\ server' = IF server = "suspended" THEN "check" ELSE server
    /\ UNCHANGED <<tick, list, timeout, active, check, current, successor, busy>>

\* ... and the resumption of the timer thread, whatever it waits for.  If it is
\* awake it is left alone, also when it has looked at the list already.
SoftResume(th) ==
    /\ MayAct(th)
    /\ Calls(th, "resume")
    /\ Return(th)
    /\ server' = IF ServerWaits THEN "check" ELSE server
    /\ UNCHANGED <<tick, list, timeout, active, check, current, successor, busy>>

-----------------------------------------------------------------------------
(* The timer thread *)

\* rt_timer_list_next_timeout.  It takes a first timer that expires at RT_TICK_MAX
\* for none; the model stops there.
SoftLook ==
    /\ server = "look"
    /\ IF list = <<>>
         THEN server' = "empty" /\ UNCHANGED current
         ELSE /\ timeout[Head(list)] # TickMax
              /\ server' = "plan" /\ current' = timeout[Head(list)]
    /\ UNCHANGED <<vars, successor, busy>>

\* Without timers rt_thread_timer_entry suspends itself.
SoftSuspend ==
    /\ server = "empty"
    /\ server' = "suspended"
    /\ busy' = 0
    /\ UNCHANGED <<vars, current, successor>>

\* The tick is read for the time that is left, if the timer is not due yet ...
SoftPlan ==
    /\ server = "plan"
    /\ IF Minus(current, tick) < Half
         THEN server' = "sleep" /\ current' = Minus(current, tick)
         ELSE server' = "check" /\ UNCHANGED current
    /\ UNCHANGED <<vars, successor, busy>>

\* ... and read again by rt_thread_delay when the sleep begins.
SoftSleep ==
    /\ server = "sleep"
    /\ server' = "delay"
    /\ current' = Plus(tick, current)
    /\ busy' = 0
    /\ UNCHANGED <<vars, successor>>

\* rt_soft_timer_check reads the tick and goes to the first timer.
SoftCheck ==
    /\ server = "check"
    /\ current' = tick
    /\ successor' = First
    /\ server' = "loop"
    /\ UNCHANGED <<vars, busy>>

SoftDue(t) == Minus(current, timeout[t]) < Half

\* Fault: the next timer is looked up after the removal.
SoftExpireSwapped ==
    /\ server = "loop" /\ successor # NoTimer /\ SoftDue(successor)
    /\ list' = Without(list, successor)
    /\ check' = [at |-> "callback", timer |-> successor]
    /\ server' = "callback"
    /\ UNCHANGED <<tick, timeout, active, pc, current, successor, busy>>

\* The next timer is due: it is taken off the list.
SoftExpire ==
    /\ server = "loop" /\ successor # NoTimer /\ SoftDue(successor)
    /\ list' = Without(list, successor)
    /\ successor' = NextOf(successor)
    /\ check' = [at |-> "callback", timer |-> successor]
    /\ server' = "callback"
    /\ UNCHANGED <<tick, timeout, active, pc, current, busy>>

\* No timer is left, or the next one is not due yet.
SoftEnd ==
    /\ server = "loop" /\ (successor # NoTimer => ~ SoftDue(successor))
    /\ server' = "look"
    /\ UNCHANGED <<vars, current, successor, busy>>

\* The timeout function, and the tick is read again.
SoftCallback ==
    /\ server = "callback"
    /\ Callback
    /\ server' = "after"
    /\ current' = tick
    /\ UNCHANGED <<successor, busy>>

\* A periodic timer that was not stopped is started again.
SoftRestart ==
    LET t == check.timer
    IN  /\ server = "after"
        /\ IF t \in Periodic /\ active[t]
             THEN StartNow(t)
             ELSE /\ active' = [active EXCEPT ![t] = FALSE]
                  /\ UNCHANGED <<list, timeout>>
        /\ check' = NoCheck
        /\ server' = "loop"
        /\ UNCHANGED <<tick, pc, current, successor, busy>>

\* rt_tick_increase; it ends the sleep of the timer thread, whose own timer is
\* no longer in the future.
SoftTick ==
    LET wakes == server = "delay" /\ Minus(Plus(tick, 1), current) < Half
        counts == ~ ServerWaits \/ \E th \in Thread : pc[th].op = "resume"
    IN  /\ \A th \in Thread : pc[th].op = "insert" => Lateness(th) < MaxLate
        /\ tick' = Plus(tick, 1)
        /\ server' = IF wakes THEN "check" ELSE server
        /\ counts => busy < MaxBusy
        /\ busy' = IF counts THEN busy + 1 ELSE 0
        /\ UNCHANGED <<list, timeout, active, check, pc, current, successor>>

Serve ==
    \/ SoftLook \/ SoftSuspend \/ SoftPlan \/ SoftSleep \/ SoftCheck
    \/ SoftExpire \/ SoftEnd \/ SoftCallback \/ SoftRestart

SoftNext ==
    \/ \E th \in Thread : SoftCall(th) \/ SoftInsert(th) \/ SoftResume(th)
    \/ Serve
    \/ SoftTick

SoftSpec == SoftInit /\ [][SoftNext]_softVars

-----------------------------------------------------------------------------
(* Properties *)

\* The timer thread sleeps without end only if there is no timer, and past the first
\* one by no more than the ticks between its two readings of the tick, whichever
\* timer was started or stopped while it was asleep -- or the thread that started
\* one is about to resume it.  (Callers that execute while it is awake can start one
\* between its look at the list and its sleep: see Above.)
NoOversleep ==
    ServerWaits /\ list # <<>> =>
      \/ \E th \in Thread : pc[th].op = "resume"
      \/ /\ server = "delay"
         /\ \/ Minus(timeout[Head(list)], current) < Half
            \/ Minus(current, timeout[Head(list)]) <= MaxBusy

\* A callback is made for a timer that is on the list, when its time has come, and
\* at most Overdue + MaxBusy ticks later: the lateness of its insertion or the late
\* start of a sleep and the tick that ends it, and the time the timer thread is
\* awake.
FiresLinked ==
    [][server = "loop" /\ server' = "callback" =>
         /\ Linked(successor) /\ active[successor]
         /\ Minus(tick, timeout[successor]) <= Overdue + MaxBusy]_softVars
=============================================================================
