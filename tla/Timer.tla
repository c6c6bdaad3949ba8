-------------------------------- MODULE Timer --------------------------------
(***************************************************************************)
(* The hard timers of RT-Thread: the list sorted by a tick that wraps      *)
(* around, rt_timer_start and rt_timer_stop, and rt_timer_check in the     *)
(* tick interrupt with the callbacks it makes.                             *)
(*                                                                         *)
(* rt_timer_check runs with interrupts disabled, so a thread executes only *)
(* when no check is under way; the calls of a thread are several actions,  *)
(* between which the tick interrupt may come.  A callback's own calls are  *)
(* made with interrupts disabled and are one action.                       *)
(***************************************************************************)
EXTENDS Lists

CONSTANTS
    Timer,
    NoTimer,    \* not a timer
    TickMax,    \* RT_TICK_MAX, the largest rt_tick_t
    InitTick,   \* timer->init_tick
    Periodic,   \* the timers with RT_TIMER_FLAG_PERIODIC
    Thread,
    Managed,    \* the timers each thread starts and stops
    Starts,     \* <<t, x>>: the callback of t starts x
    Stops,      \* <<t, x>>: the callback of t stops x
    MaxLate     \* bound on the ticks that pass inside one rt_timer_start

Half == TickMax \div 2

\* RT_ASSERT(timer->init_tick < RT_TICK_MAX / 2), with room for the ticks that
\* pass between the reading of the tick and the insertion.  A period of no ticks
\* would keep rt_timer_check in its loop.
ASSUME TimerAssumption ==
    /\ NoTimer \notin Timer
    /\ TickMax \in Nat
    /\ MaxLate \in Nat
    /\ InitTick \in [Timer -> {n \in 1..TickMax : n + MaxLate < Half}]
    /\ Periodic \subseteq Timer
    /\ Managed \in [Thread -> SUBSET Timer]
    /\ Starts \cup Stops \subseteq Timer \X Timer

VARIABLES
    tick,       \* rt_tick
    list,       \* rt_timer_list
    timeout,    \* timer->timeout_tick
    active,     \* RT_TIMER_FLAG_ACTIVATED
    check,      \* where rt_timer_check is, and the timer it took off the list
    pc          \* where each thread is in rt_timer_start or rt_timer_stop

vars == <<tick, list, timeout, active, check, pc>>

Running == [op |-> "run", timer |-> NoTimer]
NoCheck == [at |-> "no", timer |-> NoTimer]
Linked(t) == t \in Elements(list)

\* The unsigned difference of two ticks.
Minus(a, b) == (a - b) % (TickMax + 1)

\* The sum of two ticks.
Plus(a, b) == (a + b) % (TickMax + 1)

\* Fault: ticks are compared as if they never wrapped.
DueUnwrapped(t) == timeout[t] <= tick

\* The comparison of rt_timer_check.
Due(t) == Minus(tick, timeout[t]) < Half

\* Fault: the comparison does not wrap.
LaterUnwrapped(out, t) ==
    {i \in 1..Len(Without(list, t)) : timeout[Without(list, t)[i]] > out}

\* The timers of the list that expire after the tick out.
Later(out, t) ==
    {i \in 1..Len(Without(list, t)) :
       Minus(timeout[Without(list, t)[i]], out) \in 1..(Half - 1)}

\* The list with t, which expires at the tick out, before the first timer that
\* expires later.
WithTimer(t, out) ==
    LET l == Without(list, t)
        later == Later(out, t)
    IN  IF later = {} THEN Append(l, t)
        ELSE InsertedAt(l, CHOOSE i \in later : \A j \in later : i <= j, t)

\* rt_timer_start as a whole, in the tick interrupt.
StartNow(t) ==
    LET out == Plus(tick, InitTick[t])
    IN  /\ timeout' = [timeout EXCEPT ![t] = out]
        /\ list' = WithTimer(t, out)
        /\ active' = [active EXCEPT ![t] = TRUE]

\* rt_timer_stop as a whole: a timer that is not activated is left alone.
StopNow(t) ==
    /\ list' = IF active[t] THEN Without(list, t) ELSE list
    /\ active' = [active EXCEPT ![t] = FALSE]
    /\ UNCHANGED timeout

-----------------------------------------------------------------------------
(* Threads *)

Calls(th, op) == check.at = "no" /\ pc[th].op = op
Goto(th, op, t) == pc' = [pc EXCEPT ![th] = [op |-> op, timer |-> t]]
Return(th) == pc' = [pc EXCEPT ![th] = Running]

\* rt_timer_start stops the timer, ...
StartUnlink(th, t) ==
    /\ Calls(th, "run")
    /\ list' = Without(list, t)
    /\ active' = [active EXCEPT ![t] = FALSE]
    /\ Goto(th, "compute", t)
    /\ UNCHANGED <<tick, timeout, check>>

\* ... reads the tick with interrupts enabled ...
StartCompute(th) ==
    LET t == pc[th].timer
    IN  /\ Calls(th, "compute")
        /\ timeout' = [timeout EXCEPT ![t] = Plus(tick, InitTick[t])]
        /\ Goto(th, "insert", t)
        /\ UNCHANGED <<tick, list, active, check>>

\* ... and inserts the timer.
StartInsert(th) ==
    LET t == pc[th].timer
    IN  /\ Calls(th, "insert")
        /\ list' = WithTimer(t, timeout[t])
        /\ active' = [active EXCEPT ![t] = TRUE]
        /\ Return(th)
        /\ UNCHANGED <<tick, timeout, check>>

\* rt_timer_stop tests the flag, ...
StopTest(th, t) ==
    /\ Calls(th, "run")
    /\ active[t]
    /\ Goto(th, "unlink", t)
    /\ UNCHANGED <<tick, list, timeout, active, check>>

\* ... takes the timer off the list ...
StopUnlink(th) ==
    /\ Calls(th, "unlink")
    /\ list' = Without(list, pc[th].timer)
    /\ Goto(th, "clear", pc[th].timer)
    /\ UNCHANGED <<tick, timeout, active, check>>

\* ... and clears the flag, with interrupts enabled.
StopClear(th) ==
    /\ Calls(th, "clear")
    /\ active' = [active EXCEPT ![pc[th].timer] = FALSE]
    /\ Return(th)
    /\ UNCHANGED <<tick, list, timeout, check>>

-----------------------------------------------------------------------------
(* The tick interrupt *)

\* The ticks that passed since thread th read the tick.
Lateness(th) ==
    LET t == pc[th].timer
    IN  IF pc[th].op = "insert" THEN Minus(Plus(tick, InitTick[t]), timeout[t]) ELSE 0

\* rt_tick_increase up to rt_timer_check.
Tick ==
    /\ check.at = "no"
    /\ \A th \in Thread : pc[th].op = "insert" => Lateness(th) < MaxLate
    /\ tick' = Plus(tick, 1)
    /\ check' = [NoCheck EXCEPT !.at = "loop"]
    /\ UNCHANGED <<list, timeout, active, pc>>

\* The loop condition of rt_timer_check: the first timer is due.
FirstIsDue == list # <<>> /\ Due(Head(list))

\* The first timer is taken off the list.
CheckExpire ==
    /\ check.at = "loop"
    /\ FirstIsDue
    /\ list' = Tail(list)
    /\ check' = [at |-> "callback", timer |-> Head(list)]
    /\ UNCHANGED <<tick, timeout, active, pc>>

\* The timeout function, with at most one call to the timers.
Callback ==
    LET t == check.timer
    IN  /\ check.at = "callback"
        /\ \/ UNCHANGED <<list, timeout, active>>
           \/ \E x \in Timer : <<t, x>> \in Starts /\ StartNow(x)
           \/ \E x \in Timer : <<t, x>> \in Stops /\ StopNow(x)
        /\ check' = [check EXCEPT !.at = "after"]
        /\ UNCHANGED <<tick, pc>>

\* Fault: the next period begins at once.
CheckRestartNow ==
    LET t == check.timer
    IN  /\ check.at = "after"
        /\ IF t \in Periodic /\ active[t]
             THEN /\ timeout' = [timeout EXCEPT ![t] = tick]
                  /\ list' = WithTimer(t, tick)
                  /\ UNCHANGED active
             ELSE /\ active' = [active EXCEPT ![t] = FALSE]
                  /\ UNCHANGED <<list, timeout>>
        /\ check' = [NoCheck EXCEPT !.at = "loop"]
        /\ UNCHANGED <<tick, pc>>

\* Fault: a one-shot timer that has expired stays activated.
CheckRestartOnly ==
    LET t == check.timer
    IN  /\ check.at = "after"
        /\ IF t \in Periodic /\ active[t] THEN StartNow(t)
             ELSE UNCHANGED <<list, timeout, active>>
        /\ check' = [NoCheck EXCEPT !.at = "loop"]
        /\ UNCHANGED <<tick, pc>>

\* After the callback a periodic timer that was not stopped is started again,
\* any other one is marked as stopped.
CheckRestart ==
    LET t == check.timer
    IN  /\ check.at = "after"
        /\ IF t \in Periodic /\ active[t]
             THEN StartNow(t)
             ELSE /\ active' = [active EXCEPT ![t] = FALSE]
                  /\ UNCHANGED <<list, timeout>>
        /\ check' = [NoCheck EXCEPT !.at = "loop"]
        /\ UNCHANGED <<tick, pc>>

\* No timer is left, or the first one is not due yet.
CheckEnd ==
    /\ check.at = "loop"
    /\ ~FirstIsDue
    /\ check' = NoCheck
    /\ UNCHANGED <<tick, list, timeout, active, pc>>

-----------------------------------------------------------------------------

\* The tick may have any value when the timers come into use.
Init ==
    /\ tick \in 0..TickMax
    /\ list = <<>>
    /\ timeout = [t \in Timer |-> 0]
    /\ active = [t \in Timer |-> FALSE]
    /\ check = NoCheck
    /\ pc = [th \in Thread |-> Running]

Continue(th) ==
    StartCompute(th) \/ StartInsert(th) \/ StopUnlink(th) \/ StopClear(th)

Check == CheckExpire \/ Callback \/ CheckRestart \/ CheckEnd

Next ==
    \/ \E th \in Thread :
         \/ Continue(th)
         \/ \E t \in Managed[th] : StartUnlink(th, t) \/ StopTest(th, t)
    \/ Tick
    \/ Check

\* The tick interrupt keeps coming, its handler and the calls come to an end.
Spec ==
    /\ Init /\ [][Next]_vars
    /\ WF_vars(Tick) /\ WF_vars(Check)
    /\ \A th \in Thread : SF_vars(Continue(th))

-----------------------------------------------------------------------------
(* Properties *)

\* The list is sorted in the order of expiry, through every wrap of the tick and
\* although a thread may insert a timer late: no earlier element expires after a
\* later one; and no timer is on it twice.
Sorted ==
    \A i, j \in 1..Len(list) :
      i < j => /\ Minus(timeout[list[j]], timeout[list[i]]) < Half
               /\ list[i] # list[j]

\* No timer expires before its time, and none later than the tick after its
\* insertion, also when the tick wrapped around in between.
OnTime ==
    check.at = "callback" => Minus(tick, timeout[check.timer]) <= MaxLate

\* Nobody is in the middle of an operation on t.
Settled(t) ==
    /\ check.timer # t
    /\ \A th \in Thread : pc[th].timer # t

\* The flag tells whether a timer is on the list ("stop timer" of
\* rt_timer_check, and the test of rt_timer_stop, rely on it).
ActiveIffLinked == \A t \in Timer : Settled(t) => (active[t] <=> Linked(t))

\* A timer that no callback starts again expires, or is stopped or started
\* again by a thread.
Expires ==
    \A t \in {x \in Timer : \A y \in Timer : <<y, x>> \notin Starts} :
      Linked(t) ~> ~Linked(t)
=============================================================================
