----------------------------- MODULE Completion -----------------------------
(***************************************************************************)
(* RT-Thread completions: one thread waits in rt_completion_wait until     *)
(* others, threads or handlers, say rt_completion_done.                    *)
(***************************************************************************)
EXTENDS Waiters

CONSTANTS
    Awaiting        \* the threads that call rt_completion_wait

\* "only one thread can suspend on complete", which the code asserts.
ASSUME CompletionAssumption ==
    /\ Awaiting \subseteq Thread
    /\ \A t, u \in Awaiting : t = u
    /\ "completion" \in List

VARIABLES
    completed       \* completion->flag = RT_COMPLETED


Awaits == [op |-> "complete", arg |-> NoMessage]
Completes == [op |-> "done", arg |-> NoMessage]

\* rt_completion_init
CpInit == completed = FALSE

\* rt_completion_wait of what is completed.
AwaitNow(t) ==
    /\ Idle(t)
    /\ completed
    /\ completed' = FALSE
    /\ UNCHANGED waitVars

\* Fault: the flag was read before interrupts were disabled.
AwaitStale(t, left) ==
    /\ Idle(t)
    /\ IF left THEN SuspendLast("completion", t, Awaits) ELSE UNCHANGED waitVars
    /\ UNCHANGED completed

\* rt_completion_wait of what is not: it returns without the flag's reset, or t
\* waits.
AwaitWaits(t, left) ==
    /\ Idle(t)
    /\ ~ completed
    /\ IF left THEN SuspendLast("completion", t, Awaits) ELSE UNCHANGED waitVars
    /\ UNCHANGED completed

\* rt_completion_wait after rt_schedule: it resets the flag, also when its time
\* is over, and returns thread->error.
AwaitReturns(t) ==
    /\ state[t] \in {"woken", "failed"}
    /\ state' = [state EXCEPT ![t] = "run"]
    /\ Leaves(t)
    /\ completed' = FALSE
    /\ UNCHANGED waiting

\* rt_completion_done of thread t reads the flag with interrupts enabled, and
\* returns at once if it is set.
DoneReads(t) ==
    /\ Idle(t)
    /\ ~ completed
    /\ call' = [call EXCEPT ![t] = Completes]
    /\ UNCHANGED <<waiting, state, completed>>

\* The flag is set, and the waiting thread is woken.
Sets(running) ==
    /\ completed' = TRUE
    /\ ResumeFirst("completion", running)

\* The protected section of rt_completion_done: the flag may be set by now.
DoneSets(t) ==
    /\ state[t] = "run"
    /\ call[t] = Completes
    /\ Sets({t})
    /\ Leaves(t)

\* rt_completion_done by an interrupt handler.
DoneIsr ==
    /\ ~ completed
    /\ Sets({})
    /\ UNCHANGED call

CpNext ==
    \/ \E t \in Awaiting :
         \/ AwaitNow(t)
         \/ \E left \in BOOLEAN : AwaitWaits(t, left)
         \/ AwaitReturns(t)
         \/ Timeout(t) /\ UNCHANGED completed
    \/ \E t \in Thread : DoneReads(t) \/ DoneSets(t)
    \/ DoneIsr

CpSpec == WaitersInit /\ CpInit /\ [][CpNext]_<<waitVars, completed>>

-----------------------------------------------------------------------------
(* Properties *)

\* Nobody sleeps next to a completion that is completed, one thread at most
\* sleeps there (the assertion of rt_completion_wait), and a thread that was
\* woken by a done call still finds the flag it is to reset, although calls of
\* others come in between.
CompletionWakes ==
    /\ waiting["completion"] # <<>> => ~ completed /\ Len(waiting["completion"]) = 1
    /\ Woken("complete") # {} => completed
=============================================================================
