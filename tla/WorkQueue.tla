------------------------------ MODULE WorkQueue ------------------------------
(***************************************************************************)
(* Work queues: the worker thread, rt_workqueue_dowork and the three ways  *)
(* to cancel work.  The worker looks at its list, suspends itself, and     *)
(* takes the first work, in sections of their own; a caller that links     *)
(* work resumes the worker afterwards.                                     *)
(***************************************************************************)
EXTENDS Lists, FiniteSets

CONSTANTS
    Work,
    NoWork,
    Caller,         \* the threads that submit and cancel work
    Submits,        \* <<w, x>>: the function of w submits x
    Below,          \* the callers are below the worker: they execute only when
                    \* it waits, for work or inside a work function
    Serialized      \* no caller is preempted by another one between the link of
                    \* its work and the resumption of the worker

ASSUME WorkQueueAssumption ==
    /\ NoWork \notin Work
    /\ Submits \subseteq Work \X Work
    /\ Below \in BOOLEAN
    /\ Serialized \in BOOLEAN

VARIABLES
    workList,       \* queue->work_list
    workCurrent,    \* queue->work_current
    worker,         \* where the worker thread is
    syncing,        \* the threads that wait on queue->sem, whose value is zero
    calls           \* where the callers are

wqVars == <<workList, workCurrent, worker, syncing, calls>>

\* rt_workqueue_create
WqInit ==
    /\ workList = <<>>
    /\ workCurrent = NoWork
    /\ worker = "look"
    /\ syncing = <<>>
    /\ calls = [c \in Caller |-> "out"]

-----------------------------------------------------------------------------
(* The worker *)

\* The worker tests its list ...
Look ==
    /\ worker = "look"
    /\ worker' = IF workList = <<>> THEN "suspend" ELSE "take"
    /\ UNCHANGED <<workList, workCurrent, syncing, calls>>

\* ... and suspends itself.
Suspend ==
    /\ worker = "suspend"
    /\ worker' = "asleep"
    /\ UNCHANGED <<workList, workCurrent, syncing, calls>>

\* The first work is unlinked.  If there is none, the worker takes the list head
\* for one; the model stops there.
TakeWork ==
    /\ worker = "take"
    /\ workList # <<>>
    /\ workCurrent' = Head(workList)
    /\ workList' = Tail(workList)
    /\ worker' = "work"
    /\ UNCHANGED <<syncing, calls>>

\* Work x is linked at the end of the list, once.
LinkedLast(x) == Append(Without(workList, x), x)

\* rt_workqueue_dowork by a work function: nobody has to be resumed.
WorkSubmits(x) ==
    /\ worker = "work"
    /\ <<workCurrent, x>> \in Submits /\ x # workCurrent
    /\ workList' = LinkedLast(x)
    /\ UNCHANGED <<workCurrent, worker, syncing, calls>>

\* The work function returns.
WorkReturns ==
    /\ worker = "work"
    /\ workCurrent' = NoWork
    /\ worker' = "ack"
    /\ UNCHANGED <<workList, syncing, calls>>

\* Fault: one waiter is acknowledged.
AckOne ==
    /\ worker = "ack"
    /\ syncing' = IF syncing = <<>> THEN <<>> ELSE Tail(syncing)
    /\ worker' = "look"
    /\ UNCHANGED <<workList, workCurrent, calls>>

\* Fault: the worker suspends itself without a look.
AckAndSuspend ==
    /\ worker = "ack"
    /\ syncing' = <<>>
    /\ worker' = "suspend"
    /\ UNCHANGED <<workList, workCurrent, calls>>

\* _workqueue_work_completion: the semaphore is released until it can be taken,
\* that is until nobody waits.
Ack ==
    /\ worker = "ack"
    /\ syncing' = <<>>
    /\ worker' = "look"
    /\ UNCHANGED <<workList, workCurrent, calls>>

-----------------------------------------------------------------------------
(* The callers *)

\* Caller c may execute.  dowork enables interrupts and resumes the worker
\* without another look at the list: nothing in it keeps a second caller out.
MayCall(c) ==
    /\ Below => worker \in {"asleep", "work"}
    /\ Serialized => \A d \in Caller \ {c} : calls[d] # "resume"

Stay == UNCHANGED <<workCurrent, worker, syncing>>

\* rt_workqueue_dowork up to the resumption of the worker.
DoWork(c, x) ==
    /\ calls[c] = "out" /\ MayCall(c)
    /\ x # workCurrent
    /\ workList' = LinkedLast(x)
    /\ calls' = [calls EXCEPT ![c] = IF workCurrent = NoWork THEN "resume" ELSE "out"]
    /\ Stay

\* rt_thread_resume of the worker, if it is suspended.
ResumeWorker(c) ==
    /\ calls[c] = "resume" /\ MayCall(c)
    /\ worker' = IF worker = "asleep" THEN "take" ELSE worker
    /\ calls' = [calls EXCEPT ![c] = "out"]
    /\ UNCHANGED <<workList, workCurrent, syncing>>

\* rt_workqueue_cancel_work; also rt_workqueue_cancel_work_sync of work that
\* the worker does not do.
Cancel(c, x) ==
    /\ calls[c] = "out" /\ MayCall(c)
    /\ x # workCurrent
    /\ workList' = Without(workList, x)
    /\ UNCHANGED calls
    /\ Stay

\* rt_workqueue_cancel_all_work
CancelAll(c) ==
    /\ calls[c] = "out" /\ MayCall(c)
    /\ workList' = <<>>
    /\ UNCHANGED calls
    /\ Stay

\* rt_workqueue_cancel_work_sync of the work that is done waits for its end.
CancelSync(c) ==
    /\ calls[c] = "out" /\ MayCall(c)
    /\ workCurrent # NoWork
    /\ syncing' = Append(syncing, c)
    /\ calls' = [calls EXCEPT ![c] = "sync"]
    /\ UNCHANGED <<workList, workCurrent, worker>>

\* ... and returns when the worker has acknowledged it.
CancelSyncEnd(c) ==
    /\ calls[c] = "sync" /\ MayCall(c)
    /\ c \notin Elements(syncing)
    /\ calls' = [calls EXCEPT ![c] = "out"]
    /\ UNCHANGED workList
    /\ Stay

WorkerStep == Look \/ Suspend \/ TakeWork \/ WorkReturns \/ Ack

WqNext ==
    \/ WorkerStep
    \/ \E x \in Work : WorkSubmits(x)
    \/ \E c \in Caller :
         \/ \E x \in Work : DoWork(c, x) \/ Cancel(c, x)
         \/ ResumeWorker(c) \/ CancelAll(c) \/ CancelSync(c) \/ CancelSyncEnd(c)

\* The worker executes as long as it is ready, for it is above its callers; work
\* functions end; a caller that linked work goes on to resume the worker.
WqFairness ==
    /\ WF_wqVars(WorkerStep)
    /\ \A c \in Caller : WF_wqVars(ResumeWorker(c))

WqSpec == WqInit /\ [][WqNext]_wqVars /\ WqFairness

-----------------------------------------------------------------------------
(* Properties *)

\* The worker does not sleep next to work that nobody is about to wake it for,
\* and who waits for the end of a work is woken by the end of that very work.
\* For callers below the worker, whether or not they preempt each other.
NoSleepNextToWork ==
    /\ worker = "asleep" /\ workList # <<>> => \E c \in Caller : calls[c] = "resume"
    /\ syncing # <<>> => workCurrent # NoWork \/ worker = "ack"

\* "We have work to do with" (workqueue.c): besides, when the worker goes to its
\* list after a wake-up, or after it saw work, there is some.  This takes callers
\* that are below the worker and do not preempt each other between the link and
\* the resumption: else the second one's resumption lets the worker do the work
\* of both, and the first one's sends it to an empty list.
WorkerFindsWork ==
    /\ worker = "take" => workList # <<>>
    /\ NoSleepNextToWork

\* Work that was submitted is taken up or cancelled, unless it is submitted over
\* and over again, which puts it at the end of the list each time.  For the same
\* callers: a worker that takes the list head for work does no more work.
Submitted(x) == WorkSubmits(x) \/ \E c \in Caller : DoWork(c, x)
WorkIsDone ==
    \A x \in Work : []<>(x \notin Elements(workList)) \/ []<><<Submitted(x)>>_wqVars
=============================================================================
