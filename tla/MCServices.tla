----------------------------- MODULE MCServices -----------------------------
(* One of: a ring buffer, a pipe with a reader and two writers, a work queue *)
(* with two callers, the soft timers, or the heap.                           *)
EXTENDS RingBuffer, Pipe, WorkQueue, SoftTimer, Heap, TLC

CONSTANTS x, y, w1, w2, w3, often, third, user,
          Services          \* the services of the run

VARIABLE service

MCChunk == {<<x>>, <<y>>, <<x, y>>, <<y, x, x>>, <<x, y, x, y, y>>}
MCSubmits == {<<w1, w2>>, <<w2, w1>>}
MCInitTick == third :> 4 @@ often :> 1
MCManaged == user :> {often}
MCStarts == {<<often, third>>}
MCStops == {<<often, often>>}

allVars == <<rbVars, pipeVars, wqVars, softVars, heapVars, service>>

MCInit ==
    /\ RbInit /\ PipeInit /\ WqInit /\ SoftInit /\ HeapInit
    /\ service \in Services
    /\ service # "timers" => tick = 0

MCNext ==
    /\ \/ service = "ring buffer" /\ RbNext /\ UNCHANGED <<pipeVars, wqVars, softVars, heapVars>>
       \/ service = "pipe" /\ PipeNext /\ UNCHANGED <<rbVars, wqVars, softVars, heapVars>>
       \/ service = "work queue" /\ WqNext /\ UNCHANGED <<rbVars, pipeVars, softVars, heapVars>>
       \/ service = "timers" /\ SoftNext /\ UNCHANGED <<rbVars, pipeVars, wqVars, heapVars>>
       \/ service = "heap" /\ HeapNext /\ UNCHANGED <<rbVars, pipeVars, wqVars, softVars>>
    /\ UNCHANGED service

MCSpec ==
    /\ MCInit /\ [][MCNext]_allVars
    /\ \A t \in Users : WF_pipeVars(service = "pipe" /\ GoOn(t))
    /\ \A t \in Reader : WF_pipeVars(service = "pipe" /\ Begin(t))
    /\ WF_wqVars(service = "work queue" /\ WorkerStep)
    /\ \A c \in Caller : WF_wqVars(service = "work queue" /\ ResumeWorker(c))
=============================================================================
