----------------------------- MODULE ServiceProofs -----------------------------
(***************************************************************************)
(* Work queues whose callers are below the worker, for any work and any    *)
(* callers, pipes with one reader, for any writers and sizes, the heap of  *)
(* mem.c, for any size of it and of its blocks, and ring buffers of any    *)
(* size: the worker finds work when it looks for some, the reader does not *)
(* sleep next to bytes, the heap stays a chain of blocks that are the      *)
(* callers' or free, and a ring buffer is a bounded queue of bytes.        *)
(***************************************************************************)
EXTENDS RingBuffer, WorkQueue, Pipe, Heap, ListTheorems

-----------------------------------------------------------------------------
(* Work queues *)

\* What callers below the worker keep, whether or not they preempt each other: the
\* worker suspends itself only after it saw an empty list, and the list of a worker
\* that sleeps is changed only by those who resume it afterwards.
WqInv ==
    /\ workList \in Seq(Work)
    /\ worker \in {"look", "suspend", "asleep", "take", "work", "ack"}
    /\ workCurrent # NoWork <=> worker = "work"
    /\ worker = "suspend" => workList = <<>>
    /\ worker = "asleep" /\ workList # <<>> => \E c \in Caller : calls[c] = "resume"
    /\ syncing # <<>> => worker \in {"work", "ack"}
    /\ calls = [c \in Caller |-> calls[c]]

\* What callers keep that do not: one that is about to resume the worker finds it
\* asleep, with work, for nobody executed since it linked the work.
Undisturbed ==
    /\ \A c \in Caller : calls[c] = "resume" => worker = "asleep" /\ workList # <<>>
    /\ worker = "take" => workList # <<>>

\* A new worker looks at an empty list.
LEMMA WqInvInit == WqInit => WqInv /\ Undisturbed
  BY DEF WqInit, WqInv, Undisturbed

\* Linked work is on the list.
LEMMA LinkedLastSeq ==
    ASSUME WqInv, NEW x \in Work
    PROVE  LinkedLast(x) \in Seq(Work) /\ LinkedLast(x) # <<>>
<1>1. Without(workList, x) \in Seq(Work)
  BY WithoutElements DEF WqInv
<1> QED
  BY <1>1, AppendProperties DEF LinkedLast

\* A cancellation leaves a list of work, and an empty one empty.
LEMMA Cancelled ==
    ASSUME WqInv, workList' = <<>> \/ \E x \in Work : workList' = Without(workList, x)
    PROVE  workList' \in Seq(Work) /\ (workList = <<>> => workList' = <<>>)
<1>1. CASE workList' = <<>>
  BY <1>1
<1>2. ASSUME NEW x \in Work, workList' = Without(workList, x)
      PROVE  workList' \in Seq(Work) /\ (workList = <<>> => workList' = <<>>)
  <2>1. /\ workList' \in Seq(Work) /\ workList \in Seq(Work)
        /\ Elements(workList') \subseteq Elements(workList)
    BY <1>2, WithoutElements DEF WqInv
  <2> QED
    BY <2>1, HeadElement
<1> QED
  BY <1>1, <1>2

\* Every step of the worker and of its callers keeps the invariant.
LEMMA WqInvNext ==
    ASSUME Below = TRUE
    PROVE  WqInv /\ [WqNext]_wqVars => WqInv'
<1> SUFFICES ASSUME WqInv, [WqNext]_wqVars PROVE WqInv'
  OBVIOUS
<1>1. CASE Look \/ Suspend \/ WorkReturns \/ Ack
  BY <1>1 DEF Look, Suspend, WorkReturns, Ack, WqInv
<1>2. CASE TakeWork
  <2>1. Head(workList) \in Work /\ Tail(workList) \in Seq(Work)
    BY <1>2, HeadTailProperties DEF TakeWork, WqInv
  <2>2. workCurrent' # NoWork
    BY <1>2, <2>1, WorkQueueAssumption DEF TakeWork
  <2> QED
    BY <1>2, <2>1, <2>2 DEF TakeWork, WqInv
<1>3. ASSUME NEW x \in Work, WorkSubmits(x) PROVE WqInv'
  BY <1>3, LinkedLastSeq DEF WorkSubmits, WqInv
<1>4. ASSUME NEW c \in Caller, NEW x \in Work, DoWork(c, x) PROVE WqInv'
  <2>1. /\ worker \in {"asleep", "work"} /\ workList' = LinkedLast(x)
        /\ UNCHANGED <<workCurrent, worker, syncing>>
        /\ calls' = [calls EXCEPT ![c] = IF workCurrent = NoWork THEN "resume" ELSE "out"]
    BY <1>4 DEF DoWork, MayCall, Stay
  <2>2. worker = "asleep" => calls'[c] = "resume"
    BY <2>1 DEF WqInv
  <2> QED
    BY <2>1, <2>2, LinkedLastSeq DEF WqInv
<1>5. ASSUME NEW c \in Caller, ResumeWorker(c) PROVE WqInv'
  <2>1. /\ worker \in {"asleep", "work"} /\ UNCHANGED <<workList, workCurrent, syncing>>
        /\ worker' = IF worker = "asleep" THEN "take" ELSE worker
        /\ calls' = [calls EXCEPT ![c] = "out"]
    BY <1>5 DEF ResumeWorker, MayCall
  <2> QED
    BY <2>1 DEF WqInv
<1>6. ASSUME NEW c \in Caller, CancelAll(c) \/ \E x \in Work : Cancel(c, x) PROVE WqInv'
  <2>1. /\ worker \in {"asleep", "work"}
        /\ UNCHANGED <<workCurrent, worker, syncing, calls>>
        /\ workList' = <<>> \/ \E x \in Work : workList' = Without(workList, x)
    BY <1>6 DEF CancelAll, Cancel, MayCall, Stay
  <2> QED
    BY <2>1, Cancelled DEF WqInv
<1>7. ASSUME NEW c \in Caller, CancelSync(c) \/ CancelSyncEnd(c) PROVE WqInv'
  <2>1. CASE CancelSync(c)
    BY <1>7, <2>1 DEF CancelSync, WqInv
  <2>2. CASE CancelSyncEnd(c)
    BY <1>7, <2>2 DEF CancelSyncEnd, Stay, WqInv
  <2> QED
    BY <1>7, <2>1, <2>2
<1>8. CASE UNCHANGED wqVars
  BY <1>8 DEF wqVars, WqInv
<1> QED
  BY <1>1, <1>2, <1>3, <1>4, <1>5, <1>6, <1>7, <1>8 DEF WqNext, WorkerStep

\* And if no caller preempts another one between link and resumption, none is
\* disturbed.
LEMMA UndisturbedNext ==
    ASSUME Below = TRUE, Serialized = TRUE
    PROVE  WqInv /\ Undisturbed /\ [WqNext]_wqVars => Undisturbed'
<1> SUFFICES ASSUME WqInv, Undisturbed, [WqNext]_wqVars PROVE Undisturbed'
  OBVIOUS
<1>1. CASE WorkerStep
  <2>1. /\ worker \notin {"asleep"} /\ UNCHANGED calls
        /\ worker' = "take" => workList' # <<>>
    BY <1>1 DEF WorkerStep, Look, Suspend, TakeWork, WorkReturns, Ack
  <2> QED
    BY <2>1 DEF Undisturbed
<1>2. ASSUME NEW x \in Work, WorkSubmits(x) PROVE Undisturbed'
  BY <1>2 DEF WorkSubmits, Undisturbed
<1>3. ASSUME NEW c \in Caller, NEW x \in Work, DoWork(c, x) PROVE Undisturbed'
  <2>1. /\ worker \in {"asleep", "work"} /\ workList' = LinkedLast(x) /\ worker' = worker
        /\ calls' = [calls EXCEPT ![c] = IF workCurrent = NoWork THEN "resume" ELSE "out"]
    BY <1>3 DEF DoWork, MayCall, Stay
  <2> QED
    BY <2>1, LinkedLastSeq DEF WqInv, Undisturbed
<1>4. ASSUME NEW c \in Caller, ResumeWorker(c) PROVE Undisturbed'
  <2>1. /\ worker = "asleep" /\ worker' = "take" /\ workList' = workList /\ workList # <<>>
        /\ calls' = [calls EXCEPT ![c] = "out"]
        /\ \A d \in Caller \ {c} : calls[d] # "resume"
    BY <1>4 DEF ResumeWorker, MayCall, Undisturbed
  <2> QED
    BY <2>1 DEF WqInv, Undisturbed
<1>5. ASSUME NEW c \in Caller,
             CancelAll(c) \/ CancelSync(c) \/ CancelSyncEnd(c) \/ \E x \in Work : Cancel(c, x)
      PROVE  Undisturbed'
  <2>1. /\ calls[c] \in {"out", "sync"} /\ worker \in {"asleep", "work"} /\ worker' = worker
        /\ \A d \in Caller \ {c} : calls[d] # "resume"
        /\ \E l \in {"out", "sync"} : calls' = [calls EXCEPT ![c] = l]
    <3>1. CASE CancelSync(c) \/ CancelSyncEnd(c)
      BY <1>5, <3>1 DEF CancelSync, CancelSyncEnd, MayCall, Stay
    <3>2. CASE CancelAll(c) \/ \E x \in Work : Cancel(c, x)
      <4>1. calls' = [calls EXCEPT ![c] = "out"]
        BY <1>5, <3>2 DEF CancelAll, Cancel, WqInv
      <4> QED
        BY <1>5, <3>2, <4>1 DEF CancelAll, Cancel, MayCall, Stay
    <3> QED
      BY <1>5, <3>1, <3>2
  <2>2. \A d \in Caller : calls'[d] # "resume"
    BY <2>1 DEF WqInv
  <2> QED
    BY <2>1, <2>2 DEF Undisturbed
<1>6. CASE UNCHANGED wqVars
  BY <1>6 DEF wqVars, Undisturbed
<1> QED
  BY <1>1, <1>2, <1>3, <1>4, <1>5, <1>6 DEF WqNext

\* Callers below the worker, any number of them and preempting each other at will:
\* the worker does not sleep next to work nobody is about to wake it for, and who
\* waits for the end of a work is woken by it.
THEOREM NoSleepNextToWorkHolds ==
    ASSUME Below = TRUE
    PROVE  WqSpec => []NoSleepNextToWork
<1>1. WqInv => NoSleepNextToWork
  BY DEF WqInv, NoSleepNextToWork
<1>2. WqInv /\ [WqNext]_wqVars => WqInv'
  BY WqInvNext
<1> QED
  BY <1>1, <1>2, WqInvInit, PTL DEF WqSpec

\* If besides no caller is preempted by another one between the link of its work
\* and the resumption, the worker never takes the head of an empty list for work.
THEOREM WorkerFindsWorkHolds ==
    ASSUME Below = TRUE, Serialized = TRUE
    PROVE  WqSpec => []WorkerFindsWork
<1>1. WqInv /\ Undisturbed => WorkerFindsWork
  BY DEF WqInv, Undisturbed, WorkerFindsWork, NoSleepNextToWork
<1>2. WqInv /\ Undisturbed /\ [WqNext]_wqVars => WqInv' /\ Undisturbed'
  BY WqInvNext, UndisturbedNext
<1> QED
  BY <1>1, <1>2, WqInvInit, PTL DEF WqSpec

-----------------------------------------------------------------------------
(* Pipes *)

\* A writer is on the way to wake the readers.
Pending == \E t \in Writer : at[t] \in {"wakeup", "last"}

\* The reader, once it saw an empty fifo, is owed a wake-up for every change: as
\* long as it is not asleep the flag keeps it.
PipeInv(r) ==
    /\ flag \in [Queues -> BOOLEAN]
    /\ sleeping = [q \in Queues |-> sleeping[q]]
    /\ at = [t \in Users |-> at[t]]
    /\ sleeping["reader_queue"] \in {<<>>, <<r>>}
    /\ sleeping["reader_queue"] # <<>> =>
         /\ at[r] = "asleep"
         /\ fifo > 0 => Pending
         /\ opened \cap Writer # {}
    /\ at[r] \in {"wakeup", "wait"} =>
         \/ flag["reader_queue"]
         \/ (fifo > 0 => Pending) /\ opened \cap Writer # {}

\* In a new pipe nobody sleeps.
LEMMA PipeInvInit ==
    ASSUME NEW r, Reader = {r}
    PROVE  PipeInit => PipeInv(r)
  BY DEF PipeInit, PipeInv, Queues, Users

\* With one reader, the users are the writers and it, each with its own queue.
LEMMA PipeUsers ==
    ASSUME NEW r, Reader = {r}
    PROVE  /\ Users = Writer \cup {r} /\ r \notin Writer
           /\ Own(r) = "reader_queue" /\ Other(r) = "writer_queue"
           /\ \A t \in Writer : /\ Own(t) = "writer_queue" /\ Other(t) = "reader_queue"
                                /\ t # r
           /\ Queues = {"reader_queue", "writer_queue"}
  BY PipeAssumption DEF Users, Own, Other, Queues

\* After a wake-up of the readers nothing is owed.
LEMMA Awake ==
    ASSUME NEW r, PipeInv(r), flag' \in [Queues -> BOOLEAN], flag'["reader_queue"],
           sleeping' = [q \in Queues |-> sleeping'[q]],
           sleeping["reader_queue"] = <<>> => sleeping'["reader_queue"] = <<>>,
           sleeping["reader_queue"] # <<>> =>
             sleeping'["reader_queue"] = Tail(sleeping["reader_queue"]),
           at' = [t \in Users |-> at'[t]]
    PROVE  PipeInv(r)'
<1>1. Tail(<<r>>) = <<>>
  OBVIOUS
<1>2. sleeping'["reader_queue"] = <<>>
  BY <1>1 DEF PipeInv
<1> QED
  BY <1>2 DEF PipeInv

\* A step of one thread that leaves the readers' queue alone.
LEMMA ReaderQueueStays ==
    ASSUME NEW r, Reader = {r}, PipeInv(r), NEW t \in Users, NEW l, GoesTo(t, l),
           flag' \in [Queues -> BOOLEAN], flag'["reader_queue"] = flag["reader_queue"],
           sleeping' = [q \in Queues |-> sleeping'[q]],
           sleeping'["reader_queue"] = sleeping["reader_queue"],
           t = r => l \notin {"wakeup", "wait"} /\ sleeping["reader_queue"] = <<>>,
           t # r => \/ /\ fifo' > 0 => fifo > 0
                       /\ at[t] \in {"wakeup", "last"} => l \in {"wakeup", "last"}
                    \/ l \in {"wakeup", "last"},
           t # r => opened' = opened,
           opened' \cap Writer = opened \cap Writer
    PROVE  PipeInv(r)'
<1>1. at' = [u \in Users |-> at'[u]] /\ at'[t] = l
      /\ \A u \in Users \ {t} : at'[u] = at[u]
  BY DEF PipeInv, GoesTo
<1>2. CASE t = r
  BY <1>1, <1>2 DEF PipeInv
<1>3. CASE t # r
  <2>1. t \in Writer /\ r \in Users /\ at'[r] = at[r]
    <3>1. Users = Writer \cup {r}
      BY PipeUsers
    <3> QED
      BY <1>1, <1>3, <3>1
  <2>2. (fifo > 0 => Pending) => (fifo' > 0 => Pending')
    <3>1. \A u \in Writer \ {t} : at'[u] = at[u]
      BY <1>1, PipeUsers
    <3> QED
      BY <1>1, <1>3, <2>1, <3>1 DEF Pending
  <2> QED
    BY <1>1, <1>3, <2>1, <2>2 DEF PipeInv
<1> QED
  BY <1>2, <1>3

\* Every step of a pipe's users keeps the invariant.
LEMMA PipeInvNext ==
    ASSUME NEW r, Reader = {r}
    PROVE  PipeInv(r) /\ [PipeNext]_pipeVars => PipeInv(r)'
<1> SUFFICES ASSUME PipeInv(r), [PipeNext]_pipeVars PROVE PipeInv(r)'
  OBVIOUS
<1>1. sleeping["reader_queue"] # <<>> => at[r] = "asleep"
  BY DEF PipeInv
<1>2. ASSUME NEW t \in Users, NEW l, GoesTo(t, l), l \notin {"wakeup", "wait"},
             UNCHANGED <<fifo, opened, flag, sleeping>>,
             at[t] \notin {"asleep", "wakeup", "last"}
      PROVE  PipeInv(r)'
  <2>1. flag' \in [Queues -> BOOLEAN] /\ sleeping' = [q \in Queues |-> sleeping'[q]]
    BY <1>2 DEF PipeInv
  <2> QED
    BY <1>1, <1>2, <2>1, ReaderQueueStays
<1>3. ASSUME NEW t \in Users, Begin(t) \/ CloseBegin(t) \/ Relock(t) PROVE PipeInv(r)'
  BY <1>2, <1>3 DEF Begin, CloseBegin, Relock
<1>4. ASSUME NEW t \in Users, ReadTurn(t) PROVE PipeInv(r)'
  <2>1. t = r /\ at[r] \in {"first", "locked"} /\ sleeping["reader_queue"] = <<>> /\ opened' = opened
    BY <1>1, <1>4 DEF ReadTurn
  <2>2. CASE GoesTo(r, "out") /\ UNCHANGED <<fifo, flag, sleeping>>
    BY <1>2, <1>4, <2>1, <2>2
  <2>3. CASE GoesTo(r, "out") /\ Wakeup("writer_queue")
    <3>1. /\ flag' \in [Queues -> BOOLEAN] /\ flag'["reader_queue"] = flag["reader_queue"]
          /\ sleeping' = [q \in Queues |-> sleeping'[q]]
          /\ sleeping'["reader_queue"] = sleeping["reader_queue"]
      BY <2>3 DEF Wakeup, PipeInv, Queues
    <3> QED
      BY <1>4, <2>1, <2>3, <3>1, ReaderQueueStays
  <2>4. CASE /\ opened \cap Writer # {} /\ fifo = 0 /\ GoesTo(r, "wakeup")
             /\ UNCHANGED <<fifo, flag, sleeping>>
    <3>1. at' = [u \in Users |-> at'[u]] /\ at'[r] = "wakeup"
      BY <1>4, <2>1, <2>4 DEF GoesTo, PipeInv
    <3> QED
      BY <2>1, <2>4, <3>1 DEF PipeInv
  <2> QED
    BY <1>4, <2>1, <2>2, <2>3, <2>4 DEF ReadTurn
<1>5. ASSUME NEW t \in Users, WriteTurn(t) PROVE PipeInv(r)'
  <2>1. /\ t # r /\ UNCHANGED <<opened, flag, sleeping>>
        /\ \/ GoesTo(t, "last") \/ GoesTo(t, "wakeup")
           \/ GoesTo(t, "out") /\ at[t] \in {"first", "locked"} /\ fifo' = fifo
    BY <1>5, PipeUsers DEF WriteTurn
  <2>2. flag' \in [Queues -> BOOLEAN] /\ sleeping' = [q \in Queues |-> sleeping'[q]]
    BY <2>1 DEF PipeInv
  <2> QED
    BY <2>1, <2>2, ReaderQueueStays
<1>6. ASSUME NEW t \in Users, WakeOther(t) PROVE PipeInv(r)'
  <2>1. at[t] = "wakeup" /\ Wakeup(Other(t)) /\ GoesTo(t, "wait") /\ UNCHANGED <<fifo, opened>>
    BY <1>6 DEF WakeOther
  <2>2. CASE t = r
    <3>1. Wakeup("writer_queue")
      BY <2>1, <2>2, PipeUsers
    <3>2. /\ flag' \in [Queues -> BOOLEAN] /\ flag'["reader_queue"] = flag["reader_queue"]
          /\ sleeping' = [q \in Queues |-> sleeping'[q]]
          /\ sleeping'["reader_queue"] = sleeping["reader_queue"]
      BY <3>1 DEF Wakeup, PipeInv, Queues
    <3>3. /\ at' = [u \in Users |-> at'[u]] /\ at'[r] = "wait"
          /\ \A u \in Writer : at'[u] = at[u]
      BY <2>1, <2>2, PipeUsers DEF GoesTo, PipeInv
    <3> QED
      <4>1. Pending => Pending'
        BY <3>3 DEF Pending
      <4>2. sleeping["reader_queue"] = <<>>
        BY <1>1, <2>1, <2>2
      <4>3. flag["reader_queue"] \/ ((fifo > 0 => Pending) /\ opened \cap Writer # {})
        BY <2>1, <2>2 DEF PipeInv
      <4>4. flag'["reader_queue"] \/ ((fifo' > 0 => Pending') /\ opened' \cap Writer # {})
        BY <2>1, <3>2, <4>1, <4>3
      <4> QED
        BY <3>2, <3>3, <4>2, <4>4 DEF PipeInv
  <2>3. CASE t # r
    <3>1. Wakeup("reader_queue")
      BY <2>1, <2>3, PipeUsers
    <3> QED
      <4>1. /\ flag' \in [Queues -> BOOLEAN] /\ flag'["reader_queue"]
            /\ sleeping' = [q \in Queues |-> sleeping'[q]]
            /\ sleeping'["reader_queue"] = IF sleeping["reader_queue"] = <<>> THEN <<>>
                                           ELSE Tail(sleeping["reader_queue"])
        BY <3>1 DEF Wakeup, PipeInv, Queues
      <4>2. at' = [u \in Users |-> at'[u]]
        BY <2>1 DEF GoesTo, PipeInv
      <4> QED
        BY <4>1, <4>2, Awake
  <2> QED
    BY <2>2, <2>3
<1>7. ASSUME NEW t \in Users, WriteEnd(t) PROVE PipeInv(r)'
  BY <1>7, Awake DEF WriteEnd, Wakeup, PipeInv, Queues, GoesTo
<1>8. ASSUME NEW t \in Users, Wait(t) PROVE PipeInv(r)'
  <2>1. at[t] = "wait" /\ UNCHANGED <<fifo, opened>>
    BY <1>8 DEF Wait
  <2>2. CASE t = r
    <3>1. CASE flag["reader_queue"]
      BY <1>1, <1>8, <2>1, <2>2, <3>1, PipeUsers DEF Wait, PipeInv, GoesTo
    <3>2. CASE ~ flag["reader_queue"]
      <4>1. /\ sleeping' = [sleeping EXCEPT !["reader_queue"] = Append(@, r)]
            /\ GoesTo(r, "asleep") /\ flag' = flag
        BY <1>8, <2>2, <3>2, PipeUsers DEF Wait
      <4>2. sleeping["reader_queue"] = <<>> /\ Append(<<>>, r) = <<r>>
        BY <1>1, <2>1, <2>2 DEF PipeInv
      <4>3. /\ sleeping' = [q \in Queues |-> sleeping'[q]]
            /\ sleeping'["reader_queue"] = <<r>>
        BY <4>1, <4>2 DEF PipeInv, Queues
      <4>4. /\ at' = [u \in Users |-> at'[u]] /\ at'[r] = "asleep"
            /\ \A u \in Writer : at'[u] = at[u]
        BY <4>1, PipeUsers DEF GoesTo, PipeInv
      <4>5. (fifo > 0 => Pending) /\ opened \cap Writer # {}
        BY <2>1, <2>2, <3>2 DEF PipeInv
      <4> QED
        BY <2>1, <4>1, <4>3, <4>4, <4>5 DEF PipeInv, Pending
    <3> QED
      BY <3>1, <3>2
  <2>3. CASE t # r
    <3>1. Own(t) = "writer_queue"
      BY <2>3, PipeUsers
    <3>2. /\ flag' \in [Queues -> BOOLEAN] /\ flag'["reader_queue"] = flag["reader_queue"]
          /\ sleeping' = [q \in Queues |-> sleeping'[q]]
          /\ sleeping'["reader_queue"] = sleeping["reader_queue"]
      BY <1>8, <3>1 DEF Wait, PipeInv, Queues
    <3>3. GoesTo(t, "relock") \/ GoesTo(t, "asleep")
      BY <1>8 DEF Wait
    <3> QED
      BY <2>1, <2>3, <3>2, <3>3, ReaderQueueStays
  <2> QED
    BY <2>2, <2>3
<1>9. ASSUME NEW t \in Users, WaitEnd(t) PROVE PipeInv(r)'
  <2>1. /\ at[t] = "asleep" /\ t \notin Elements(sleeping[Own(t)])
        /\ GoesTo(t, "relock") /\ UNCHANGED <<fifo, opened, sleeping>>
        /\ flag' = [flag EXCEPT ![Own(t)] = FALSE]
    BY <1>9 DEF WaitEnd
  <2>2. CASE t = r
    <3>1. sleeping["reader_queue"] = <<>>
      <4>1. r \in Elements(<<r>>)
        BY DEF Elements
      <4> QED
        BY <2>1, <2>2, <4>1, PipeUsers DEF PipeInv
    <3> QED
      BY <2>1, <2>2, <3>1, PipeUsers DEF PipeInv, GoesTo
  <2>3. CASE t # r
    <3>1. /\ flag' \in [Queues -> BOOLEAN] /\ flag'["reader_queue"] = flag["reader_queue"]
          /\ sleeping' = [q \in Queues |-> sleeping'[q]]
      <4>1. Own(t) = "writer_queue"
        BY <2>3, PipeUsers
      <4>2. Queues = {"reader_queue", "writer_queue"}
        BY DEF Queues
      <4> QED
        BY <2>1, <4>1, <4>2 DEF PipeInv
    <3> QED
      BY <2>1, <2>3, <3>1, ReaderQueueStays
  <2> QED
    BY <2>2, <2>3
<1>10. ASSUME NEW t \in Users, Close(t) PROVE PipeInv(r)'
  <2> DEFINE gone == opened' \cap Writer = {}
  <2>1. /\ at[t] = "closing" /\ GoesTo(t, "closed") /\ opened' = opened \ {t} /\ fifo' = fifo
        /\ flag' \in [Queues -> BOOLEAN]
        /\ sleeping' = [q \in Queues |-> sleeping'[q]]
        /\ flag'["reader_queue"] = (flag["reader_queue"] \/ gone)
        /\ sleeping'["reader_queue"] =
             IF gone /\ sleeping["reader_queue"] # <<>>
               THEN Tail(sleeping["reader_queue"]) ELSE sleeping["reader_queue"]
    BY <1>10 DEF Close, PipeInv, Queues
  <2>2. CASE gone
    BY <2>1, <2>2, Awake DEF GoesTo, PipeInv
  <2>3. CASE ~ gone
    <3>1. /\ at' = [u \in Users |-> at'[u]] /\ at'[t] = "closed"
          /\ \A u \in Users \ {t} : at'[u] = at[u]
      BY <2>1 DEF GoesTo, PipeInv
    <3>2. Pending => Pending'
      BY <2>1, <3>1, PipeUsers DEF Pending
    <3>3. at'[r] = at[r] \/ (at'[r] = "closed" /\ at[r] = "closing")
      BY <2>1, <3>1, PipeUsers
    <3> HIDE DEF gone
    <3>4. flag'["reader_queue"] = flag["reader_queue"] /\ sleeping'["reader_queue"] = sleeping["reader_queue"]
      BY <2>1, <2>3 DEF PipeInv, Queues
    <3> QED
      BY <2>1, <2>3, <3>1, <3>2, <3>3, <3>4 DEF PipeInv, gone
  <2> QED
    BY <2>2, <2>3
<1>11. CASE UNCHANGED pipeVars
  BY <1>11 DEF pipeVars, PipeInv, Pending
<1> QED
  BY <1>3, <1>4, <1>5, <1>6, <1>7, <1>8, <1>9, <1>10, <1>11 DEF PipeNext, GoOn

\* One reader, any writers: it never sleeps next to bytes that no writer is about
\* to announce, nor after the last writer has gone.
THEOREM NoSleepingReaderHolds ==
    ASSUME NEW r, Reader = {r}
    PROVE  PipeSpec => []NoSleepingReader
<1>1. PipeInv(r) => NoSleepingReader
  BY DEF PipeInv, NoSleepingReader, Pending
<1>2. PipeInit => PipeInv(r)
  BY PipeInvInit
<1>3. PipeInv(r) /\ [PipeNext]_pipeVars => PipeInv(r)'
  BY PipeInvNext
<1> QED
  BY <1>1, <1>2, <1>3, PTL DEF PipeSpec

-----------------------------------------------------------------------------
(* The heap of mem.c *)

\* The headers of m are numbers and flags.
Headers(m) ==
    /\ m = [x \in DOMAIN m |-> m[x]]
    /\ \A b \in DOMAIN m :
         /\ b \in Nat
         /\ m[b] = Header(m[b].used, m[b].next, m[b].prev)
         /\ m[b].used \in BOOLEAN /\ m[b].next \in Nat /\ m[b].prev \in Nat

\* Joining a block with the one behind it keeps the chain.
LEMMA JoinedKeeps ==
    ASSUME NEW m, Headers(m), Chained(m), NEW b \in DOMAIN m, m[b].next # HeapEnd,
           NEW n, n = m[b].next, NEW j, j = Joined(m, b)
    PROVE  /\ Headers(j) /\ Chained(j)
           /\ n \in DOMAIN m /\ b < n /\ m[n].prev = b
           /\ DOMAIN j = DOMAIN m \ {n} /\ b \in DOMAIN j
           /\ j[b].next = m[n].next /\ j[b].prev = m[b].prev
           /\ \A x \in DOMAIN j : /\ j[x].used = m[x].used
                                  /\ x # b => j[x].next = m[x].next
           /\ \A x \in DOMAIN j : Room(m, x) <= Room(j, x)
<1> DEFINE e == m[n].next
<1>1. /\ n \in DOMAIN m /\ b < n /\ m[n].prev = b /\ n # 0 /\ n < e
      /\ HeaderSize \in Nat /\ b \in Nat /\ n \in Nat /\ e \in Nat
  BY HeapAssumption DEF Headers, Chained
<1>2. /\ j = [x \in DOMAIN m \ {n} |->
                 IF x = b THEN Header(m[b].used, e, m[b].prev)
                 ELSE IF x = e THEN Header(m[x].used, m[x].next, b)
                 ELSE m[x]]
  BY DEF Joined
<1>3. /\ DOMAIN j = DOMAIN m \ {n} /\ b \in DOMAIN j
      /\ j[b].used = m[b].used /\ j[b].next = e /\ j[b].prev = m[b].prev
  BY <1>1, <1>2 DEF Header
<1>4. \A x \in DOMAIN j : /\ j[x].used = m[x].used
                          /\ x # b => j[x].next = m[x].next
                          /\ x # e => j[x].prev = m[x].prev
                          /\ x = e => j[x].prev = b
                          /\ j[x] = Header(j[x].used, j[x].next, j[x].prev)
  BY <1>1, <1>2 DEF Header, Headers
<1>5. Headers(j)
  <2>1. j = [x \in DOMAIN j |-> j[x]]
    BY <1>2, Zenon
  <2>2. ASSUME NEW x \in DOMAIN j
        PROVE  /\ x \in Nat /\ j[x] = Header(j[x].used, j[x].next, j[x].prev)
               /\ j[x].used \in BOOLEAN /\ j[x].next \in Nat /\ j[x].prev \in Nat
    <3>1. x \in DOMAIN m
      BY <1>3
    <3>2. x \in Nat /\ m[x].used \in BOOLEAN /\ m[x].next \in Nat /\ m[x].prev \in Nat
      BY <3>1 DEF Headers
    <3> QED
      BY <1>1, <1>3, <1>4, <3>2
  <2> QED
    BY <2>1, <2>2 DEF Headers
<1>6. Chained(j)
  <2>1. 0 \in DOMAIN j /\ j[0].prev = 0
    BY <1>1, <1>3, <1>4 DEF Chained
  <2>2. ASSUME NEW x \in DOMAIN j
        PROVE  /\ x + HeaderSize < j[x].next /\ j[x].next <= HeapEnd
               /\ j[x].next # HeapEnd => j[x].next \in DOMAIN j /\ j[j[x].next].prev = x
    <3>1. CASE x = b
      <4>1. e # HeapEnd => e \in DOMAIN m /\ e # n
        BY <1>1 DEF Chained
      <4>2. b + HeaderSize < n /\ e <= HeapEnd
        BY <1>1 DEF Chained
      <4> QED
        BY <1>1, <1>3, <1>4, <3>1, <4>1, <4>2
    <3>2. CASE x # b
      <4>1. /\ x \in DOMAIN m /\ x # n /\ j[x].next = m[x].next
            /\ x + HeaderSize < m[x].next /\ m[x].next <= HeapEnd
        BY <1>3, <1>4, <3>2 DEF Chained
      <4>2. ASSUME m[x].next # HeapEnd
            PROVE  m[x].next \in DOMAIN m /\ m[m[x].next].prev = x
        BY <4>1, <4>2 DEF Chained
      <4>3. m[x].next # HeapEnd => m[x].next # n
        BY <1>1, <3>2, <4>2
      <4>4. e # HeapEnd => m[e].prev = n
        BY <1>1 DEF Chained
      <4>5. m[x].next # HeapEnd => m[x].next # e
        BY <4>1, <4>2, <4>4
      <4> QED
        BY <1>3, <1>4, <4>1, <4>2, <4>3, <4>5
    <3> QED
      BY <3>1, <3>2
  <2>3. ASSUME NEW x \in DOMAIN j, NEW c \in DOMAIN j, x < c, c < j[x].next
        PROVE  FALSE
    <3>1. x \in DOMAIN m /\ c \in DOMAIN m /\ c # n /\ c \in Nat
      BY <1>3 DEF Headers
    <3>2. x # b => j[x].next = m[x].next
      BY <1>4
    <3>3. ~ (x < c /\ c < m[x].next) /\ ~ (n < c /\ c < e)
      BY <1>1, <3>1 DEF Chained
    <3> QED
      BY <1>1, <1>3, <2>3, <3>1, <3>2, <3>3
  <2>4. ASSUME NEW x \in DOMAIN j, x # 0
        PROVE  j[x].prev \in DOMAIN j /\ j[j[x].prev].next = x
    <3>1. x \in DOMAIN m /\ m[x].prev \in DOMAIN m /\ m[m[x].prev].next = x
      BY <1>3, <2>4 DEF Chained
    <3>2. CASE x = e
      BY <1>3, <1>4, <3>2
    <3>3. CASE x # e
      BY <1>1, <1>3, <1>4, <3>1, <3>3
    <3> QED
      BY <3>2, <3>3
  <2> QED
    BY <2>1, <2>2, <2>3, <2>4 DEF Chained
<1>7. \A x \in DOMAIN j : Room(m, x) <= Room(j, x)
  BY <1>1, <1>3, <1>4 DEF Room, Headers
<1> QED
  BY <1>1, <1>3, <1>4, <1>5, <1>6, <1>7

\* Splitting a block keeps the chain, if the rest of it has room.
LEMMA SplitKeeps ==
    ASSUME NEW m, Headers(m), Chained(m), NEW b \in DOMAIN m, NEW size \in Nat \ {0},
           size + HeaderSize < Room(m, b),
           NEW r, r = b + HeaderSize + size, NEW s, s = Split(m, b, size)
    PROVE  /\ Headers(s) /\ Chained(s)
           /\ r \notin DOMAIN m /\ DOMAIN s = DOMAIN m \cup {r} /\ b < r
           /\ s[b].next = r /\ Room(s, b) = size
           /\ ~ s[r].used /\ s[r].next = m[b].next /\ s[r].prev = b
           /\ \A x \in DOMAIN m : /\ s[x].used = m[x].used
                                  /\ x # b => s[x].next = m[x].next /\ Room(s, x) = Room(m, x)
<1> DEFINE n == m[b].next
<1>1. /\ HeaderSize \in Nat \ {0} /\ b \in Nat /\ n \in Nat /\ r \in Nat
      /\ b < r /\ b + HeaderSize < r /\ r + HeaderSize < n /\ r # 0
      /\ n <= HeapEnd /\ HeapEnd \in Nat /\ r <= HeapEnd
  BY HeapAssumption DEF Headers, Room, Chained, HeapEnd
<1>2. r \notin DOMAIN m
  BY <1>1 DEF Chained
<1>3. s = [x \in DOMAIN m \cup {r} |->
             IF x = r THEN Header(FALSE, n, b)
             ELSE IF x = b THEN Header(m[b].used, r, m[b].prev)
             ELSE IF x = n THEN Header(m[x].used, m[x].next, r)
             ELSE m[x]]
  BY DEF Split
<1>4. /\ DOMAIN s = DOMAIN m \cup {r}
      /\ s[r] = Header(FALSE, n, b) /\ ~ s[r].used /\ s[r].next = n /\ s[r].prev = b
      /\ s[b].next = r
  BY <1>1, <1>3 DEF Header
<1>5. \A x \in DOMAIN m : /\ s[x].used = m[x].used
                          /\ x # b => s[x].next = m[x].next
                          /\ x # n => s[x].prev = m[x].prev
                          /\ x = n => s[x].prev = r
                          /\ s[x] = Header(s[x].used, s[x].next, s[x].prev)
  <2> SUFFICES ASSUME NEW x \in DOMAIN m
               PROVE  /\ s[x].used = m[x].used
                      /\ x # b => s[x].next = m[x].next
                      /\ x # n => s[x].prev = m[x].prev
                      /\ x = n => s[x].prev = r
                      /\ s[x] = Header(s[x].used, s[x].next, s[x].prev)
    OBVIOUS
  <2>1. x # r /\ n # b /\ m[x] = Header(m[x].used, m[x].next, m[x].prev)
    BY <1>1, <1>2 DEF Headers
  <2>2. s[x] = IF x = b THEN Header(m[b].used, r, m[b].prev)
               ELSE IF x = n THEN Header(m[x].used, m[x].next, r)
               ELSE m[x]
    BY <1>3, <2>1
  <2> QED
    BY <2>1, <2>2 DEF Header
<1>6. s = [x \in DOMAIN s |-> s[x]]
  BY <1>3, Zenon
<1>7. Headers(s)
  <2>1. ASSUME NEW x \in DOMAIN m
        PROVE  /\ x \in Nat /\ s[x] = Header(s[x].used, s[x].next, s[x].prev)
               /\ s[x].used \in BOOLEAN /\ s[x].next \in Nat /\ s[x].prev \in Nat
    <3>1. x \in Nat /\ m[x].used \in BOOLEAN /\ m[x].next \in Nat /\ m[x].prev \in Nat
      BY DEF Headers
    <3> QED
      BY <1>1, <1>4, <1>5, <3>1
  <2>2. /\ r \in Nat /\ s[r] = Header(s[r].used, s[r].next, s[r].prev)
        /\ s[r].used \in BOOLEAN /\ s[r].next \in Nat /\ s[r].prev \in Nat
    BY <1>1, <1>4 DEF Header
  <2> QED
    BY <1>4, <1>6, <2>1, <2>2 DEF Headers
<1>8. Chained(s)
  <2>1. 0 \in DOMAIN s /\ s[0].prev = 0
    BY <1>1, <1>4, <1>5 DEF Chained
  <2>2. ASSUME NEW x \in DOMAIN s
        PROVE  /\ x + HeaderSize < s[x].next /\ s[x].next <= HeapEnd
               /\ s[x].next # HeapEnd => s[x].next \in DOMAIN s /\ s[s[x].next].prev = x
    <3>1. CASE x = b
      BY <1>1, <1>4, <3>1
    <3>2. CASE x = r
      <4>1. n # HeapEnd => n \in DOMAIN m
        BY DEF Chained
      <4> QED
        BY <1>1, <1>4, <1>5, <3>2, <4>1
    <3>3. CASE x # b /\ x # r
      <4>1. /\ x \in DOMAIN m /\ s[x].next = m[x].next /\ x + HeaderSize < m[x].next
            /\ m[x].next <= HeapEnd
            /\ m[x].next # HeapEnd => m[x].next \in DOMAIN m /\ m[m[x].next].prev = x
        BY <1>4, <1>5, <3>3 DEF Chained
      <4>2. n # HeapEnd => n \in DOMAIN m /\ m[n].prev = b
        BY DEF Chained
      <4> QED
        BY <1>4, <1>5, <3>3, <4>1, <4>2
    <3> QED
      BY <3>1, <3>2, <3>3
  <2>3. ASSUME NEW x \in DOMAIN s, NEW c \in DOMAIN s, x < c, c < s[x].next
        PROVE  FALSE
    <3>1. /\ x \in Nat /\ c \in Nat
          /\ \A y \in DOMAIN m : y \in Nat /\ m[y].next \in Nat
      BY <1>7 DEF Headers
    <3>2. \A y, z \in DOMAIN m : ~ (y < z /\ z < m[y].next)
      BY DEF Chained
    <3>3. CASE x = r
      <4>1. c \in DOMAIN m
        BY <1>1, <1>4, <2>3, <3>3
      <4>2. r < c /\ c < n /\ ~ (b < c /\ c < n)
        BY <1>4, <2>3, <3>2, <3>3, <4>1
      <4> HIDE DEF n
      <4> QED
        BY <1>1, <3>1, <4>2
    <3>4. CASE x = b
      <4>1. c \in DOMAIN m
        BY <1>1, <1>4, <2>3, <3>4
      <4> QED
        BY <1>1, <1>4, <2>3, <3>1, <3>2, <3>4, <4>1
    <3>5. CASE x # b /\ x # r
      <4>1. x \in DOMAIN m /\ s[x].next = m[x].next
        BY <1>4, <1>5, <3>5
      <4>2. CASE c = r
        <5>1. x < b \/ b < x
          BY <1>1, <3>1, <3>5
        <5>2. CASE x < b
          \* b would be inside the block x.
          BY <1>1, <2>3, <3>1, <3>2, <4>1, <4>2, <5>2
        <5>3. CASE b < x
          \* x would be inside the block b.
          BY <1>1, <2>3, <3>1, <3>2, <4>1, <4>2, <5>3
        <5> QED
          BY <5>1, <5>2, <5>3
      <4>3. CASE c # r
        BY <1>4, <2>3, <3>2, <4>1, <4>3
      <4> QED
        BY <4>2, <4>3
    <3> QED
      BY <3>3, <3>4, <3>5
  <2>4. ASSUME NEW x \in DOMAIN s, x # 0
        PROVE  s[x].prev \in DOMAIN s /\ s[s[x].prev].next = x
    <3>1. CASE x = r
      BY <1>4, <3>1
    <3>2. CASE x = n /\ x # r
      BY <1>4, <1>5, <3>2
    <3>3. CASE x # n /\ x # r
      <4>1. /\ x \in DOMAIN m /\ s[x].prev = m[x].prev
            /\ m[x].prev \in DOMAIN m /\ m[m[x].prev].next = x
        BY <1>4, <1>5, <2>4, <3>3 DEF Chained
      <4> QED
        BY <1>4, <1>5, <3>3, <4>1
    <3> QED
      BY <3>1, <3>2, <3>3
  <2> QED
    BY <2>1, <2>2, <2>3, <2>4 DEF Chained
<1>9. Room(s, b) = size /\ \A x \in DOMAIN m : x # b => Room(s, x) = Room(m, x)
  BY <1>1, <1>4, <1>5 DEF Room
<1> QED
  BY <1>1, <1>2, <1>4, <1>5, <1>7, <1>8, <1>9

\* The blocks in use.
InUse(m) == {x \in DOMAIN m : m[x].used}

\* l is a free block or the end.
FreeOrEnd(m, l) == l # HeapEnd => l \in DOMAIN m /\ ~ m[l].used

\* No two neighbours are free, but b may be one of them.
CoalescedBut(m, b) ==
    \A x \in DOMAIN m : m[x].next # HeapEnd =>
      m[x].used \/ m[m[x].next].used \/ b \in {x, m[x].next}

\* plug_holes joins what has to be joined.
LEMMA PlugHolesKeeps ==
    ASSUME NEW m, Headers(m), Chained(m), NEW b \in DOMAIN m, ~ m[b].used, CoalescedBut(m, b),
           NEW l, FreeOrEnd(m, l)
    PROVE  LET h == PlugHoles(m, l, b)
           IN  /\ Headers(h.mem) /\ Chained(h.mem) /\ Coalesced(h.mem)
               /\ FreeOrEnd(h.mem, h.lfree)
               /\ InUse(h.mem) = InUse(m)
               /\ \A x \in InUse(m) : Room(m, x) <= Room(h.mem, x)
<1> DEFINE n == m[b].next
           forward == n # HeapEnd /\ ~ m[n].used
           j == IF forward THEN Joined(m, b) ELSE m
           k == IF forward /\ l = n THEN b ELSE l
           p == j[b].prev
           backward == p # b /\ ~ j[p].used
           h == IF backward THEN Joined(j, p) ELSE j
           f == IF backward /\ k = b THEN p ELSE k
<1>1. PlugHoles(m, l, b).mem = h /\ PlugHoles(m, l, b).lfree = f
  BY DEF PlugHoles
<1>2. /\ Headers(j) /\ Chained(j) /\ b \in DOMAIN j /\ ~ j[b].used
      /\ FreeOrEnd(j, k)
      /\ InUse(j) = InUse(m)
      /\ \A x \in InUse(m) : Room(m, x) <= Room(j, x)
      /\ \A x \in DOMAIN j : j[x].next # HeapEnd =>
           j[x].used \/ j[j[x].next].used \/ j[x].next = b
  <2>1. CASE forward
    <3>1. /\ Headers(j) /\ Chained(j)
          /\ n \in DOMAIN m /\ b < n /\ m[n].prev = b
          /\ DOMAIN j = DOMAIN m \ {n} /\ b \in DOMAIN j
          /\ j[b].next = m[n].next
          /\ \A x \in DOMAIN j : /\ j[x].used = m[x].used
                                 /\ x # b => j[x].next = m[x].next
          /\ \A x \in DOMAIN j : Room(m, x) <= Room(j, x)
      <4>1. j = Joined(m, b) /\ m[b].next # HeapEnd
        BY <2>1
      <4> HIDE DEF j
      <4> QED
        BY <4>1, JoinedKeeps
    <3>2. \A x \in DOMAIN j : x \in Nat /\ j[x].next \in Nat
      BY <3>1 DEF Headers
    <3>3. n \in Nat /\ b \in Nat /\ m[n].next \in Nat /\ n < m[n].next
      BY <3>1, HeapAssumption DEF Headers, Chained
    <3>4. ~ m[n].used
      BY <2>1
    <3> HIDE DEF j
    <3>5. FreeOrEnd(j, k)
      BY <2>1, <3>1, <3>4 DEF FreeOrEnd
    <3>6. InUse(j) = InUse(m)
      BY <3>1, <3>4 DEF InUse
    <3>7. ASSUME NEW x \in DOMAIN j, j[x].next # HeapEnd
          PROVE  j[x].used \/ j[j[x].next].used \/ j[x].next = b
      <4>1. j[x].next \in DOMAIN j
        BY <3>1, <3>7 DEF Chained
      <4>2. CASE x = b
        <5>1. m[m[n].next].used \/ b \in {n, m[n].next}
          BY <3>1, <3>4, <3>7, <4>2 DEF CoalescedBut
        <5> QED
          BY <3>1, <3>3, <4>1, <4>2, <5>1
      <4>3. CASE x # b
        <5>1. m[x].used \/ m[m[x].next].used \/ m[x].next = b
          BY <3>1, <3>7, <4>3 DEF CoalescedBut
        <5> QED
          BY <3>1, <4>1, <4>3, <5>1
      <4> QED
        BY <4>2, <4>3
    <3> QED
      BY <3>1, <3>5, <3>6, <3>7 DEF InUse
  <2>2. CASE ~ forward
    <3>1. j = m /\ k = l
      BY <2>2
    <3> HIDE DEF j, k
    <3>2. ASSUME NEW x \in DOMAIN m, m[x].next # HeapEnd
          PROVE  m[x].used \/ m[m[x].next].used \/ m[x].next = b
      BY <2>2, <3>2 DEF CoalescedBut
    <3>3. \A x \in DOMAIN m : Room(m, x) <= Room(m, x)
      BY HeapAssumption DEF Room, Headers
    <3> QED
      BY <3>1, <3>2, <3>3 DEF InUse
  <2> QED
    BY <2>1, <2>2
<1> HIDE DEF j, k
<1>3. /\ b \in Nat /\ b # HeapEnd /\ j[b].next \in Nat /\ b < j[b].next
      /\ b # 0 => p \in DOMAIN j /\ j[p].next = b
      /\ b = 0 => p = b
      /\ \A x \in DOMAIN j : j[x].next = b => p = x
  <2>1. b \in Nat /\ j[b].next \in Nat /\ b + HeaderSize < j[b].next /\ j[b].next <= HeapEnd
    BY <1>2 DEF Headers, Chained
  <2>2. b < j[b].next /\ b # HeapEnd
    BY <2>1, HeapAssumption DEF HeapEnd
  <2> QED
    BY <1>2, <2>1, <2>2 DEF Chained
<1>4. CASE backward
  <2>1. /\ p \in DOMAIN j /\ j[p].next = b /\ b # HeapEnd /\ ~ j[p].used
    BY <1>3, <1>4
  <2>2. /\ Headers(h) /\ Chained(h)
        /\ DOMAIN h = DOMAIN j \ {b} /\ p \in DOMAIN h
        /\ h[p].next = j[b].next
        /\ \A x \in DOMAIN h : /\ h[x].used = j[x].used
                               /\ x # p => h[x].next = j[x].next
        /\ \A x \in DOMAIN h : Room(j, x) <= Room(h, x)
    <3>1. h = Joined(j, p) /\ j[p].next # HeapEnd
      BY <1>4, <2>1
    <3> HIDE DEF h, p
    <3>2. b = j[p].next
      BY <2>1
    <3>3. Headers(j) /\ Chained(j) /\ p \in DOMAIN j
      BY <1>2, <2>1
    <3> HIDE DEF n
    <3> QED
      BY <3>1, <3>2, <3>3, JoinedKeeps, SMTT(30)
  <2>3. f = IF k = b THEN p ELSE k
    BY <1>4
  <2>4. \A x \in InUse(m) : Room(m, x) \in Int /\ Room(j, x) \in Int /\ Room(h, x) \in Int
    <3>1. \A x \in InUse(m) : x \in DOMAIN m /\ x \in DOMAIN j /\ x \in DOMAIN h
      BY <1>2, <2>2 DEF InUse
    <3> QED
      BY <1>2, <2>2, <3>1, HeapAssumption DEF Room, Headers
  <2> HIDE DEF h, f
  <2>5. FreeOrEnd(h, f)
    BY <1>2, <2>1, <2>2, <2>3 DEF FreeOrEnd
  <2>6. InUse(h) = InUse(m)
    BY <1>2, <2>2 DEF InUse
  <2>7. ASSUME NEW x \in DOMAIN h, h[x].next # HeapEnd
        PROVE  h[x].used \/ h[h[x].next].used
    <3>1. h[x].next \in DOMAIN h
      BY <2>2, <2>7 DEF Chained
    <3>2. CASE x = p
      <4>1. j[j[b].next].used
        BY <1>2, <1>3, <2>2, <2>7, <3>2
      <4> QED
        BY <2>2, <3>1, <3>2, <4>1
    <3>3. CASE x # p
      <4>1. j[x].used \/ j[j[x].next].used
        BY <1>2, <1>3, <2>2, <2>7, <3>3
      <4> QED
        BY <2>2, <3>1, <3>3, <4>1
    <3> QED
      BY <3>2, <3>3
  <2>8. Coalesced(h)
    BY <2>7 DEF Coalesced
  <2>9. \A x \in InUse(m) : Room(m, x) <= Room(h, x)
    <3>1. \A x \in InUse(m) : x \in DOMAIN h
      BY <2>6 DEF InUse
    <3> QED
      BY <1>2, <2>2, <2>4, <3>1
  <2> QED
    BY <1>1, <2>2, <2>5, <2>6, <2>8, <2>9
<1>5. CASE ~ backward
  <2>1. h = j /\ f = k
    BY <1>5
  <2> HIDE DEF h, f
  <2>2. ASSUME NEW x \in DOMAIN j, j[x].next # HeapEnd
        PROVE  j[x].used \/ j[j[x].next].used
    BY <1>2, <1>3, <1>5, <2>2
  <2>3. Coalesced(j)
    BY <2>2 DEF Coalesced
  <2> QED
    BY <1>1, <1>2, <2>1, <2>3
<1> QED
  BY <1>4, <1>5

\* The flag of a block does not touch the chain.
LEMMA WithUsedKeeps ==
    ASSUME NEW m, Headers(m), Chained(m), NEW b \in DOMAIN m, NEW mark \in BOOLEAN,
           NEW u, u = WithUsed(m, b, mark)
    PROVE  /\ Headers(u) /\ Chained(u) /\ DOMAIN u = DOMAIN m
           /\ u[b].used = mark
           /\ \A x \in DOMAIN m : /\ u[x].next = m[x].next /\ u[x].prev = m[x].prev
                                  /\ x # b => u[x].used = m[x].used
                                  /\ Room(u, x) = Room(m, x)
<1>1. u = [x \in DOMAIN m |-> IF x = b THEN Header(mark, m[x].next, m[x].prev) ELSE m[x]]
  BY DEF WithUsed
<1>2. /\ DOMAIN u = DOMAIN m /\ u[b].used = mark
      /\ \A x \in DOMAIN m : /\ u[x].next = m[x].next /\ u[x].prev = m[x].prev
                             /\ x # b => u[x].used = m[x].used
                             /\ u[x] = Header(u[x].used, u[x].next, u[x].prev)
  BY <1>1 DEF Header, Headers
<1>3. u = [x \in DOMAIN u |-> u[x]]
  BY <1>1, Zenon
<1>4. Headers(u)
  <2>1. ASSUME NEW x \in DOMAIN u
        PROVE  /\ x \in Nat /\ u[x] = Header(u[x].used, u[x].next, u[x].prev)
               /\ u[x].used \in BOOLEAN /\ u[x].next \in Nat /\ u[x].prev \in Nat
    <3>1. /\ x \in DOMAIN m /\ x \in Nat
          /\ m[x].used \in BOOLEAN /\ m[x].next \in Nat /\ m[x].prev \in Nat
      BY <1>2 DEF Headers
    <3> QED
      BY <1>2, <3>1
  <2> QED
    BY <1>3, <2>1 DEF Headers
<1>5. Chained(u)
  <2>1. 0 \in DOMAIN u /\ u[0].prev = 0
    BY <1>2 DEF Chained
  <2>2. ASSUME NEW x \in DOMAIN u
        PROVE  /\ x + HeaderSize < u[x].next /\ u[x].next <= HeapEnd
               /\ u[x].next # HeapEnd => u[x].next \in DOMAIN u /\ u[u[x].next].prev = x
               /\ \A c \in DOMAIN u : ~ (x < c /\ c < u[x].next)
               /\ x # 0 => u[x].prev \in DOMAIN u /\ u[u[x].prev].next = x
    <3>1. /\ x \in DOMAIN m /\ u[x].next = m[x].next /\ u[x].prev = m[x].prev
      BY <1>2
    <3>2. /\ x + HeaderSize < m[x].next /\ m[x].next <= HeapEnd
          /\ m[x].next # HeapEnd => m[x].next \in DOMAIN m /\ m[m[x].next].prev = x
          /\ \A c \in DOMAIN m : ~ (x < c /\ c < m[x].next)
          /\ x # 0 => m[x].prev \in DOMAIN m /\ m[m[x].prev].next = x
      BY <3>1 DEF Chained
    <3> QED
      BY <1>2, <3>1, <3>2
  <2> QED
    BY <2>1, <2>2 DEF Chained
<1> QED
  BY <1>2, <1>4, <1>5 DEF Room

\* What rt_realloc relies on between its two sections: the block it is going to
\* free is still the caller's.
Moves ==
    /\ \A mv \in moving : mv = <<mv[1], mv[2]>> /\ mv[1] \in DOMAIN asked
    /\ \A mv, nv \in moving : mv[1] = nv[1] => mv = nv

\* What callers asked for.
Requests ==
    /\ asked = [x \in DOMAIN asked |-> asked[x]]
    /\ \A x \in DOMAIN asked : asked[x] \in Nat

\* The inductive invariant of the heap.
HeapInv == HeapSound /\ Headers(mem) /\ Requests /\ Moves

\* HeapInv in the words of the lemmas above.
LEMMA HeapParts ==
    ASSUME HeapInv
    PROVE  /\ Headers(mem) /\ Chained(mem) /\ Coalesced(mem) /\ FreeOrEnd(mem, lfree)
           /\ DOMAIN asked = InUse(mem)
           /\ \A x \in DOMAIN asked : asked[x] \in Nat /\ asked[x] <= Room(mem, x)
           /\ lfree = HeapEnd \/ lfree \in Nat
  BY DEF HeapInv, HeapSound, Requests, FreeOrEnd, InUse, Headers

LEMMA HeapInvInit == HeapInit => HeapInv
<1> SUFFICES ASSUME HeapInit PROVE HeapInv
  OBVIOUS
<1>1. /\ DOMAIN mem = {0} /\ mem[0] = Header(FALSE, HeapEnd, 0)
      /\ mem[0].used = FALSE /\ mem[0].next = HeapEnd /\ mem[0].prev = 0
      /\ lfree = 0 /\ DOMAIN asked = {} /\ moving = {}
  BY DEF HeapInit, Header
<1>2. HeapEnd \in Nat /\ HeaderSize \in Nat /\ HeaderSize < HeapEnd
  BY HeapAssumption DEF HeapEnd
<1>3. Headers(mem)
  <2>1. mem = [x \in DOMAIN mem |-> mem[x]]
    BY DEF HeapInit
  <2>2. ASSUME NEW b \in DOMAIN mem
        PROVE  /\ b \in Nat /\ mem[b] = Header(mem[b].used, mem[b].next, mem[b].prev)
               /\ mem[b].used \in BOOLEAN /\ mem[b].next \in Nat /\ mem[b].prev \in Nat
    <3>1. b = 0
      BY <1>1
    <3> QED
      BY <1>1, <1>2, <3>1
  <2> QED
    BY <2>1, <2>2 DEF Headers
<1>4. Chained(mem) /\ Coalesced(mem)
  <2>1. \A b \in DOMAIN mem : b = 0 /\ mem[b].next = HeapEnd
    BY <1>1
  <2>2. \A b \in DOMAIN mem : b + HeaderSize < mem[b].next
    BY <1>2, <2>1
  <2>3. \A b, c \in DOMAIN mem : ~ (b < c /\ c < mem[b].next)
    BY <1>2, <2>1
  <2>4. Chained(mem)
    <3>1. 0 \in DOMAIN mem /\ mem[0].prev = 0
      BY <1>1
    <3>2. \A b \in DOMAIN mem : mem[b].next <= HeapEnd /\ ~ (mem[b].next # HeapEnd) /\ ~ (b # 0)
      BY <1>2, <2>1
    <3> QED
      BY <2>2, <2>3, <3>1, <3>2 DEF Chained
  <2> QED
    BY <2>1, <2>4 DEF Coalesced
<1>5. HeapSound
  BY <1>1, <1>4 DEF HeapSound
<1>6. asked = [x \in DOMAIN asked |-> asked[x]]
  BY DEF HeapInit
<1> QED
  BY <1>1, <1>3, <1>5, <1>6 DEF HeapInv, Requests, Moves

\* rt_free keeps the heap sound.
LEMMA FreesKeeps ==
    ASSUME HeapInv, NEW b \in DOMAIN asked, Frees(b)
    PROVE  HeapSound' /\ Headers(mem)' /\ Requests' /\ DOMAIN asked' = DOMAIN asked \ {b}
<1> DEFINE u == WithUsed(mem, b, FALSE)
           l == IF b < lfree THEN b ELSE lfree
           h == PlugHoles(u, l, b)
<1>0. /\ Headers(mem) /\ Chained(mem) /\ Coalesced(mem) /\ FreeOrEnd(mem, lfree)
      /\ DOMAIN asked = InUse(mem)
      /\ \A x \in DOMAIN asked : asked[x] \in Nat /\ asked[x] <= Room(mem, x)
  BY HeapParts
<1>1. mem' = h.mem /\ lfree' = h.lfree /\ asked' = [x \in DOMAIN asked \ {b} |-> asked[x]]
  BY DEF Frees
<1>2. b \in DOMAIN mem /\ mem[b].used
  BY <1>0 DEF InUse
<1>3. /\ Headers(u) /\ Chained(u) /\ DOMAIN u = DOMAIN mem
      /\ u[b].used = FALSE
      /\ \A x \in DOMAIN mem : /\ u[x].next = mem[x].next
                               /\ x # b => u[x].used = mem[x].used
                               /\ Room(u, x) = Room(mem, x)
  <2>1. ASSUME NEW mark \in BOOLEAN, NEW v, v = WithUsed(mem, b, mark)
        PROVE  /\ Headers(v) /\ Chained(v) /\ DOMAIN v = DOMAIN mem
               /\ v[b].used = mark
               /\ \A x \in DOMAIN mem : /\ v[x].next = mem[x].next
                                        /\ x # b => v[x].used = mem[x].used
                                        /\ Room(v, x) = Room(mem, x)
    BY <1>0, <1>2, <2>1, WithUsedKeeps
  <2> QED
    BY <2>1
<1> HIDE DEF u
<1>4. CoalescedBut(u, b)
  <2>1. ASSUME NEW x \in DOMAIN u, u[x].next # HeapEnd
        PROVE  u[x].used \/ u[u[x].next].used \/ b \in {x, u[x].next}
    <3>1. mem[x].used \/ mem[mem[x].next].used
      BY <1>3, <2>1, <1>0 DEF Coalesced
    <3>2. mem[x].next \in DOMAIN mem
      BY <1>3, <2>1, <1>0 DEF Chained
    <3> QED
      BY <1>3, <3>1, <3>2
  <2> QED
    BY <2>1 DEF CoalescedBut
<1>5. FreeOrEnd(u, l)
  BY <1>2, <1>3, <1>0 DEF FreeOrEnd
<1> HIDE DEF l
<1>6. /\ Headers(h.mem) /\ Chained(h.mem) /\ Coalesced(h.mem)
      /\ FreeOrEnd(h.mem, h.lfree)
      /\ InUse(h.mem) = InUse(u)
      /\ \A x \in InUse(u) : Room(u, x) <= Room(h.mem, x)
  BY <1>2, <1>3, <1>4, <1>5, PlugHolesKeeps
<1> HIDE DEF h
<1>7. InUse(u) = InUse(mem) \ {b}
  BY <1>3 DEF InUse
<1>8. /\ DOMAIN asked' = DOMAIN asked \ {b} /\ asked' = [x \in DOMAIN asked' |-> asked'[x]]
      /\ \A x \in DOMAIN asked' : asked'[x] = asked[x]
  BY <1>1
<1>9. \A x \in DOMAIN asked' : asked'[x] \in Nat /\ asked'[x] <= Room(mem', x)
  <2> SUFFICES ASSUME NEW x \in DOMAIN asked'
               PROVE  asked'[x] \in Nat /\ asked'[x] <= Room(mem', x)
    OBVIOUS
  <2>1. /\ x \in InUse(u) /\ x \in InUse(h.mem) /\ x \in DOMAIN mem
        /\ asked'[x] \in Nat /\ asked'[x] <= Room(mem, x)
    BY <1>6, <1>7, <1>8, <1>0 DEF InUse
  <2>2. Room(mem, x) = Room(u, x) /\ Room(u, x) <= Room(h.mem, x)
    BY <1>3, <1>6, <2>1
  <2>3. Room(u, x) \in Int /\ Room(h.mem, x) \in Int
    BY <1>3, <1>6, <2>1, HeapAssumption DEF Headers, InUse, Room
  <2> QED
    BY <1>1, <2>1, <2>2, <2>3
<1>10. HeapSound'
  BY <1>1, <1>6, <1>7, <1>8, <1>9, <1>0 DEF HeapSound, FreeOrEnd, InUse
<1> QED
  BY <1>1, <1>6, <1>8, <1>9, <1>10 DEF Requests

\* rt_malloc gives a block that was free, and leaves the other blocks alone.
LEMMA AllocatesKeeps ==
    ASSUME HeapInv, NEW b, NEW size \in Nat \ {0}, Allocates(b, size)
    PROVE  /\ Headers(mem') /\ Chained(mem') /\ Coalesced(mem') /\ FreeOrEnd(mem', lfree')
           /\ b \notin InUse(mem) /\ InUse(mem') = InUse(mem) \cup {b}
           /\ size <= Room(mem', b)
           /\ \A x \in InUse(mem) : Room(mem', x) = Room(mem, x)
<1> DEFINE large == Room(mem, b) >= size + HeaderSize + MinSize
           s == IF large THEN Split(mem, b, size) ELSE mem
<1>0. Headers(mem) /\ Chained(mem) /\ Coalesced(mem) /\ FreeOrEnd(mem, lfree)
  BY HeapParts
<1>1. /\ b \in DOMAIN mem /\ ~ mem[b].used /\ size <= Room(mem, b)
      /\ mem' = WithUsed(s, b, TRUE)
      /\ (lfree' = lfree /\ lfree # b) \/ lfree' \in FreeFrom(mem')
  BY <1>0, HeapAssumption DEF Allocates, IsLowest, Fits, Room, Headers
<1>2. /\ Headers(s) /\ Chained(s) /\ DOMAIN mem \subseteq DOMAIN s /\ size <= Room(s, b)
      /\ \A x \in DOMAIN mem : s[x].used = mem[x].used
      /\ \A x \in DOMAIN s \ DOMAIN mem : ~ s[x].used
      /\ \A x \in InUse(mem) : Room(s, x) = Room(mem, x)
      /\ CoalescedBut(s, b)
  <2>1. CASE large
    <3> DEFINE r == b + HeaderSize + size
    <3>1. s = Split(mem, b, size)
      BY <2>1
    <3>2. size + HeaderSize < Room(mem, b) /\ size \in Nat
      BY <1>0, <1>1, <2>1, HeapAssumption DEF Room, Headers
    <3> HIDE DEF s, r, large
    <3>3. /\ Headers(s) /\ Chained(s)
          /\ r \notin DOMAIN mem /\ DOMAIN s = DOMAIN mem \cup {r}
          /\ s[b].next = r /\ Room(s, b) = size
          /\ ~ s[r].used /\ s[r].next = mem[b].next
          /\ \A x \in DOMAIN mem : /\ s[x].used = mem[x].used
                                   /\ x # b => s[x].next = mem[x].next /\ Room(s, x) = Room(mem, x)
      BY <1>0, <1>1, <3>1, <3>2, SplitKeeps DEF r
    <3>4. ASSUME NEW x \in DOMAIN s, s[x].next # HeapEnd
          PROVE  s[x].used \/ s[s[x].next].used \/ b \in {x, s[x].next}
      <4>1. CASE x = r
        <5>1. mem[b].next \in DOMAIN mem /\ mem[mem[b].next].used
          BY <1>0, <1>1, <3>3, <3>4, <4>1 DEF Chained, Coalesced
        <5> QED
          BY <3>3, <4>1, <5>1
      <4>2. CASE x \in DOMAIN mem /\ x # b
        <5>1. /\ mem[x].next \in DOMAIN mem
              /\ mem[x].used \/ mem[mem[x].next].used
          BY <1>0, <3>3, <3>4, <4>2 DEF Chained, Coalesced
        <5> QED
          BY <3>3, <4>2, <5>1
      <4> QED
        BY <3>3, <4>1, <4>2
    <3>5. CoalescedBut(s, b)
      BY <3>4 DEF CoalescedBut
    <3>6. size <= Room(s, b)
      BY <3>2, <3>3
    <3>7. \A x \in InUse(mem) : Room(s, x) = Room(mem, x)
      BY <1>1, <3>3 DEF InUse
    <3> QED
      BY <3>3, <3>5, <3>6, <3>7
  <2>2. CASE ~ large
    <3>1. s = mem
      BY <2>2
    <3> HIDE DEF s, large
    <3>2. CoalescedBut(mem, b)
      BY <1>0 DEF CoalescedBut, Coalesced
    <3> QED
      BY <1>0, <1>1, <3>1, <3>2
  <2> QED
    BY <2>1, <2>2
<1> HIDE DEF s
<1>3. /\ Headers(mem') /\ Chained(mem') /\ DOMAIN mem' = DOMAIN s
      /\ mem'[b].used
      /\ \A x \in DOMAIN s : /\ mem'[x].next = s[x].next
                             /\ x # b => mem'[x].used = s[x].used
                             /\ Room(mem', x) = Room(s, x)
  <2>1. ASSUME NEW mark \in BOOLEAN, NEW v, v = WithUsed(s, b, mark)
        PROVE  /\ Headers(v) /\ Chained(v) /\ DOMAIN v = DOMAIN s
               /\ v[b].used = mark
               /\ \A x \in DOMAIN s : /\ v[x].next = s[x].next
                                      /\ x # b => v[x].used = s[x].used
                                      /\ Room(v, x) = Room(s, x)
    BY <1>1, <1>2, <2>1, WithUsedKeeps
  <2> QED
    BY <1>1, <2>1
<1>4. Coalesced(mem')
  <2>1. ASSUME NEW x \in DOMAIN mem', mem'[x].next # HeapEnd
        PROVE  mem'[x].used \/ mem'[mem'[x].next].used
    <3>1. s[x].used \/ s[s[x].next].used \/ b \in {x, s[x].next}
      BY <1>2, <1>3, <2>1 DEF CoalescedBut
    <3>2. s[x].next \in DOMAIN s
      BY <1>2, <1>3, <2>1 DEF Chained
    <3> QED
      BY <1>3, <3>1, <3>2
  <2> QED
    BY <2>1 DEF Coalesced
<1>5. FreeOrEnd(mem', lfree')
  <2>1. CASE lfree' \in FreeFrom(mem')
    BY <2>1 DEF FreeFrom, FreeOrEnd
  <2>2. CASE lfree' = lfree /\ lfree # b
    BY <1>0, <1>2, <1>3, <2>2 DEF FreeOrEnd
  <2> QED
    BY <1>1, <2>1, <2>2
<1>6. InUse(mem') = InUse(mem) \cup {b} /\ b \notin InUse(mem)
  BY <1>1, <1>2, <1>3 DEF InUse
<1>7. \A x \in InUse(mem) : Room(mem', x) = Room(mem, x)
  BY <1>2, <1>3 DEF InUse
<1>8. size <= Room(mem', b)
  BY <1>1, <1>2, <1>3
<1> QED
  BY <1>3, <1>4, <1>5, <1>6, <1>7, <1>8

\* The heap after rt_malloc, with the callers' part of it.
LEMMA AllocationSound ==
    ASSUME HeapInv, NEW b, NEW size \in Nat \ {0}, NEW least \in Nat \ {0}, size <= least,
           Allocates(b, least), Asks(DOMAIN asked, b, size)
    PROVE  /\ HeapSound' /\ Headers(mem)' /\ Requests'
           /\ DOMAIN asked' = DOMAIN asked \cup {b} /\ b \notin DOMAIN asked
<1>0. /\ DOMAIN asked = InUse(mem) /\ Headers(mem)
      /\ \A x \in DOMAIN asked : asked[x] \in Nat /\ asked[x] <= Room(mem, x)
  BY HeapParts
<1>1. /\ Headers(mem') /\ Chained(mem') /\ Coalesced(mem') /\ FreeOrEnd(mem', lfree')
      /\ b \notin InUse(mem) /\ InUse(mem') = InUse(mem) \cup {b}
      /\ least <= Room(mem', b)
      /\ \A x \in InUse(mem) : Room(mem', x) = Room(mem, x)
  BY AllocatesKeeps
<1>2. asked' = [x \in DOMAIN asked \cup {b} |-> IF x = b THEN size ELSE asked[x]]
  BY DEF Asks
<1>3. asked' = [x \in DOMAIN asked' |-> asked'[x]]
  BY <1>2, Zenon
<1>4. Room(mem', b) \in Int
  <2>1. b \in InUse(mem')
    BY <1>1
  <2> QED
    BY <1>1, <2>1, HeapAssumption DEF Room, Headers, InUse
<1>5. ASSUME NEW x \in DOMAIN asked'
      PROVE  asked'[x] \in Nat /\ asked'[x] <= Room(mem', x)
  <2>1. CASE x = b
    BY <1>1, <1>2, <1>4, <2>1
  <2>2. CASE x # b
    BY <1>0, <1>1, <1>2, <2>2
  <2> QED
    BY <2>1, <2>2
<1>6. DOMAIN asked' = InUse(mem')
  BY <1>0, <1>1, <1>2
<1>7. HeapSound'
  BY <1>1, <1>5, <1>6 DEF HeapSound, FreeOrEnd, InUse
<1> QED
  BY <1>0, <1>1, <1>2, <1>3, <1>5, <1>7 DEF Requests

\* rt_realloc of a block in its place keeps the heap sound.
LEMMA InPlaceKeeps ==
    ASSUME HeapInv, NEW b \in DOMAIN asked, NEW size \in Nat \ {0}, ReallocInPlace(b, size)
    PROVE  HeapSound' /\ Headers(mem)' /\ Requests' /\ DOMAIN asked' = DOMAIN asked
<1> DEFINE r == b + HeaderSize + size
           s == Split(mem, b, size)
           h == PlugHoles(s, lfree, r)
<1>0. /\ Headers(mem) /\ Chained(mem) /\ Coalesced(mem) /\ FreeOrEnd(mem, lfree)
      /\ DOMAIN asked = InUse(mem)
      /\ \A x \in DOMAIN asked : asked[x] \in Nat /\ asked[x] <= Room(mem, x)
  BY HeapParts
<1>1. b \in DOMAIN mem /\ mem[b].used
  BY <1>0 DEF InUse
<1>2. asked' = [x \in DOMAIN asked |-> IF x = b THEN size ELSE asked[x]]
  BY Zenon DEF ReallocInPlace, Asks
<1>3. /\ DOMAIN asked' = DOMAIN asked /\ asked' = [x \in DOMAIN asked' |-> asked'[x]]
      /\ asked'[b] = size /\ \A x \in DOMAIN asked : x # b => asked'[x] = asked[x]
  <2>1. asked' = [x \in DOMAIN asked' |-> asked'[x]]
    BY <1>2, Zenon
  <2> QED
    BY <1>2, <2>1
<1>4. Requests'
  BY <1>0, <1>3 DEF Requests
<1>5. CASE size = Room(mem, b) /\ UNCHANGED <<mem, lfree>>
  <2>1. \A x \in DOMAIN asked : asked'[x] <= Room(mem, x)
    BY <1>0, <1>3, <1>5
  <2>2. HeapSound'
    BY <1>0, <1>3, <1>5, <2>1 DEF HeapSound, FreeOrEnd, InUse
  <2> QED
    BY <1>0, <1>3, <1>4, <1>5, <2>2
<1>6. CASE Shrinks(b, size) /\ mem' = h.mem /\ lfree' = h.lfree
  <2>1. size + HeaderSize < Room(mem, b)
    BY <1>0, <1>1, <1>6, HeapAssumption DEF Shrinks, Room, Headers
  <2> HIDE DEF s, r, h
  <2>2. /\ Headers(s) /\ Chained(s)
        /\ r \notin DOMAIN mem /\ DOMAIN s = DOMAIN mem \cup {r}
        /\ s[b].next = r /\ Room(s, b) = size
        /\ ~ s[r].used /\ s[r].next = mem[b].next
        /\ \A x \in DOMAIN mem : /\ s[x].used = mem[x].used
                                 /\ x # b => s[x].next = mem[x].next /\ Room(s, x) = Room(mem, x)
    <3>1. s = Split(mem, b, size) /\ r = b + HeaderSize + size
      BY DEF r, s
    <3> QED
      BY <1>0, <1>1, <2>1, <3>1, SplitKeeps
  <2>3. ASSUME NEW x \in DOMAIN s, s[x].next # HeapEnd
        PROVE  s[x].used \/ s[s[x].next].used \/ r \in {x, s[x].next}
    <3>1. CASE x \in DOMAIN mem /\ x # b
      <4>1. /\ mem[x].next \in DOMAIN mem
            /\ mem[x].used \/ mem[mem[x].next].used
        BY <1>0, <2>2, <2>3, <3>1 DEF Chained, Coalesced
      <4> QED
        BY <2>2, <3>1, <4>1
    <3> QED
      BY <2>2, <3>1
  <2>4. CoalescedBut(s, r)
    BY <2>3 DEF CoalescedBut
  <2>5. FreeOrEnd(s, lfree)
    BY <1>0, <2>2 DEF FreeOrEnd
  <2>6. /\ Headers(h.mem) /\ Chained(h.mem) /\ Coalesced(h.mem)
        /\ FreeOrEnd(h.mem, h.lfree)
        /\ InUse(h.mem) = InUse(s)
        /\ \A x \in InUse(s) : Room(s, x) <= Room(h.mem, x)
    <3>1. r \in DOMAIN s
      BY <2>2
    <3> QED
      BY <2>2, <2>4, <2>5, <3>1, PlugHolesKeeps DEF h
  <2>7. InUse(s) = InUse(mem)
    BY <2>2 DEF InUse
  <2>8. ASSUME NEW x \in DOMAIN asked
        PROVE  asked'[x] <= Room(mem', x)
    <3>1. x \in InUse(s) /\ x \in InUse(h.mem) /\ x \in DOMAIN mem
      BY <1>0, <2>6, <2>7 DEF InUse
    <3>2. Room(s, x) \in Int /\ Room(h.mem, x) \in Int
      BY <2>2, <2>6, <3>1, HeapAssumption DEF Headers, InUse, Room
    <3>3. asked'[x] <= Room(s, x) /\ asked'[x] \in Nat
      BY <1>0, <1>3, <2>2, <3>1
    <3> QED
      BY <1>6, <2>6, <3>1, <3>2, <3>3
  <2>9. HeapSound'
    BY <1>0, <1>3, <1>6, <2>6, <2>7, <2>8 DEF HeapSound, FreeOrEnd, InUse
  <2> QED
    BY <1>3, <1>4, <1>6, <2>6, <2>9
<1> QED
  BY <1>5, <1>6 DEF ReallocInPlace

\* What AtLeast returns is a size that is large enough.
LEMMA AtLeastHolds ==
    ASSUME NEW size \in Nat \ {0}
    PROVE  AtLeast(size) \in Nat \ {0} /\ size <= AtLeast(size)
  BY HeapAssumption DEF AtLeast

\* Every step of the heap keeps the invariant.
LEMMA HeapInvNext ==
    ASSUME HeapInv, [HeapNext]_heapVars
    PROVE  HeapInv'
<1>1. HeapSound /\ Headers(mem) /\ Requests /\ Moves
  BY DEF HeapInv
<1>2. ASSUME NEW size \in Sizes, Malloc(size)
      PROVE  HeapInv'
  <2>1. size \in Nat \ {0}
    BY HeapAssumption
  <2>2. PICK b \in DOMAIN mem : Allocates(b, AtLeast(size)) /\ Asks(DOMAIN asked, b, size)
    BY <1>2 DEF Malloc
  <2>3. HeapSound' /\ Headers(mem)' /\ Requests' /\ DOMAIN asked' = DOMAIN asked \cup {b}
    BY <2>1, <2>2, AtLeastHolds, AllocationSound
  <2>4. Moves'
    BY <1>1, <1>2, <2>3 DEF Moves, Malloc
  <2> QED
    BY <2>3, <2>4 DEF HeapInv
<1>3. ASSUME NEW b \in DOMAIN asked, Free(b)
      PROVE  HeapInv'
  <2>1. HeapSound' /\ Headers(mem)' /\ Requests' /\ DOMAIN asked' = DOMAIN asked \ {b}
    BY <1>3, FreesKeeps DEF Free
  <2>2. Moves'
    BY <1>1, <1>3, <2>1 DEF Moves, Free, Held
  <2> QED
    BY <2>1, <2>2 DEF HeapInv
<1>4. ASSUME NEW b \in DOMAIN asked, NEW size \in Sizes, ReallocInPlace(b, size)
      PROVE  HeapInv'
  <2>1. size \in Nat \ {0}
    BY HeapAssumption
  <2>2. HeapSound' /\ Headers(mem)' /\ Requests' /\ DOMAIN asked' = DOMAIN asked
    BY <1>4, <2>1, InPlaceKeeps
  <2>3. moving' = moving
    BY <1>4 DEF ReallocInPlace
  <2>4. Moves'
    BY <1>1, <2>2, <2>3 DEF Moves
  <2> QED
    BY <2>2, <2>4 DEF HeapInv
<1>5. ASSUME NEW b \in DOMAIN asked, NEW size \in Sizes, ReallocMoves(b, size)
      PROVE  HeapInv'
  <2>1. size \in Nat \ {0}
    BY HeapAssumption
  <2>2. PICK c \in DOMAIN mem : /\ Allocates(c, AtLeast(size))
                                /\ Asks(DOMAIN asked, c, size)
                                /\ moving' = moving \cup {<<b, c>>}
    BY <1>5 DEF ReallocMoves
  <2>3. HeapSound' /\ Headers(mem)' /\ Requests' /\ DOMAIN asked' = DOMAIN asked \cup {c}
    BY <2>1, <2>2, AtLeastHolds, AllocationSound
  <2>4. \A mv \in moving : b # mv[1]
    BY <1>5 DEF ReallocMoves, Held
  <2>5. Moves'
    BY <1>1, <2>2, <2>3, <2>4 DEF Moves
  <2> QED
    BY <2>3, <2>5 DEF HeapInv
<1>6. ASSUME NEW mv \in moving, ReallocFrees(mv[1], mv[2])
      PROVE  HeapInv'
  <2>1. mv = <<mv[1], mv[2]>> /\ mv[1] \in DOMAIN asked
    BY <1>1 DEF Moves
  <2>2. /\ HeapSound' /\ Headers(mem)' /\ Requests'
        /\ DOMAIN asked' = DOMAIN asked \ {mv[1]}
    BY <1>6, <2>1, FreesKeeps DEF ReallocFrees
  <2>3. moving' = moving \ {mv}
    BY <1>6, <2>1 DEF ReallocFrees
  <2>4. Moves'
    BY <1>1, <2>2, <2>3 DEF Moves
  <2> QED
    BY <2>2, <2>4 DEF HeapInv
<1>7. CASE UNCHANGED heapVars
  BY <1>1, <1>7 DEF heapVars, HeapInv, HeapSound, Requests, Moves
<1> QED
  BY <1>2, <1>3, <1>4, <1>5, <1>6, <1>7 DEF HeapNext

\* After any sequence of rt_malloc, rt_realloc and rt_free, for a heap and
\* blocks of any size: the headers form a chain, no two neighbours are free,
\* lfree is a free block or the end, and callers have what they asked for.
THEOREM HeapSoundHolds == HeapSpec => []HeapSound
<1>1. HeapInit => HeapInv
  BY HeapInvInit
<1>2. HeapInv /\ [HeapNext]_heapVars => HeapInv'
  BY HeapInvNext
<1>3. HeapInv => HeapSound
  BY DEF HeapInv
<1> QED
  BY <1>1, <1>2, <1>3, PTL DEF HeapSpec

-----------------------------------------------------------------------------
(* Ring buffers *)

\* What may be in the buffer.
Byte == {NoByte} \cup UNION {Elements(d) : d \in Chunk}

\* The index the reader is at, its store included that it has not done yet.
Reading == IF Quiet THEN readIndex ELSE nextRead

\* The mirror bits tell a full buffer from an empty one: the writer is as many
\* bytes in front of the reader as there are, counted through the mirrors.
Mirrored(r) == r + DataLen(r) = writeIndex + (IF readMirror = writeMirror THEN 0 ELSE RbSize)

\* Between the two stores of a get, the old read_index and the new mirror bit
\* leave room for a byte.
RbInv ==
    /\ bytes \in [0..(RbSize - 1) -> Byte]
    /\ readMirror \in {0, 1} /\ writeMirror \in {0, 1}
    /\ readIndex \in 0..(RbSize - 1) /\ writeIndex \in 0..(RbSize - 1)
    /\ nextRead \in -1..(RbSize - 1) /\ burst \in 0..1
    /\ Mirrored(Reading)
    /\ Quiet => burst = 0
    /\ ~ Quiet /\ burst = 0 => readMirror = writeMirror /\ writeIndex <= readIndex

\* The blocks are sequences of bytes.
LEMMA ChunkIs ==
    ASSUME NEW d \in Chunk
    PROVE  d \in Seq(Byte) /\ Len(d) \in Nat \ {0}
<1>1. d # <<>> /\ d \in Seq({d[i] : i \in DOMAIN d})
  BY RingBufferAssumption
<1>2. DOMAIN d = 1..Len(d) /\ Len(d) \in Nat
  BY <1>1
<1>3. {d[i] : i \in DOMAIN d} = Elements(d)
  BY <1>2 DEF Elements
<1>4. Elements(d) \subseteq Byte
  BY DEF Byte
<1>5. d \in Seq(Byte)
  <2>1. \A i \in 1..Len(d) : d[i] \in Byte
    BY <1>2, <1>3, <1>4
  <2> QED
    BY <1>1, <1>2, <2>1
<1> QED
  BY <1>1, <1>2, <1>5

\* Nothing was put yet.
LEMMA RbInitInv == RbInit => RbInv /\ Reading = 0 /\ DataLen(Reading) = 0
  BY RingBufferAssumption DEF RbInit, RbInv, Reading, Quiet, Mirrored, DataLen, Byte

\* How much there is, and where the writer is then.
LEMMA Lengths ==
    ASSUME RbInv, NEW r \in 0..(RbSize - 1), Mirrored(r)
    PROVE  /\ DataLen(r) \in 0..RbSize
           /\ writeIndex = (r + DataLen(r)) % RbSize
           /\ readMirror = writeMirror => DataLen(r) = writeIndex - r
           /\ readMirror # writeMirror => DataLen(r) = writeIndex - r + RbSize
<1> DEFINE l == DataLen(r)
<1>1. RbSize \in Nat \ {0} /\ writeIndex \in 0..(RbSize - 1)
  BY RingBufferAssumption DEF RbInv
<1>2. l \in 0..RbSize
  BY <1>1 DEF DataLen
<1>3. r + l = writeIndex + (IF readMirror = writeMirror THEN 0 ELSE RbSize)
  BY DEF Mirrored
<1> HIDE DEF l
<1>4. r + l = writeIndex \/ r + l - RbSize = writeIndex
  BY <1>1, <1>2, <1>3
<1>5. writeIndex = (r + l) % RbSize
  <2>1. r + l \in Int /\ RbSize \in Nat \ {0}
    BY <1>1, <1>2
  <2>2. \/ r + l \in 0..(RbSize - 1) /\ r + l = writeIndex
        \/ (r + l) - RbSize \in 0..(RbSize - 1) /\ (r + l) - RbSize = writeIndex
    BY <1>1, <1>2, <1>4
  <2>3. /\ r + l \in 0..(RbSize - 1) => (r + l) % RbSize = r + l
        /\ (r + l) - RbSize \in 0..(RbSize - 1) => (r + l) % RbSize = (r + l) - RbSize
    BY <2>1, RemainderNear, Zenon
  <2> QED
    BY <2>2, <2>3
<1>6. /\ readMirror = writeMirror => l = writeIndex - r
      /\ readMirror # writeMirror => l = writeIndex - r + RbSize
  BY <1>1, <1>2, <1>3
<1> QED
  BY <1>2, <1>5, <1>6 DEF l

\* What is copied in is where the writer was, the rest stays.
LEMMA CopyAt ==
    ASSUME RbInv, NEW c \in Seq(Byte), Copy(c), NEW k \in 0..(RbSize - 1)
    PROVE  /\ bytes' \in [0..(RbSize - 1) -> Byte]
           /\ bytes'[(writeIndex + k) % RbSize]
                = IF k < Len(c) THEN c[k + 1] ELSE bytes[(writeIndex + k) % RbSize]
<1> DEFINE m == RbSize
           w == writeIndex
<1>1. m \in Nat \ {0} /\ w \in 0..(m - 1) /\ bytes \in [0..(m - 1) -> Byte]
      /\ Len(c) \in Nat /\ \A i \in 1..Len(c) : c[i] \in Byte
  BY RingBufferAssumption DEF RbInv
<1>2. bytes' = [i \in 0..(m - 1) |->
                  IF ((i - w) % m) + 1 <= Len(c) THEN c[((i - w) % m) + 1] ELSE bytes[i]]
  BY <1>1 DEF Copy
<1> HIDE DEF m, w
<1>3. bytes' \in [0..(m - 1) -> Byte]
  <2>1. ASSUME NEW i \in 0..(m - 1), ((i - w) % m) + 1 <= Len(c)
        PROVE  c[((i - w) % m) + 1] \in Byte
    <3>1. (i - w) % m \in 0..(m - 1)
      BY <1>1
    <3>2. ((i - w) % m) + 1 \in 1..Len(c)
      BY <1>1, <2>1, <3>1
    <3> QED
      BY <1>1, <3>2
  <2> QED
    BY <1>1, <1>2, <2>1
<1> DEFINE j == (w + k) % m
<1>4. j \in 0..(m - 1) /\ k \in 0..(m - 1)
  BY <1>1 DEF m
<1>5. (j - w) % m = k
  <2>1. w + k \in Int /\ -w \in Int /\ m \in Nat \ {0} /\ k \in Int /\ k \in 0..(m - 1)
    BY <1>1, <1>4
  <2>2. (((w + k) % m) + (-w)) % m = ((w + k) + (-w)) % m
    BY <2>1, RemainderSum, Zenon
  <2>3. (w + k) + (-w) = k /\ j + (-w) = j - w
    BY <1>1, <1>4
  <2>4. k % m = k
    BY <2>1, RemainderNear, Zenon
  <2> QED
    BY <2>2, <2>3, <2>4 DEF j
<1> HIDE DEF j
<1>6. bytes'[j] = IF k + 1 <= Len(c) THEN c[k + 1] ELSE bytes[j]
  BY <1>2, <1>4, <1>5
<1> QED
  BY <1>1, <1>3, <1>4, <1>6 DEF j, m, w

\* What a byte of the queue is.
LEMMA QueueIs ==
    ASSUME RbInv, NEW r \in 0..(RbSize - 1), NEW n \in 0..RbSize
    PROVE  /\ BytesFrom(r, n) \in Seq(Byte) /\ Len(BytesFrom(r, n)) = n
           /\ \A i \in 1..n : BytesFrom(r, n)[i] = bytes[(r + i - 1) % RbSize]
<1>1. RbSize \in Nat \ {0} /\ bytes \in [0..(RbSize - 1) -> Byte]
  BY RingBufferAssumption DEF RbInv
<1>2. ASSUME NEW i \in 1..n PROVE bytes[(r + i - 1) % RbSize] \in Byte
  <2>1. (r + i - 1) % RbSize \in 0..(RbSize - 1)
    BY <1>1
  <2> QED
    BY <1>1, <2>1
<1>3. BytesFrom(r, n) = [i \in 1..n |-> bytes[(r + i - 1) % RbSize]] /\ n \in Nat
  BY DEF BytesFrom
<1> QED
  BY <1>2, <1>3

\* The writer moves on.
LEMMA AdvanceIs ==
    ASSUME RbInv, NEW r \in 0..(RbSize - 1), Mirrored(r), NEW n \in Nat,
           n + DataLen(r) <= RbSize, AdvanceWrite(n), readMirror' = readMirror
    PROVE  /\ writeIndex' \in 0..(RbSize - 1) /\ writeMirror' \in {0, 1}
           /\ DataLen(r)' = DataLen(r) + n /\ Mirrored(r)'
<1> DEFINE l == DataLen(r)
<1>1. /\ RbSize \in Nat \ {0} /\ writeIndex \in 0..(RbSize - 1)
      /\ readMirror \in {0, 1} /\ writeMirror \in {0, 1}
  BY RingBufferAssumption DEF RbInv
<1>2. /\ l \in 0..RbSize
      /\ readMirror = writeMirror => l = writeIndex - r
      /\ readMirror # writeMirror => l = writeIndex - r + RbSize
  BY Lengths
<1>3. DataLen(r)' = IF r = writeIndex' THEN (IF readMirror = writeMirror' THEN 0 ELSE RbSize)
                    ELSE IF writeIndex' > r THEN writeIndex' - r
                    ELSE RbSize - (r - writeIndex')
  BY DEF DataLen
<1>4. Mirrored(r)' <=> r + DataLen(r)' = writeIndex' + (IF readMirror = writeMirror' THEN 0 ELSE RbSize)
  BY DEF Mirrored
<1> HIDE DEF l
<1>5. CASE RbSize - writeIndex <= n
  <2>1. writeIndex' = n - (RbSize - writeIndex) /\ writeMirror' = 1 - writeMirror
    BY <1>5 DEF AdvanceWrite, Crosses
  <2>2. readMirror = writeMirror /\ writeMirror' # readMirror /\ writeMirror' \in {0, 1}
    BY <1>1, <1>2, <1>5, <2>1 DEF l
  <2> QED
    BY <1>1, <1>2, <1>3, <1>4, <1>5, <2>1, <2>2 DEF l
<1>6. CASE ~ (RbSize - writeIndex <= n)
  <2>1. writeIndex' = writeIndex + n /\ writeMirror' = writeMirror
    BY <1>6 DEF AdvanceWrite, Crosses
  <2> QED
    BY <1>1, <1>2, <1>3, <1>4, <1>6, <2>1 DEF l
<1> QED
  BY <1>5, <1>6

\* The places of the queue, counted from where the writer is.
LEMMA PlaceFromWriter ==
    ASSUME RbInv, NEW r \in 0..(RbSize - 1), Mirrored(r), NEW i \in Int
    PROVE  /\ (writeIndex + (i - 1 - DataLen(r))) % RbSize = (r + i - 1) % RbSize
           /\ (writeIndex + (i - 1 - DataLen(r) + RbSize)) % RbSize = (r + i - 1) % RbSize
<1> DEFINE l == DataLen(r)
           m == RbSize
           e == i - 1 - l
<1>1. m \in Nat \ {0} /\ l \in 0..m /\ writeIndex = (r + l) % m
  BY Lengths, RingBufferAssumption
<1> HIDE DEF l, m
<1>2. r + l \in Int /\ e \in Int /\ e + m \in Int /\ r + i - 1 \in Int
  BY <1>1
<1>3. (r + l) + e = r + i - 1 /\ (r + l) + (e + m) = (r + i - 1) + m
  BY <1>1
<1> HIDE DEF e
<1>4. /\ (((r + l) % m) + e) % m = ((r + l) + e) % m
      /\ (((r + l) % m) + (e + m)) % m = ((r + l) + (e + m)) % m
  BY <1>1, <1>2, RemainderSum, Zenon
<1>5. ((r + i - 1) + m) % m = (r + i - 1) % m
  BY <1>1, <1>2, RemainderTurn, Zenon
<1>6. (writeIndex + e) % m = (r + i - 1) % m /\ (writeIndex + (e + m)) % m = (r + i - 1) % m
  BY <1>1, <1>3, <1>4, <1>5, Zenon
<1> QED
  BY <1>6 DEF e, l, m

\* A block that fits is appended to the queue.
LEMMA BlockAppended ==
    ASSUME RbInv, NEW r \in 0..(RbSize - 1), Mirrored(r), NEW c \in Seq(Byte),
           Len(c) + DataLen(r) <= RbSize, Copy(c), AdvanceWrite(Len(c)), readMirror' = readMirror
    PROVE  /\ bytes' \in [0..(RbSize - 1) -> Byte]
           /\ writeIndex' \in 0..(RbSize - 1) /\ writeMirror' \in {0, 1}
           /\ Mirrored(r)' /\ DataLen(r)' = DataLen(r) + Len(c)
           /\ BytesFrom(r, DataLen(r))' = BytesFrom(r, DataLen(r)) \o c
<1> DEFINE l == DataLen(r)
           n == Len(c)
           s == BytesFrom(r, l)
           t == [i \in 1..(l + n) |-> bytes'[(r + i - 1) % RbSize]]
<1>1. RbSize \in Nat \ {0} /\ l \in 0..RbSize /\ n \in Nat /\ l + n <= RbSize
  BY RingBufferAssumption, Lengths
<1>2. /\ writeIndex' \in 0..(RbSize - 1) /\ writeMirror' \in {0, 1}
      /\ Mirrored(r)' /\ DataLen(r)' = l + n
  BY <1>1, AdvanceIs
<1>3. BytesFrom(r, DataLen(r))' = t
  BY <1>2 DEF BytesFrom
<1>4. /\ s \in Seq(Byte) /\ Len(s) = l
      /\ \A i \in 1..l : s[i] = bytes[(r + i - 1) % RbSize]
  BY <1>1, QueueIs
<1>5. bytes' \in [0..(RbSize - 1) -> Byte]
  <2>1. 0 \in 0..(RbSize - 1)
    BY <1>1
  <2> QED
    BY <2>1, CopyAt
<1>6. /\ s \o c \in Seq(Byte) /\ Len(s \o c) = l + n
      /\ \A i \in 1..(l + n) : (s \o c)[i] = IF i <= l THEN s[i] ELSE c[i - l]
  <2>1. s \in Seq(Byte) /\ c \in Seq(Byte) /\ Len(s) = l
    BY <1>4
  <2> HIDE DEF s, l
  <2>2. /\ s \o c \in Seq(Byte) /\ Len(s \o c) = Len(s) + Len(c)
        /\ \A i \in 1..(Len(s) + Len(c)) :
             (s \o c)[i] = IF i <= Len(s) THEN s[i] ELSE c[i - Len(s)]
    BY <2>1, ConcatProperties
  <2> QED
    BY <2>1, <2>2
<1>7. ASSUME NEW i \in 1..(l + n)
      PROVE  bytes'[(r + i - 1) % RbSize] = (s \o c)[i]
  <2>1. CASE i <= l
    <3> DEFINE k == i - 1 - l + RbSize
    <3>1. k \in 0..(RbSize - 1) /\ ~ (k < n)
      BY <1>1, <2>1
    <3>2. (writeIndex + k) % RbSize = (r + i - 1) % RbSize
      <4>1. i \in Int
        OBVIOUS
      <4> QED
        BY <4>1, PlaceFromWriter
    <3> HIDE DEF k
    <3>3. bytes'[(writeIndex + k) % RbSize] = bytes[(writeIndex + k) % RbSize]
      BY <3>1, CopyAt
    <3>4. (s \o c)[i] = s[i] /\ s[i] = bytes[(r + i - 1) % RbSize]
      BY <1>1, <1>4, <1>6, <2>1
    <3> QED
      BY <3>2, <3>3, <3>4
  <2>2. CASE ~ (i <= l)
    <3> DEFINE k == i - 1 - l
    <3>1. k \in 0..(RbSize - 1) /\ k < n /\ k + 1 = i - l
      BY <1>1, <2>2
    <3>2. (writeIndex + k) % RbSize = (r + i - 1) % RbSize
      <4>1. i \in Int
        OBVIOUS
      <4> QED
        BY <4>1, PlaceFromWriter
    <3> HIDE DEF k
    <3>3. bytes'[(writeIndex + k) % RbSize] = c[k + 1]
      BY <3>1, CopyAt
    <3>4. (s \o c)[i] = c[i - l]
      BY <1>6, <2>2
    <3> QED
      BY <3>1, <3>2, <3>3, <3>4
  <2> QED
    BY <2>1, <2>2
<1> DEFINE b == s \o c
           z == l + n
<1> HIDE DEF l, n, s, b
<1>8. t = b
  <2>1. t \in Seq(Byte) /\ Len(t) = z /\ \A i \in 1..z : t[i] = b[i]
    <3>1. b \in Seq(Byte) /\ Len(b) = z /\ z \in Nat
      BY <1>1, <1>6 DEF b
    <3>2. \A i \in 1..z : bytes'[(r + i - 1) % RbSize] = b[i]
      BY <1>7 DEF b
    <3> HIDE DEF z
    <3>3. t = [i \in 1..z |-> bytes'[(r + i - 1) % RbSize]]
      BY DEF z
    <3>4. \A i \in 1..z : b[i] \in Byte
      BY <3>1
    <3> HIDE DEF t
    <3>5. t = [i \in 1..z |-> b[i]]
      BY <3>2, <3>3
    <3> QED
      BY <3>1, <3>4, <3>5
  <2>2. b \in Seq(Byte) /\ Len(b) = z
    BY <1>6 DEF b
  <2> HIDE DEF t, z
  <2> QED
    BY <2>1, <2>2, SeqEqual
<1> QED
  BY <1>2, <1>3, <1>5, <1>8 DEF l, n, s, b

\* The queue that the buffer stands for.
LEMMA RbQueueIs ==
    ASSUME RbInv
    PROVE  /\ RbSize \in Nat \ {0} /\ Reading \in 0..(RbSize - 1)
           /\ DataLen(Reading) \in 0..RbSize
           /\ RbQueue = BytesFrom(Reading, DataLen(Reading))
           /\ RbQueue \in Seq(Byte) /\ Len(RbQueue) = DataLen(Reading)
           /\ Quiet => SpaceLen = RbSize - DataLen(Reading)
<1>1. RbSize \in Nat \ {0} /\ Reading \in 0..(RbSize - 1)
  BY RingBufferAssumption DEF RbInv, Reading, Quiet
<1>2. DataLen(Reading) \in 0..RbSize
  BY <1>1, Lengths DEF RbInv
<1>3. RbQueue = BytesFrom(Reading, DataLen(Reading))
  BY DEF RbQueue, Reading
<1>4. Quiet => SpaceLen = RbSize - DataLen(Reading)
  BY DEF SpaceLen, Reading
<1> HIDE DEF Reading
<1> QED
  BY <1>1, <1>2, <1>3, <1>4, QueueIs

\* The beginning of a block.
LEMMA FrontIs ==
    ASSUME NEW d \in Chunk, NEW n \in Nat, n <= Len(d)
    PROVE  /\ SubSeq(d, 1, n) \in Seq(Byte) /\ Len(SubSeq(d, 1, n)) = n
           /\ n = 0 => SubSeq(d, 1, n) = <<>>
<1>1. d \in Seq(Byte) /\ Len(d) \in Nat /\ \A i \in 1..n : d[i] \in Byte
  <2>1. d \in Seq(Byte) /\ Len(d) \in Nat
    BY ChunkIs
  <2> QED
    BY <2>1
<1>2. 1 \in Int /\ n \in Int
  OBVIOUS
<1>3. /\ SubSeq(d, 1, n) \in Seq(Byte)
      /\ Len(SubSeq(d, 1, n)) = IF 1 <= n THEN n - 1 + 1 ELSE 0
  BY <1>1, <1>2, SubSeqProperties
<1> QED
  BY <1>3

\* What is put goes to the end of the queue, if there is room for it.
LEMMA TakeIs ==
    ASSUME RbInv, NEW d \in Chunk, NEW n \in Nat, Take(d, n), n <= Len(d),
           n + DataLen(Reading) <= RbSize
    PROVE  /\ bytes' \in [0..(RbSize - 1) -> Byte]
           /\ writeIndex' \in 0..(RbSize - 1) /\ writeMirror' \in {0, 1}
           /\ Reading' = Reading /\ Mirrored(Reading)' /\ Quiet' = Quiet
           /\ RbQueue' = RbQueue \o SubSeq(d, 1, n)
<1>1. UNCHANGED <<readMirror, readIndex, nextRead>>
  BY DEF Take
<1>2. Reading' = Reading /\ Quiet' = Quiet
  BY <1>1 DEF Reading, Quiet
<1>3. /\ SubSeq(d, 1, n) \in Seq(Byte) /\ Len(SubSeq(d, 1, n)) = n
      /\ n = 0 => SubSeq(d, 1, n) = <<>>
  BY FrontIs
<1>4. RbQueue \in Seq(Byte) /\ Reading \in 0..(RbSize - 1) /\ Mirrored(Reading)
  BY RbQueueIs DEF RbInv
<1>5. CASE n = 0
  <2>1. UNCHANGED <<bytes, writeMirror, writeIndex>>
    BY <1>5 DEF Take
  <2>2. RbQueue \o <<>> = RbQueue
    BY <1>4, ConcatEmptySeq
  <2>3. RbQueue' = RbQueue /\ (Mirrored(Reading)' <=> Mirrored(Reading))
    BY <1>1, <2>1 DEF RbQueue, Quiet, BytesFrom, DataLen, Mirrored, Reading
  <2> QED
    BY <1>2, <1>3, <1>4, <1>5, <2>1, <2>2, <2>3 DEF RbInv
<1>6. CASE n # 0
  <2> DEFINE c == SubSeq(d, 1, n)
             r == Reading
  <2>1. Copy(c) /\ AdvanceWrite(n) /\ c \in Seq(Byte) /\ Len(c) = n
    BY <1>3, <1>6 DEF Take
  <2> HIDE DEF c
  <2>2. ASSUME NEW q \in 0..(RbSize - 1), q = Reading
        PROVE  /\ bytes' \in [0..(RbSize - 1) -> Byte]
               /\ writeIndex' \in 0..(RbSize - 1) /\ writeMirror' \in {0, 1}
               /\ Mirrored(q)'
               /\ BytesFrom(q, DataLen(q))' = BytesFrom(q, DataLen(q)) \o c
    <3>1. Mirrored(q) /\ Len(c) + DataLen(q) <= RbSize /\ AdvanceWrite(Len(c))
      <4>1. DataLen(Reading) \in 0..RbSize
        BY RbQueueIs
      <4> QED
        BY <1>4, <2>1, <2>2, <4>1
    <3> QED
      BY <1>1, <2>1, <3>1, BlockAppended
  <2>3. ASSUME NEW q \in 0..(RbSize - 1), q = Reading
        PROVE  /\ RbQueue' = BytesFrom(q, DataLen(q))' /\ RbQueue = BytesFrom(q, DataLen(q))
               /\ Mirrored(Reading)' <=> Mirrored(q)'
    <3>1. Reading' = q
      BY <1>2, <2>3
    <3> QED
      BY <2>3, <3>1 DEF RbQueue, Reading, BytesFrom, DataLen, Mirrored
  <2> QED
    BY <1>2, <1>4, <2>2, <2>3 DEF c
<1> QED
  BY <1>5, <1>6

\* A put by the thread.
LEMMA PutIs ==
    ASSUME RbInv, NEW d \in Chunk, RbPut(d)
    PROVE  RbInv' /\ RbAbstract!Put(d)
<1> DEFINE l == DataLen(Reading)
<1>1. PICK n \in 0..RbSize : Take(d, n) /\ RbReturns(n, <<>>)
  BY DEF RbPut
<1>2. /\ RbSize \in Nat \ {0} /\ l \in 0..RbSize /\ Len(RbQueue) = l
      /\ SpaceLen = RbSize - l /\ Len(d) \in Nat
  BY RbQueueIs, ChunkIs DEF RbPut
<1> HIDE DEF l
<1>3. n = (IF RbSize - l < Len(d) THEN RbSize - l ELSE Len(d))
  BY <1>1, <1>2 DEF Take
<1>4. n \in Nat /\ n <= Len(d) /\ n + l <= RbSize
      /\ n = (IF Len(d) < RbSize - l THEN Len(d) ELSE RbSize - l)
  BY <1>2, <1>3
<1>5. /\ bytes' \in [0..(RbSize - 1) -> Byte]
      /\ writeIndex' \in 0..(RbSize - 1) /\ writeMirror' \in {0, 1}
      /\ Reading' = Reading /\ Mirrored(Reading)' /\ Quiet' = Quiet
      /\ RbQueue' = RbQueue \o SubSeq(d, 1, n)
  BY <1>1, <1>4, TakeIs DEF l
<1>6. RbInv'
  BY <1>1, <1>5 DEF RbInv, RbPut, Take
<1>7. RbAbstract!Put(d)
  BY <1>1, <1>2, <1>4, <1>5
  DEF RbAbstract!Put, RbAbstract!Smaller, RbAbstract!Returned, RbReturns
<1> QED
  BY <1>6, <1>7

\* A put by the handler, also between the two stores of a get.
LEMMA PutIsrIs ==
    ASSUME RbInv, NEW d \in Chunk, RbPutCharIsr(d), Burst <= 1
    PROVE  RbInv' /\ RbAbstract!PutIsr(d)
<1> DEFINE l == DataLen(Reading)
<1>1. PICK n \in 0..1 : Take(d, n)
  BY DEF RbPutCharIsr
<1>2. /\ RbSize \in Nat \ {0} /\ l \in 0..RbSize /\ Len(RbQueue) = l /\ Len(d) = 1
      /\ Quiet => SpaceLen = RbSize - l
  BY RbQueueIs DEF RbPutCharIsr
<1>3. n = (IF SpaceLen < 1 THEN SpaceLen ELSE 1)
  BY <1>1, <1>2 DEF Take
<1>4. ASSUME ~ Quiet PROVE SpaceLen >= 1 /\ l < RbSize
  <2>1. burst = 0
    BY <1>4, RingBufferAssumption DEF RbPutCharIsr, RbInv
  <2>2. /\ readMirror = writeMirror /\ writeIndex <= readIndex /\ Reading = nextRead
        /\ writeIndex \in 0..(RbSize - 1) /\ readIndex \in 0..(RbSize - 1)
        /\ Reading \in 0..(RbSize - 1) /\ Mirrored(Reading)
    BY <1>4, <2>1, RbQueueIs DEF RbInv, Reading
  <2>3. SpaceLen >= 1
    BY <1>2, <2>2 DEF SpaceLen, DataLen
  <2>4. l = writeIndex - Reading
    BY <2>2, Lengths
  <2> QED
    BY <1>2, <2>2, <2>3, <2>4
<1> HIDE DEF l
<1>5. n \in Nat /\ n <= Len(d) /\ n + l <= RbSize
      /\ n = (IF 1 < RbSize - l THEN 1 ELSE RbSize - l)
  <2>1. CASE Quiet
    BY <1>2, <1>3, <2>1
  <2>2. CASE ~ Quiet
    <3>1. n = 1
      BY <1>3, <1>4, <2>2
    <3> QED
      BY <1>2, <1>4, <2>2, <3>1
  <2> QED
    BY <2>1, <2>2
<1>6. /\ bytes' \in [0..(RbSize - 1) -> Byte]
      /\ writeIndex' \in 0..(RbSize - 1) /\ writeMirror' \in {0, 1}
      /\ Reading' = Reading /\ Mirrored(Reading)' /\ Quiet' = Quiet
      /\ RbQueue' = RbQueue \o SubSeq(d, 1, n)
  BY <1>1, <1>5, TakeIs DEF l
<1>7. RbInv'
  <2>1. UNCHANGED <<readMirror, readIndex, nextRead>>
    BY <1>1 DEF Take
  <2>2. /\ burst' \in 0..1 /\ (Quiet => burst' = 0) /\ (~ Quiet => burst' = 1)
    BY RingBufferAssumption DEF RbPutCharIsr, RbInv
  <2> QED
    BY <1>6, <2>1, <2>2 DEF RbInv
<1>8. RbAbstract!PutIsr(d)
  BY <1>2, <1>5, <1>6 DEF RbAbstract!PutIsr, RbAbstract!Smaller, RbPutCharIsr
<1> QED
  BY <1>7, <1>8

\* What is got is the front of the queue, up to the index the reader stores last.
LEMMA GetIs ==
    ASSUME RbInv, NEW n \in 1..RbSize, RbGet(n)
    PROVE  RbInv' /\ RbAbstract!Get(n)
<1> DEFINE l == DataLen(readIndex)
           k == IF l < n THEN l ELSE n
           r == IF Crosses(readIndex, k) THEN k - (RbSize - readIndex) ELSE readIndex + k
<1>1. /\ Quiet /\ RbReturns(k, BytesFrom(readIndex, k))
      /\ UNCHANGED <<bytes, writeMirror, writeIndex, burst>>
      /\ \/ /\ ~ Crosses(readIndex, k)
            /\ readIndex' = readIndex + k /\ UNCHANGED <<readMirror, nextRead>>
         \/ /\ Crosses(readIndex, k)
            /\ readMirror' = 1 - readMirror /\ nextRead' = k - (RbSize - readIndex)
            /\ UNCHANGED readIndex
  BY DEF RbGet
<1>2. /\ RbSize \in Nat \ {0} /\ Reading = readIndex /\ readIndex \in 0..(RbSize - 1)
      /\ l \in 0..RbSize /\ Mirrored(readIndex) /\ Len(RbQueue) = l
      /\ RbQueue = BytesFrom(readIndex, l) /\ nextRead = -1 /\ burst = 0
      /\ readMirror \in {0, 1} /\ writeMirror \in {0, 1} /\ writeIndex \in 0..(RbSize - 1)
      /\ bytes \in [0..(RbSize - 1) -> Byte]
  BY <1>1, RbQueueIs DEF RbInv, Reading, Quiet
<1>3. /\ readMirror = writeMirror => l = writeIndex - readIndex
      /\ readMirror # writeMirror => l = writeIndex - readIndex + RbSize
  BY <1>2, Lengths
<1> HIDE DEF l
<1>4. k \in 0..l /\ k \in Nat /\ k <= n
  BY <1>2
<1>5. k = RbAbstract!Smaller(n, Len(RbQueue))
  BY <1>2 DEF RbAbstract!Smaller
<1> HIDE DEF k
<1>6. r \in 0..(RbSize - 1) /\ r = (readIndex + k) % RbSize
  <2>1. \/ r = readIndex + k /\ r \in 0..(RbSize - 1)
        \/ r = (readIndex + k) - RbSize /\ (readIndex + k) - RbSize \in 0..(RbSize - 1)
    BY <1>2, <1>3, <1>4 DEF Crosses
  <2>2. readIndex + k \in Int /\ RbSize \in Nat \ {0}
    BY <1>2, <1>4
  <2> HIDE DEF r
  <2>3. /\ readIndex + k \in 0..(RbSize - 1) => (readIndex + k) % RbSize = readIndex + k
        /\ (readIndex + k) - RbSize \in 0..(RbSize - 1)
             => (readIndex + k) % RbSize = (readIndex + k) - RbSize
    BY <2>2, RemainderNear, Zenon
  <2> QED
    BY <2>1, <2>3
<1>7. Reading' = r /\ readMirror' \in {0, 1}
      /\ readIndex' \in 0..(RbSize - 1) /\ nextRead' \in -1..(RbSize - 1)
      /\ readMirror' = IF Crosses(readIndex, k) THEN 1 - readMirror ELSE readMirror
  <2>1. CASE Crosses(readIndex, k)
    <3>1. nextRead' = r /\ readMirror' = 1 - readMirror /\ readIndex' = readIndex
      BY <1>1, <2>1
    <3>2. ~ Quiet'
      BY <1>2, <1>6, <3>1 DEF Quiet
    <3> HIDE DEF r
    <3> QED
      BY <1>2, <1>6, <2>1, <3>1, <3>2 DEF Reading
  <2>2. CASE ~ Crosses(readIndex, k)
    <3>1. readIndex' = r /\ readMirror' = readMirror /\ nextRead' = nextRead
      BY <1>1, <2>2
    <3>2. Quiet'
      BY <1>2, <3>1 DEF Quiet
    <3> HIDE DEF r
    <3> QED
      BY <1>2, <1>6, <2>2, <3>1, <3>2 DEF Reading
  <2> QED
    BY <2>1, <2>2
<1>8. ASSUME NEW q \in 0..(RbSize - 1), q = r
      PROVE  Mirrored(q)' /\ DataLen(q)' = l - k
  <2>1. /\ DataLen(q)' = IF q = writeIndex THEN (IF readMirror' = writeMirror THEN 0 ELSE RbSize)
                         ELSE IF writeIndex > q THEN writeIndex - q
                         ELSE RbSize - (q - writeIndex)
        /\ Mirrored(q)' <=> q + DataLen(q)'
                              = writeIndex + (IF readMirror' = writeMirror THEN 0 ELSE RbSize)
    BY <1>1 DEF DataLen, Mirrored
  <2>2. CASE RbSize - readIndex <= k
    <3>1. q = k - (RbSize - readIndex) /\ readMirror' = 1 - readMirror
      BY <1>7, <1>8, <2>2 DEF Crosses
    <3>2. readMirror # writeMirror /\ readMirror' = writeMirror
      BY <1>2, <1>3, <1>4, <2>2, <3>1
    <3> QED
      BY <1>2, <1>3, <1>4, <2>1, <3>1, <3>2
  <2>3. CASE ~ (RbSize - readIndex <= k)
    <3>1. q = readIndex + k /\ readMirror' = readMirror
      BY <1>7, <1>8, <2>3 DEF Crosses
    <3> QED
      BY <1>2, <1>3, <1>4, <2>1, <2>3, <3>1
  <2> QED
    BY <2>2, <2>3
<1>9. RbInv'
  <2>1. Mirrored(Reading)'
    <3>1. ASSUME NEW q \in 0..(RbSize - 1), q = r
          PROVE  Mirrored(Reading)' <=> Mirrored(q)'
      BY <1>7, <3>1 DEF Mirrored, DataLen
    <3> HIDE DEF r
    <3> QED
      BY <1>6, <1>8, <3>1
  <2>2. ~ Quiet' => readMirror' = writeMirror' /\ writeIndex' <= readIndex'
    <3>1. ASSUME ~ Quiet'
          PROVE  /\ RbSize - readIndex <= k /\ readMirror' = 1 - readMirror
                 /\ readIndex' = readIndex
      BY <1>1, <1>2, <3>1 DEF Quiet, Crosses
    <3> QED
      BY <1>1, <1>2, <1>3, <1>4, <3>1
  <2> HIDE DEF r
  <2> QED
    BY <1>1, <1>2, <1>7, <2>1, <2>2 DEF RbInv
<1>10. RbQueue' = [i \in 1..(l - k) |-> bytes[(r + i - 1) % RbSize]]
  <2>1. ASSUME NEW q \in 0..(RbSize - 1), q = r
        PROVE  RbQueue' = [i \in 1..(l - k) |-> bytes[(q + i - 1) % RbSize]]
    <3>1. RbQueue' = BytesFrom(q, DataLen(q))'
      BY <1>7, <2>1 DEF RbQueue, Reading, BytesFrom, DataLen
    <3>2. DataLen(q)' = l - k
      BY <1>8, <2>1
    <3> QED
      BY <1>1, <3>1, <3>2 DEF BytesFrom
  <2> HIDE DEF r
  <2> QED
    BY <1>6, <2>1
<1>11. /\ RbQueue \in Seq(Byte)
       /\ \A i \in 1..l : RbQueue[i] = bytes[(readIndex + i - 1) % RbSize]
  BY <1>2, QueueIs
<1>12. RbQueue' = SubSeq(RbQueue, k + 1, Len(RbQueue))
  <2> DEFINE t == SubSeq(RbQueue, k + 1, l)
  <2>1. /\ t \in Seq(Byte) /\ Len(t) = l - k
        /\ \A i \in 1..(l - k) : t[i] = RbQueue[k + i]
    <3>1. k + 1 \in Int /\ l \in Int /\ \A i \in (k + 1)..l : RbQueue[i] \in Byte
      BY <1>2, <1>4, <1>11
    <3>2. /\ t \in Seq(Byte) /\ Len(t) = IF k + 1 <= l THEN l - (k + 1) + 1 ELSE 0
          /\ \A i \in 1..(l - (k + 1) + 1) : t[i] = RbQueue[(k + 1) + i - 1]
      BY <3>1, SubSeqProperties
    <3>3. l - (k + 1) + 1 = l - k /\ \A i \in Int : (k + 1) + i - 1 = k + i
      BY <1>2, <1>4
    <3> HIDE DEF t
    <3>4. Len(t) = l - k
      BY <1>2, <1>4, <3>2
    <3>5. ASSUME NEW i \in 1..(l - k) PROVE t[i] = RbQueue[k + i]
      <4>1. t[i] = RbQueue[(k + 1) + i - 1] /\ i \in Int
        BY <3>2, <3>3
      <4> QED
        BY <3>3, <4>1
    <3> QED
      BY <3>2, <3>4, <3>5
  <2>2. ASSUME NEW i \in 1..(l - k)
        PROVE  bytes[(r + i - 1) % RbSize] = RbQueue[k + i]
    <3> DEFINE a == readIndex + k
               b == i - 1
    <3>1. a \in Int /\ b \in Int /\ RbSize \in Nat \ {0} /\ k + i \in 1..l
      BY <1>2, <1>4
    <3>2. (a + b = readIndex + (k + i) - 1) /\ r + i - 1 = r + b
      BY <1>2, <1>4, <1>6
    <3> HIDE DEF a, b, r
    <3>3. ((a % RbSize) + b) % RbSize = (a + b) % RbSize
      BY <3>1, RemainderSum, Zenon
    <3>4. (r + i - 1) % RbSize = (readIndex + (k + i) - 1) % RbSize
      BY <1>6, <3>2, <3>3 DEF a
    <3> QED
      BY <1>11, <3>1, <3>4
  <2> HIDE DEF t, r
  <2>3. t = [i \in 1..(l - k) |-> t[i]]
    BY <2>1
  <2>4. t = [i \in 1..(l - k) |-> bytes[(r + i - 1) % RbSize]]
    BY <2>1, <2>2, <2>3
  <2> QED
    BY <1>2, <1>10, <2>4 DEF t
<1>13. BytesFrom(readIndex, k) = SubSeq(RbQueue, 1, k)
  <2> DEFINE t == SubSeq(RbQueue, 1, k)
             u == BytesFrom(readIndex, k)
  <2>1. /\ t \in Seq(Byte) /\ Len(t) = k
        /\ \A i \in 1..k : t[i] = RbQueue[i]
    <3>1. 1 \in Int /\ k \in Int /\ \A i \in 1..k : RbQueue[i] \in Byte
      BY <1>2, <1>4, <1>11
    <3>2. /\ t \in Seq(Byte) /\ Len(t) = IF 1 <= k THEN k - 1 + 1 ELSE 0
          /\ \A i \in 1..(k - 1 + 1) : t[i] = RbQueue[1 + i - 1]
      BY <3>1, SubSeqProperties
    <3> HIDE DEF t
    <3>3. Len(t) = k /\ k - 1 + 1 = k /\ \A i \in Int : 1 + i - 1 = i
      BY <1>4, <3>2
    <3> QED
      BY <3>2, <3>3
  <2>2. /\ u \in Seq(Byte) /\ Len(u) = k
        /\ \A i \in 1..k : u[i] = bytes[(readIndex + i - 1) % RbSize]
    <3>1. k \in 0..RbSize
      BY <1>2, <1>4
    <3> QED
      BY <1>2, <3>1, QueueIs
  <2>3. \A i \in 1..Len(u) : u[i] = t[i]
    BY <1>2, <1>4, <1>11, <2>1, <2>2
  <2> HIDE DEF t, u
  <2>4. u = t
    BY <2>1, <2>2, <2>3, SeqEqual
  <2> QED
    BY <2>4 DEF t, u
<1>14. RbAbstract!Get(n)
  BY <1>1, <1>5, <1>12, <1>13 DEF RbAbstract!Get, RbAbstract!Returned, RbReturns
<1> QED
  BY <1>9, <1>14

\* The second store of a get.
LEMMA GetEndIs ==
    ASSUME RbInv, RbGetEnd
    PROVE  RbInv' /\ RbQueue' = RbQueue /\ rbResult' = rbResult
<1>1. /\ ~ Quiet /\ readIndex' = nextRead /\ nextRead' = -1 /\ burst' = 0
      /\ UNCHANGED <<bytes, readMirror, writeMirror, writeIndex, rbResult>>
  BY DEF RbGetEnd
<1>2. nextRead \in 0..(RbSize - 1) /\ RbSize \in Nat \ {0}
  BY <1>1, RingBufferAssumption DEF RbInv, Quiet
<1>3. Quiet' /\ Reading' = nextRead /\ Reading = nextRead
  BY <1>1, <1>2 DEF Quiet, Reading
<1>4. Mirrored(Reading)' <=> Mirrored(Reading)
  BY <1>1, <1>3 DEF Mirrored, DataLen
<1>5. RbQueue' = RbQueue
  BY <1>1, <1>3 DEF RbQueue, BytesFrom, DataLen, Reading
<1> QED
  BY <1>1, <1>2, <1>3, <1>4, <1>5 DEF RbInv

\* rt_ringbuffer_reset empties the queue.
LEMMA ResetIs ==
    ASSUME RbInv, RbReset
    PROVE  RbInv' /\ RbAbstract!Reset
<1>1. RbSize \in Nat \ {0} /\ nextRead = -1
  BY RingBufferAssumption DEF RbReset, Quiet
<1>2. Quiet' /\ Reading' = 0 /\ DataLen(0)' = 0 /\ Mirrored(0)'
  BY <1>1 DEF RbReset, Quiet, Reading, DataLen, Mirrored
<1>3. Mirrored(Reading)' /\ RbQueue' = <<>>
  BY <1>1, <1>2 DEF RbReset, Mirrored, DataLen, RbQueue, BytesFrom, Reading, Quiet
<1>4. RbInv'
  BY <1>1, <1>2, <1>3 DEF RbInv, RbReset
<1> QED
  BY <1>3, <1>4 DEF RbAbstract!Reset, RbReset

\* The last m elements of a sequence.
LEMMA LastOfIs ==
    ASSUME NEW S, NEW s \in Seq(S), NEW m \in Nat, NEW k \in Nat,
           \/ Len(s) <= m /\ k = Len(s)
           \/ m <= Len(s) /\ k = m
    PROVE  /\ RbAbstract!LastOf(s, m) \in Seq(S) /\ Len(RbAbstract!LastOf(s, m)) = k
           /\ \A i \in 1..k : RbAbstract!LastOf(s, m)[i] = s[(Len(s) - k) + i]
           /\ Len(s) <= m => RbAbstract!LastOf(s, m) = s
<1> DEFINE h == Len(s)
           a == h + 1 - k
           t == SubSeq(s, a, h)
<1>1. h \in Nat /\ k <= h /\ a \in Int /\ h \in Int
  OBVIOUS
<1>2. RbAbstract!LastOf(s, m) = t
  <2>1. RbAbstract!Smaller(m, h) = k
    BY DEF RbAbstract!Smaller
  <2> QED
    BY <2>1 DEF RbAbstract!LastOf
<1>3. /\ t \in Seq(S) /\ Len(t) = IF a <= h THEN h - a + 1 ELSE 0
      /\ \A i \in 1..(h - a + 1) : t[i] = s[a + i - 1]
  <2>1. \A i \in a..h : s[i] \in S
    BY <1>1
  <2> HIDE DEF a, h
  <2> QED
    BY <1>1, <2>1, SubSeqProperties
<1> HIDE DEF t
<1>4. Len(t) = k /\ h - a + 1 = k
  BY <1>1, <1>3
<1>5. ASSUME NEW i \in 1..k PROVE t[i] = s[(h - k) + i]
  <2>1. i \in 1..(h - a + 1) /\ a + i - 1 = (h - k) + i
    BY <1>1, <1>4
  <2> QED
    BY <1>3, <2>1
<1>6. ASSUME Len(s) <= m PROVE t = s
  <2>1. k = Len(s) /\ Len(t) = Len(s)
    BY <1>4, <1>6
  <2>2. ASSUME NEW i \in 1..Len(t) PROVE t[i] = s[i]
    <3>1. i \in 1..k /\ (h - k) + i = i
      BY <1>1, <1>4, <2>1
    <3> QED
      BY <1>5, <3>1
  <2> QED
    BY <1>3, <2>1, <2>2, SeqEqual
<1> QED
  BY <1>2, <1>3, <1>4, <1>5, <1>6

\* The length and the elements of a concatenation.
LEMMA ConcatIs ==
    ASSUME NEW S, NEW q \in Seq(S), NEW d \in Seq(S)
    PROVE  /\ q \o d \in Seq(S) /\ Len(q \o d) = Len(q) + Len(d)
           /\ \A i \in 1..Len(q) : (q \o d)[i] = q[i]
           /\ \A i \in 1..Len(d) : (q \o d)[Len(q) + i] = d[i]
<1> DEFINE b == q \o d
<1>1. /\ b \in Seq(S) /\ Len(b) = Len(q) + Len(d)
      /\ \A i \in 1..(Len(q) + Len(d)) : b[i] = IF i <= Len(q) THEN q[i] ELSE d[i - Len(q)]
  BY ConcatProperties
<1> HIDE DEF b
<1>2. ASSUME NEW i \in 1..Len(q) PROVE b[i] = q[i]
  <2>1. i \in 1..(Len(q) + Len(d)) /\ i <= Len(q)
    OBVIOUS
  <2> QED
    BY <1>1, <2>1
<1>3. ASSUME NEW i \in 1..Len(d) PROVE b[Len(q) + i] = d[i]
  <2>1. Len(q) + i \in 1..(Len(q) + Len(d)) /\ ~ (Len(q) + i <= Len(q))
        /\ (Len(q) + i) - Len(q) = i
    OBVIOUS
  <2> QED
    BY <1>1, <2>1
<1> QED
  BY <1>1, <1>2, <1>3 DEF b

\* Of a block, only as much counts as the queue can hold.
LEMMA LastOfConcat ==
    ASSUME NEW S, NEW q \in Seq(S), NEW d \in Seq(S), NEW m \in Nat, Len(q) <= m
    PROVE  RbAbstract!LastOf(q \o d, m) = RbAbstract!LastOf(q \o RbAbstract!LastOf(d, m), m)
<1> DEFINE c == RbAbstract!LastOf(d, m)
<1>1. CASE Len(d) <= m
  <2>1. Len(d) \in Nat
    OBVIOUS
  <2>2. c = d
    BY <1>1, <2>1, LastOfIs
  <2> QED
    BY <2>2
<1>2. CASE ~ (Len(d) <= m)
  <2> DEFINE s == RbAbstract!LastOf(q \o d, m)
             t == RbAbstract!LastOf(q \o c, m)
  <2>1. Len(q) \in Nat /\ Len(d) \in Nat /\ m <= Len(d)
    BY <1>2
  <2>2. c \in Seq(S) /\ Len(c) = m /\ \A i \in 1..m : c[i] = d[(Len(d) - m) + i]
    BY <2>1, LastOfIs
  <2> HIDE DEF c
  <2>3. /\ q \o d \in Seq(S) /\ Len(q \o d) = Len(q) + Len(d)
        /\ \A i \in 1..Len(d) : (q \o d)[Len(q) + i] = d[i]
        /\ q \o c \in Seq(S) /\ Len(q \o c) = Len(q) + m
        /\ \A i \in 1..m : (q \o c)[Len(q) + i] = c[i]
    <3>1. /\ q \o d \in Seq(S) /\ Len(q \o d) = Len(q) + Len(d)
          /\ \A i \in 1..Len(d) : (q \o d)[Len(q) + i] = d[i]
      BY ConcatIs
    <3>2. /\ q \o c \in Seq(S) /\ Len(q \o c) = Len(q) + Len(c)
          /\ \A i \in 1..Len(c) : (q \o c)[Len(q) + i] = c[i]
      <4>1. c \in Seq(S)
        BY <2>2
      <4> QED
        BY <4>1, ConcatIs
    <3> QED
      BY <2>2, <3>1, <3>2
  <2>4. m <= Len(q \o d) /\ m <= Len(q \o c)
    BY <2>1, <2>3
  <2>5. /\ s \in Seq(S) /\ Len(s) = m
        /\ \A i \in 1..m : s[i] = (q \o d)[(Len(q \o d) - m) + i]
    <3> DEFINE u == q \o d
    <3>1. u \in Seq(S) /\ m <= Len(u)
      BY <2>3, <2>4
    <3> HIDE DEF u
    <3> QED
      BY ONLY <3>1, m \in Nat, LastOfIs DEF s, u
  <2>6. /\ t \in Seq(S) /\ Len(t) = m
        /\ \A i \in 1..m : t[i] = (q \o c)[(Len(q \o c) - m) + i]
    <3> DEFINE u == q \o c
    <3>1. u \in Seq(S) /\ m <= Len(u)
      BY <2>3, <2>4
    <3> HIDE DEF u
    <3> QED
      BY ONLY <3>1, m \in Nat, LastOfIs DEF t, u
  <2> HIDE DEF s, t
  <2>7. ASSUME NEW i \in 1..Len(s) PROVE s[i] = t[i]
    <3>1. i \in 1..m
      BY <2>5
    <3>2. (Len(q \o d) - m) + i = Len(q) + ((Len(d) - m) + i)
          /\ (Len(d) - m) + i \in 1..Len(d)
          /\ (Len(q \o c) - m) + i = Len(q) + i
      BY <2>1, <2>3, <3>1
    <3>3. s[i] = d[(Len(d) - m) + i]
      BY <2>3, <2>5, <3>1, <3>2
    <3>4. t[i] = c[i]
      BY <2>3, <2>6, <3>1, <3>2
    <3> QED
      BY <2>2, <3>1, <3>3, <3>4
  <2>8. s = t
    BY <2>5, <2>6, <2>7, SeqEqual
  <2> QED
    BY <2>8 DEF s, t, c
<1> QED
  BY <1>1, <1>2

\* A forced put that drops bytes leaves a full buffer: the reader is put where the
\* writer stops, in the other mirror.
LEMMA Overwritten ==
    ASSUME RbInv, Quiet, Overrun = FALSE, NEW c \in Seq(Byte), NEW n \in 1..RbSize, Len(c) = n,
           n > SpaceLen, Crosses(writeIndex, n) /\ readMirror = writeMirror => Overrun,
           Copy(c), AdvanceWrite(n), readIndex' = writeIndex',
           readMirror' = (IF Crosses(writeIndex, n) THEN 1 - readMirror ELSE readMirror),
           nextRead' = nextRead
    PROVE  /\ bytes' \in [0..(RbSize - 1) -> Byte]
           /\ writeIndex' \in 0..(RbSize - 1) /\ writeMirror' \in {0, 1}
           /\ readIndex' \in 0..(RbSize - 1) /\ readMirror' \in {0, 1}
           /\ Quiet' /\ Mirrored(Reading)'
           /\ RbQueue' = RbAbstract!LastOf(RbQueue \o c, RbSize)
<1> DEFINE l == DataLen(Reading)
           r == Reading
           w == writeIndex
           v == writeIndex'
           m == RbSize
<1>1. /\ m \in Nat \ {0} /\ r \in 0..(m - 1) /\ r = readIndex /\ Mirrored(r)
      /\ l \in 0..m /\ w \in 0..(m - 1)
      /\ readMirror \in {0, 1} /\ writeMirror \in {0, 1}
      /\ RbQueue = BytesFrom(r, l) /\ RbQueue \in Seq(Byte) /\ Len(RbQueue) = l
      /\ SpaceLen = m - l /\ n > m - l
  BY RbQueueIs DEF RbInv, Reading
<1>2. /\ readMirror = writeMirror => l = w - r
      /\ readMirror # writeMirror => l = w - r + m
  BY <1>1, Lengths
<1> HIDE DEF l, r
<1>3. readMirror # writeMirror
  BY <1>1, <1>2 DEF Crosses
<1>4. /\ v \in 0..(m - 1) /\ (v = w + n \/ v = (w + n) - m)
      /\ writeMirror' \in {0, 1} /\ readMirror' \in {0, 1} /\ readMirror' # writeMirror'
  <2>1. CASE m - w <= n
    BY <1>1, <1>3, <2>1 DEF AdvanceWrite, Crosses
  <2>2. CASE ~ (m - w <= n)
    BY <1>1, <1>3, <2>2 DEF AdvanceWrite, Crosses
  <2> QED
    BY <2>1, <2>2
<1>5. bytes' \in [0..(m - 1) -> Byte]
  <2>1. 0 \in 0..(m - 1)
    BY <1>1
  <2> QED
    BY <2>1, CopyAt
<1>6. Quiet' /\ Reading' = v
  BY DEF Quiet, Reading
<1>7. DataLen(readIndex)' = m /\ Mirrored(Reading)'
  <2>1. DataLen(readIndex)' = m /\ Mirrored(readIndex)'
    BY <1>1, <1>4 DEF DataLen, Mirrored
  <2>2. (Mirrored(Reading) <=> Mirrored(readIndex))'
    BY <1>6 DEF Mirrored, DataLen
  <2> QED
    BY <2>1, <2>2
<1>8. RbQueue' = [i \in 1..m |-> bytes'[(v + i - 1) % m]]
  BY <1>6, <1>7 DEF RbQueue, BytesFrom, Reading
<1> DEFINE b == RbQueue \o c
           e == l + n - m
<1>9. /\ b \in Seq(Byte) /\ Len(b) = l + n
      /\ \A i \in 1..l : b[i] = RbQueue[i]
      /\ \A i \in 1..n : b[l + i] = c[i]
  <2>1. /\ b \in Seq(Byte) /\ Len(b) = Len(RbQueue) + Len(c)
        /\ \A i \in 1..Len(RbQueue) : b[i] = RbQueue[i]
        /\ \A i \in 1..Len(c) : b[Len(RbQueue) + i] = c[i]
    <3> DEFINE q == RbQueue
    <3>1. q \in Seq(Byte)
      BY <1>1
    <3> HIDE DEF q
    <3>2. /\ q \o c \in Seq(Byte) /\ Len(q \o c) = Len(q) + Len(c)
          /\ \A i \in 1..Len(q) : (q \o c)[i] = q[i]
          /\ \A i \in 1..Len(c) : (q \o c)[Len(q) + i] = c[i]
      BY ONLY <3>1, c \in Seq(Byte), ConcatIs
    <3> QED
      BY <3>2 DEF q
  <2> HIDE DEF b
  <2> QED
    BY <1>1, <2>1
<1>10. \A i \in 1..l : RbQueue[i] = bytes[(r + i - 1) % m]
  BY <1>1, QueueIs
<1> HIDE DEF b, v, w
<1>11. v = (w + n) % m
  <2>1. w + n \in Int /\ m \in Nat \ {0}
    BY <1>1
  <2> HIDE DEF m
  <2>2. /\ w + n \in 0..(m - 1) => (w + n) % m = w + n
        /\ (w + n) - m \in 0..(m - 1) => (w + n) % m = (w + n) - m
    BY <2>1, RemainderNear, Zenon
  <2> QED
    BY <1>4, <2>2
<1>12. ASSUME NEW i \in 1..m
       PROVE  bytes'[(v + i - 1) % m] = b[e + i]
  <2>1. (v + i - 1) % m = (w + n + (i - 1)) % m
    <3>1. w + n \in Int /\ i - 1 \in Int /\ m \in Nat \ {0} /\ v \in Int
      BY <1>1, <1>4
    <3>2. v + i - 1 = v + (i - 1)
      BY <3>1
    <3> HIDE DEF m
    <3>3. (((w + n) % m) + (i - 1)) % m = ((w + n) + (i - 1)) % m
      BY <3>1, RemainderSum, Zenon
    <3> QED
      BY <1>11, <3>2, <3>3
  <2>2. CASE i <= m - n
    <3> DEFINE j == e + i
               k == n + i - 1
    <3>1. j \in 1..l /\ k \in 0..(m - 1) /\ ~ (k < n)
      BY <1>1, <2>2
    <3>2. /\ j - 1 - l + m = k /\ w + n + (i - 1) = w + k
      BY <1>1
    <3> HIDE DEF j, k
    <3>3. (w + k) % m = (r + j - 1) % m
      <4>1. j \in Int /\ r = Reading
        BY <3>1 DEF r
      <4>2. (writeIndex + (j - 1 - DataLen(r) + RbSize)) % RbSize = (r + j - 1) % RbSize
        BY <1>1, <4>1, PlaceFromWriter
      <4> QED
        BY <3>2, <4>1, <4>2 DEF l, w
    <3>4. bytes'[(w + k) % m] = bytes[(w + k) % m]
      BY <3>1, CopyAt DEF w
    <3>5. b[j] = bytes[(r + j - 1) % m]
      BY <1>9, <1>10, <3>1
    <3>6. bytes'[(v + i - 1) % m] = b[j]
      BY <2>1, <3>2, <3>3, <3>4, <3>5
    <3> QED
      BY <3>6 DEF j
  <2>3. CASE ~ (i <= m - n)
    <3> DEFINE k == i - 1 - (m - n)
    <3>1. k \in 0..(m - 1) /\ k < n /\ k + 1 \in 1..n /\ e + i = l + (k + 1)
          /\ w + n + (i - 1) = (w + k) + m /\ w + k \in Int
      BY <1>1, <2>3
    <3> HIDE DEF k
    <3>2. ((w + k) + m) % m = (w + k) % m
      <4>1. m \in Nat \ {0}
        BY <1>1
      <4> HIDE DEF m
      <4> QED
        BY <3>1, <4>1, RemainderTurn, Zenon
    <3>3. bytes'[(w + k) % m] = c[k + 1]
      BY <3>1, CopyAt DEF w
    <3>4. b[l + (k + 1)] = c[k + 1]
      BY <1>9, <3>1
    <3> QED
      BY <2>1, <3>1, <3>2, <3>3, <3>4
  <2> QED
    BY <2>2, <2>3
<1>13. RbQueue' = RbAbstract!LastOf(b, m)
  <2> DEFINE s == RbAbstract!LastOf(b, m)
  <2>1. m \in Nat /\ m <= Len(b)
    BY <1>1, <1>9
  <2>2. /\ s \in Seq(Byte) /\ Len(s) = m
        /\ \A i \in 1..m : s[i] = b[(Len(b) - m) + i]
    BY <1>9, <2>1, LastOfIs
  <2> HIDE DEF s
  <2>3. ASSUME NEW i \in 1..m PROVE bytes'[(v + i - 1) % m] = s[i]
    <3>1. (Len(b) - m) + i = e + i
      BY <1>1, <1>9
    <3> QED
      BY <1>12, <2>2, <3>1
  <2> HIDE DEF m
  <2>4. s = [i \in 1..m |-> s[i]]
    BY <2>1, <2>2
  <2> QED
    BY <1>8, <2>3, <2>4 DEF s
<1> QED
  BY <1>4, <1>5, <1>6, <1>7, <1>13 DEF b, v

\* A forced put.
LEMMA PutForceIs ==
    ASSUME RbInv, NEW d \in Chunk, RbPutForce(d), Overrun = FALSE
    PROVE  RbInv' /\ RbAbstract!PutForce(d)
<1> DEFINE n == IF Len(d) > RbSize THEN RbSize ELSE Len(d)
           c == SubSeq(d, Len(d) - n + 1, Len(d))
           drops == n > SpaceLen
           l == DataLen(Reading)
<1>1. /\ Quiet
      /\ drops /\ Crosses(writeIndex, n) /\ readMirror = writeMirror => Overrun
      /\ Copy(c) /\ AdvanceWrite(n)
      /\ readIndex' = IF drops THEN writeIndex' ELSE readIndex
      /\ readMirror' = IF drops /\ Crosses(writeIndex, n) THEN 1 - readMirror ELSE readMirror
      /\ RbReturns(n, <<>>)
      /\ UNCHANGED <<nextRead, burst>>
  BY DEF RbPutForce
<1>2. /\ RbSize \in Nat \ {0} /\ Reading \in 0..(RbSize - 1) /\ l \in 0..RbSize
      /\ Mirrored(Reading) /\ RbQueue = BytesFrom(Reading, l)
      /\ RbQueue \in Seq(Byte) /\ Len(RbQueue) = l
      /\ SpaceLen = RbSize - l /\ d \in Seq(Byte) /\ Len(d) \in Nat \ {0}
  BY <1>1, RbQueueIs, ChunkIs DEF RbInv
<1>3. n \in 1..RbSize /\ n = RbAbstract!Smaller(Len(d), RbSize)
      /\ n = RbAbstract!Smaller(RbSize, Len(d))
  BY <1>2 DEF RbAbstract!Smaller
<1>4. c = RbAbstract!LastOf(d, RbSize)
  <2>1. Len(d) - n + 1 = Len(d) + 1 - n
    BY <1>2, <1>3
  <2> HIDE DEF n
  <2> QED
    BY <1>3, <2>1 DEF RbAbstract!LastOf
<1>5. c \in Seq(Byte) /\ Len(c) = n
  <2>1. /\ n \in Nat /\ RbSize \in Nat
        /\ (Len(d) <= RbSize /\ n = Len(d)) \/ (RbSize <= Len(d) /\ n = RbSize)
    BY <1>2
  <2> HIDE DEF n, c
  <2> QED
    BY <1>2, <1>4, <2>1, LastOfIs
<1>6. RbAbstract!LastOf(RbQueue \o d, RbSize) = RbAbstract!LastOf(RbQueue \o c, RbSize)
  <2>1. Len(RbQueue) <= RbSize /\ RbSize \in Nat
    BY <1>2
  <2> HIDE DEF c
  <2> QED
    BY <1>2, <1>4, <2>1, LastOfConcat
<1> HIDE DEF n, c, l
<1>7. CASE ~ drops
  <2>1. /\ readIndex' = readIndex /\ readMirror' = readMirror /\ n + l <= RbSize
    BY <1>1, <1>2, <1>3, <1>7
  <2>2. /\ bytes' \in [0..(RbSize - 1) -> Byte]
        /\ writeIndex' \in 0..(RbSize - 1) /\ writeMirror' \in {0, 1}
        /\ Quiet' /\ Mirrored(Reading)'
        /\ RbQueue' = RbQueue \o c
    <3>1. Reading = readIndex /\ Reading' = readIndex /\ Quiet'
      BY <1>1, <2>1 DEF Reading, Quiet
    <3>2. ASSUME NEW r \in 0..(RbSize - 1), r = Reading
          PROVE  /\ bytes' \in [0..(RbSize - 1) -> Byte]
                 /\ writeIndex' \in 0..(RbSize - 1) /\ writeMirror' \in {0, 1}
                 /\ Mirrored(r)'
                 /\ BytesFrom(r, DataLen(r))' = BytesFrom(r, DataLen(r)) \o c
      <4>1. Mirrored(r) /\ Len(c) + DataLen(r) <= RbSize /\ AdvanceWrite(Len(c))
        BY <1>1, <1>2, <1>5, <2>1, <3>2 DEF l
      <4> QED
        BY <1>1, <1>5, <2>1, <4>1, BlockAppended
    <3>3. ASSUME NEW r \in 0..(RbSize - 1), r = Reading
          PROVE  /\ RbQueue' = BytesFrom(r, DataLen(r))' /\ RbQueue = BytesFrom(r, DataLen(r))
                 /\ Mirrored(Reading)' <=> Mirrored(r)'
      <4>1. Reading' = r
        BY <3>1, <3>3
      <4> QED
        BY <3>3, <4>1 DEF RbQueue, Reading, BytesFrom, DataLen, Mirrored
    <3> QED
      BY <1>2, <3>1, <3>2, <3>3
  <2>3. RbInv'
    BY <1>1, <2>1, <2>2 DEF RbInv
  <2>4. RbAbstract!LastOf(RbQueue \o c, RbSize) = RbQueue \o c
    <3>1. RbQueue \o c \in Seq(Byte) /\ Len(RbQueue \o c) = l + n
      BY <1>2, <1>5, ConcatIs
    <3>2. l + n \in Nat /\ l + n <= RbSize /\ RbSize \in Nat
      BY <1>2, <1>3, <2>1
    <3> QED
      BY <3>1, <3>2, LastOfIs
  <2>5. RbAbstract!PutForce(d)
    BY <1>1, <1>3, <1>6, <2>2, <2>4 DEF RbAbstract!PutForce, RbAbstract!Returned, RbReturns
  <2> QED
    BY <2>3, <2>5
<1>8. CASE drops
  <2>1. /\ n > SpaceLen /\ readIndex' = writeIndex'
        /\ Crosses(writeIndex, n) /\ readMirror = writeMirror => Overrun
        /\ readMirror' = (IF Crosses(writeIndex, n) THEN 1 - readMirror ELSE readMirror)
    BY <1>1, <1>8
  <2>2. /\ bytes' \in [0..(RbSize - 1) -> Byte]
        /\ writeIndex' \in 0..(RbSize - 1) /\ writeMirror' \in {0, 1}
        /\ readIndex' \in 0..(RbSize - 1) /\ readMirror' \in {0, 1}
        /\ Quiet' /\ Mirrored(Reading)'
        /\ RbQueue' = RbAbstract!LastOf(RbQueue \o c, RbSize)
    BY <1>1, <1>3, <1>5, <2>1, Overwritten
  <2>3. RbInv'
    BY <1>1, <2>2 DEF RbInv
  <2>4. RbAbstract!PutForce(d)
    BY <1>1, <1>3, <1>6, <2>2 DEF RbAbstract!PutForce, RbAbstract!Returned, RbReturns
  <2> QED
    BY <2>3, <2>4
<1> QED
  BY <1>7, <1>8

\* Every step keeps the invariant, and is one of a queue.
LEMMA RbNextIs ==
    ASSUME Burst <= 1, Overrun = FALSE
    PROVE  RbInv /\ [RbNext]_rbVars
             => RbInv' /\ [RbAbstract!Next]_(RbAbstract!byteQueueVars)
<1> SUFFICES ASSUME RbInv, [RbNext]_rbVars
             PROVE  RbInv' /\ [RbAbstract!Next]_(RbAbstract!byteQueueVars)
  OBVIOUS
<1>1. ASSUME NEW d \in Chunk, RbPut(d) \/ RbPutForce(d) \/ RbPutCharIsr(d)
      PROVE  RbInv' /\ RbAbstract!Next
  BY <1>1, PutIs, PutForceIs, PutIsrIs DEF RbAbstract!Next
<1>2. ASSUME NEW n \in 1..RbSize, RbGet(n) PROVE RbInv' /\ RbAbstract!Next
  BY <1>2, GetIs DEF RbAbstract!Next
<1>3. CASE RbGetEnd
  BY <1>3, GetEndIs DEF RbAbstract!byteQueueVars
<1>4. CASE RbReset
  BY <1>4, ResetIs DEF RbAbstract!Next
<1>5. CASE UNCHANGED rbVars
  <2>1. RbInv' /\ RbQueue' = RbQueue
    BY <1>5 DEF rbVars, RbInv, RbQueue, Quiet, BytesFrom, DataLen, Mirrored, Reading
  <2> QED
    BY <1>5, <2>1 DEF rbVars, RbAbstract!byteQueueVars
<1> QED
  BY <1>1, <1>2, <1>3, <1>4, <1>5 DEF RbNext

\* A ring buffer of any size is a bounded queue of bytes (ringbuffer.c), through
\* every position of the indices and the mirror bits, whatever blocks are put and
\* got, as long as a handler puts at most one character between the two stores of
\* a get, and a forced put that runs over the end of the buffer drops nothing
\* while both sides are in the same mirror.
THEOREM RingBufferIsQueueHolds ==
    ASSUME Burst <= 1, Overrun = FALSE
    PROVE  RbSpec => RingBufferIsQueue
<1>1. RbInit => RbInv /\ RbAbstract!Init
  <2> SUFFICES ASSUME RbInit PROVE RbInv /\ RbAbstract!Init
    OBVIOUS
  <2>1. RbInv /\ Reading = 0 /\ DataLen(Reading) = 0
    BY RbInitInv
  <2>2. RbQueue = <<>>
    <3>1. RbQueue = BytesFrom(0, 0)
      BY <2>1, RbQueueIs
    <3> QED
      BY <3>1 DEF BytesFrom
  <2> QED
    BY <2>1, <2>2 DEF RbInit, RbAbstract!Init, RbAbstract!Returned
<1>2. RbInv /\ [RbNext]_rbVars => RbInv' /\ [RbAbstract!Next]_(RbAbstract!byteQueueVars)
  BY RbNextIs
<1> QED
  BY <1>1, <1>2, PTL DEF RbSpec, RingBufferIsQueue, RbAbstract!Spec

=============================================================================
