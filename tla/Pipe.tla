-------------------------------- MODULE Pipe --------------------------------
(***************************************************************************)
(* Pipes (pipe_fops_read, _write and _close) with the wait queues they     *)
(* sleep on (rt_wqueue_wait, rt_wqueue_wakeup).  A wait queue has a flag   *)
(* that stays set when a wake-up finds nobody, and the next wait consumes: *)
(* a thread that tests the fifo under the lock, releases it and waits      *)
(* misses no wake-up in between -- unless another thread on the same queue *)
(* consumes it.                                                            *)
(*                                                                         *)
(* The actions are the sections under pipe->lock and those with interrupts *)
(* disabled; the fifo is its number of bytes (RingBuffer has the rest).    *)
(***************************************************************************)
EXTENDS Lists, FiniteSets

CONSTANTS
    Reader, Writer, \* the threads that read, and those that write
    Closing,        \* the threads that close their end
    BufSz,          \* pipe->bufsz
    ReadCount,      \* the bytes a read asks for
    WriteCount      \* the bytes of a write

ASSUME PipeAssumption ==
    /\ Reader \cap Writer = {}
    /\ IsFiniteSet(Reader) /\ IsFiniteSet(Writer)
    /\ Closing \subseteq Reader \cup Writer
    /\ BufSz \in Nat \ {0}
    /\ ReadCount \in Nat \ {0}
    /\ WriteCount \in Nat \ {0}

Users == Reader \cup Writer

VARIABLES
    fifo,           \* the bytes in pipe->fifo
    opened,         \* the threads that have the pipe open: readers and writers
    lock,           \* pipe->lock: its owner, then the threads that wait for it
    flag,           \* queue->flag = RT_WQ_FLAG_WAKEUP
    sleeping,       \* queue->waiting_list, with the thread suspended
    at,             \* where each thread is
    rest            \* count - ret: the bytes a writer has left

pipeVars == <<fifo, opened, lock, flag, sleeping, at, rest>>

Queues == {"reader_queue", "writer_queue"}
Own(t) == IF t \in Reader THEN "reader_queue" ELSE "writer_queue"
Other(t) == IF t \in Reader THEN "writer_queue" ELSE "reader_queue"

\* rt_pipe_create, and pipe_fops_open by every thread.
PipeInit ==
    /\ fifo = 0
    /\ opened = Users
    /\ lock = <<>>
    /\ flag = [q \in Queues |-> FALSE]
    /\ sleeping = [q \in Queues |-> <<>>]
    /\ at = [t \in Users |-> "out"]
    /\ rest = [t \in Users |-> 0]

\* rt_mutex_take and rt_mutex_release of pipe->lock (RT_IPC_FLAG_FIFO).
Locks(t) == lock' = Append(lock, t)
Holds(t) == lock # <<>> /\ Head(lock) = t
Unlocks == lock' = Tail(lock)

GoesTo(t, l) == at' = [at EXCEPT ![t] = l]

\* Fault: a wake-up that finds nobody leaves no trace.
WakeupForgotten(q) ==
    /\ UNCHANGED flag
    /\ sleeping' = [sleeping EXCEPT ![q] = IF @ = <<>> THEN @ ELSE Tail(@)]

\* rt_wqueue_wakeup
Wakeup(q) ==
    /\ flag' = [flag EXCEPT ![q] = TRUE]
    /\ sleeping' = [sleeping EXCEPT ![q] = IF @ = <<>> THEN @ ELSE Tail(@)]

\* pipe_fops_read and pipe_fops_write up to rt_mutex_take: at once end-of-file
\* without writers, EPIPE without readers.
Begin(t) ==
    /\ at[t] = "out" /\ t \in opened
    /\ opened \cap (IF t \in Reader THEN Writer ELSE Reader) # {}
    /\ Locks(t)
    /\ GoesTo(t, "first")
    /\ rest' = [rest EXCEPT ![t] = IF t \in Writer THEN WriteCount ELSE ReadCount]
    /\ UNCHANGED <<fifo, opened, flag, sleeping>>

\* A reader's turn under the lock.
ReadTurn(t) ==
    /\ t \in Reader /\ at[t] \in {"first", "locked"} /\ Holds(t)
    /\ \/ /\ opened \cap Writer = {}            \* end-of-file
          /\ GoesTo(t, "out")
          /\ UNCHANGED <<fifo, flag, sleeping>>
       \/ /\ opened \cap Writer # {} /\ fifo > 0
          /\ fifo' = IF fifo < rest[t] THEN 0 ELSE fifo - rest[t]
          /\ Wakeup("writer_queue")
          /\ GoesTo(t, "out")
       \/ /\ opened \cap Writer # {} /\ fifo = 0
          /\ GoesTo(t, "wakeup")
          /\ UNCHANGED <<fifo, flag, sleeping>>
    /\ Unlocks
    /\ UNCHANGED <<opened, rest>>

\* A writer's turn under the lock.  It ends with a wake-up (wakeup = 1) unless the
\* readers are gone on the first turn.
WriteTurn(t) ==
    LET n == IF BufSz - fifo < rest[t] THEN BufSz - fifo ELSE rest[t]
    IN  /\ t \in Writer /\ at[t] \in {"first", "locked"} /\ Holds(t)
        /\ IF opened \cap Reader = {}
             THEN /\ GoesTo(t, IF at[t] = "first" THEN "out" ELSE "last")
                  /\ UNCHANGED <<fifo, rest>>
             ELSE /\ fifo' = fifo + n
                  /\ rest' = [rest EXCEPT ![t] = @ - n]
                  /\ GoesTo(t, IF n = rest[t] THEN "last" ELSE "wakeup")
        /\ Unlocks
        /\ UNCHANGED <<opened, flag, sleeping>>

\* Nothing to read, or no room: the other side is woken before the wait ...
WakeOther(t) ==
    /\ at[t] = "wakeup"
    /\ Wakeup(Other(t))
    /\ GoesTo(t, "wait")
    /\ UNCHANGED <<fifo, opened, lock, rest>>

\* ... and by a writer at its end.
WriteEnd(t) ==
    /\ at[t] = "last"
    /\ Wakeup("reader_queue")
    /\ GoesTo(t, "out")
    /\ rest' = [rest EXCEPT ![t] = 0]
    /\ UNCHANGED <<fifo, opened, lock>>

\* rt_wqueue_wait up to rt_schedule: a wake-up that came before is consumed.
Wait(t) ==
    /\ at[t] = "wait"
    /\ IF flag[Own(t)]
         THEN /\ flag' = [flag EXCEPT ![Own(t)] = FALSE]
              /\ GoesTo(t, "relock")
              /\ UNCHANGED sleeping
         ELSE /\ sleeping' = [sleeping EXCEPT ![Own(t)] = Append(@, t)]
              /\ GoesTo(t, "asleep")
              /\ UNCHANGED flag
    /\ UNCHANGED <<fifo, opened, lock, rest>>

\* rt_wqueue_wait after rt_schedule.
WaitEnd(t) ==
    /\ at[t] = "asleep" /\ t \notin Elements(sleeping[Own(t)])
    /\ flag' = [flag EXCEPT ![Own(t)] = FALSE]
    /\ GoesTo(t, "relock")
    /\ UNCHANGED <<fifo, opened, lock, sleeping, rest>>

\* The loop takes the lock again.
Relock(t) ==
    /\ at[t] = "relock"
    /\ Locks(t)
    /\ GoesTo(t, "locked")
    /\ UNCHANGED <<fifo, opened, flag, sleeping, rest>>

\* Fault: the last writer leaves without a word.
CloseSilently(t) ==
    /\ at[t] = "closing" /\ Holds(t)
    /\ opened' = opened \ {t}
    /\ Unlocks
    /\ GoesTo(t, "closed")
    /\ UNCHANGED <<fifo, flag, sleeping, rest>>

\* pipe_fops_close: the last of a side wakes the other one.
CloseBegin(t) ==
    /\ t \in Closing /\ at[t] = "out" /\ t \in opened
    /\ Locks(t)
    /\ GoesTo(t, "closing")
    /\ UNCHANGED <<fifo, opened, flag, sleeping, rest>>
Close(t) ==
    /\ at[t] = "closing" /\ Holds(t)
    /\ opened' = opened \ {t}
    /\ LET q == {s \in Queues : \/ s = "reader_queue" /\ opened' \cap Writer = {}
                                \/ s = "writer_queue" /\ opened' \cap Reader = {}}
       IN  /\ flag' = [s \in Queues |-> flag[s] \/ s \in q]
           /\ sleeping' = [s \in Queues |-> IF s \in q /\ sleeping[s] # <<>>
                                              THEN Tail(sleeping[s]) ELSE sleeping[s]]
    /\ Unlocks
    /\ GoesTo(t, "closed")
    /\ UNCHANGED <<fifo, rest>>

\* What a thread does inside a call, until it returns.
GoOn(t) ==
    \/ ReadTurn(t) \/ WriteTurn(t) \/ WakeOther(t) \/ WriteEnd(t)
    \/ Wait(t) \/ WaitEnd(t) \/ Relock(t) \/ Close(t)

PipeNext == \E t \in Users : Begin(t) \/ CloseBegin(t) \/ GoOn(t)

\* A thread inside a call goes on whenever it can: threads of any priority, for
\* none of them runs for ever without a wait.  The readers keep reading.
PipeFairness ==
    /\ \A t \in Users : WF_pipeVars(GoOn(t))
    /\ \A t \in Reader : WF_pipeVars(Begin(t))

PipeSpec == PipeInit /\ [][PipeNext]_pipeVars /\ PipeFairness

-----------------------------------------------------------------------------
(* Properties *)

\* No wake-up is lost: while a reader sleeps next to bytes, or after the last
\* writer has gone, somebody is on the way to wake it.
NoSleepingReader ==
    sleeping["reader_queue"] # <<>> =>
      /\ fifo > 0 => \E t \in Writer : at[t] \in {"wakeup", "last"}
      /\ opened \cap Writer # {}

\* A write ends, however many waits it takes and whoever else wrote in between,
\* as long as somebody reads -- the last reader that closes wakes one writer only
\* -- and the other writers do not write for ever: they may always get the room
\* first.
Writing(t) == at[t] \notin {"out", "closed"}
WritesEnd ==
    \A t \in Writer :
      /\ [](opened \cap Reader # {})
      /\ <>[](\A u \in Writer \ {t} : ~ Writing(u))
      => (Writing(t) ~> ~ Writing(t))
=============================================================================
