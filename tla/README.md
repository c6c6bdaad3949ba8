# RT-Thread on the W600: a TLA+ model of the kernel's concurrency

The repository runs the RT-Thread operating system on the W600, a single
Cortex-M3, and four demos on top of it.  The logic that belongs to the program
itself, and that tests reach least, is in `src/rt-thread/src`: the scheduler, the
life of threads, the kernel objects threads wait on, and the timers; and in the
part of `src/rt-thread/components/drivers/src` that drivers use to talk to threads:
completions, data queues, ring buffers, pipes, work queues.  All of it
is concurrent code: threads preempt each other, interrupt handlers preempt
threads and wake them, and a kernel call is often several stretches of code with
interrupts disabled, with windows between them.  The modules here are about these
windows.  Drivers, the shell, file systems, the network and the vendored packages
are left aside.

## 1. Inventory

| component | source | state | operations | hard behaviour | what makes it correct |
|---|---|---|---|---|---|
| scheduler | `scheduler.c`, `context_gcc.S` | ready lists, ready bitmap, `rt_current_thread`, lock nest, the pending switch | `rt_schedule`, insert, remove, lock, unlock, PendSV | called by threads and by nested handlers; the switch itself is deferred to PendSV | lists, bitmap and `stat` agree; the highest ready thread runs; the right context is saved; the lock pins the processor |
| threads, idle thread | `thread.c`, `idle.c` | `stat`, priorities, thread timer, time slice, defunct list | create, startup, resume, suspend, yield, sleep, control, exit, delete, reap | calls of several stretches; deletion of a thread that is somewhere else; a thread exits on its own stack | a node is on the list that `stat` calls for; nothing in use is freed |
| interrupts, tick | `irq.c`, `clock.c` | interrupt nest, `remaining_tick` | enter, leave, `rt_tick_increase` | nested handlers, several reschedules before one PendSV | time slices share the processor among equals |
| semaphores | `ipc.c` | value, waiting list | take, trytake, release, reset, delete | hand-over to a thread that has not run, timeout against release, deletion under waiters | tokens are conserved; nobody sleeps next to a token; the right waiter is served |
| mutexes | `ipc.c` | owner, hold, original priority, waiting list | take, release | nested takes, inheritance across several mutexes, timeout of the thread that caused the boost | one holder; counters agree with what the programs took; priorities come back |
| mailboxes | `ipc.c` | ring of words, two waiting lists | send, receive, reset | a retry loop at each end, sends by handlers | a FIFO channel; nobody sleeps next to a mail or a place |
| message queues | `ipc.c` | slots, free list, queue, waiting list | send, urgent, receive, reset | messages are copied with interrupts enabled between two protected sections | a channel; slots neither lost nor shared |
| events | `ipc.c` | set of bits, waiting list with a request per thread | send, receive, reset | one send walks the waiters and clears bits as it goes | nobody sleeps next to what it asked for; bits are consumed once |
| memory pools | `mempool.c` | free list and count, waiting list and count | alloc, free | retry loop, two counters beside two lists, timeout | blocks conserved, no wake-up lost, the counters agree with the lists |
| timers | `timer.c` | sorted list, `timeout_tick`, active flag, `rt_tick` | start, stop, `rt_timer_check` | unsigned ticks that wrap, start and stop in steps, callbacks that start and stop timers | sorted through the wrap, nobody early, late or forgotten, flag and list agree |
| soft timers | `timer.c` | a second list, the timer thread | the same calls, the loop of the timer thread | callbacks with interrupts enabled; the thread plans a sleep that a start must end | it never sleeps past a timer; it fires only what is linked |
| completions | `completion.c` | a flag, one waiting thread | wait, done | done reads the flag before it disables interrupts | nobody sleeps next to a set flag |
| data queues | `dataqueue.c` | ring of items, two indices, low-water mark, two lists | push, pop, peak, reset | retry loops, pushers that sleep next to places, a reset in steps, 16-bit indices | a channel; nobody is left asleep |
| ring buffers | `ringbuffer.c` | indices with mirror bits | put, put_force, get, characters, reset | index and mirror are two stores; a handler puts in between | a bounded queue of bytes |
| pipes, wait queues | `pipe.c`, `waitqueue.c` | fifo, reader and writer counts, a flag per wait queue | read, write, close | the fifo is tested under a lock that is released before the wait | nobody sleeps next to what it waits for; writes end |
| work queues | `workqueue.c` | list of work, current work, worker thread | dowork, cancel, cancel_sync, cancel_all | look, suspend and take are separate sections | the worker finds work; submitted work is done |
| heap | `mem.c` | chain of block headers, `lfree`, one semaphore | malloc, calloc, realloc, free | long sequences of calls; `rt_realloc` allocates and frees in two sections | the chain stays whole, free neighbours are joined, `lfree` is a free block, callers have the sizes they asked for |
| demo 04 | `examples/04_thread_sync_sem` | array, `set`, `get`, `sum`, three semaphores | producer and consumer thread | the array is used outside the counting of places | it is a bounded buffer and prints 55 |
| object container, other heaps, ring block buffers, kernel services, drivers, frameworks, other demos | | | | sequential, or I/O, or third-party | |

Interaction: the kernel objects call `rt_thread_suspend`, `rt_thread_resume` and
`rt_schedule`; `rt_tick_increase` charges the time slice and calls
`rt_timer_check`, whose callback for a thread's own timer is `rt_thread_timeout`;
that takes the thread off whatever list it waits on.  The lists are intrusive: one
node per thread is, at different times, on a ready list, on the waiting list of an
object, or on the defunct list.  This sharing of one node is behind most of the
hazards in `PROJECT.json`.  Pipes consist of a ring buffer, a mutex and two wait
queues; a work queue ends `cancel_sync` with a semaphore.

## 2. Plan

1. `Lists`: the intrusive lists as sequences; insertion by priority. *(done)*
2. `Scheduler`: scheduler, threads, idle thread, interrupts. *(done)*
3. `Semaphore` and its abstract specification `CountingSemaphore`; the demo,
   `ProducerConsumer`, composed with it, and its abstract specification
   `BoundedBuffer`. *(done)*
4. `Mutex`, `MemPool`, `Timer`. *(done)*
5. `Waiters`, what all objects with retry loops share; on it `Mailbox`,
   `MessageQueue`, `DataQueue`, all three refining `Channel`; `Event`, `MemPool`,
   `Completion`. *(done)*
6. `SoftTimer` on `Timer`; `RingBuffer` and its abstract specification
   `ByteQueue`; `Pipe`; `WorkQueue`. *(done)*
7. `Heap`, the allocator of `mem.c`. *(done)*
8. Proofs about all of them where the prover reaches. *(done, see section 7)*
9. Left: deletion of the objects other than semaphores, `rt_timer_control`,
   `rt_workqueue_destroy`, non-blocking pipes.  Section 8 says what they would add.

## 3. Modules

### Scheduler

One action is one stretch of code with interrupts disabled, or one unprotected
read or write.  `pc[t]` holds what thread `t` does next inside a call of several
stretches, so an interrupt can come in between, and, through it, another thread.

| variables | code |
|---|---|
| `stat`, `prio`, `slice` | `thread->stat`, `current_priority`, `remaining_tick` |
| `list`, `group` | the priority table, one object's waiting list and `rt_thread_defunct`; the ready bitmap |
| `armed` | the activated flag of `thread->thread_timer` |
| `current`, `lockNest`, `irqNest` | `rt_current_thread`, `rt_scheduler_lock_nest`, `rt_interrupt_nest` |
| `isrSched` | the nest levels of the handlers that are between waking a thread and their `rt_schedule`, where another handler may come in |
| `switch`, `cpu` | the three `rt_thread_switch_interrupt` variables; the thread whose context is loaded |
| `owed` | a history variable: `rt_thread_resume` or a change of priority came after the last `rt_schedule` that was not locked out |

`Schedule` is `rt_schedule`: `Chosen` decides, `SwitchTo` requeues the preempted
thread and raises PendSV.  `ContextSwitch` is the assembler: a second reschedule
before PendSV must not overwrite the thread to save.  `PendSV` can run only when no
handler does.  `ResumeCheck`, `ResumeUnlink`, `ResumeInsert` are the three parts of
`rt_thread_resume`; `DeleteUnlink` to `DeleteDefunct` the four of
`rt_thread_delete`; `Reap`, `ReapSchedule`, `ReapFree` those of the idle thread.
`Block` is `rt_thread_sleep` and the waiting path that all objects share; `Wake`
and `IsrWake` are their waking path.

Two calls leave a ready thread waiting behind a lower one, because they do not
reschedule: `rt_thread_resume` (`thread.c:705-739`; `rt_thread_startup`, which calls it,
does), and the priority change of `rt_thread_control` (`thread.c:571-612`).
`rt_mutex_release` reschedules only when it hands the mutex over (`ipc.c:857`,
`873-875`): when the thread whose wait boosted the owner has timed out, the owner is
lowered and goes on below a ready thread (`ipc.c:831-836`).  `HighestRuns` therefore
does not hold after these calls; it says that it holds from the next `rt_schedule` on
(`~owed`), and that everybody else reschedules in time.

The roles are constants.  `Main` is the thread that controls others; it suspends and
resumes `Controlled` threads and deletes `Deletable` ones.  `Blocker` threads wait
on the object, `Timed` threads sleep, the priority of `Boostable` ones is changed by
anybody.  The kernel requires no discipline here, but several of its calls go wrong
without one: `Disciplined`, in `SchedulerProofs`, says that a thread another one
suspends and resumes does not block by itself, and that a deleted one has no timer and
is not boosted.  The run `scheduler_delete` drops the timer's part and shows what
happens.  The other part is the same window: a change of priority of a READY thread
between `thread.c:441` and `448` links it to a ready list again (its `stat` still says
READY), and the closed thread's node is then linked to the defunct list as well.

Timers are abstracted to `armed`: an armed timer may fire at any time a handler
executes.  This has more behaviours than the code, so the invariants carry over.

### Semaphore, CountingSemaphore

`TakeNow`, `TakeFails`, `TakeWaits` and `TakeReturns` are the branches of
`rt_sem_take`, before and after its `rt_schedule`; `Release`, `Reset`, `Timeout` the
other actors.  `Delete`, `DeleteTests`, `DeleteResumes`, `DeleteFrees` are
`rt_sem_delete` with `rt_ipc_list_resume_all`, whose loop condition is evaluated with
interrupts enabled.  The semaphore is valid until `rt_object_delete` (`ipc.c:305`), so
takes, releases, resets and time-outs go on between the steps of the deletion, also
between the test of the list and what follows from it.  Two things go wrong there in the
code, and in the model:

- The last waiter times out, or is released, right after the test: the list head is
  taken for a thread.  Its `error` is written, beyond the semaphore, and the assertion
  of `rt_thread_resume` on the type of the object fails (`DeleteAsserts`); the model
  ends there, as the program does (`Alive`).
- A thread begins to wait after the last test, before `ipc.c:305`: it stays on the
  list of a semaphore that is freed, against the comment "wakeup all suspend threads"
  (`ipc.c:301`).  With a timeout it leaves that list when its timer fires.

A call that passed its test of the object's type before `ipc.c:305` and reaches its
protected section after it is not modelled.

`prio` changes at any time, also while a thread waits (`ChangePriority`: mutexes and
`rt_thread_control`); `Given` are the priorities a thread may be given.  A list is sorted
when a thread begins to wait (`ipc.c:103`) and never again.  So the waiter that is served is
not always one of the highest priority, and `BestWaiterFirst` does not say so: it says
that the first of the list is served, that nobody gets in front of an earlier waiter but
by the priority it has when it begins to wait, that a list of `RT_IPC_FLAG_PRIO` in the
order of the priorities (`InOrder`) stays so until the priority of a waiter changes, and
that as long as it is, the waiter that is served has the highest priority.

`CountingSemaphore` has tokens only: a take succeeds by consuming one, a failed take
leaves them alone.  Under the refinement mapping a token handed to a thread that has
not run yet still counts as available, because the take has not returned.

### ProducerConsumer, BoundedBuffer

The two thread entries of demo 04, one action for each access to a shared variable,
composed with `Semaphore` by conjunction.  In the mapping to `BoundedBuffer` a number
enters at `set++` and leaves at `get++`.  The demo's own constants are used for model
checking; `DemoAssumption` says what the proof needs of them: two threads, three
different semaphores, and `empty` created with the size of the array, `full` with 0.

### Mutex

`TakeAgain` is the recursive take; `TakeWaits` boosts the owner; `ReleaseLast`
restores `original_priority` and either hands the mutex over or frees it.  `taken` is
a history variable: what each program believes it holds.  `Nested` restricts programs
to release in reverse order of taking.

Two limits of the code's inheritance are visible in the model.  A release restores
the priority that was recorded when that mutex was taken, whatever the mutexes still
held require: an inner release can take an inherited priority away early.  And a
boost is not passed on to the owner of a mutex the owner itself waits for.  With `Nested = FALSE` the priority itself goes wrong:
a thread that takes `m1`, inherits a priority for it, takes `m2` and gives `m1` back
first gets the inherited priority back with `m2`, where it was recorded as the
original one.  The sources state nothing about the order of releases, so `mutex` is
run under the usual discipline.

### Waiters

What mailboxes, message queues, events, pools, data queues and completions share:

| variables | code |
|---|---|
| `waiting` | the suspended threads of each list, of one object or of several |
| `state` | `run`; `suspended` on a list; `woken`: resumed with `thread->error` = `RT_EOK` and not run since; `failed`: resumed by a time-out or a reset |
| `call` | the call a thread is inside of, with its argument |

`SuspendOn` is `rt_ipc_list_suspend`, `ResumeFirst` `rt_ipc_list_resume`, `ResumeAll`
the loop over a list with interrupts disabled, `Timeout` `rt_thread_timeout`.  Any
runnable thread may take the next step here, as in `Semaphore` and `Mutex`:
`Scheduler` decides who does, and what holds for every choice holds for its choice.
A thread that was woken and finds nothing may have time left or not; the parameter
`left` is a choice, which covers every time-out.

### Channel, Mailbox, MessageQueue, DataQueue

`Channel` is the abstract specification: a bounded sequence of messages, calls that
begin and return, a message sent or received at one moment in between, and a call
that failed did neither.

`Mailbox` has the ring of `rt_mb_send_wait` and `rt_mb_recv` with its two offsets.
`MbSend`, `MbRecv` are the first turn of a call, `MbSendAgain`, `MbRecvAgain` a later
one, after a wake-up.  Its implementation of `Channel` is by the ring's contents.

`MessageQueue` splits a send where the code does: `MqClaim` takes a slot off the free
list, `MqLink` links it, and the copy goes on in between with interrupts enabled; a
receive unlinks (`MqUnlink`) and frees later (`MqFreeSlot`).  `slot[t]` is the slot
that thread `t` works on.  In the mapping to `Channel` a message is sent when it is
linked and received when it is unlinked, although it is copied out later: that the
slot is not written in between is the point of the refinement.

`DataQueue` has indices that grow modulo `IndexRange` = 65536 and are subtracted
without a wrap, as `int`.  After 65536 pushes the difference is negative while the
queue is full, the test for fullness fails, and an item is overwritten: `MaxIndex`
bounds the instance below that.  A retry waits for the whole time-out once more, as in
the code.  `rt_data_queue_reset` locks the scheduler but tests its lists with
interrupts enabled (`DqResetLook`) before it takes a thread (`DqResetTake`): a
time-out in between leaves it with the list head for a thread; the model stops there.

### Event

`EvSend` walks the waiting threads in order: `Delivery` says what each gets
(`Satisfying`) of the bits that those before it have left, and `Ascending` keeps the
others on the list in their order; `RecvNow`, `RecvWaits` and `RecvReturns` are the
branches of `rt_event_recv`.  `EventsAccounted` relates each delivery to the bits
before and after it.

### MemPool

`MpAlloc` is the first turn of the loop in `rt_mp_alloc`, `MpAllocAgain` a later one,
`MpFree` the release with the wake-up that its own counter decides.  Waiters are
pushed on the front of the list, as the code does.  `count` is
`suspend_thread_count`; where it exceeds the list, `rt_mp_free` takes the list head
for a thread, and the model stops.

### Completion

One thread waits (`Awaiting`; the code asserts it).  `DoneReads` is the read of the
flag before `rt_completion_done` disables interrupts, `DoneSets` the protected section
after it.  A wait that times out resets the flag when it runs again, and a done that
came in between is lost with it; the code says nothing else.

### Timer, SoftTimer

`rt_timer_start` is three actions of a thread (`StartUnlink`, `StartCompute`,
`StartInsert`), since the tick is read with interrupts enabled; so is
`rt_timer_stop`.  In a callback both are one action.  `Minus` and `Plus` are unsigned
arithmetic modulo `TickMax + 1`.

`SoftTimer` uses the list of `Timer` for `rt_soft_timer_list` and adds the timer
thread: `SoftLook` reads the first timer, `SoftSuspend` suspends the thread if there is
none, `SoftPlan` reads the tick and computes the delay, `SoftSleep` begins it with the
tick of that moment (`rt_thread_sleep` starts a timer), `SoftCheck` begins `rt_soft_timer_check`, `SoftExpire` unlinks a timer and
remembers its successor, `SoftCallback` runs with interrupts enabled, `SoftRestart`
links a periodic timer again.  `SoftResume` is the end of `rt_timer_start`, which wakes
the timer thread whatever it waits for; if it is awake, nothing happens.

Ticks may come between any two of these steps.  A tick between `timer.c:658` and the
start of the delay makes the thread sleep as much longer, past the first timer:
`NoOversleep` allows for it, and `FiresLinked` counts it (`Overdue`).  Callers execute
while the timer thread waits, that is, they are below it.  `Above` are callers of
which this is not true: threads of a higher priority, or handlers.  With them
`NoOversleep` fails, for one that comes between the look at the list (`timer.c:647`) and
the suspension (`650`) links a timer, finds the timer thread awake, and lets it fall
asleep next to that timer.  The run has `Above = {}`; `Above = {user}` gives the
behaviour.  A hard timer's
callback that starts a soft timer is a handler of this kind.

Two more things no property covers: a first timer
that expires at the tick `RT_TICK_MAX` looks like an empty list to
`rt_thread_timer_entry`, which suspends itself without end (the model stops there);
and a callback that stops the timer behind its own leaves the loop with a node that is
off the list (no callback of the instance does, see `Stops`).

### RingBuffer, ByteQueue, Pipe

`RingBuffer` has all operations of `ringbuffer.c`.  In a get, `RbGet` flips the mirror
bit and `RbGetEnd` stores the index: between the two, a full buffer looks empty, and
`RbPutCharIsr` may put a character there.  `Burst` is how many may come in that
window.  At least one byte has been read by then, so with one character the buffer is
still a `ByteQueue`; two may overwrite a byte that nobody read.  The window is two
instructions long, far shorter than the time between two characters of a UART.

`Pipe` has the fifo's fill, the lock, the two wait queues with their flags, and the
open ends.  A reader or writer turns under the lock (`ReadTurn`, `WriteTurn`), wakes
the other side (`WakeOther`), leaves the lock and waits (`Wait`); `Close` is
`pipe_fops_close`.  Wake-ups that find nobody set the flag of the queue, and the next
wait consumes it.  This works with one reader, which the instance and the theorem
have.  With several, the code loses wake-ups: one reader's wait consumes the flag
that was set for another, and the close of the last reader wakes only one writer.

### WorkQueue

`Look`, `Suspend`, `TakeWork`, `WorkReturns`, `Ack` are the worker; `DoWork` with
`ResumeWorker`, `Cancel`, `CancelAll`, `CancelSync` the callers.  Two hypotheses are
constants, for the code has no protection of its own:

- `Below`: the callers execute only while the worker waits, for work or inside a work
  function, that is, the worker has the higher priority.  Without it a call may come
  between the worker's look and its suspension (`workqueue.c:58-61`), or work that is
  submitted and cancelled before the worker runs leaves it on an empty list, whose head
  it takes for work (`workqueue.c:65`).
- `Serialized`: no caller is preempted by another one between the link of its work
  (`workqueue.c:140`) and the resumption of the worker (`142`).  Two callers below the
  worker break this if nothing keeps them apart: the first one links its work and is
  preempted; the second one submits, the worker does both works and sleeps; the first
  one then resumes it, on an empty list.  With `Serialized = FALSE`
  `WorkerFindsWork` fails in that way.  What remains true then is `NoSleepNextToWork`,
  its other half, which is proved under `Below` alone.

  Submitting work that is pending already puts it at the end
again, so a caller may postpone it for ever; `WorkIsDone` makes this exception.

### Heap

`mem` is the set of headers in the chain as a function from their addresses, in units
of the alignment; `lfree` is the pointer of that name, `asked` what each caller asked
for, `moving` the calls of `rt_realloc` between their allocation and their release.
`Malloc`, `Free`, `ReallocInPlace`, `ReallocMoves` and `ReallocFrees` are the stretches
of code under `heap_sem`; `Split` and `PlugHoles` are what they do to the chain.
`MinSize <= MemSize` is an assumption of the code too: in a smaller heap the
subtraction in the loop of `rt_malloc` (`mem.c:306`) goes below zero.

`HeapSound` says what the callers rely on.  Four comments and cases it leaves out:

- `lfree` is not always the "pointer to the lowest free block" (`mem.c:131`):
  `rt_realloc` that cuts a block below `lfree` does not lower it (`mem.c:471-497`).  Unless
  the rest of that block is joined with `lfree` itself, it is not found until a block
  below it is freed.
- "Every data block must be at least MIN_SIZE_ALIGNED long" (`mem.c:298`) is not kept
  by `rt_realloc`, which cuts to any size.
- The loop of `rt_malloc` ends before `mem_size_aligned - size`, so a block that fits
  exactly at the end of the heap, the whole heap included, is not found.
- A block that gets only a little smaller is allocated anew (`mem.c:502`), and
  `rt_realloc` may fail.

### MCObjects, MCServices

Compositions for the model checker: a behaviour chooses one object (service) in its
initial state, and only that one moves.  The modules are checked together because
they ask the same question of different code.

## 4. Runs

| run | question | instance |
|---|---|---|
| `scheduler` | all scheduler invariants and `LockPinsCpu` | 5 threads, 3 priorities |
| `scheduler_round_robin` | time slices share the processor (liveness) | 3 application threads of one priority |
| `semaphore` | tokens, waiting lists, order, refinement, also during a deletion and while priorities change | 3 threads, a FIFO and a PRIO semaphore |
| `producer_consumer` | the demo is a bounded buffer and ends with 55 | the real constants |
| `mutex` | one holder, counters, priorities restored | 3 threads, 2 recursive mutexes |
| `timer` | order, punctuality, flag, expiry | 3 timers, 12 ticks |
| `objects` | nobody sleeps next to what it waits for; channels; bits and slots | 3 threads on a mailbox, message queue, event, pool, data queue or completion |
| `services` | ring buffer as byte queue, pipe and work queue without lost wake-ups, writes and work end, soft timers, the heap whole | one of the five services |
| `scheduler_delete`, `mempool_timeout`, `timer_restart`, `ringbuffer_force` | four statements of the sources that the code does not keep | small |

The four statements, each quoted with its line under `findings`:

- `rt_thread_delete` "removes" a thread from its queue, but a sleeping thread's timer
  that fires between its first two steps puts it back, and the node is then linked
  in two lists.
- A timed allocation that times out leaves `suspend_thread_count` too high.
- A one-shot timer restarted by its own callback runs with its flag cleared, so it
  can no longer be stopped.
- `rt_ringbuffer_put_force` is to discard old data only.  When it drops bytes in the
  call in which it runs over the end of the buffer, it flips both mirrors, and if they
  were equal before, the full buffer then looks empty: everything is lost.

## 5. Bounds

- `Scheduler`: `MaxNest` = 2 is needed for a handler that interrupts another one
  and for two reschedules before a PendSV.  `MaxLock` = 1 lets a lock be held
  while others become ready; deeper nests only count.  `Slice` is 1 in the safety
  run, so every tick may end a slice, and 2 where rotation itself is the subject.
  Five threads give each role a member: `Main`, the idle thread, a waiter with a
  timer (also of a priority above the others), a controlled thread, a deletable
  waiter.  The controlled thread's priority is changed by itself and by others while it
  is running, ready or suspended, between that of the high waiter and the common one.
  `MCSchedulerDelete` and `MCSchedulerLive` have no changes of priority.
- `Semaphore`: `MaxValue` = 1 still lets a value be positive, zero, and reset; the
  wrap of the 16-bit counter is beyond the bound and listed as a hazard.  Two threads
  of equal and one of higher priority distinguish the two orders; one of the equal ones
  may be given both priorities at any time, so that a list gets out of order and back.
  The PRIO semaphore is reset and deleted, the FIFO one is not: the two calls do not
  look at the flag.
- `Mutex`: `MaxHold` = 2 has one recursive take; two mutexes are what nesting and
  the loss of inheritance need; three priorities let a boost be raised twice.
- `MCObjects`: three threads, one of higher priority, so that a woken thread is
  overtaken while a third one sleeps.  `Size` = 2, two slots, two blocks and
  `DqSize` = 3 let each object be empty, full and in between, and each ring wrap;
  two messages tell order and duplication apart; `LowMark` = 1 is below the size, so
  that pushers sleep next to places; two bits give requests that overlap.  `MaxCount` =
  4 bounds the pool's stale counter.  `MaxIndex` = 4 lets the data queue's indices go
  past the queue's size.
- `MCServices`: `RbSize` = 4 with chunks of up to five bytes crosses the end of the
  buffer and overflows it; `Burst` = 1; `Overrun` allows a forced put that drops bytes
  in the call in which it crosses the end, and is on only in `ringbuffer_force`.  The
  pipe has a reader and two writers, a fifo of 2, reads of 1 and writes of 3, so that
  every write waits.  Three works and two callers; works that submit each other.
  `TickMax` = 15 wraps several times; `MaxBusy` bounds the ticks the timer thread may be
  kept from running, `MaxLate` those between reading the tick and inserting.  A periodic
  timer of 1 tick that is stopped and started beside one of 4 ticks makes a missed wake-up
  longer than what `NoOversleep` allows for.  The heap
  of 27 units with headers of 3 and blocks of 1, 3 and 9 holds four blocks or more, so
  that a free block has neighbours on both sides, and fits, near fits and refusals occur.
- `Timer`: `TickMax` = 11 wraps often, and its half, 5, still exceeds the longest
  timeout plus `MaxLate`, as `RT_TICK_MAX / 2` does in the code.  `MaxLate`
  bounds the ticks between reading the tick and inserting; the code has no bound,
  but without one no statement about order would hold.  Threads and callbacks start
  different timers (`Managed`, `Starts`): the code leaves that to its users.

`CHECK_DEADLOCK FALSE` is set where threads may legitimately all sleep: semaphores
that nobody releases any more because they are deleted, mutexes whose holders wait
for each other, a pipe whose users have closed it, a queue whose index reached its
bound.

## 6. Fairness

- `LiveSpec` (`Scheduler`): the tick interrupt keeps coming, handlers end, PendSV is
  taken, and a thread that gets the processor again and again completes the
  `rt_schedule` it is about to make.  Strong fairness is used for what other handlers
  and preemption disable for a while.  No fairness is given to application steps: a
  thread may loop for ever, and the others of its priority still get their turns.
- `DemoSpec`: weak fairness of both threads; each sleeps after every number, so the
  other one is scheduled whatever the priorities.
- `Spec` of `Timer`: ticks come, a check under way goes on (it runs with interrupts
  disabled), and a thread's call is completed between ticks.
- `Pipe`: a call that has begun goes on whenever it can, and the reader keeps
  reading.  `WritesEnd` still assumes that the reader does not close, and that the
  other writers stop some day: as long as they write, they may get the room first.
- `WorkQueue`: the worker is above its callers and executes whenever it is ready, and
  work functions return; a caller that linked work goes on to resume the worker.
  Callers need not call.  `WorkIsDone` is checked under `Below` and `Serialized`.

## 7. Proofs

TLAPS proves, for every set of threads, messages, slots and blocks, every number of
priorities, assignment of roles and bound:

- `SchedulerProofs`, from the assumption on the constants alone: `SavesTheRunner` and
  `LockPinsCpu`; under `Disciplined`: `TypeOK`, `ReadyBitmap`, `OneList`,
  `ListsMatchStat`, `AlwaysRunnable`, `HighestRuns`, `TimeoutAssertion` and
  `NoUseAfterFree`.
- `SemaphoreProofs`, for a finite set of threads, any semaphores and orders of waiting,
  priorities that change, and deletions: `TypeOK`, `NoTokenWhileWaiting`, `WaitersAreSuspended`,
  `BestWaiterFirst`, and `CountsTokens`, the refinement of `CountingSemaphore`.
- `DemoProofs`: `ImplementsBuffer`, the refinement of `BoundedBuffer` by demo 04 on
  the kernel's semaphores, for an array of any size and any quantity of numbers.
- `MutexProofs`: `TypeOK` and `OwnerHolds` for any discipline of release, and
  `PriorityRestored` under `Nested`.
- `ObjectProofs`, each about the specification of its object alone: `MailboxWakes`,
  `QueueWakes`, `SlotsConserved`, `BlocksConserved`, `NoLostWakeup`, `CompletionWakes`,
  `NoEventMissed` and `EventsAccounted` for any bits and requests, and, as long as the
  index does not wrap (`MaxIndex < IndexRange`), `DataQueueWakes`; and the refinements
  of `Channel` by mailboxes, message queues and data queues.
- `TimerProofs`, for any range of ticks and any timers whose time, with the delays
  `MaxLate` and `MaxBusy`, stays within half of it: `Sorted` and `OnTime` under `Apart`,
  `ActiveIffLinked` under `Apart` and `StartsOthers`, `NoOversleep` under `Apart` and
  `NoneAbove`, `FiresLinked` under `Apart`, `NoneAbove`, `StartsOthers` and `StopsSelf`.
- `ServiceProofs`: `NoSleepNextToWork` for a worker above its callers (`Below`), and
  `WorkerFindsWork` if these do not preempt each other either (`Serialized`);
  `NoSleepingReader` for a pipe with one reader and any number of writers;
  `HeapSound` for a heap, headers and blocks of any size; and `RingBufferIsQueue`, the
  refinement of `ByteQueue` by a ring buffer of any size, when a handler puts at most
  one character into the window of a get (`Burst <= 1`) and no forced put drops bytes
  in the call in which it crosses the end (`Overrun = FALSE`).

The hypotheses are about how the code is used, and the code needs them:

| hypothesis | says | without it |
|---|---|---|
| `Disciplined` | a thread that another one suspends does not block by itself; a deleted one has no timer, and its priority is not changed | `scheduler_delete`; see Scheduler |
| `Nested` | mutexes are released in the reverse order | a priority comes back wrong, see Mutex |
| `Apart` | no two threads start or stop the same timer, and no callback starts one of a thread's | two starts of one timer interleave between their protected sections, and insert it twice |
| `StartsOthers` | the callback of a one-shot timer does not start that timer | `timer_restart` |
| `StopsSelf` | a callback stops no timer but its own | the timer thread goes on from a timer that is off the list, see SoftTimer |
| `NoneAbove` | no handler, and no thread above the timer thread, starts or stops a soft timer | the timer thread sleeps next to a timer, see SoftTimer |
| `Below` | the worker has a higher priority than its callers, none of which is a handler | it sleeps next to work, or takes work from an empty list, see WorkQueue |
| `Serialized` | no caller is preempted by another one inside `rt_workqueue_dowork` | the worker takes work from an empty list, see WorkQueue |
| `Overrun = FALSE` | above | `ringbuffer_force` |
| `Burst <= 1` | above | a byte nobody read is overwritten, see RingBuffer |
| `MaxIndex < IndexRange` | fewer than 65536 pushes since the indices were 0 | an item is overwritten, see DataQueue |

Each passing run satisfies the hypotheses under which its properties are proved; the runs
that the table names drop one.

The specifications `MbSpec`, `MqSpec`, ... that the theorems are about have the same
actions as the disjuncts of `MCObjects` and `MCServices`, which add only the choice of
the object.

**Scheduler.** The inductive invariant is `SchedInv == SwitchInv /\ Safe`.  `Safe` has
these parts:

- `Types` and `Tidy`: types, no repetition in a list, and a bit per non-empty list.
- `Placed`: for each `stat`, exactly the lists the node may be on.  `OneList`,
  `ListsMatchStat` and `TimeoutAssertion` follow from it.
- `Runner`: only `current` is RUNNING, a thread without an object is neither current
  nor on the processor, and the idle thread is READY or RUNNING; so there is
  always somebody to run.
- `MainHolds`, `IdleHolds`: what a call of several stretches relies on from one
  stretch to the next, for example that a thread between the removal and the
  insertion of `rt_thread_resume` is suspended and on no list.  That no handler and
  no other thread disturbs this is where `Disciplined` is used.
- `Rescheduled`: unless a reschedule is on its way, the current thread is RUNNING,
  and no ready thread is ahead of it unless `owed`.  `HighestRuns` follows from it.

The proof goes from lists to steps.  `ListTheorems` says what taking off and linking a
node does to a list.  `At(l, x)`, the set of lists thread `x` is on, turns this into
set reasoning: `UnlinkedAt`, `LinkedAt`.  `UnlinkTidy` and `LinkTidy` carry the bitmap
along.  `ScheduleEffect` describes `rt_schedule` by its effect (`Stays` or
`Switches`), after which no proof looks at a sequence again.  `StillKeeps`,
`ResumedKeeps`, `StopsKeeps` and `TouchKeeps` treat the four kinds of steps (nobody
moves, a thread is woken, the running thread stops, a call changes somebody else),
and one lemma per operation shows that it is of its kind.  `SchedInv` itself was
model-checked before it was proved.

`SavesTheRunner` and `LockPinsCpu` need only the first half, `SwitchInv`: besides the
two properties it says that the lock is never held while a switch is pending, since a
thread that executes takes it, and `rt_schedule` does nothing while it is held.

**Semaphore.** `SemInv` is types, `NoTokenWhileWaiting`, and `Waits`, which says that a
thread is on a waiting list exactly while it is suspended on it, and that a suspended
thread's `error` is `RT_EOK`, the value the hand-over leaves it with.  For the
refinement, `Granted(s)` is the set of threads a token of `s` was handed to that have
not run yet, and `AvailOf` reduces a step of the abstract counter to a change of
`value[s]` and of the size of that set: `ReleaseLeaves` puts one thread in it,
`CountingReturns` takes one out.  The set of threads is finite because sizes of
infinite sets mean nothing.

**Best waiter.** `BestWaiterFirst` is about steps: who is served, and that nobody is
overtaken but by priority.  `ListStep` reduces every step to one of the changes of a
list, `PriorityStep` is the change of a priority, `EnqueuedPrecedes` says whom a new
waiter is in front of, in either order of waiting.  That a list in order stays so
(`OrderStays`) is part of the step, not of the invariant, since a change of priority
breaks it.  `DeletesIs` reduces the steps of a deletion to
marks and one resumption.

**Demo.** The two semaphores that count places keep the threads at different places of
the array, so `DemoInv` says little about the third one.  `Places`: the tokens a thread
can take, those it was woken with included, and the places the threads hold make up
the array; and `set - get` is the number of filled places.  `Stored`: the numbers from
`get` to `set` are where the consumer will look for them, and `DifferentPlaces` keeps
the producer's write away from them.  `DemoPuts`, `DemoGets` and `DemoStutters` are the
steps of `BoundedBuffer` and the steps that it does not see.  That the numbers add up
to 55 in the end is liveness, and model-checked.

**Mutex.** `MutexInv` adds to the types where a thread waits (`Waits`), that somebody
waits only for a mutex with an owner (`Waited`), and that `owner` and `hold` are the
owner's takes, a mutex handed to a thread that has not run included (`Owned`).
`PrioInv` adds `FirstOriginal`: the mutex a thread took first has the thread's own
priority recorded.  Under `Nested` the first mutex is the last one given back, so the
priority that comes back with it is the right one.

**Waiters.** The first section of `ObjectProofs` has what all objects share.
`WaitInv(kind)` says that
a thread is on one list at most, once, suspended, and in the call that sleeps on that
list; `SuspendsKeeps`, `ResumeFirstKeeps`, `TimeoutKeeps` and the like say that the
operations of `Waiters` keep it, and `CountWakes` what they do to the number of woken
threads.

**No lost wake-up.** `MailboxWakes`, `QueueWakes`, `NoLostWakeup` and `DataQueueWakes`
compare what is available with the number of woken threads while somebody sleeps.
They are inductive together with `WaitInv` and the bounds of the counters: an item
that enters wakes a sleeper, and a woken thread that leaves took an item with it.

**Channels.** `MailInv` says where in the ring the mails are.  `Place` replaces the
remainder by a case, which the provers can handle.  `QueueInv` adds `Apart` (a slot
is in one place only: free, queued, or held by one thread) and `Copies` (what a thread
copied into its slot is still there, and what a receiver copies out is what it
unlinked) to `MqInv`, whose `SlotInv` counts slots (free ones, queued ones and held ones
make up all).  `DataInv` is `MailInv` for the data queue's indices.  In each proof the
step lemma of an action shows the step of `Channel` it maps to.

**Events.** `EvInv` is `WaitInv`, the form of the requests, and `NoEventMissed`, which is
inductive with them: a send walks along everybody, and every other step leaves fewer
bits (`LessSatisfies`: fewer bits satisfy no more requests).  `SendWalks` describes the
walk without its lists: the i-th waiter gets what satisfies it of the bits that those
before it have not cleared (`Cleared`).  Who got nothing at its turn gets nothing of the
bits that are left in the end, and two who clear get different bits.

**Timers.** Ticks wrap, so "before" is no order in general.  `Ahead(d, k, m)` is how far
the tick `d` is ahead of a moment `m` ticks before `k`, and `InOrder` says that the list
is sorted by this distance and that every distance is within half a turn.  `OneTurn`
to `RingOrder` remove the remainders once: on such ticks the code's comparison of an
unsigned difference with half the range is the order of the distances.  A tick lowers
all distances by one (`NextTick`, `TickInOrder`); `MaxLate` is the slack that an insertion
needs whose tick was read before.  `TimerInv` adds `Kept`: which timer a call
or a callback in the middle of its steps has taken off the list, and that nobody else
touches it, which is where `Apart` is used.  `FlagInv` is the flag's agreement with
the list, with `AfterHolds` for `rt_timer_check` behind a callback: only a periodic timer
can be on the list there, which needs `StartsOthers`.

For soft timers `SoftInv` measures from `Slip` ticks back, since a timer may be
inserted late, or passed by a delay that began late and ends with a tick (`Overdue`),
and overlooked while the timer thread is kept from running (`MaxBusy`).  `Sleeps` says that the thread does not sleep beyond the
time of any timer on the list by more than that, unless somebody is about to wake it
(`Pending`).  `Serves` bounds the age of the tick that it compares with, which it reads
at the start of its loop and again after every callback, and `NextLinked` says that the
successor it keeps in a variable over a callback is still on the list.

**Ring buffers.** `RbInv` says by `Mirrored` what the mirror bits are for: the writer is
as many bytes in front of the reader as there are, counted through both mirrors.
`Reading` is the index that the reader will have stored.  Between the two stores of a get
the old index with the new mirror bit makes a full buffer look empty; the last part of
`RbInv` says that the writer is not in front of the old index then, so that the place of
one more byte is one the get has read.  The lemmas on remainders in `ListTheorems` (`RemainderSum`, `RemainderTurn`) give
the byte at each index after a copy in one or two parts, so that `BlockAppended` can say
that a put appends its block, and `Overwritten` that a forced put leaves the last bytes.

**Completion, WorkQueue, Pipe.** `CpInv` is `WaitInv` and the property.  `WqInv` adds to
`NoSleepNextToWork` that the worker suspends itself only after it saw an empty list;
`Undisturbed`, which needs `Serialized`, that a caller between linking and resuming
finds the worker asleep and work on the list.  `PipeInv` says for
each place of the reader in its call why it will not miss the next byte: the flag of
its queue is set, a writer is about to wake it, or there is nothing.

**Heap.** `HeapInv` adds to `HeapSound` the types and that a block which `rt_realloc` is
going to free is in use and in one such call only.  `JoinedKeeps` and `SplitKeeps` show
that the two changes of the chain keep it a chain.  `CoalescedBut(m, b)` is the state in
which only `b` may have a free neighbour: a release and a cut lead to it, and
`PlugHolesKeeps` leads out of it.

Only model-checked: liveness (`RoundRobin`, `Expires`, `ProducesSum`, `WritesEnd`,
`WorkIsDone`), which needs ENABLED and fairness, beyond the prover.  The four
statements of the sources that the code does not keep are refuted by their runs.

`BlocksConserved`, `AlwaysRunnable` and `NoSleepNextToWork` are only proved:
`NoLostWakeup`, `HighestRuns` and `WorkerFindsWork` rest on them, and no run lists them.

## 8. Not modelled

- Deletion of mutexes, mailboxes, message queues, events and pools, and the detach
  variants: they wake the waiters with the same `rt_ipc_list_resume_all` as
  `rt_sem_delete`, which is modelled, and then free the object.
- `rt_thread_detach` of static threads, idle hooks, `rt_thread_control` beyond the
  priority change.
- `rt_timer_control`; more than one level of the skip list (the configuration has
  one).  A start or stop by a callback that comes between the two protected sections
  of the same call on the same timer (`timer.c:319`, `:444`).
- `rt_workqueue_destroy`; non-blocking and second openings of pipes, their poll and
  device interface; time-outs of wait queues.
- Overflow of `sem->value` (16 bits) and `mutex->hold` (8 bits).
- Ring block buffers, an allocator of byte ranges no demo uses; `memheap.c` and
  `slab.c`, heaps no demo configures; statistics and hooks of `mem.c`; the object
  container; kernel services; drivers: sequential code, see the components' notes.
- SMP and signals, which the demos do not configure.
- Everything above the kernel: file systems, lwIP, the shell, MicroPython, CMSIS, the
  libc and the vendored packages.  They are third-party code or pure input and output,
  and they are most of the repository's 820,000 lines: conversion tables, network
  protocols, an interpreter.  The modules here cover the kernel files and the device
  IPC nearly completely and the repository as a whole by a small share only.

## 9. Running

```
tlc -config MCScheduler.cfg MCScheduler.tla
tlc -config MCObjects.cfg MCObjects.tla
tlapm SchedulerProofs.tla
tlapm ObjectProofs.tla
tlapm TimerProofs.tla
```

`PROJECT.json` lists for every run its module and configuration, for every property a
mutation of the model that violates it (the definitions marked *Fault*), and for
every definition the lines it was translated from.
