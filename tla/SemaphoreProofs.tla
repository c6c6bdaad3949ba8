---------------------------- MODULE SemaphoreProofs ----------------------------
(***************************************************************************)
(* Semaphores, for any threads, priorities and orders of waiting: a thread *)
(* is on a waiting list exactly while it is suspended, nobody waits next   *)
(* to a token, the best waiter is served first, and the semaphore          *)
(* implements CountingSemaphore: tokens are neither lost nor made.         *)
(***************************************************************************)
EXTENDS Semaphore, ListTheorems

\* The waiting lists and the threads agree.  The error of a suspended thread is
\* the one that a hand-over leaves it with.
Waits ==
    /\ \A s \in Sem : Distinct(waiting[s])
    /\ \A t \in Thread, s \in Sem :
         t \in Elements(waiting[s]) <=> state[t] = "suspended" /\ sem[t] = s
    /\ \A t \in Thread :
         /\ armed[t] => state[t] = "suspended"
         /\ state[t] = "suspended" => error[t] = "EOK"
         /\ state[t] = "run" <=> sem[t] = NoSem

SemInv == TypeOK /\ NoTokenWhileWaiting /\ Waits

\* rt_sem_create and rt_sem_init leave nobody waiting.
LEMMA SemInit == Init => SemInv
<1> SUFFICES ASSUME Init PROVE SemInv
  OBVIOUS
<1>1. Elements(<<>>) = {} /\ Distinct(<<>>)
  BY DEF Elements, Distinct
<1>2. TypeOK
  BY SemaphoreAssumption DEF Init, TypeOK, State, Error, Deletion
<1>3. NoTokenWhileWaiting /\ Waits
  BY <1>1, SemaphoreAssumption DEF Init, NoTokenWhileWaiting, Waits
<1> QED
  BY <1>2, <1>3 DEF SemInv

\* The first waiter of a semaphore is a thread suspended on it.
LEMMA FirstWaiter ==
    ASSUME SemInv, NEW s \in Sem, waiting[s] # <<>>
    PROVE  /\ Head(waiting[s]) \in Thread
           /\ state[Head(waiting[s])] = "suspended" /\ sem[Head(waiting[s])] = s
<1>1. waiting[s] \in Seq(Thread)
  BY DEF SemInv, TypeOK
<1>2. Head(waiting[s]) \in Thread /\ Head(waiting[s]) \in Elements(waiting[s])
  BY <1>1, HeadElement
<1> QED
  BY <1>2 DEF SemInv, Waits

\* Thread t stops waiting, with error e.
Leaves(t, e) ==
    /\ waiting' = [s \in Sem |-> Without(waiting[s], t)]
    /\ state' = [state EXCEPT ![t] = "resumed"]
    /\ armed' = [armed EXCEPT ![t] = FALSE]
    /\ error' = [error EXCEPT ![t] = e]
    /\ UNCHANGED <<sem, prio, result>>

\* A waiter that is resumed, by whomever, leaves the others in order.
LEMMA LeavesKeeps ==
    ASSUME SemInv, NEW t \in Thread, state[t] = "suspended", NEW e \in Error, Leaves(t, e),
           UNCHANGED value, deletion' \in [Sem -> Deletion]
    PROVE  SemInv'
<1> USE DEF SemInv, Leaves
<1>1. ASSUME NEW s \in Sem
      PROVE  /\ waiting'[s] \in Seq(Thread)
             /\ Distinct(waiting'[s])
             /\ Elements(waiting'[s]) = Elements(waiting[s]) \ {t}
             /\ waiting[s] = <<>> => waiting'[s] = <<>>
  <2>1. waiting[s] \in Seq(Thread) /\ Distinct(waiting[s])
    BY DEF TypeOK, Waits
  <2>2. /\ Without(waiting[s], t) \in Seq(Thread)
        /\ Distinct(Without(waiting[s], t))
        /\ Elements(Without(waiting[s], t)) = Elements(waiting[s]) \ {t}
    BY <2>1, WithoutElements, WithoutDistinct
  <2>3. Without(waiting[s], t) = <<>> <=> Elements(waiting[s]) \ {t} = {}
    BY <2>2, HeadElement
  <2>4. waiting[s] = <<>> => Elements(waiting[s]) = {}
    BY <2>1, HeadElement
  <2>5. waiting'[s] = Without(waiting[s], t)
    OBVIOUS
  <2> QED
    BY <2>2, <2>3, <2>4, <2>5
<1>2. TypeOK'
  <2>1. waiting' \in [Sem -> Seq(Thread)]
    BY <1>1
  <2> QED
    BY <2>1 DEF TypeOK, State
<1>3. NoTokenWhileWaiting'
  BY <1>1 DEF NoTokenWhileWaiting
<1>4. Waits'
  BY <1>1 DEF Waits, TypeOK
<1> QED
  BY <1>2, <1>3, <1>4

\* rt_sem_take that waits: the thread is put on the list.
LEMMA TakeWaitsKeeps ==
    ASSUME SemInv, NEW t \in Thread, NEW s \in Sem, NEW timed \in BOOLEAN,
           TakeWaits(t, s, timed)
    PROVE  SemInv'
<1> USE DEF SemInv, TakeWaits
<1>1. /\ waiting[s] \in Seq(Thread) /\ Distinct(waiting[s])
      /\ t \notin Elements(waiting[s])
  BY DEF TypeOK, Waits
<1> DEFINE w == Enqueued(waiting[s], t, Flag[s], prio)
<1>2. w \in Seq(Thread) /\ Elements(w) = Elements(waiting[s]) \cup {t} /\ Distinct(w)
  BY <1>1, EnqueuedElements
<1>3. waiting' = [waiting EXCEPT ![s] = w]
  OBVIOUS
<1> HIDE DEF w
<1>4. TypeOK'
  BY <1>2, <1>3 DEF TypeOK, State, Error
<1>5. NoTokenWhileWaiting'
  BY <1>3 DEF NoTokenWhileWaiting, TypeOK
<1>6. Waits'
  BY <1>2, <1>3, SemaphoreAssumption DEF Waits, TypeOK
<1> QED
  BY <1>4, <1>5, <1>6

\* RT_IPC_CMD_RESET: everybody on the list is resumed with an error.
LEMMA ResetKeeps ==
    ASSUME SemInv, NEW s \in Sem, NEW v \in 0..MaxValue, Reset(s, v)
    PROVE  SemInv'
<1> USE DEF SemInv, Reset
<1>1. \A t \in Thread : t \in Elements(waiting[s]) <=> state[t] = "suspended" /\ sem[t] = s
  BY DEF Waits
<1>2. Elements(<<>>) = {} /\ Distinct(<<>>) /\ <<>> \in Seq(Thread)
  BY DEF Elements, Distinct
<1>3. TypeOK'
  BY <1>2 DEF TypeOK, State, Error
<1>4. NoTokenWhileWaiting'
  BY DEF NoTokenWhileWaiting, TypeOK
<1>5. Waits'
  <2>1. \A q \in Sem : waiting'[q] = IF q = s THEN <<>> ELSE waiting[q]
    BY DEF TypeOK
  <2>2. \A t \in Thread :
          /\ state'[t] = IF state[t] = "suspended" /\ sem[t] = s THEN "resumed" ELSE state[t]
          /\ error'[t] = IF state[t] = "suspended" /\ sem[t] = s THEN "ERROR" ELSE error[t]
          /\ armed'[t] => armed[t] /\ ~(state[t] = "suspended" /\ sem[t] = s)
          /\ sem'[t] = sem[t]
    BY <1>1
  <2>3. \A q \in Sem : Distinct(waiting'[q])
    BY <1>2, <2>1 DEF Waits
  <2>4. \A t \in Thread, q \in Sem :
          t \in Elements(waiting'[q]) <=> state'[t] = "suspended" /\ sem'[t] = q
    BY <1>2, <2>1, <2>2 DEF Waits
  <2>5. \A t \in Thread :
          /\ armed'[t] => state'[t] = "suspended"
          /\ state'[t] = "suspended" => error'[t] = "EOK"
          /\ state'[t] = "run" <=> sem'[t] = NoSem
    BY <2>2 DEF Waits
  <2> QED
    BY <2>3, <2>4, <2>5 DEF Waits
<1> QED
  BY <1>3, <1>4, <1>5

\* A step that moves no thread to or from a list.
LEMMA ValueKeeps ==
    ASSUME SemInv, UNCHANGED <<waiting, sem, armed, state, error>>,
           value' \in [Sem -> 0..MaxValue],
           \A s \in Sem : value'[s] > 0 => value[s] > 0 \/ waiting[s] = <<>>,
           deletion' \in [Sem -> Deletion],
           result' \in [Thread -> Error], prio' \in [Thread -> Nat]
    PROVE  SemInv'
  BY DEF SemInv, TypeOK, NoTokenWhileWaiting, Waits

\* rt_sem_release resumes the first waiter, if there is one.
LEMMA ReleaseLeaves ==
    ASSUME SemInv, NEW s \in Sem, Release(s), waiting[s] # <<>>
    PROVE  /\ UNCHANGED <<value, deletion>>
           /\ \E t \in Thread : state[t] = "suspended" /\ sem[t] = s /\ Leaves(t, "EOK")
<1> DEFINE h == Head(waiting[s])
<1>1. h \in Thread /\ state[h] = "suspended" /\ sem[h] = s
  BY FirstWaiter
<1>2. Resume(h) /\ UNCHANGED <<value, deletion, sem, error, prio, result>>
  BY DEF Release
<1> HIDE DEF h
<1>3. error' = [error EXCEPT ![h] = "EOK"]
  BY <1>1, <1>2 DEF SemInv, Waits, TypeOK
<1> QED
  BY <1>1, <1>2, <1>3 DEF Leaves, Resume

\* rt_sem_delete and rt_thread_timeout resume a thread with an error.
LEMMA ErrorLeaves ==
    ASSUME SemInv,
           \/ \E s \in Sem : DeleteResumes(s)
           \/ \E t \in Thread : Timeout(t)
    PROVE  /\ UNCHANGED value /\ deletion' \in [Sem -> Deletion]
           /\ \E t \in Thread, e \in Error \ {"EOK"} : state[t] = "suspended" /\ Leaves(t, e)
<1> USE DEF SemInv
<1>1. CASE \E s \in Sem : DeleteResumes(s)
  <2>1. PICK s \in Sem : DeleteResumes(s)
    BY <1>1
  <2> DEFINE h == Head(waiting[s])
  <2>2. h \in Thread /\ state[h] = "suspended"
    BY <2>1, FirstWaiter DEF DeleteResumes
  <2>3. /\ Leaves(h, "ERROR") /\ UNCHANGED value
        /\ deletion' = [deletion EXCEPT ![s] = "test"]
    BY <2>1 DEF DeleteResumes, Resume, Leaves
  <2> HIDE DEF h
  <2> QED
    BY <2>2, <2>3 DEF TypeOK, Error, Deletion
<1>2. CASE \E t \in Thread : Timeout(t)
  <2>1. PICK t \in Thread : Timeout(t)
    BY <1>2
  <2>2. state[t] = "suspended" /\ Leaves(t, "ETIMEOUT") /\ UNCHANGED <<value, deletion>>
    BY <2>1 DEF Timeout, Waits, Leaves
  <2> QED
    BY <2>2 DEF TypeOK, Error
<1> QED
  BY <1>1, <1>2

\* A token is taken from a semaphore that has one.
LEMMA TokenTaken ==
    ASSUME SemInv, NEW s \in Sem, value[s] > 0, value' = [value EXCEPT ![s] = @ - 1]
    PROVE  /\ value' \in [Sem -> 0..MaxValue]
           /\ \A q \in Sem : value'[q] > 0 => value[q] > 0
<1>1. value \in [Sem -> 0..MaxValue] /\ value[s] - 1 \in 0..MaxValue
  BY SemaphoreAssumption DEF SemInv, TypeOK
<1> QED
  BY <1>1

\* The steps of rt_sem_delete that resume nobody.
Marks(s) == Delete(s) \/ DeleteTests(s) \/ DeleteAsserts(s) \/ DeleteFrees(s)

LEMMA DeletesIs == \A s \in Sem : Deletes(s) => Marks(s) \/ DeleteResumes(s)
  BY DEF Deletes, Marks

\* Every step keeps the invariant.
LEMMA SemNext == SemInv /\ [Next]_vars => SemInv'
<1> SUFFICES ASSUME SemInv, [Next]_vars PROVE SemInv'
  OBVIOUS
<1>1. ASSUME NEW t \in Thread, ThreadStep(t) PROVE SemInv'
  <2>1. CASE TakeReturns(t)
    <3>1. TypeOK'
      BY <2>1 DEF SemInv, TypeOK, TakeReturns, State, semVars
    <3>2. NoTokenWhileWaiting'
      BY <2>1 DEF SemInv, NoTokenWhileWaiting, TakeReturns, semVars
    <3>3. Waits'
      BY <2>1, SemaphoreAssumption DEF SemInv, Waits, TypeOK, TakeReturns, semVars
    <3> QED
      BY <3>1, <3>2, <3>3 DEF SemInv
  <2>2. ASSUME NEW s \in Sem, TakeNow(t, s) \/ TakeFails(t, s) PROVE SemInv'
    <3>1. /\ UNCHANGED <<waiting, sem, armed, state, error, deletion, prio>>
          /\ result' \in [Thread -> Error]
          /\ (value' = [value EXCEPT ![s] = @ - 1] /\ value[s] > 0) \/ UNCHANGED value
      BY <2>2 DEF SemInv, TypeOK, TakeNow, TakeFails, semVars, Error
    <3>2. /\ value' \in [Sem -> 0..MaxValue]
          /\ \A q \in Sem : value'[q] > 0 => value[q] > 0
      BY <3>1, TokenTaken DEF SemInv, TypeOK
    <3> QED
      BY <3>1, <3>2, ValueKeeps DEF SemInv, TypeOK
  <2> QED
    BY <1>1, <2>1, <2>2, TakeWaitsKeeps DEF ThreadStep
<1>2. ASSUME NEW s \in Sem, TakeIsr(s) PROVE SemInv'
  <2>1. /\ UNCHANGED <<waiting, sem, armed, state, error, deletion, prio, result>>
        /\ value' = [value EXCEPT ![s] = @ - 1] /\ value[s] > 0
    BY <1>2 DEF TakeIsr, threadVars
  <2>2. /\ value' \in [Sem -> 0..MaxValue]
        /\ \A q \in Sem : value'[q] > 0 => value[q] > 0
    BY <2>1, TokenTaken
  <2> QED
    BY <2>1, <2>2, ValueKeeps DEF SemInv, TypeOK
<1>3. ASSUME NEW s \in Sem, Release(s) PROVE SemInv'
  <2>1. CASE waiting[s] # <<>>
    BY <1>3, <2>1, ReleaseLeaves, LeavesKeeps, "EOK" \in Error DEF SemInv, TypeOK, Error
  <2>2. CASE waiting[s] = <<>>
    <3>1. /\ UNCHANGED <<waiting, sem, armed, state, error, deletion, prio, result>>
          /\ value' = [value EXCEPT ![s] = @ + 1] /\ value[s] < MaxValue
      BY <1>3, <2>2 DEF Release
    <3>2. value \in [Sem -> 0..MaxValue] /\ value[s] + 1 \in 0..MaxValue
      BY <3>1, SemaphoreAssumption DEF SemInv, TypeOK
    <3>3. /\ value' \in [Sem -> 0..MaxValue]
          /\ \A q \in Sem : value'[q] > 0 => value[q] > 0 \/ waiting[q] = <<>>
      BY <2>2, <3>1, <3>2
    <3> QED
      BY <3>1, <3>3, ValueKeeps DEF SemInv, TypeOK
  <2> QED
    BY <2>1, <2>2
<1>4. ASSUME NEW s \in Sem, Marks(s) PROVE SemInv'
  <2>1. /\ UNCHANGED <<value, waiting, sem, armed, state, error, prio, result>>
        /\ deletion' \in [Sem -> Deletion]
    BY <1>4 DEF SemInv, TypeOK, Marks, Delete, DeleteTests, DeleteAsserts, DeleteFrees,
                threadVars, Deletion
  <2> QED
    BY <2>1, ValueKeeps DEF SemInv, TypeOK
<1>5. CASE (\E s \in Sem : DeleteResumes(s)) \/ (\E t \in Thread : Timeout(t))
  BY <1>5, ErrorLeaves, LeavesKeeps
<1>6. CASE UNCHANGED vars
  BY <1>6, ValueKeeps DEF vars, semVars, threadVars, SemInv, TypeOK
<1>7. ASSUME NEW t \in Thread, NEW p \in Given[t], ChangePriority(t, p) PROVE SemInv'
  <2>1. /\ UNCHANGED <<value, waiting, deletion, state, sem, error, armed, result>>
        /\ prio' \in [Thread -> Nat]
    BY <1>7, SemaphoreAssumption DEF ChangePriority, semVars, SemInv, TypeOK
  <2> QED
    BY <2>1, ValueKeeps DEF SemInv, TypeOK
<1> QED
  BY <1>1, <1>2, <1>3, <1>4, <1>5, <1>6, <1>7, ResetKeeps, DeletesIs DEF Next

\* The invariant holds in every state.
LEMMA SemInvHolds == Spec => []SemInv
  BY SemInit, SemNext, PTL DEF Spec

\* Every variable keeps its type; the value stays within its bounds.
THEOREM SemaphoreTypes == Spec => []TypeOK
<1>1. SemInv => TypeOK
  BY DEF SemInv
<1> QED
  BY <1>1, SemInvHolds, PTL

\* No thread sleeps while a token lies unused.
THEOREM NoTokenWhileWaitingHolds == Spec => []NoTokenWhileWaiting
<1>1. SemInv => NoTokenWhileWaiting
  BY DEF SemInv
<1> QED
  BY <1>1, SemInvHolds, PTL

\* A thread is once on the list it waits on, and only a suspended thread has a
\* timer that can fire.
THEOREM WaitersAreSuspendedHolds == Spec => []WaitersAreSuspended
<1>1. SemInv => WaitersAreSuspended
  <2> SUFFICES ASSUME SemInv, NEW t \in Thread, NEW s \in Sem
               PROVE  /\ Cardinality({i \in 1..Len(waiting[s]) : waiting[s][i] = t})
                           = IF state[t] = "suspended" /\ sem[t] = s THEN 1 ELSE 0
                      /\ armed[t] => state[t] = "suspended"
    <3>1. SemInv => \A u \in Thread : armed[u] => state[u] = "suspended"
      BY DEF SemInv, Waits
    <3> QED
      BY <3>1 DEF WaitersAreSuspended
  <2> USE DEF SemInv, Waits
  <2> DEFINE places == {i \in 1..Len(waiting[s]) : waiting[s][i] = t}
  <2>1. CASE t \in Elements(waiting[s])
    <3>1. PICK i \in 1..Len(waiting[s]) : waiting[s][i] = t
      BY <2>1 DEF Elements
    <3>2. places = {i}
      BY <3>1 DEF Distinct
    <3>3. state[t] = "suspended" /\ sem[t] = s
      BY <2>1
    <3>4. Cardinality(places) = 1
      BY <3>2, FS_Singleton
    <3> HIDE DEF places
    <3> QED
      BY <3>3, <3>4 DEF places
  <2>2. CASE t \notin Elements(waiting[s])
    <3>1. places = {}
      BY <2>2 DEF Elements
    <3> QED
      BY <2>2, <3>1, FS_EmptySet
  <2> QED
    BY <2>1, <2>2
<1> QED
  BY <1>1, SemInvHolds, PTL

-----------------------------------------------------------------------------
(* Who is served first *)

\* What is taken off or put on a list leaves the others in their order.
LEMMA WithoutPrecedes ==
    ASSUME NEW S, NEW l \in Seq(S), NEW x, NEW y, NEW z, z # x, z # y, Precedes(l, x, y)
    PROVE  Precedes(Without(l, z), x, y)
<1>1. CASE z \notin Elements(l)
  BY <1>1, WithoutAbsent
<1>2. CASE z \in Elements(l)
  <2> DEFINE w == Without(l, z)
  <2>1. PICK k \in 1..Len(l) : l[k] = z /\ Skips(w, l, k)
    BY <1>2, WithoutShifts
  <2>2. PICK i, j \in 1..Len(l) : i < j /\ l[i] = x /\ l[j] = y
    BY DEF Precedes
  <2> HIDE DEF w
  <2> DEFINE at(h) == IF h < k THEN h ELSE h - 1
  <2>3. /\ Len(l) \in Nat /\ Len(w) = Len(l) - 1 /\ i # k /\ j # k
        /\ \A h \in 1..(Len(l) - 1) : w[h] = IF h < k THEN l[h] ELSE l[h + 1]
    BY <2>1, <2>2, LenProperties DEF Skips
  <2>4. /\ at(i) \in 1..Len(w) /\ at(j) \in 1..Len(w) /\ at(i) < at(j)
        /\ w[at(i)] = l[i] /\ w[at(j)] = l[j]
    BY <2>2, <2>3
  <2> HIDE DEF at
  <2>5. Precedes(w, x, y)
    BY <2>2, <2>4 DEF Precedes
  <2> QED
    BY <2>5 DEF w
<1> QED
  BY <1>1, <1>2

LEMMA AppendPrecedes ==
    ASSUME NEW S, NEW l \in Seq(S), NEW z \in S
    PROVE  /\ \A x, y : Precedes(l, x, y) => Precedes(Append(l, z), x, y)
           /\ \A x \in Elements(l) : Precedes(Append(l, z), x, z)
<1> DEFINE w == Append(l, z)
<1>1. /\ Len(l) \in Nat /\ Len(w) = Len(l) + 1
      /\ \A i \in 1..Len(l) : i \in 1..Len(w) /\ w[i] = l[i] /\ i < Len(w)
      /\ w[Len(w)] = z /\ Len(w) \in 1..Len(w)
  BY AppendProperties, LenProperties
<1> HIDE DEF w
<1>2. /\ \A x, y : Precedes(l, x, y) => Precedes(w, x, y)
      /\ \A x \in Elements(l) : Precedes(w, x, z)
  BY <1>1 DEF Precedes, Elements
<1> QED
  BY <1>2 DEF w

LEMMA InsertedPrecedes ==
    ASSUME NEW S, NEW l \in Seq(S), NEW z \in S, NEW k \in 1..Len(l)
    PROVE  /\ \A x, y : Precedes(l, x, y) => Precedes(InsertedAt(l, k, z), x, y)
           /\ \A i \in 1..(k - 1) : Precedes(InsertedAt(l, k, z), l[i], z)
<1> DEFINE w == InsertedAt(l, k, z)
           at(h) == IF h < k THEN h ELSE h + 1
<1>1. Widens(w, l, k, z) /\ Len(l) \in Nat
  BY InsertedShifts, LenProperties
<1> HIDE DEF w
<1>2. /\ \A h \in 1..Len(l) : at(h) \in 1..Len(w) /\ w[at(h)] = l[h]
      /\ \A i, j \in 1..Len(l) : i < j => at(i) < at(j)
      /\ \A i \in 1..(k - 1) : i \in 1..Len(l) /\ at(i) < k
      /\ w[k] = z /\ k \in 1..Len(w)
  BY <1>1 DEF Widens
<1> HIDE DEF at
<1>3. /\ \A x, y : Precedes(l, x, y) => Precedes(w, x, y)
      /\ \A i \in 1..(k - 1) : Precedes(w, l[i], z)
  BY <1>2 DEF Precedes
<1> QED
  BY <1>3 DEF w

\* A list of RT_IPC_FLAG_PRIO in the order of the priorities.
Sorted(l, flag) == flag = "PRIO" => Ordered(l, prio)

\* rt_ipc_list_suspend keeps the waiters in their order, puts the thread behind
\* everybody unless somebody at or before that place is of a lower priority, and
\* keeps the order of the priorities.
LEMMA EnqueuedPrecedes ==
    ASSUME prio \in [Thread -> Nat],
           NEW l \in Seq(Thread), NEW t \in Thread, NEW flag
    PROVE  /\ Sorted(l, flag) => Sorted(Enqueued(l, t, flag, prio), flag)
           /\ \A x, y : Precedes(l, x, y) => Precedes(Enqueued(l, t, flag, prio), x, y)
           /\ \A x \in Elements(l) :
                ~ (flag = "PRIO" /\ \E v \in Elements(l) :
                     prio[t] < prio[v] /\ (v = x \/ Precedes(l, v, x))) =>
                  Precedes(Enqueued(l, t, flag, prio), x, t)
<1> DEFINE behind == Behind(l, prio[t], prio)
           w == Enqueued(l, t, flag, prio)
<1>1. /\ Len(l) \in Nat /\ prio[t] \in Nat
      /\ \A i \in 1..Len(l) : l[i] \in Thread /\ prio[l[i]] \in Nat
  BY LenProperties, ElementOfSeq
<1>2. CASE flag = "PRIO" /\ behind # {}
  <2> DEFINE k == CHOOSE i \in behind : \A j \in behind : i <= j
  <2>1. behind \in SUBSET (0..Len(l))
    BY <1>1 DEF Behind
  <2>2. k \in behind /\ \A j \in behind : k <= j
    <3>1. \E i \in behind : \A j \in behind : i <= j
      BY <1>1, <1>2, <2>1, LeastElement
    <3> QED
      BY <3>1
  <2>3. w = InsertedAt(l, k, t)
    BY <1>2 DEF Enqueued
  <2> HIDE DEF k
  <2>4. k \in 1..Len(l) /\ prio[t] < prio[l[k]]
    BY <1>2, <2>2 DEF Behind
  <2>5. \A j \in 1..(k - 1) : prio[l[j]] <= prio[t]
    <3> SUFFICES ASSUME NEW j \in 1..(k - 1) PROVE prio[l[j]] <= prio[t]
      OBVIOUS
    <3>1. j \in 1..Len(l) /\ ~ (prio[t] < prio[l[j]])
      BY <1>1, <2>2, <2>4 DEF Behind
    <3> QED
      BY <1>1, <3>1
  <2>6. ASSUME Ordered(l, prio) PROVE Ordered(w, prio)
    <3>1. \A j \in k..Len(l) : prio[t] <= prio[l[j]]
      <4> SUFFICES ASSUME NEW j \in k..Len(l) PROVE prio[t] <= prio[l[j]]
        OBVIOUS
      <4>1. prio[l[k]] <= prio[l[j]] /\ j \in 1..Len(l)
        BY <1>1, <2>4, <2>6 DEF Ordered
      <4> QED
        BY <1>1, <2>4, <4>1
    <3> QED
      BY <1>1, <2>3, <2>4, <2>5, <2>6, <3>1, InsertedOrdered
  <2>7. /\ \A x, y : Precedes(l, x, y) => Precedes(w, x, y)
        /\ \A i \in 1..(k - 1) : Precedes(w, l[i], t)
    BY <2>3, <2>4, InsertedPrecedes
  <2>8. ASSUME NEW x \in Elements(l),
               \A v \in Elements(l) : v = x \/ Precedes(l, v, x) => ~ (prio[t] < prio[v])
        PROVE  Precedes(w, x, t)
    <3>1. PICK i \in 1..Len(l) : l[i] = x
      BY DEF Elements
    <3>2. l[k] \in Elements(l) /\ l[k] # x /\ ~ Precedes(l, l[k], x)
      BY <2>4, <2>8 DEF Elements
    <3>3. i # k /\ ~ (k < i)
      BY <2>4, <3>1, <3>2 DEF Precedes
    <3>4. i \in 1..(k - 1)
      BY <1>1, <2>4, <3>1, <3>3
    <3> QED
      BY <2>7, <3>1, <3>4
  <2> QED
    BY <1>2, <2>6, <2>7, <2>8 DEF Sorted
<1>3. CASE ~ (flag = "PRIO" /\ behind # {})
  <2>1. w = Append(l, t)
    BY <1>3 DEF Enqueued
  <2>2. /\ \A x, y : Precedes(l, x, y) => Precedes(w, x, y)
        /\ \A x \in Elements(l) : Precedes(w, x, t)
    BY <2>1, AppendPrecedes
  <2>3. ASSUME flag = "PRIO", Ordered(l, prio) PROVE Ordered(w, prio)
    <3>1. \A x \in Elements(l) : prio[x] <= prio[t]
      BY <1>1, <1>3, <2>3 DEF Behind, Elements
    <3> QED
      BY <2>1, <2>3, <3>1, AppendOrdered
  <2> QED
    BY <2>2, <2>3 DEF Sorted
<1> QED
  BY <1>2, <1>3

\* What a step does to a waiting list: nothing, or a thread is taken off or put
\* on, or all are taken off.
ListStep(s) ==
    \/ waiting'[s] = waiting[s]
    \/ waiting'[s] = <<>>
    \/ \E t \in Thread : waiting'[s] = Without(waiting[s], t)
    \/ \E t \in Thread \ Elements(waiting[s]) :
         waiting'[s] = Enqueued(waiting[s], t, Flag[s], prio)

LEMMA StepsOfLists ==
    ASSUME SemInv, [Next]_vars
    PROVE  \A s \in Sem : ListStep(s)
<1> USE DEF ListStep
<1>1. waiting \in [Sem -> Seq(Thread)]
  BY DEF SemInv, TypeOK
<1>2. ASSUME NEW t \in Thread, ThreadStep(t) PROVE \A s \in Sem : ListStep(s)
  <2>1. ASSUME NEW q \in Sem, NEW timed \in BOOLEAN, TakeWaits(t, q, timed)
        PROVE  \A s \in Sem : ListStep(s)
    <3>1. t \notin Elements(waiting[q])
      BY <2>1 DEF TakeWaits, SemInv, Waits
    <3>2. waiting' = [waiting EXCEPT ![q] = Enqueued(waiting[q], t, Flag[q], prio)]
      BY <2>1 DEF TakeWaits
    <3> QED
      BY <1>1, <3>1, <3>2
  <2> QED
    BY <1>2, <2>1 DEF ThreadStep, TakeReturns, TakeNow, TakeFails, semVars
<1>3. ASSUME NEW t \in Thread, Timeout(t) PROVE \A s \in Sem : ListStep(s)
  BY <1>3 DEF Timeout
<1>4. ASSUME NEW q \in Sem, Release(q) \/ DeleteResumes(q) PROVE \A s \in Sem : ListStep(s)
  <2>1. CASE waiting[q] # <<>>
    <3>1. Head(waiting[q]) \in Thread
      BY <2>1, FirstWaiter
    <3>2. Resume(Head(waiting[q]))
      BY <1>4, <2>1 DEF Release, DeleteResumes
    <3> QED
      BY <3>1, <3>2 DEF Resume
  <2>2. CASE waiting[q] = <<>>
    BY <1>4, <2>2 DEF Release, DeleteResumes
  <2> QED
    BY <2>1, <2>2
<1>5. ASSUME NEW q \in Sem, TakeIsr(q) \/ Marks(q)
      PROVE  \A s \in Sem : ListStep(s)
  BY <1>5 DEF TakeIsr, Marks, Delete, DeleteTests, DeleteAsserts, DeleteFrees
<1>6. ASSUME NEW q \in Sem, NEW v, Reset(q, v) PROVE \A s \in Sem : ListStep(s)
  BY <1>1, <1>6 DEF Reset
<1>7. ASSUME NEW t \in Thread, NEW p, ChangePriority(t, p) PROVE \A s \in Sem : ListStep(s)
  BY <1>7 DEF ChangePriority, semVars
<1>8. CASE UNCHANGED vars
  BY <1>8 DEF vars, semVars
<1> QED
  BY <1>2, <1>3, <1>4, <1>5, <1>6, <1>7, <1>8, DeletesIs DEF Next

\* A list is put in order only by rt_ipc_list_suspend, and put out of order only
\* by a change of a waiter's priority.
LEMMA InOrderIs ==
    ASSUME NEW s \in Sem, waiting[s] \in Seq(Thread), prio \in [Thread -> Nat]
    PROVE  InOrder(s) <=> Sorted(waiting[s], Flag[s])
<1>1. \A i \in 1..Len(waiting[s]) : prio[waiting[s][i]] \in Nat
  BY ElementOfSeq
<1>2. \A i, j \in 1..Len(waiting[s]) :
        ~ (prio[waiting[s][j]] < prio[waiting[s][i]]) <=>
          prio[waiting[s][i]] <= prio[waiting[s][j]]
  BY <1>1
<1> QED
  BY <1>2 DEF InOrder, Ahead, Sorted, Ordered

\* A step that changes priorities puts nobody on a list.
LEMMA PriorityStep ==
    ASSUME SemInv, [Next]_vars, prio' # prio
    PROVE  UNCHANGED waiting
<1>1. \E t \in Thread : \E p \in Given[t] : ChangePriority(t, p)
  BY DEF Next, ThreadStep, TakeReturns, TakeNow, TakeFails, TakeWaits, Timeout, Release, TakeIsr,
         Deletes, Delete, DeleteTests, DeleteResumes, DeleteAsserts, DeleteFrees, Reset,
         vars, threadVars
<1> QED
  BY <1>1 DEF ChangePriority, semVars

LEMMA OrderStays ==
    ASSUME SemInv, SemInv', [Next]_vars, NEW s \in Sem, InOrder(s),
           \A t \in Elements(waiting[s]) : prio'[t] = prio[t]
    PROVE  InOrder(s)'
<1> DEFINE l == waiting[s]
<1>1. /\ l \in Seq(Thread) /\ prio \in [Thread -> Nat] /\ ListStep(s)
      /\ waiting'[s] \in Seq(Thread) /\ prio' \in [Thread -> Nat]
  BY StepsOfLists DEF SemInv, TypeOK
<1>2. CASE prio' # prio
  <2>1. waiting'[s] = l
    BY <1>2, PriorityStep
  <2>2. \A i \in 1..Len(l) : prio'[l[i]] = prio[l[i]]
    BY DEF Elements
  <2> QED
    BY <2>1, <2>2 DEF InOrder, Ahead
<1>3. CASE prio' = prio
  <2>1. Sorted(l, Flag[s])
    BY <1>1, InOrderIs
  <2>2. Ordered(<<>>, prio)
    BY DEF Ordered
  <2>3. \A t \in Thread : /\ Sorted(Without(l, t), Flag[s])
                          /\ Sorted(Enqueued(l, t, Flag[s], prio), Flag[s])
    BY <1>1, <2>1, WithoutOrdered, EnqueuedPrecedes DEF Sorted
  <2>4. Sorted(waiting'[s], Flag[s])
    BY <1>1, <2>1, <2>2, <2>3 DEF ListStep, Sorted
  <2>5. \A i, j \in 1..Len(waiting'[s]) :
          i < j /\ Flag[s] = "PRIO" => ~ (prio[waiting'[s][j]] < prio[waiting'[s][i]])
    <3>1. \A i \in 1..Len(waiting'[s]) : prio[waiting'[s][i]] \in Nat
      BY <1>1, ElementOfSeq
    <3> QED
      BY <2>4, <3>1 DEF Sorted, Ordered
  <2> QED
    BY <1>3, <2>5 DEF InOrder, Ahead
<1> QED
  BY <1>2, <1>3

\* Nobody gets in front of a thread that waits, except by priority.
LEMMA NobodyOvertakes ==
    ASSUME SemInv, [Next]_vars, NEW s \in Sem,
           NEW u \in Elements(waiting'[s]), NEW t \in Elements(waiting[s]) \cap Elements(waiting'[s]),
           t # u,
           Precedes(waiting[s], t, u) \/ (u \notin Elements(waiting[s]) /\ NotAheadOfAny(s, t, u))
    PROVE  Precedes(waiting'[s], t, u)
<1> DEFINE l == waiting[s]
<1>1. l \in Seq(Thread) /\ Distinct(l) /\ ListStep(s) /\ prio \in [Thread -> Nat]
  BY StepsOfLists DEF SemInv, TypeOK, Waits
<1>2. CASE waiting'[s] = l
  BY <1>2
<1>3. CASE waiting'[s] = <<>>
  BY <1>3 DEF Elements
<1>4. ASSUME NEW x \in Thread, waiting'[s] = Without(l, x) PROVE Precedes(waiting'[s], t, u)
  <2>1. Elements(Without(l, x)) = Elements(l) \ {x}
    BY <1>1, WithoutDistinct
  <2>2. x # t /\ x # u /\ Precedes(l, t, u)
    BY <1>4, <2>1
  <2> QED
    BY <1>1, <1>4, <2>2, WithoutPrecedes
<1>5. ASSUME NEW x \in Thread \ Elements(l), waiting'[s] = Enqueued(l, x, Flag[s], prio)
      PROVE  Precedes(waiting'[s], t, u)
  <2>1. /\ \A y, z : Precedes(l, y, z) => Precedes(waiting'[s], y, z)
        /\ \A y \in Elements(l) :
             ~ (Flag[s] = "PRIO" /\ \E v \in Elements(l) :
                  prio[x] < prio[v] /\ (v = y \/ Precedes(l, v, y))) =>
               Precedes(waiting'[s], y, x)
    BY <1>1, <1>5, EnqueuedPrecedes
  <2>2. Elements(waiting'[s]) = Elements(l) \cup {x}
    BY <1>1, <1>5, EnqueuedElements
  <2>3. CASE Precedes(l, t, u)
    BY <2>1, <2>3
  <2>4. CASE u \notin Elements(l) /\ NotAheadOfAny(s, t, u)
    <3>1. u = x
      BY <2>2, <2>4
    <3> QED
      BY <2>1, <2>4, <3>1 DEF NotAheadOfAny, Ahead
  <2> QED
    BY <2>3, <2>4
<1> QED
  BY <1>1, <1>2, <1>3, <1>4, <1>5 DEF ListStep

\* A release serves the first thread of the list.
LEMMA FirstServed ==
    ASSUME SemInv, [Next]_vars, NEW s \in Sem, NEW t \in Elements(waiting[s]), Served(t),
           NEW u \in Elements(waiting'[s]) \ {t}
    PROVE  Precedes(waiting[s], t, u) /\ (InOrder(s) => ~ Ahead(s, u, t))
<1>0. t \in Thread /\ sem[t] = s
  <2>1. t \in Thread
    BY ElementOfSeq DEF Elements, SemInv, TypeOK
  <2> QED
    BY <2>1 DEF SemInv, Waits
<1>1. PICK q \in Sem : Release(q) /\ waiting[q] # <<>>
  <2>1. ASSUME NEW q \in Sem, NEW v, Reset(q, v) PROVE FALSE
    BY <1>0, <2>1 DEF Reset, Served
  <2>2. ASSUME NEW q \in Sem, DeleteResumes(q) PROVE FALSE
    <3> DEFINE h == Head(waiting[q])
    <3>1. /\ error \in [Thread -> Error] /\ state \in [Thread -> State]
          /\ error' = [error EXCEPT ![h] = "ERROR"]
          /\ state' = [state EXCEPT ![h] = "resumed"]
      BY <2>2 DEF DeleteResumes, Resume, SemInv, TypeOK
    <3> HIDE DEF h
    <3>2. t # h
      BY <1>0, <3>1 DEF Served
    <3> QED
      BY <1>0, <3>1, <3>2 DEF Served
  <2>3. ASSUME NEW q \in Thread, Timeout(q) PROVE FALSE
    <3>1. /\ error \in [Thread -> Error] /\ state \in [Thread -> State]
          /\ error' = [error EXCEPT ![q] = "ETIMEOUT"]
          /\ state' = [state EXCEPT ![q] = "resumed"]
      BY <2>3 DEF Timeout, SemInv, TypeOK
    <3>2. t # q
      BY <1>0, <3>1 DEF Served
    <3> QED
      BY <1>0, <3>1, <3>2 DEF Served
  <2>4. ASSUME NEW q \in Thread, ThreadStep(q) PROVE FALSE
    BY <1>0, <2>4 DEF ThreadStep, TakeReturns, TakeNow, TakeFails, TakeWaits, Served, SemInv, TypeOK
  <2>5. ASSUME NEW q \in Sem, TakeIsr(q) \/ Marks(q) PROVE FALSE
    BY <2>5 DEF TakeIsr, Marks, Delete, DeleteTests, DeleteAsserts, DeleteFrees, threadVars, Served
  <2>6. CASE UNCHANGED vars
    BY <2>6 DEF vars, threadVars, Served
  <2>7. ASSUME NEW q \in Sem, Release(q) PROVE waiting[q] # <<>>
    BY <2>7 DEF Release, Served
  <2>8. ASSUME NEW q \in Thread, NEW p, ChangePriority(q, p) PROVE FALSE
    BY <2>8 DEF ChangePriority, Served
  <2> QED
    BY <2>1, <2>2, <2>3, <2>4, <2>5, <2>6, <2>7, <2>8, DeletesIs DEF Next
<1> DEFINE l == waiting[s]
<1>2. /\ Head(waiting[q]) \in Thread /\ sem[Head(waiting[q])] = q
      /\ Resume(Head(waiting[q]))
  BY <1>1, FirstWaiter DEF Release
<1>3. t = Head(waiting[q])
  BY <1>0, <1>2 DEF Resume, Served, SemInv, TypeOK
<1>4. /\ l \in Seq(Thread) /\ l # <<>> /\ Distinct(l) /\ t = Head(l) /\ q = s
      /\ waiting'[s] = Without(l, t)
  BY <1>0, <1>1, <1>2, <1>3 DEF Resume, SemInv, TypeOK, Waits
<1>5. u \in Elements(l)
  BY <1>4, WithoutDistinct
<1>6. l[1] = t /\ 1 \in 1..Len(l) /\ Len(l) \in Nat
  BY <1>4, HeadTailProperties, EmptySeq, LenProperties
<1>7. PICK j \in 1..Len(l) : l[j] = u
  BY <1>5 DEF Elements
<1>8. 1 < j
  BY <1>6, <1>7
<1>9. InOrder(s) => ~ Ahead(s, u, t)
  BY <1>6, <1>7, <1>8 DEF InOrder
<1> QED
  BY <1>6, <1>7, <1>8, <1>9 DEF Precedes

\* A token goes to the first thread of the list; nobody overtakes but by priority;
\* and a list in the order of the priorities leaves it only when the priority of a
\* waiter changes, so that until then the first is one of the highest priority.
THEOREM BestWaiterFirstHolds == Spec => BestWaiterFirst
<1> DEFINE Fair ==
      \A s \in Sem :
         /\ \A t \in Elements(waiting[s]) : \A u \in Elements(waiting'[s]) \ {t} :
              /\ Served(t) => /\ Precedes(waiting[s], t, u)
                              /\ InOrder(s) => ~Ahead(s, u, t)
              /\ /\ t \in Elements(waiting'[s])
                 /\ \/ Precedes(waiting[s], t, u)
                    \/ u \notin Elements(waiting[s]) /\ NotAheadOfAny(s, t, u)
                 => Precedes(waiting'[s], t, u)
         /\ InOrder(s) /\ (\A t \in Elements(waiting[s]) : prio'[t] = prio[t])
              => InOrder(s)'
<1>1. SemInv /\ SemInv' /\ [Next]_vars => [Fair]_vars
  BY FirstServed, NobodyOvertakes, OrderStays
<1> QED
  BY <1>1, SemInvHolds, PTL DEF Spec, BestWaiterFirst

-----------------------------------------------------------------------------
(* The semaphore implements CountingSemaphore *)

\* The tokens of each semaphore, the granted ones included.
Avail == [s \in Sem |-> value[s] + Cardinality(Granted(s))]

\* Only finitely many tokens are granted.
LEMMA GrantedFinite ==
    ASSUME NEW s \in Sem
    PROVE  IsFiniteSet(Granted(s)) /\ Cardinality(Granted(s)) \in Nat
<1>1. IsFiniteSet(Granted(s))
  BY FS_Subset, SemaphoreAssumption DEF Granted
<1> QED
  BY <1>1, FS_CardinalityType

\* At first nothing is granted.
LEMMA CountingInit == Init => Counting!Init
<1> SUFFICES ASSUME Init PROVE Counting!Init
  OBVIOUS
<1>1. \A s \in Sem : Granted(s) = {}
  BY DEF Init, Granted
<1>2. Avail = InitValue
  <2>1. InitValue \in [Sem -> Int]
    BY SemaphoreAssumption
  <2>2. \A s \in Sem : Cardinality(Granted(s)) = 0
    BY <1>1, FS_EmptySet
  <2>3. Avail = [s \in Sem |-> InitValue[s]]
    BY <2>1, <2>2 DEF Init, Avail
  <2> QED
    BY <2>1, <2>3
<1> QED
  BY <1>2 DEF Init, Avail, Counting!Init

\* Only the tokens of s change.
LEMMA AvailOf ==
    ASSUME SemInv, NEW s \in Sem, NEW n \in Int,
           value' \in [Sem -> Int],
           \A q \in Sem \ {s} : value'[q] = value[q] /\ Granted(q)' = Granted(q),
           value'[s] + Cardinality(Granted(s)') = n
    PROVE  Avail' = [Avail EXCEPT ![s] = n]
  BY DEF Avail

\* A waiter that is resumed with an error gets no token.
LEMMA ErrorGrants ==
    ASSUME SemInv, NEW t \in Thread, state[t] = "suspended", NEW e \in Error \ {"EOK"},
           Leaves(t, e), NEW s \in Sem
    PROVE  Granted(s)' = Granted(s)
<1>1. \A u \in Thread : state'[u] = IF u = t THEN "resumed" ELSE state[u]
  BY DEF Leaves, SemInv, TypeOK
<1>2. \A u \in Thread : error'[u] = IF u = t THEN e ELSE error[u]
  BY DEF Leaves, SemInv, TypeOK
<1>3. sem' = sem
  BY DEF Leaves
<1> QED
  BY <1>1, <1>2, <1>3 DEF Granted

\* rt_sem_take, at once, that succeeds or fails, and the waiting one.
LEMMA CountingTakes ==
    ASSUME SemInv, NEW t \in Thread, NEW s \in Sem,
           TakeNow(t, s) \/ TakeFails(t, s) \/ (\E timed \in BOOLEAN : TakeWaits(t, s, timed))
    PROVE  Counting!Take(t, s) \/ Counting!Fail(t) \/ Counting!Ask(t, s)
<1> USE DEF SemInv
<1>1. state[t] = "run" /\ sem[t] = NoSem /\ value[s] \in Int /\ value \in [Sem -> Int]
      /\ (value[s] > 0 => value[s] \in Nat)
  BY SemaphoreAssumption DEF TakeNow, TakeFails, TakeWaits, Waits, TypeOK
<1>2. \A q \in Sem : Granted(q)' = Granted(q)
  <2>1. \A u \in Thread \ {t} : state'[u] = state[u] /\ sem'[u] = sem[u] /\ error'[u] = error[u]
    BY DEF TakeNow, TakeFails, TakeWaits, TypeOK, semVars
  <2>2. state'[t] # "resumed"
    BY <1>1 DEF TakeNow, TakeFails, TakeWaits, TypeOK, semVars
  <2> QED
    BY <1>1, <2>1, <2>2 DEF Granted
<1>3. CASE TakeNow(t, s)
  <2>1. Cardinality(Granted(s)) \in Nat
    BY GrantedFinite
  <2>2. value' = [value EXCEPT ![s] = @ - 1] /\ value[s] > 0 /\ sem' = sem
        /\ result' = [result EXCEPT ![t] = "EOK"]
    BY <1>3 DEF TakeNow
  <2>3. Avail[s] = value[s] + Cardinality(Granted(s)) /\ Avail[s] > 0
    BY <1>1, <2>1, <2>2 DEF Avail
  <2>4. Avail' = [Avail EXCEPT ![s] = Avail[s] - 1]
    BY <1>1, <1>2, <2>1, <2>2, <2>3, AvailOf
  <2>5. sem' = [sem EXCEPT ![t] = NoSem]
    BY <1>1, <2>2 DEF TypeOK
  <2> QED
    BY <1>1, <2>2, <2>3, <2>4, <2>5 DEF Counting!Take, Avail
<1>4. CASE TakeFails(t, s)
  <2>1. Avail' = Avail
    BY <1>2, <1>4 DEF TakeFails, semVars, Avail
  <2>2. sem' = [sem EXCEPT ![t] = NoSem] /\ result' = [result EXCEPT ![t] = "ETIMEOUT"]
    BY <1>1, <1>4 DEF TakeFails, TypeOK
  <2> QED
    BY <2>1, <2>2 DEF Counting!Fail, Avail
<1>5. ASSUME NEW timed \in BOOLEAN, TakeWaits(t, s, timed) PROVE Counting!Ask(t, s)
  <2>1. Avail' = Avail
    BY <1>2, <1>5 DEF TakeWaits, Avail
  <2>2. sem' = [sem EXCEPT ![t] = s] /\ result' = result
    BY <1>5 DEF TakeWaits
  <2> QED
    BY <1>1, <2>1, <2>2 DEF Counting!Ask, Avail
<1> QED
  BY <1>3, <1>4, <1>5

\* Removing a member of a finite set leaves one member fewer.
LEMMA OneFewer ==
    ASSUME NEW S, IsFiniteSet(S), NEW x \in S
    PROVE  /\ Cardinality(S) \in Nat
           /\ Cardinality(S \ {x}) = Cardinality(S) - 1
           /\ Cardinality(S) > 0
<1> DEFINE n == Cardinality(S)
<1>1. n \in Nat /\ n # 0
  BY FS_CardinalityType, FS_EmptySet
<1>2. Cardinality(S \ {x}) = n - 1
  BY FS_RemoveElement
<1> HIDE DEF n
<1>3. n > 0
  BY <1>1
<1> QED
  BY <1>1, <1>2, <1>3 DEF n

\* The end of rt_sem_take: a granted token is consumed now.
LEMMA CountingReturns ==
    ASSUME SemInv, NEW t \in Thread, TakeReturns(t)
    PROVE  Counting!Fail(t) \/ \E s \in Sem : Counting!Take(t, s)
<1> USE DEF SemInv
<1>1. /\ state[t] = "resumed" /\ sem[t] \in Sem
      /\ error[t] \in Error
      /\ UNCHANGED <<value, error>>
      /\ sem' = [sem EXCEPT ![t] = NoSem]
      /\ result' = [result EXCEPT ![t] = error[t]]
  BY DEF TakeReturns, Waits, TypeOK, semVars
<1> DEFINE s == sem[t]
<1>2. \A q \in Sem : Granted(q)' = Granted(q) \ {t}
  <2>1. \A u \in Thread : u # t => state'[u] = state[u] /\ sem'[u] = sem[u] /\ error'[u] = error[u]
    BY DEF TakeReturns, TypeOK, semVars
  <2>2. state'[t] # "resumed"
    BY DEF TakeReturns, TypeOK
  <2> QED
    BY <2>1, <2>2 DEF Granted
<1>3. \A q \in Sem : t \in Granted(q) <=> q = s /\ error[t] = "EOK"
  BY <1>1 DEF Granted
<1>4. CASE error[t] = "EOK"
  <2>1. \A q \in Sem \ {s} : Granted(q)' = Granted(q)
    BY <1>2, <1>3
  <2>2. /\ Cardinality(Granted(s)) \in Nat
        /\ Cardinality(Granted(s) \ {t}) = Cardinality(Granted(s)) - 1
        /\ Cardinality(Granted(s)) > 0
    <3>1. t \in Granted(s) /\ IsFiniteSet(Granted(s))
      BY <1>1, <1>3, <1>4, GrantedFinite
    <3> QED
      BY <3>1, OneFewer
  <2>3. PICK q \in Sem : q = s
    BY <1>1
  <2> HIDE DEF s
  <2>4. value[q] \in Nat /\ value' \in [Sem -> Int] /\ value' = value
    BY <1>1, SemaphoreAssumption DEF TypeOK
  <2>5. Avail[q] = value[q] + Cardinality(Granted(q)) /\ Avail[q] > 0 /\ Avail[q] - 1 \in Int
    BY <2>2, <2>3, <2>4 DEF Avail
  <2>6. Avail' = [Avail EXCEPT ![q] = Avail[q] - 1]
    <3>1. Granted(q)' = Granted(q) \ {t}
      BY <1>2
    <3>2. value'[q] + Cardinality(Granted(q)') = Avail[q] - 1
      BY <2>2, <2>3, <2>4, <2>5, <3>1
    <3> QED
      BY <2>1, <2>3, <2>4, <2>5, <3>2, AvailOf
  <2> QED
    BY <1>1, <1>4, <2>3, <2>5, <2>6 DEF Counting!Take, Avail, s
<1>5. CASE error[t] # "EOK"
  <2>1. \A q \in Sem : Granted(q)' = Granted(q)
    BY <1>2, <1>3, <1>5
  <2>2. Avail' = Avail
    BY <1>1, <2>1 DEF Avail
  <2> QED
    BY <1>1, <1>5, <2>2 DEF Counting!Fail, Avail, Error
<1> QED
  BY <1>4, <1>5

\* rt_sem_release: the token is granted to the first waiter, or kept.
LEMMA CountingRelease ==
    ASSUME SemInv, NEW s \in Sem, Release(s)
    PROVE  Counting!Release(s)
<1> USE DEF SemInv
<1>1. /\ value[s] \in Nat /\ value \in [Sem -> Int] /\ value[s] + 1 \in Int
      /\ Cardinality(Granted(s)) \in Nat
      /\ UNCHANGED <<sem, result>>
  BY GrantedFinite, SemaphoreAssumption DEF TypeOK, Release
<1>2. Avail[s] = value[s] + Cardinality(Granted(s)) /\ Avail[s] + 1 \in Int
  BY <1>1 DEF Avail
<1>3. /\ value' \in [Sem -> Int]
      /\ \A q \in Sem \ {s} : value'[q] = value[q] /\ Granted(q)' = Granted(q)
      /\ value'[s] + Cardinality(Granted(s)') = Avail[s] + 1
  <2>1. CASE waiting[s] # <<>>
    <3>1. PICK t \in Thread : state[t] = "suspended" /\ sem[t] = s /\ Leaves(t, "EOK")
      BY <2>1, ReleaseLeaves
    <3>2. value' = value
      BY <2>1, ReleaseLeaves
    <3>3. \A u \in Thread :
            /\ u # t => state'[u] = state[u] /\ error'[u] = error[u]
            /\ sem'[u] = sem[u]
      BY <3>1 DEF Leaves, TypeOK
    <3>4. state'[t] = "resumed" /\ error'[t] = "EOK" /\ state[t] # "resumed"
      BY <3>1 DEF Leaves, TypeOK
    <3>5. \A q \in Sem : Granted(q)' = Granted(q) \cup (IF q = s THEN {t} ELSE {})
      BY <3>1, <3>3, <3>4 DEF Granted
    <3>6. Cardinality(Granted(s) \cup {t}) = Cardinality(Granted(s)) + 1
      <4>1. t \notin Granted(s) /\ IsFiniteSet(Granted(s))
        BY <3>4, GrantedFinite DEF Granted
      <4> QED
        BY <4>1, FS_AddElement
    <3>7. Granted(s)' = Granted(s) \cup {t}
      BY <3>5
    <3>8. \A q \in Sem \ {s} : value'[q] = value[q] /\ Granted(q)' = Granted(q)
      BY <3>2, <3>5
    <3>9. Cardinality(Granted(s)') = Cardinality(Granted(s)) + 1
      BY <3>6, <3>7
    <3> QED
      BY <1>1, <1>2, <3>2, <3>8, <3>9
  <2>2. CASE waiting[s] = <<>>
    <3>1. value' = [value EXCEPT ![s] = @ + 1] /\ UNCHANGED <<state, error, sem>>
      BY <2>2 DEF Release
    <3>2. \A q \in Sem : Granted(q)' = Granted(q)
      BY <3>1 DEF Granted
    <3> QED
      BY <1>1, <1>2, <3>1, <3>2
  <2> QED
    BY <2>1, <2>2
<1>4. Avail' = [Avail EXCEPT ![s] = Avail[s] + 1]
  BY <1>2, <1>3, AvailOf
<1> QED
  BY <1>1, <1>4 DEF Counting!Release, Avail

\* A handler's rt_sem_trytake, and the reset.
LEMMA CountingOthers ==
    ASSUME SemInv, NEW s \in Sem
    PROVE  /\ TakeIsr(s) => Counting!TakeIsr(s)
           /\ \A v \in 0..MaxValue : Reset(s, v) => Counting!Reset(s)
<1> USE DEF SemInv
<1>1. /\ value[s] \in Nat /\ value \in [Sem -> Int] /\ value[s] - 1 \in Int
      /\ Cardinality(Granted(s)) \in Nat
      /\ Avail[s] = value[s] + Cardinality(Granted(s))
  BY GrantedFinite, SemaphoreAssumption DEF TypeOK, Avail
<1>2. ASSUME TakeIsr(s) PROVE Counting!TakeIsr(s)
  <2>1. value' = [value EXCEPT ![s] = @ - 1] /\ value[s] > 0
        /\ UNCHANGED <<state, sem, error, result>>
    BY <1>2 DEF TakeIsr, threadVars
  <2>2. \A q \in Sem : Granted(q)' = Granted(q)
    BY <2>1 DEF Granted
  <2>3. Avail' = [Avail EXCEPT ![s] = Avail[s] - 1] /\ Avail[s] > 0
    BY <1>1, <2>1, <2>2, AvailOf
  <2> QED
    BY <2>1, <2>3 DEF Counting!TakeIsr, Avail
<1>3. ASSUME NEW v \in 0..MaxValue, Reset(s, v) PROVE Counting!Reset(s)
  <2>1. value' = [value EXCEPT ![s] = v] /\ v \in Nat /\ UNCHANGED <<sem, result>>
    BY <1>3, SemaphoreAssumption DEF Reset
  <2>2. \A t \in Thread :
          \/ state'[t] = state[t] /\ error'[t] = error[t]
          \/ state[t] = "suspended" /\ error'[t] = "ERROR"
    BY <1>3 DEF Reset, Waits
  <2>3. \A q \in Sem : Granted(q)' = Granted(q)
    BY <2>1, <2>2 DEF Granted
  <2> DEFINE n == v + Cardinality(Granted(s))
  <2>4. Avail' = [Avail EXCEPT ![s] = n] /\ n \in Nat
    BY <1>1, <2>1, <2>3, AvailOf
  <2>5. Avail'[s] = n
    BY <2>4 DEF Avail
  <2>6. Avail'[s] \in Nat /\ Avail' = [Avail EXCEPT ![s] = Avail'[s]]
    BY <2>4, <2>5
  <2> QED
    BY <2>1, <2>6 DEF Counting!Reset, Avail
<1> QED
  BY <1>2, <1>3

\* Every step of the semaphore is a step of the abstract one, or none.
LEMMA CountingStep == SemInv /\ [Next]_vars => [Counting!Next]_(Counting!vars)
<1> SUFFICES ASSUME SemInv, [Next]_vars
             PROVE  Counting!Next \/ UNCHANGED <<Avail, sem, result>>
  BY DEF Counting!vars, Avail
<1>1. ASSUME UNCHANGED <<value, sem, result>>, \A s \in Sem : Granted(s)' = Granted(s)
      PROVE  UNCHANGED <<Avail, sem, result>>
  BY <1>1 DEF Avail
<1>2. ASSUME NEW t \in Thread, ThreadStep(t) PROVE Counting!Next
  BY <1>2, CountingTakes, CountingReturns DEF ThreadStep, Counting!Next
<1>3. ASSUME NEW s \in Sem, Release(s) PROVE Counting!Next
  BY <1>3, CountingRelease DEF Counting!Next
<1>4. ASSUME NEW s \in Sem,
             TakeIsr(s) \/ (s \in Resettable /\ \E v \in 0..MaxValue : Reset(s, v))
      PROVE  Counting!Next
  BY <1>4, CountingOthers DEF Counting!Next
<1>5. CASE \E s \in Sem : Marks(s)
  BY <1>1, <1>5 DEF Marks, Delete, DeleteTests, DeleteAsserts, DeleteFrees, threadVars, Granted
<1>6. CASE (\E s \in Sem : DeleteResumes(s)) \/ (\E t \in Thread : Timeout(t))
  BY <1>1, <1>6, ErrorLeaves, ErrorGrants DEF Leaves
<1>7. CASE UNCHANGED vars
  BY <1>1, <1>7 DEF vars, semVars, threadVars, Granted
<1>8. CASE \E t \in Thread : \E p \in Given[t] : ChangePriority(t, p)
  BY <1>1, <1>8 DEF ChangePriority, semVars, Granted
<1> QED
  BY <1>2, <1>3, <1>4, <1>5, <1>6, <1>7, <1>8, DeletesIs DEF Next

\* The semaphore of the code counts tokens as CountingSemaphore does.
THEOREM CountsTokensHolds == Spec => CountsTokens
  BY CountingInit, CountingStep, SemInvHolds, PTL
     DEF Spec, CountsTokens, Counting!Spec
=============================================================================
