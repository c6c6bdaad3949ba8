------------------------------ MODULE DemoProofs ------------------------------
(***************************************************************************)
(* The demo of a producer and a consumer implements a bounded buffer, for  *)
(* an array of any size and any quantity of numbers, on the semaphores as  *)
(* the kernel has them.                                                    *)
(*                                                                         *)
(* The mutual exclusion by the third semaphore is not needed for this: the *)
(* other two keep the threads at different places of the array.            *)
(***************************************************************************)
EXTENDS ProducerConsumer, SemaphoreProofs

\* The tokens of s that thread t can take, one that it was woken with included.
Tokens(s, t) == value[s] + (IF state[t] = "resumed" /\ sem[t] = s THEN 1 ELSE 0)

\* The semaphore that each thread takes for a place of the array.
Takes(s, t) == \/ s = empty /\ t = producer
               \/ s = full /\ t = consumer

One(b) == IF b THEN 1 ELSE 0

\* Whether t has taken a place and not given it to the other thread yet.
Holds(t) ==
    One(at[t] \in {"takeLock", "access", "advance", "releaseLock", "releaseLast"})

\* A thread that is inside rt_sem_take is inside the one of its program.
Inside(t, s) ==
    /\ sem[t] \in {NoSem, s, lock}
    /\ sem[t] = s => at[t] = "takeFirst"
    /\ sem[t] = lock => at[t] = "takeLock"

\* Every place is available, or with a thread; the numbers from get to set are in
\* places the producer has filled and the consumer has not emptied.
Places ==
    /\ Tokens(empty, producer) \in Nat /\ Tokens(full, consumer) \in Nat
    /\ Tokens(empty, producer) + Tokens(full, consumer)
         + Holds(producer) + Holds(consumer) = MAXSEM
    /\ set = get + Tokens(full, consumer)
                 + One(at[producer] \in {"releaseLock", "releaseLast"})
                 + One(at[consumer] \in {"takeLock", "access", "advance"})

\* The producer's loop.
Produced ==
    /\ cnt + One(at[producer] \in {"releaseLock", "releaseLast", "next"}) = set
    /\ IF at[producer] = "done" THEN cnt = Numbers ELSE cnt < Numbers

\* The numbers are where the consumer will look for them.
Stored ==
    /\ \A i \in get..(set - 1) : array[i % MAXSEM] = i + 1
    /\ at[producer] = "advance" => array[set % MAXSEM] = set + 1

DemoInv ==
    /\ SemInv
    /\ at \in [Thread -> At] /\ array \in [0..(MAXSEM - 1) -> Nat]
    /\ cnt \in Nat /\ set \in Nat /\ get \in Nat /\ sum \in Nat
    /\ Inside(producer, empty) /\ Inside(consumer, full)
    /\ Places /\ Produced /\ Stored

-----------------------------------------------------------------------------
(* The places of the array *)

\* Numbers less than a turn apart are at different places.
LEMMA DifferentPlaces ==
    ASSUME NEW i \in Nat, NEW j \in Nat, i < j, j - i < MAXSEM
    PROVE  i % MAXSEM # j % MAXSEM
<1> DEFINE m == MAXSEM
<1>1. m \in Nat \ {0}
  BY DemoAssumption
<1> HIDE DEF m
<1>2. /\ i = m * (i \div m) + (i % m) /\ j = m * (j \div m) + (j % m)
      /\ i \div m \in Int /\ j \div m \in Int /\ i % m \in Int /\ j % m \in Int
  BY <1>1
<1> DEFINE a == i \div m
           b == j \div m
<1>3. SUFFICES ASSUME i % m = j % m PROVE FALSE
  BY DEF m
<1>4. a \in Int /\ b \in Int /\ m * b - m * a = j - i
  BY <1>1, <1>2, <1>3
<1> HIDE DEF a, b
<1>5. m * (b - a) = m * b - m * a
  BY <1>1, <1>4
<1>6. 0 < m * (b - a) /\ m * (b - a) < m /\ b - a \in Int
  BY <1>4, <1>5 DEF m
<1> QED
  BY <1>1, <1>6, NoMultiple

\* A place is one of the array.
LEMMA PlaceIn ==
    ASSUME NEW i \in Nat
    PROVE  i % MAXSEM \in 0..(MAXSEM - 1)
  BY DemoAssumption

-----------------------------------------------------------------------------
(* The semaphores *)

\* The demo deletes no semaphore.
LEMMA DemoAlive ==
    /\ DemoInit => Alive
    /\ Alive /\ [DemoNext]_allVars => Alive'
<1>1. DemoInit => Alive
  BY DEF DemoInit, Init, Alive
<1>2. ASSUME Alive, [DemoNext]_allVars PROVE Alive'
  <2>1. ASSUME NEW t, NEW s, NEW from, NEW to, TakeForever(t, s, from, to)
        PROVE  UNCHANGED deletion
    BY <2>1 DEF TakeForever, TakeNow, TakeWaits, TakeReturns, semVars
  <2>2. ASSUME NEW t, NEW s, NEW from, NEW to, ReleaseAt(t, s, from, to)
        PROVE  UNCHANGED deletion
    BY <2>2 DEF ReleaseAt, Release
  <2>3. UNCHANGED deletion
    BY <1>2, <2>1, <2>2
       DEF DemoNext, ProducerStep, ConsumerStep, Store, AdvanceSet, NextNumber, Wakes,
           Load, AdvanceGet, TestGet, allVars, vars, semVars
  <2> QED
    BY <1>2, <2>3 DEF Alive
<1> QED
  BY <1>1, <1>2

\* The demo's steps are steps of the semaphores.
LEMMA DemoSemaphores == Alive /\ [DemoNext]_allVars => [Next]_vars
<1> SUFFICES ASSUME Alive, [DemoNext]_allVars PROVE [Next]_vars
  OBVIOUS
<1>1. {producer, consumer} \subseteq Thread /\ {empty, full, lock} \subseteq Sem
  BY DemoAssumption
<1>2. ASSUME NEW t \in Thread, NEW s \in Sem, NEW from, NEW to, TakeForever(t, s, from, to)
      PROVE  Next
  BY <1>2 DEF TakeForever, Next, ThreadStep
<1>3. ASSUME NEW t \in Thread, NEW s \in Sem, NEW from, NEW to, ReleaseAt(t, s, from, to)
      PROVE  Next
  BY <1>3 DEF ReleaseAt, Next
<1>4. ASSUME Store \/ AdvanceSet \/ NextNumber \/ Wakes(producer) PROVE UNCHANGED vars
  BY <1>4 DEF Store, AdvanceSet, NextNumber, Wakes
<1>5. ASSUME Load \/ AdvanceGet \/ TestGet \/ Wakes(consumer) PROVE UNCHANGED vars
  BY <1>5 DEF Load, AdvanceGet, TestGet, Wakes
<1> QED
  BY <1>1, <1>2, <1>3, <1>4, <1>5 DEF DemoNext, ProducerStep, ConsumerStep, allVars

\* What the invariant says of a thread and its semaphore.
LEMMA InsideIs ==
    ASSUME DemoInv, NEW s, NEW t, Takes(s, t)
    PROVE  /\ t \in Thread /\ s \in Sem /\ s # lock /\ Inside(t, s)
           /\ \A u \in Thread : sem[u] = s => u = t
           /\ value[s] \in Nat
<1>1. /\ Thread = {producer, consumer} /\ producer # consumer
      /\ Sem = {empty, full, lock} /\ empty # full /\ empty # lock /\ full # lock
      /\ NoSem \notin Sem
  BY DemoAssumption, SemaphoreAssumption
<1>2. value[s] \in Nat
  BY <1>1, SemaphoreAssumption DEF DemoInv, SemInv, TypeOK, Takes
<1> QED
  BY <1>1, <1>2 DEF DemoInv, Takes, Inside

\* rt_sem_take lets t go on with a token, or to sleep without one.
LEMMA TakeTokens ==
    ASSUME DemoInv, NEW t \in Thread, NEW s \in Sem, NEW from, NEW to,
           TakeForever(t, s, from, to), s = lock \/ Takes(s, t)
    PROVE  /\ UNCHANGED <<cnt, array, set, get, sum>> /\ at[t] = from
           /\ \A u \in Thread \ {t} : sem'[u] = sem[u]
           /\ \/ /\ at' = at /\ sem'[t] = s
                 /\ \A q, u : Takes(q, u) => Tokens(q, u)' = Tokens(q, u)
              \/ /\ at' = [at EXCEPT ![t] = to] /\ sem'[t] = NoSem
                 /\ \A q, u : Takes(q, u) => Tokens(q, u)' = Tokens(q, u) - One(q = s)
<1>1. /\ value \in [Sem -> 0..MaxValue] /\ state \in [Thread -> State]
      /\ sem \in [Thread -> Sem \cup {NoSem}] /\ NoSem \notin Sem /\ MaxValue \in Nat
      /\ state[t] = "run" <=> sem[t] = NoSem
  BY SemaphoreAssumption DEF DemoInv, SemInv, TypeOK, Waits
<1>2. \A q, u : Takes(q, u) =>
        u \in Thread /\ q \in Sem /\ q # lock /\ (q = s => u = t) /\ value[q] \in Nat
  <2> SUFFICES ASSUME NEW q, NEW u, Takes(q, u)
               PROVE  u \in Thread /\ q \in Sem /\ q # lock /\ (q = s => u = t) /\ value[q] \in Nat
    OBVIOUS
  <2>1. u \in Thread /\ q \in Sem /\ q # lock /\ value[q] \in Nat
    BY InsideIs
  <2>2. empty # full /\ producer # consumer
    BY DemoAssumption
  <2> QED
    BY <2>1, <2>2 DEF Takes
<1>3. CASE TakeNow(t, s) /\ at' = [at EXCEPT ![t] = to]
  <2>1. /\ value' = [value EXCEPT ![s] = @ - 1] /\ state' = state /\ sem' = sem
        /\ state[t] = "run"
    BY <1>3 DEF TakeNow
  <2>2. \A q, u : Takes(q, u) => Tokens(q, u)' = Tokens(q, u) - One(q = s)
    BY <1>1, <1>2, <2>1 DEF Tokens, One
  <2> QED
    BY <1>1, <1>3, <2>1, <2>2 DEF TakeForever
<1>4. CASE TakeWaits(t, s, FALSE) /\ UNCHANGED at
  <2>1. /\ value' = value /\ state' = [state EXCEPT ![t] = "suspended"]
        /\ sem' = [sem EXCEPT ![t] = s] /\ state[t] = "run"
    BY <1>4 DEF TakeWaits
  <2>2. \A q, u : Takes(q, u) => Tokens(q, u)' = Tokens(q, u)
    BY <1>1, <1>2, <2>1 DEF Tokens
  <2> QED
    BY <1>1, <1>4, <2>1, <2>2 DEF TakeForever
<1>5. CASE sem[t] = s /\ TakeReturns(t) /\ at' = [at EXCEPT ![t] = to]
  <2>1. /\ value' = value /\ state' = [state EXCEPT ![t] = "run"]
        /\ sem' = [sem EXCEPT ![t] = NoSem] /\ state[t] = "resumed"
    BY <1>5 DEF TakeReturns, semVars
  <2>2. \A q, u : Takes(q, u) => Tokens(q, u)' = Tokens(q, u) - One(q = s)
    BY <1>1, <1>2, <1>5, <2>1 DEF Tokens, One
  <2> QED
    BY <1>1, <1>5, <2>1, <2>2 DEF TakeForever
<1> QED
  BY <1>3, <1>4, <1>5 DEF TakeForever

\* rt_sem_release gives the thread that takes s a token more.
LEMMA ReleaseTokens ==
    ASSUME DemoInv, NEW t \in Thread, NEW s \in Sem, NEW from, NEW to,
           ReleaseAt(t, s, from, to)
    PROVE  /\ UNCHANGED <<cnt, array, set, get, sum, sem>> /\ Move(t, from, to)
           /\ \A q, u : Takes(q, u) => Tokens(q, u)' = Tokens(q, u) + One(q = s)
<1>1. /\ value \in [Sem -> 0..MaxValue] /\ state \in [Thread -> State]
      /\ Release(s) /\ sem' = sem
  BY DEF DemoInv, SemInv, TypeOK, ReleaseAt, Release
<1>2. \A q, u : Takes(q, u) =>
        /\ u \in Thread /\ q \in Sem /\ value[q] \in Nat
        /\ \A h \in Thread : sem[h] = q => h = u
  BY InsideIs
<1>3. CASE waiting[s] # <<>>
  <2> DEFINE h == Head(waiting[s])
  <2>1. h \in Thread /\ state[h] = "suspended" /\ sem[h] = s
    BY <1>3, FirstWaiter DEF DemoInv
  <2>2. value' = value /\ state' = [state EXCEPT ![h] = "resumed"]
    BY <1>1, <1>3 DEF Release, Resume
  <2> HIDE DEF h
  <2>3. \A q, u : Takes(q, u) => Tokens(q, u)' = Tokens(q, u) + One(q = s)
    BY <1>1, <1>2, <2>1, <2>2 DEF Tokens, One
  <2> QED
    BY <1>1, <2>3 DEF ReleaseAt
<1>4. CASE waiting[s] = <<>>
  <2>1. value' = [value EXCEPT ![s] = @ + 1] /\ state' = state
    BY <1>1, <1>4 DEF Release
  <2>2. \A q, u : Takes(q, u) => Tokens(q, u)' = Tokens(q, u) + One(q = s)
    BY <1>1, <1>2, <2>1 DEF Tokens, One
  <2> QED
    BY <1>1, <2>2 DEF ReleaseAt
<1> QED
  BY <1>3, <1>4

-----------------------------------------------------------------------------
(* The invariant *)

\* The names the demo has, as facts.
LEMMA DemoNames ==
    /\ Thread = {producer, consumer} /\ producer # consumer
    /\ Sem = {empty, full, lock} /\ empty # full /\ empty # lock /\ full # lock
    /\ NoSem \notin Sem /\ MAXSEM \in Nat \ {0} /\ Numbers \in Nat \ {0}
    /\ Takes(empty, producer) /\ Takes(full, consumer)
  BY DemoAssumption, SemaphoreAssumption DEF Takes

\* The demo begins with every place available.
LEMMA DemoInitInv == DemoInit => DemoInv
<1> SUFFICES ASSUME DemoInit PROVE DemoInv
  OBVIOUS
<1>1. SemInv
  BY SemInit DEF DemoInit
<1>2. /\ at[producer] = "takeFirst" /\ at[consumer] = "takeFirst"
      /\ at \in [Thread -> At] /\ array \in [0..(MAXSEM - 1) -> Nat]
  BY DemoNames DEF DemoInit, At
<1>3. Tokens(empty, producer) = MAXSEM /\ Tokens(full, consumer) = 0
  BY DemoNames, DemoAssumption DEF DemoInit, Init, Tokens
<1>4. Places
  BY <1>2, <1>3, DemoNames DEF DemoInit, Places, Holds, One
<1>5. Produced /\ Stored
  BY <1>2, DemoNames DEF DemoInit, Produced, Stored, One
<1>6. Inside(producer, empty) /\ Inside(consumer, full)
  BY DemoNames DEF DemoInit, Init, Inside
<1> QED
  BY <1>1, <1>2, <1>4, <1>5, <1>6 DEF DemoInv, DemoInit

\* The calls of rt_sem_take.
LEMMA DemoTakes ==
    ASSUME DemoInv, SemInv',
           \/ TakeForever(producer, empty, "takeFirst", "takeLock")
           \/ TakeForever(producer, lock, "takeLock", "access")
           \/ TakeForever(consumer, full, "takeFirst", "takeLock")
           \/ TakeForever(consumer, lock, "takeLock", "access")
    PROVE  DemoInv'
<1> DEFINE e == Tokens(empty, producer)
           f == Tokens(full, consumer)
<1>1. /\ Inside(producer, empty) /\ Inside(consumer, full)
      /\ e \in Nat /\ f \in Nat /\ at \in [Thread -> At]
      /\ array \in [0..(MAXSEM - 1) -> Nat]
      /\ cnt \in Nat /\ set \in Nat /\ get \in Nat /\ sum \in Nat
      /\ Places /\ Produced /\ Stored
  BY DEF DemoInv, Places
<1>2. /\ e' = (value[empty] + (IF state[producer] = "resumed" /\ sem[producer] = empty
                                 THEN 1 ELSE 0))'
      /\ f' = (value[full] + (IF state[consumer] = "resumed" /\ sem[consumer] = full
                                THEN 1 ELSE 0))'
  BY DEF Tokens
<1>3. e' \in Nat /\ f' \in Nat
  <2>1. value' \in [Sem -> 0..MaxValue] /\ MaxValue \in Nat
    BY SemaphoreAssumption DEF SemInv, TypeOK
  <2> QED
    BY <1>2, <2>1, DemoNames
<1> HIDE DEF e, f
<1>4. Places <=> /\ e \in Nat /\ f \in Nat
                 /\ e + f + Holds(producer) + Holds(consumer) = MAXSEM
                 /\ set = get + f + One(at[producer] \in {"releaseLock", "releaseLast"})
                              + One(at[consumer] \in {"takeLock", "access", "advance"})
  BY DEF Places, e, f
<1>5. Places' <=> /\ e' \in Nat /\ f' \in Nat
                  /\ e' + f' + Holds(producer)' + Holds(consumer)' = MAXSEM
                  /\ set' = get' + f' + One(at'[producer] \in {"releaseLock", "releaseLast"})
                               + One(at'[consumer] \in {"takeLock", "access", "advance"})
  BY DEF Places, e, f
<1>6. ASSUME NEW t \in Thread, NEW s \in Sem, NEW from, NEW to,
             TakeForever(t, s, from, to), s = lock \/ Takes(s, t)
      PROVE  /\ UNCHANGED <<cnt, array, set, get, sum>> /\ at[t] = from
             /\ \A u \in Thread \ {t} : sem'[u] = sem[u]
             /\ \/ at' = at /\ sem'[t] = s /\ e' = e /\ f' = f
                \/ /\ at' = [at EXCEPT ![t] = to] /\ sem'[t] = NoSem
                   /\ e' = (IF s = empty THEN e - 1 ELSE e)
                   /\ f' = (IF s = full THEN f - 1 ELSE f)
  <2>1. /\ (\A q, u : Takes(q, u) => Tokens(q, u)' = Tokens(q, u))
           => e' = e /\ f' = f
        /\ (\A q, u : Takes(q, u) => Tokens(q, u)' = Tokens(q, u) - One(q = s))
           => e' = e - One(empty = s) /\ f' = f - One(full = s)
    BY DemoNames DEF e, f
  <2>2. /\ e - One(empty = s) = (IF s = empty THEN e - 1 ELSE e)
        /\ f - One(full = s) = (IF s = full THEN f - 1 ELSE f)
    BY <1>1 DEF One
  <2> QED
    BY <1>6, <2>1, <2>2, TakeTokens
<1>7. CASE TakeForever(producer, empty, "takeFirst", "takeLock")
  <2>1. /\ UNCHANGED <<cnt, array, set, get, sum>> /\ at[producer] = "takeFirst"
        /\ sem'[consumer] = sem[consumer]
        /\ \/ at' = at /\ sem'[producer] = empty /\ e' = e /\ f' = f
           \/ /\ at' = [at EXCEPT ![producer] = "takeLock"] /\ sem'[producer] = NoSem
              /\ e' = e - 1 /\ f' = f
    BY <1>6, <1>7, DemoNames
  <2>2. Places'
    <3>1. CASE at' = at /\ e' = e /\ f' = f
      BY <1>1, <1>4, <1>5, <2>1, <3>1 DEF Holds
    <3>2. CASE at' = [at EXCEPT ![producer] = "takeLock"] /\ e' = e - 1 /\ f' = f
      <4>1. at'[producer] = "takeLock" /\ at'[consumer] = at[consumer]
        BY <1>1, <3>2, DemoNames
      <4>2. /\ Holds(producer) = 0 /\ Holds(producer)' = 1
            /\ Holds(consumer)' = Holds(consumer) /\ Holds(consumer) \in Nat
        BY <2>1, <4>1 DEF Holds, One
      <4>3. /\ One(at[producer] \in {"releaseLock", "releaseLast"}) = 0
            /\ One(at'[producer] \in {"releaseLock", "releaseLast"}) = 0
            /\ One(at'[consumer] \in {"takeLock", "access", "advance"})
                 = One(at[consumer] \in {"takeLock", "access", "advance"})
            /\ One(at[consumer] \in {"takeLock", "access", "advance"}) \in Nat
        BY <2>1, <4>1 DEF One
      <4>4. e' + f' + Holds(producer)' + Holds(consumer)' = MAXSEM
        BY <1>1, <1>4, <3>2, <4>2, DemoNames
      <4> QED
        BY <1>1, <1>3, <1>4, <1>5, <2>1, <3>2, <4>3, <4>4
    <3> QED
      BY <2>1, <3>1, <3>2
  <2>3. Produced' /\ Stored'
    BY <1>1, <2>1, DemoNames DEF Produced, Stored, One
  <2>4. Inside(producer, empty)' /\ Inside(consumer, full)'
    BY <1>1, <2>1, DemoNames DEF Inside
  <2>5. at' \in [Thread -> At]
    BY <1>1, <2>1 DEF At
  <2> QED
    BY <1>1, <2>1, <2>2, <2>3, <2>4, <2>5 DEF DemoInv
<1>8. CASE TakeForever(producer, lock, "takeLock", "access")
  <2>1. /\ UNCHANGED <<cnt, array, set, get, sum>> /\ at[producer] = "takeLock"
        /\ sem'[consumer] = sem[consumer]
        /\ \/ at' = at /\ sem'[producer] = lock /\ e' = e /\ f' = f
           \/ /\ at' = [at EXCEPT ![producer] = "access"] /\ sem'[producer] = NoSem
              /\ e' = e /\ f' = f
    BY <1>6, <1>8, DemoNames
  <2>2. Places'
    BY <1>1, <1>3, <1>4, <1>5, <2>1, DemoNames DEF Holds, One
  <2>3. Produced' /\ Stored'
    BY <1>1, <2>1, DemoNames DEF Produced, Stored, One
  <2>4. Inside(producer, empty)' /\ Inside(consumer, full)'
    BY <1>1, <2>1, DemoNames DEF Inside
  <2>5. at' \in [Thread -> At]
    BY <1>1, <2>1 DEF At
  <2> QED
    BY <1>1, <2>1, <2>2, <2>3, <2>4, <2>5 DEF DemoInv
<1>9. CASE TakeForever(consumer, full, "takeFirst", "takeLock")
  <2>1. /\ UNCHANGED <<cnt, array, set, get, sum>> /\ at[consumer] = "takeFirst"
        /\ sem'[producer] = sem[producer]
        /\ \/ at' = at /\ sem'[consumer] = full /\ e' = e /\ f' = f
           \/ /\ at' = [at EXCEPT ![consumer] = "takeLock"] /\ sem'[consumer] = NoSem
              /\ e' = e /\ f' = f - 1
    BY <1>6, <1>9, DemoNames
  <2>2. Places'
    <3>1. CASE at' = at /\ e' = e /\ f' = f
      BY <1>1, <1>4, <1>5, <2>1, <3>1 DEF Holds
    <3>2. CASE at' = [at EXCEPT ![consumer] = "takeLock"] /\ f' = f - 1 /\ e' = e
      <4>1. at'[consumer] = "takeLock" /\ at'[producer] = at[producer]
        BY <1>1, <3>2, DemoNames
      <4>2. /\ Holds(consumer) = 0 /\ Holds(consumer)' = 1
            /\ Holds(producer)' = Holds(producer) /\ Holds(producer) \in Nat
        BY <2>1, <4>1 DEF Holds, One
      <4>3. /\ One(at[consumer] \in {"takeLock", "access", "advance"}) = 0
            /\ One(at'[consumer] \in {"takeLock", "access", "advance"}) = 1
            /\ One(at'[producer] \in {"releaseLock", "releaseLast"})
                 = One(at[producer] \in {"releaseLock", "releaseLast"})
            /\ One(at[producer] \in {"releaseLock", "releaseLast"}) \in Nat
        BY <2>1, <4>1 DEF One
      <4>4. e' + f' + Holds(producer)' + Holds(consumer)' = MAXSEM
        BY <1>1, <1>4, <3>2, <4>2, DemoNames
      <4> QED
        BY <1>1, <1>3, <1>4, <1>5, <2>1, <3>2, <4>3, <4>4
    <3> QED
      BY <2>1, <3>1, <3>2
  <2>3. Produced' /\ Stored'
    BY <1>1, <2>1, DemoNames DEF Produced, Stored, One
  <2>4. Inside(producer, empty)' /\ Inside(consumer, full)'
    BY <1>1, <2>1, DemoNames DEF Inside
  <2>5. at' \in [Thread -> At]
    BY <1>1, <2>1 DEF At
  <2> QED
    BY <1>1, <2>1, <2>2, <2>3, <2>4, <2>5 DEF DemoInv
<1>10. CASE TakeForever(consumer, lock, "takeLock", "access")
  <2>1. /\ UNCHANGED <<cnt, array, set, get, sum>> /\ at[consumer] = "takeLock"
        /\ sem'[producer] = sem[producer]
        /\ \/ at' = at /\ sem'[consumer] = lock /\ e' = e /\ f' = f
           \/ /\ at' = [at EXCEPT ![consumer] = "access"] /\ sem'[consumer] = NoSem
              /\ e' = e /\ f' = f
    BY <1>6, <1>10, DemoNames
  <2>2. Places'
    BY <1>1, <1>3, <1>4, <1>5, <2>1, DemoNames DEF Holds, One
  <2>3. Produced' /\ Stored'
    BY <1>1, <2>1, DemoNames DEF Produced, Stored, One
  <2>4. Inside(producer, empty)' /\ Inside(consumer, full)'
    BY <1>1, <2>1, DemoNames DEF Inside
  <2>5. at' \in [Thread -> At]
    BY <1>1, <2>1 DEF At
  <2> QED
    BY <1>1, <2>1, <2>2, <2>3, <2>4, <2>5 DEF DemoInv
<1> QED
  BY <1>7, <1>8, <1>9, <1>10

\* The calls of rt_sem_release.
LEMMA DemoReleases ==
    ASSUME DemoInv, SemInv',
           \/ ReleaseAt(producer, lock, "releaseLock", "releaseLast")
           \/ ReleaseAt(producer, full, "releaseLast", "next")
           \/ ReleaseAt(consumer, lock, "releaseLock", "releaseLast")
           \/ ReleaseAt(consumer, empty, "releaseLast", "next")
    PROVE  DemoInv'
<1> DEFINE e == Tokens(empty, producer)
           f == Tokens(full, consumer)
<1>1. /\ Inside(producer, empty) /\ Inside(consumer, full)
      /\ e \in Nat /\ f \in Nat /\ at \in [Thread -> At]
      /\ array \in [0..(MAXSEM - 1) -> Nat]
      /\ cnt \in Nat /\ set \in Nat /\ get \in Nat /\ sum \in Nat
      /\ Places /\ Produced /\ Stored
  BY DEF DemoInv, Places
<1>2. PICK t \in Thread, s \in Sem, from \in At, to \in At :
        /\ ReleaseAt(t, s, from, to)
        /\ \/ /\ t = producer /\ s = lock
              /\ from = "releaseLock" /\ to = "releaseLast"
           \/ /\ t = producer /\ s = full
              /\ from = "releaseLast" /\ to = "next"
           \/ /\ t = consumer /\ s = lock
              /\ from = "releaseLock" /\ to = "releaseLast"
           \/ /\ t = consumer /\ s = empty
              /\ from = "releaseLast" /\ to = "next"
  BY DemoNames DEF At
<1>3. /\ UNCHANGED <<cnt, array, set, get, sum, sem>> /\ Move(t, from, to)
      /\ \A q, u : Takes(q, u) => Tokens(q, u)' = Tokens(q, u) + One(q = s)
  BY <1>2, ReleaseTokens
<1>4. e' = e + One(empty = s) /\ f' = f + One(full = s)
  BY <1>3, DemoNames
<1>5. One(empty = s) = (IF s = empty THEN 1 ELSE 0) /\ One(full = s) = (IF s = full THEN 1 ELSE 0)
  BY DEF One
<1>6. at[t] = from /\ at'[t] = to /\ \A u \in Thread \ {t} : at'[u] = at[u]
  BY <1>1, <1>2, <1>3 DEF Move
<1>7. /\ e \in Nat /\ f \in Nat
      /\ e + f + Holds(producer) + Holds(consumer) = MAXSEM
      /\ set = get + f + One(at[producer] \in {"releaseLock", "releaseLast"})
                   + One(at[consumer] \in {"takeLock", "access", "advance"})
  BY <1>1 DEF Places
<1>8. /\ e' \in Nat /\ f' \in Nat
      /\ e' + f' + Holds(producer)' + Holds(consumer)' = MAXSEM
      /\ set' = get' + f' + One(at'[producer] \in {"releaseLock", "releaseLast"})
                    + One(at'[consumer] \in {"takeLock", "access", "advance"})
      => Places'
  BY DEF Places
<1> HIDE DEF e, f
<1>9. Places'
  <2>1. CASE t = producer
    <3>1. (s = lock /\ from = "releaseLock") \/ (s = full /\ from = "releaseLast")
      BY <1>2, <2>1, DemoNames
    <3>2. /\ Holds(producer) = 1 /\ Holds(producer)' = One(s = lock)
          /\ Holds(consumer)' = Holds(consumer) /\ Holds(consumer) \in Nat
          /\ One(at[producer] \in {"releaseLock", "releaseLast"}) = 1
          /\ One(at'[producer] \in {"releaseLock", "releaseLast"}) = One(s = lock)
          /\ One(at'[consumer] \in {"takeLock", "access", "advance"})
               = One(at[consumer] \in {"takeLock", "access", "advance"})
          /\ One(at[consumer] \in {"takeLock", "access", "advance"}) \in Nat
      BY <1>2, <1>6, <2>1, DemoNames DEF Holds, One
    <3>3. /\ s = lock => e' = e /\ f' = f /\ One(s = lock) = 1
          /\ s = full => e' = e /\ f' = f + 1 /\ One(s = lock) = 0
      BY <1>1, <1>4, <1>5, DemoNames DEF One
    <3> QED
      BY <1>1, <1>3, <1>7, <1>8, <3>1, <3>2, <3>3
  <2>2. CASE t = consumer
    <3>1. (s = lock /\ from = "releaseLock") \/ (s = empty /\ from = "releaseLast")
      BY <1>2, <2>2, DemoNames
    <3>2. /\ Holds(consumer) = 1 /\ Holds(consumer)' = One(s = lock)
          /\ Holds(producer)' = Holds(producer) /\ Holds(producer) \in Nat
          /\ One(at[consumer] \in {"takeLock", "access", "advance"}) = 0
          /\ One(at'[consumer] \in {"takeLock", "access", "advance"}) = 0
          /\ One(at'[producer] \in {"releaseLock", "releaseLast"})
               = One(at[producer] \in {"releaseLock", "releaseLast"})
          /\ One(at[producer] \in {"releaseLock", "releaseLast"}) \in Nat
      BY <1>2, <1>6, <2>2, DemoNames DEF Holds, One
    <3>3. /\ s = lock => e' = e /\ f' = f /\ One(s = lock) = 1
          /\ s = empty => e' = e + 1 /\ f' = f /\ One(s = lock) = 0
      BY <1>1, <1>4, <1>5, DemoNames DEF One
    <3> QED
      BY <1>1, <1>3, <1>7, <1>8, <3>1, <3>2, <3>3
  <2> QED
    BY <2>1, <2>2, DemoNames
<1>10. Produced' /\ Stored'
  BY <1>1, <1>2, <1>3, <1>6, DemoNames DEF Produced, Stored, One
<1>11. Inside(producer, empty)' /\ Inside(consumer, full)'
  BY <1>1, <1>2, <1>3, <1>6, DemoNames DEF Inside
<1>12. at' \in [Thread -> At]
  BY <1>1, <1>2, <1>3 DEF Move
<1> QED
  BY <1>1, <1>3, <1>9, <1>10, <1>11, <1>12 DEF DemoInv

\* A step of one thread that leaves the semaphores alone.
LEMMA DemoMoves ==
    ASSUME DemoInv, UNCHANGED vars, NEW t \in Thread, NEW from, NEW to \in At,
           Move(t, from, to), from \notin {"takeFirst", "takeLock"}
    PROVE  /\ SemInv' /\ at' \in [Thread -> At]
           /\ Inside(producer, empty)' /\ Inside(consumer, full)'
           /\ Tokens(empty, producer)' = Tokens(empty, producer)
           /\ Tokens(full, consumer)' = Tokens(full, consumer)
           /\ at[t] = from /\ at'[t] = to /\ \A u \in Thread \ {t} : at'[u] = at[u]
<1>1. SemInv'
  BY SemNext DEF DemoInv
<1>2. at' \in [Thread -> At] /\ at[t] = from /\ at'[t] = to
      /\ \A u \in Thread \ {t} : at'[u] = at[u]
  BY DEF DemoInv, Move
<1>3. sem' = sem /\ value' = value /\ state' = state
  BY DEF vars, semVars, threadVars
<1>4. Inside(producer, empty)' /\ Inside(consumer, full)'
  BY <1>2, <1>3, DemoNames DEF Inside, DemoInv
<1> QED
  BY <1>1, <1>2, <1>3, <1>4 DEF Tokens

\* The steps of the producer between its calls.
LEMMA ProducerKeeps ==
    ASSUME DemoInv, Store \/ AdvanceSet \/ NextNumber \/ Wakes(producer)
    PROVE  DemoInv'
<1> DEFINE e == Tokens(empty, producer)
           f == Tokens(full, consumer)
<1>1. /\ array \in [0..(MAXSEM - 1) -> Nat]
      /\ cnt \in Nat /\ set \in Nat /\ get \in Nat /\ sum \in Nat
      /\ Places /\ Produced /\ Stored
  BY DEF DemoInv
<1>2. UNCHANGED vars
  BY DEF Store, AdvanceSet, NextNumber, Wakes
<1>3. PICK from \in At, to \in At :
        /\ Move(producer, from, to)
        /\ \/ from = "access" /\ to = "advance" /\ Store
           \/ from = "advance" /\ to = "releaseLock" /\ AdvanceSet
           \/ /\ from = "next" /\ to = (IF cnt + 1 < Numbers THEN "sleep" ELSE "done")
              /\ NextNumber
           \/ from = "sleep" /\ to = "takeFirst" /\ Wakes(producer)
  BY DEF Store, AdvanceSet, NextNumber, Wakes, At
<1>4. /\ SemInv' /\ at' \in [Thread -> At]
      /\ Inside(producer, empty)' /\ Inside(consumer, full)'
      /\ e' = e /\ f' = f
      /\ at[producer] = from /\ at'[producer] = to /\ at'[consumer] = at[consumer]
  BY <1>2, <1>3, DemoMoves, DemoNames
<1>5. /\ e \in Nat /\ f \in Nat
      /\ e + f + Holds(producer) + Holds(consumer) = MAXSEM
      /\ set = get + f + One(at[producer] \in {"releaseLock", "releaseLast"})
                   + One(at[consumer] \in {"takeLock", "access", "advance"})
  BY <1>1 DEF Places
<1>6. /\ e' + f' + Holds(producer)' + Holds(consumer)' = MAXSEM
      /\ set' = get' + f' + One(at'[producer] \in {"releaseLock", "releaseLast"})
                    + One(at'[consumer] \in {"takeLock", "access", "advance"})
      => Places'
  BY <1>4, <1>5 DEF Places
<1> HIDE DEF e, f
<1>7. /\ Holds(consumer)' = Holds(consumer) /\ Holds(consumer) \in Nat
      /\ One(at'[consumer] \in {"takeLock", "access", "advance"})
           = One(at[consumer] \in {"takeLock", "access", "advance"})
      /\ One(at[consumer] \in {"takeLock", "access", "advance"}) \in 0..Holds(consumer)
  BY <1>4 DEF Holds, One
<1>8. CASE from = "access" /\ Store
  <2>1. /\ UNCHANGED <<cnt, set, get, sum>> /\ to = "advance"
        /\ array' = [array EXCEPT ![set % MAXSEM] = cnt + 1]
    BY <1>3, <1>8 DEF Store
  <2>2. Holds(producer)' = 1 /\ Holds(producer) = 1
        /\ One(at[producer] \in {"releaseLock", "releaseLast"}) = 0
        /\ One(at'[producer] \in {"releaseLock", "releaseLast"}) = 0
    BY <1>4, <1>8, <2>1 DEF Holds, One
  <2>3. Places'
    BY <1>1, <1>4, <1>5, <1>6, <1>7, <2>1, <2>2
  <2>4. cnt = set
    BY <1>1, <1>4, <1>8 DEF Produced, One
  <2>5. set - get < MAXSEM
    BY <1>1, <1>5, <1>7, <2>2, DemoNames
  <2>6. array' \in [0..(MAXSEM - 1) -> Nat] /\ array'[set % MAXSEM] = set + 1
    <3>1. set % MAXSEM \in 0..(MAXSEM - 1)
      BY <1>1, PlaceIn
    <3>2. set + 1 \in Nat
      BY <1>1
    <3> QED
      BY <1>1, <2>1, <2>4, <3>1, <3>2
  <2>7. ASSUME NEW i \in get..(set - 1) PROVE array'[i % MAXSEM] = i + 1
    <3>1. i \in Nat /\ i < set /\ set - i < MAXSEM
      BY <1>1, <2>5, DemoNames
    <3>2. i % MAXSEM # set % MAXSEM /\ i % MAXSEM \in 0..(MAXSEM - 1)
      BY <1>1, <3>1, DifferentPlaces, PlaceIn
    <3> QED
      BY <1>1, <2>1, <3>2 DEF Stored
  <2>8. Stored'
    BY <2>1, <2>6, <2>7 DEF Stored
  <2>9. Produced'
    BY <1>1, <1>4, <1>8, <2>1 DEF Produced, One
  <2> QED
    BY <1>1, <1>4, <2>1, <2>3, <2>6, <2>8, <2>9 DEF DemoInv
<1>9. CASE from = "advance" /\ AdvanceSet
  <2>1. UNCHANGED <<cnt, array, get, sum>> /\ to = "releaseLock" /\ set' = set + 1
    BY <1>3, <1>9 DEF AdvanceSet
  <2>2. Holds(producer)' = 1 /\ Holds(producer) = 1
        /\ One(at[producer] \in {"releaseLock", "releaseLast"}) = 0
        /\ One(at'[producer] \in {"releaseLock", "releaseLast"}) = 1
    BY <1>4, <1>9, <2>1 DEF Holds, One
  <2>3. Places'
    BY <1>1, <1>4, <1>5, <1>6, <1>7, <2>1, <2>2
  <2>4. Stored'
    <3>1. \A i \in get..set : i \in get..(set - 1) \/ i = set
      BY <1>1
    <3>2. array[set % MAXSEM] = set + 1
      BY <1>1, <1>4, <1>9 DEF Stored
    <3>3. \A i \in get..set : array[i % MAXSEM] = i + 1
      BY <1>1, <3>1, <3>2 DEF Stored
    <3>4. (set + 1) - 1 = set
      BY <1>1
    <3> QED
      BY <1>4, <2>1, <3>3, <3>4 DEF Stored
  <2>5. Produced'
    BY <1>1, <1>4, <1>9, <2>1 DEF Produced, One
  <2> QED
    BY <1>1, <1>4, <2>1, <2>3, <2>4, <2>5 DEF DemoInv
<1>10. CASE from \in {"next", "sleep"} /\ (NextNumber \/ Wakes(producer))
  <2>1. /\ UNCHANGED <<array, set, get, sum>> /\ to \in {"sleep", "done", "takeFirst"}
        /\ cnt' = IF from = "next" THEN cnt + 1 ELSE cnt
        /\ from = "next" => to = (IF cnt + 1 < Numbers THEN "sleep" ELSE "done")
        /\ from = "sleep" => to = "takeFirst"
    BY <1>3, <1>10 DEF NextNumber, Wakes, Move
  <2>2. Holds(producer)' = 0 /\ Holds(producer) = 0
        /\ One(at[producer] \in {"releaseLock", "releaseLast"}) = 0
        /\ One(at'[producer] \in {"releaseLock", "releaseLast"}) = 0
    BY <1>4, <1>10, <2>1 DEF Holds, One
  <2>3. Places'
    BY <1>1, <1>4, <1>5, <1>6, <1>7, <2>1, <2>2
  <2>4. Produced' /\ Stored'
    BY <1>1, <1>4, <1>10, <2>1, DemoNames DEF Produced, Stored, One
  <2> QED
    BY <1>1, <1>4, <2>1, <2>3, <2>4 DEF DemoInv
<1> QED
  BY <1>3, <1>8, <1>9, <1>10

\* The steps of the consumer between its calls.
LEMMA ConsumerKeeps ==
    ASSUME DemoInv, Load \/ AdvanceGet \/ TestGet \/ Wakes(consumer)
    PROVE  DemoInv'
<1> DEFINE e == Tokens(empty, producer)
           f == Tokens(full, consumer)
<1>1. /\ array \in [0..(MAXSEM - 1) -> Nat]
      /\ cnt \in Nat /\ set \in Nat /\ get \in Nat /\ sum \in Nat
      /\ Places /\ Produced /\ Stored
  BY DEF DemoInv
<1>2. UNCHANGED vars
  BY DEF Load, AdvanceGet, TestGet, Wakes
<1>3. PICK from \in At, to \in At :
        /\ Move(consumer, from, to)
        /\ \/ from = "access" /\ to = "advance" /\ Load
           \/ from = "advance" /\ to = "releaseLock" /\ AdvanceGet
           \/ from = "next" /\ to \in {"done", "sleep"} /\ TestGet
           \/ from = "sleep" /\ to = "takeFirst" /\ Wakes(consumer)
  BY DEF Load, AdvanceGet, TestGet, Wakes, At
<1>4. /\ SemInv' /\ at' \in [Thread -> At]
      /\ Inside(producer, empty)' /\ Inside(consumer, full)'
      /\ e' = e /\ f' = f
      /\ at[consumer] = from /\ at'[consumer] = to /\ at'[producer] = at[producer]
  BY <1>2, <1>3, DemoMoves, DemoNames
<1>5. /\ e \in Nat /\ f \in Nat
      /\ e + f + Holds(producer) + Holds(consumer) = MAXSEM
      /\ set = get + f + One(at[producer] \in {"releaseLock", "releaseLast"})
                   + One(at[consumer] \in {"takeLock", "access", "advance"})
  BY <1>1 DEF Places
<1>6. /\ e' + f' + Holds(producer)' + Holds(consumer)' = MAXSEM
      /\ set' = get' + f' + One(at'[producer] \in {"releaseLock", "releaseLast"})
                    + One(at'[consumer] \in {"takeLock", "access", "advance"})
      => Places'
  BY <1>4, <1>5 DEF Places
<1> HIDE DEF e, f
<1>7. /\ Holds(producer)' = Holds(producer) /\ Holds(producer) \in Nat
      /\ One(at'[producer] \in {"releaseLock", "releaseLast"})
           = One(at[producer] \in {"releaseLock", "releaseLast"})
      /\ One(at[producer] \in {"releaseLock", "releaseLast"}) \in Nat
  BY <1>4 DEF Holds, One
<1>8. UNCHANGED <<cnt, array, set>>
  BY DEF Load, AdvanceGet, TestGet, Wakes
<1>9. Holds(consumer)' = Holds(consumer) /\ Holds(consumer) \in Nat
  BY <1>3, <1>4 DEF Holds, One
<1>10. Produced'
  BY <1>1, <1>4, <1>8 DEF Produced, One
<1>11. CASE from = "advance" /\ AdvanceGet
  <2>1. UNCHANGED sum /\ to = "releaseLock" /\ get' = get + 1
    BY <1>3, <1>11 DEF AdvanceGet
  <2>2. /\ One(at[consumer] \in {"takeLock", "access", "advance"}) = 1
        /\ One(at'[consumer] \in {"takeLock", "access", "advance"}) = 0
    BY <1>4, <1>11, <2>1 DEF One
  <2>3. Places'
    BY <1>1, <1>4, <1>5, <1>6, <1>7, <1>8, <1>9, <2>1, <2>2
  <2>4. \A i \in (get + 1)..(set - 1) : i \in get..(set - 1)
    BY <1>1
  <2>5. Stored'
    BY <1>1, <1>4, <1>8, <2>1, <2>4 DEF Stored
  <2> QED
    BY <1>1, <1>4, <1>8, <1>10, <2>1, <2>3, <2>5 DEF DemoInv
<1>12. CASE from # "advance" /\ (Load \/ TestGet \/ Wakes(consumer))
  <2>1. get' = get
    BY <1>12 DEF Load, TestGet, Wakes
  <2>2. One(at'[consumer] \in {"takeLock", "access", "advance"})
          = One(at[consumer] \in {"takeLock", "access", "advance"})
    BY <1>3, <1>4, <1>12 DEF One
  <2>3. Places'
    BY <1>1, <1>4, <1>5, <1>6, <1>7, <1>8, <1>9, <2>1, <2>2
  <2>4. Stored'
    BY <1>1, <1>4, <1>8, <2>1 DEF Stored
  <2>5. sum' \in Nat
    <3>1. get % MAXSEM \in 0..(MAXSEM - 1)
      BY <1>1, PlaceIn
    <3>2. array[get % MAXSEM] \in Nat
      BY <1>1, <3>1
    <3>3. sum' = sum + array[get % MAXSEM] \/ sum' = sum
      BY <1>12 DEF Load, TestGet, Wakes
    <3> QED
      BY <1>1, <3>2, <3>3
  <2> QED
    BY <1>1, <1>4, <1>8, <1>10, <2>1, <2>3, <2>4, <2>5 DEF DemoInv
<1> QED
  BY <1>3, <1>11, <1>12

\* Every step keeps the invariant.
LEMMA DemoNextInv == Alive /\ DemoInv /\ [DemoNext]_allVars => DemoInv'
<1> SUFFICES ASSUME Alive, DemoInv, [DemoNext]_allVars PROVE DemoInv'
  OBVIOUS
<1>1. SemInv'
  BY DemoSemaphores, SemNext DEF DemoInv
<1>2. CASE ProducerStep
  BY <1>1, <1>2, DemoTakes, DemoReleases, ProducerKeeps DEF ProducerStep
<1>3. CASE ConsumerStep
  BY <1>1, <1>3, DemoTakes, DemoReleases, ConsumerKeeps DEF ConsumerStep
<1>4. CASE UNCHANGED allVars
  BY <1>1, <1>4 DEF DemoInv, allVars, vars, semVars, threadVars, demoVars, Inside, Places,
                    Produced, Stored, Tokens, Holds, One
<1> QED
  BY <1>2, <1>3, <1>4 DEF DemoNext

-----------------------------------------------------------------------------
(* The refinement *)

\* n numbers from g + 1 on.
From(g, n) == [i \in 1..n |-> g + i]

\* The ends of a row of numbers.
LEMMA FromEnds ==
    ASSUME NEW g \in Nat, NEW n \in Nat
    PROVE  /\ From(g, n) \in Seq(Nat) /\ Len(From(g, n)) = n
           /\ Append(From(g, n), g + n + 1) = From(g, n + 1)
           /\ n > 0 => /\ From(g, n) # <<>> /\ Head(From(g, n)) = g + 1
                       /\ Tail(From(g, n)) = From(g + 1, n - 1)
<1>1. /\ From(g, n) \in Seq(Nat) /\ Len(From(g, n)) = n
      /\ n > 0 => From(g, n) # <<>>
  BY DEF From
<1>2. Append(From(g, n), g + n + 1) = From(g, n + 1)
  BY DEF From
<1>3. ASSUME n > 0 PROVE Head(From(g, n)) = g + 1 /\ Tail(From(g, n)) = From(g + 1, n - 1)
  BY <1>3 DEF From
<1> QED
  BY <1>1, <1>2, <1>3

\* The buffer and the sum that the demo stands for.
Row == [i \in 1..(set - get) |-> array[(get + i - 1) % MAXSEM]]
Added == IF at[consumer] = "advance" THEN sum - array[get % MAXSEM] ELSE sum

\* The buffer holds the numbers after get, up to set.
LEMMA RowIs == DemoInv => set - get \in Nat /\ Row = From(get, set - get)
<1> SUFFICES ASSUME DemoInv PROVE set - get \in Nat /\ Row = From(get, set - get)
  OBVIOUS
<1>1. set \in Nat /\ get \in Nat /\ Places /\ Stored
  BY DEF DemoInv
<1>2. set - get \in Nat
  <2>1. /\ One(at[producer] \in {"releaseLock", "releaseLast"}) \in Nat
        /\ One(at[consumer] \in {"takeLock", "access", "advance"}) \in Nat
    BY DEF One
  <2> QED
    BY <1>1, <2>1 DEF Places
<1>3. ASSUME NEW i \in 1..(set - get) PROVE array[(get + i - 1) % MAXSEM] = get + i
  <2>1. get + i - 1 \in get..(set - 1) /\ (get + i - 1) + 1 = get + i
    BY <1>1
  <2> QED
    BY <1>1, <2>1 DEF Stored
<1> QED
  BY <1>2, <1>3 DEF Row, From

\* It does so after the step, too.
LEMMA RowNext ==
    DemoInv' => set' - get' \in Nat /\ Row' = From(get', set' - get')
<1>1. DemoInv' => (set - get \in Nat /\ Row = From(get, set - get))'
  BY RowIs, PTL
<1> QED
  BY <1>1 DEF From

\* set++ puts the next number into the buffer.
LEMMA DemoPuts == DemoInv /\ DemoInv' /\ AdvanceSet => Buffer!Put
<1> SUFFICES ASSUME DemoInv, DemoInv', AdvanceSet PROVE Buffer!Put
  OBVIOUS
<1>1. /\ at[producer] = "advance" /\ at'[consumer] = at[consumer]
      /\ set' = set + 1 /\ UNCHANGED <<array, get, sum, cnt>>
  BY DemoNames DEF AdvanceSet, Move, DemoInv
<1>2. set \in Nat /\ get \in Nat /\ cnt \in Nat /\ set - get \in Nat /\ Row = From(get, set - get)
  BY RowIs DEF DemoInv
<1>3. Row' = From(get, set - get + 1)
  <2>1. Row' = From(get', set' - get')
    BY RowNext
  <2>2. (set + 1) - get = set - get + 1
    BY <1>2
  <2> QED
    BY <1>1, <2>1, <2>2
<1>4. set < Numbers
  BY <1>1, <1>2 DEF DemoInv, Produced, One
<1>5. set - get < MAXSEM
  <2>1. /\ Holds(producer) = 1 /\ Holds(consumer) \in Nat
        /\ One(at[producer] \in {"releaseLock", "releaseLast"}) = 0
        /\ One(at[consumer] \in {"takeLock", "access", "advance"}) \in 0..Holds(consumer)
    BY <1>1 DEF Holds, One
  <2>2. /\ Tokens(empty, producer) \in Nat /\ Tokens(full, consumer) \in Nat
        /\ Tokens(empty, producer) + Tokens(full, consumer)
             + Holds(producer) + Holds(consumer) = MAXSEM
        /\ set = get + Tokens(full, consumer)
                     + One(at[producer] \in {"releaseLock", "releaseLast"})
                     + One(at[consumer] \in {"takeLock", "access", "advance"})
    BY DEF DemoInv, Places
  <2> QED
    BY <1>2, <2>1, <2>2, DemoNames
<1>6. Len(Row) = set - get /\ Row' = Append(Row, set + 1)
  <2>1. get + (set - get) + 1 = set + 1
    BY <1>2
  <2>2. /\ Len(From(get, set - get)) = set - get
        /\ Append(From(get, set - get), get + (set - get) + 1) = From(get, set - get + 1)
    BY <1>2, FromEnds
  <2> QED
    BY <1>2, <1>3, <2>1, <2>2
<1>7. Added' = Added
  BY <1>1 DEF Added
<1> QED
  BY <1>1, <1>4, <1>5, <1>6, <1>7 DEF Buffer!Put, Row, Added

\* get++ takes the first one out of it.
LEMMA DemoGets == DemoInv /\ DemoInv' /\ AdvanceGet => Buffer!Get
<1> SUFFICES ASSUME DemoInv, DemoInv', AdvanceGet PROVE Buffer!Get
  OBVIOUS
<1>1. /\ at[consumer] = "advance" /\ at'[consumer] = "releaseLock"
      /\ get' = get + 1 /\ UNCHANGED <<array, set, sum>>
  BY DemoNames DEF AdvanceGet, Move, DemoInv
<1>2. /\ set \in Nat /\ get \in Nat /\ sum \in Nat
      /\ set - get \in Nat /\ Row = From(get, set - get)
      /\ set' - get' \in Nat /\ Row' = From(get', set' - get')
  BY RowIs, RowNext DEF DemoInv
<1>3. set - get > 0 /\ set' - get' = set - get - 1
  BY <1>1, <1>2
<1>4. Row # <<>> /\ Head(Row) = get + 1 /\ Row' = Tail(Row)
  <2>1. Tail(From(get, set - get)) = From(get + 1, set - get - 1)
    BY <1>2, <1>3, FromEnds
  <2> QED
    BY <1>1, <1>2, <1>3, <2>1, FromEnds
<1>5. array[get % MAXSEM] = get + 1
  <2>1. get \in get..(set - 1)
    BY <1>2, <1>3
  <2> QED
    BY <2>1 DEF DemoInv, Stored
<1>6. Added' = Added + Head(Row)
  BY <1>1, <1>2, <1>4, <1>5 DEF Added
<1> QED
  BY <1>1, <1>4, <1>6 DEF Buffer!Get, Row, Added

\* Every other step leaves the buffer and what was taken out of it alone.
LEMMA DemoStutters ==
    ASSUME DemoInv, DemoInv', [DemoNext]_allVars, ~AdvanceSet, ~AdvanceGet
    PROVE  UNCHANGED Buffer!vars
<1>1. set' = set /\ get' = get
  BY DEF DemoNext, ProducerStep, ConsumerStep, TakeForever, ReleaseAt, Store, NextNumber, Wakes,
         Load, TestGet, allVars, demoVars
<1>2. Row' = Row
  <2>1. Row' = From(get', set' - get')
    BY RowNext
  <2>2. Row = From(get, set - get)
    BY RowIs
  <2> QED
    BY <1>1, <2>1, <2>2
<1>3. Added' = Added
  <2>1. /\ at \in [Thread -> At] /\ sum \in Nat /\ get \in Nat
        /\ array \in [0..(MAXSEM - 1) -> Nat] /\ array[get % MAXSEM] \in Nat
    <3>1. array \in [0..(MAXSEM - 1) -> Nat] /\ get % MAXSEM \in 0..(MAXSEM - 1)
      BY PlaceIn DEF DemoInv
    <3> QED
      BY <3>1 DEF DemoInv
  <2>2. CASE Load
    <3>1. /\ at[consumer] = "access" /\ at'[consumer] = "advance"
          /\ sum' = sum + array[get % MAXSEM] /\ array' = array
      BY <2>1, <2>2, DemoNames DEF Load, Move
    <3> QED
      BY <1>1, <2>1, <3>1 DEF Added
  <2>3. CASE Store
    <3>1. at'[consumer] = at[consumer] /\ sum' = sum
      BY <2>1, <2>3, DemoNames DEF Store, Move
    <3>2. ASSUME at[consumer] = "advance" PROVE array'[get % MAXSEM] = array[get % MAXSEM]
      <4>1. get \in get..(set - 1)
        <5> DEFINE f == Tokens(full, consumer)
                   p == One(at[producer] \in {"releaseLock", "releaseLast"})
                   c == One(at[consumer] \in {"takeLock", "access", "advance"})
        <5>1. p \in Nat /\ c = 1
          BY <3>2 DEF One
        <5>2. f \in Nat /\ set = get + f + p + c /\ set \in Nat /\ get \in Nat
          BY DEF DemoInv, Places
        <5> HIDE DEF f, p, c
        <5> QED
          BY <5>1, <5>2
      <4>2. array[get % MAXSEM] = get + 1
        BY <4>1 DEF DemoInv, Stored
      <4>3. array'[get % MAXSEM] = get + 1
        BY <1>1, <4>1 DEF DemoInv, Stored
      <4> QED
        BY <4>2, <4>3
    <3> QED
      BY <1>1, <3>1, <3>2 DEF Added
  <2>4. CASE ~Load /\ ~Store
    <3>1. sum' = sum /\ array' = array
      BY <2>4 DEF DemoNext, ProducerStep, ConsumerStep, TakeForever, ReleaseAt, NextNumber, Wakes,
                  TestGet, allVars, demoVars
    <3>2. at'[consumer] = "advance" <=> at[consumer] = "advance"
      BY <2>1, <2>4, DemoNames
      DEF DemoNext, ProducerStep, ConsumerStep, TakeForever, ReleaseAt, Move, NextNumber, Wakes,
          TestGet, allVars, demoVars
    <3> QED
      BY <1>1, <3>1, <3>2 DEF Added
  <2> QED
    BY <2>2, <2>3, <2>4
<1> QED
  BY <1>1, <1>2, <1>3 DEF Buffer!vars, Row, Added

\* The invariant holds throughout.
LEMMA DemoInvHolds == DemoSpec => []DemoInv
  BY DemoInitInv, DemoNextInv, DemoAlive, PTL DEF DemoSpec

\* The demo is a bounded buffer: with an array of any size and any quantity of
\* numbers, they come out of it in the order the producer generated them, each
\* is added once, none is overwritten before it was read and none is read before
\* it was stored (producer_thread_entry and consumer_thread_entry of
\* producer_consumer.c, on rt_sem_take and rt_sem_release).
THEOREM ImplementsBufferHolds == DemoSpec => ImplementsBuffer
<1>1. DemoInit => Buffer!Init
  <2> SUFFICES ASSUME DemoInit PROVE Buffer!Init
    OBVIOUS
  <2>1. set = 0 /\ get = 0 /\ sum = 0 /\ at[consumer] = "takeFirst"
    BY DemoNames DEF DemoInit
  <2>2. Row = <<>>
    BY <2>1 DEF Row
  <2> QED
    BY <2>1, <2>2 DEF Buffer!Init, Row
<1>2. DemoInv /\ DemoInv' /\ [DemoNext]_allVars => [Buffer!Next]_(Buffer!vars)
  BY DemoPuts, DemoGets, DemoStutters DEF Buffer!Next
<1> QED
  BY <1>1, <1>2, DemoInvHolds, PTL DEF DemoSpec, ImplementsBuffer, Buffer!Spec

=============================================================================
