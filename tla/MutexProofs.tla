------------------------------ MODULE MutexProofs ------------------------------
(***************************************************************************)
(* Mutexes, for any threads, priorities and orders of waiting: the owner   *)
(* and the counter of a mutex agree with what the programs took, and, if   *)
(* mutexes are released in the reverse order of their takes, a thread that *)
(* holds none runs at its own priority.                                    *)
(***************************************************************************)
EXTENDS Mutex, ListTheorems, FunctionTheorems

\* The takes of m that s has.
Takes(s, m) == Cardinality({i \in 1..Len(s) : s[i] = m})

\* 1 for a mutex that was handed to a thread that has not run since.
Handed(t, m) == IF state[t] = "resumed" /\ wants[t] = m /\ error[t] = "EOK" THEN 1 ELSE 0

\* The waiting lists and the threads agree.  The error of a suspended thread is
\* the one that a hand-over leaves it with.
Waits ==
    /\ \A m \in Mutex : Distinct(waiting[m])
    /\ \A t \in Thread, m \in Mutex :
         t \in Elements(waiting[m]) <=> state[t] = "suspended" /\ wants[t] = m
    /\ \A t \in Thread :
         /\ armed[t] => state[t] = "suspended"
         /\ state[t] = "suspended" => error[t] = "EOK"
         /\ state[t] = "run" <=> wants[t] = None

\* Nobody waits for a mutex of its own, or for one that is free.
Waited ==
    \A m \in Mutex : \A t \in Elements(waiting[m]) : owner[m] # t /\ owner[m] # None

\* The owner is who took the mutex, hold is how often.
Owned ==
    \A m \in Mutex :
      /\ value[m] = 1 <=> owner[m] = None
      /\ owner[m] = None => hold[m] = 0
      /\ owner[m] # None => hold[m] >= 1
      /\ \A t \in Thread :
           Takes(taken[t], m) + Handed(t, m) = IF owner[m] = t THEN hold[m] ELSE 0

\* The inductive invariant of mutexes.
MutexInv == TypeOK /\ Waits /\ Waited /\ Owned

\* What a thread ran at before it took the first mutex it holds is its own
\* priority.
FirstOriginal ==
    /\ PriorityRestored
    /\ \A t \in Thread :
         /\ taken[t] # <<>> => original[taken[t][1]] = BasePrio[t]
         /\ \A m \in Mutex : taken[t] = <<>> /\ owner[m] = t => original[m] = BasePrio[t]

\* The inductive invariant of nested mutexes and their priorities.
PrioInv == MutexInv /\ FirstOriginal
-----------------------------------------------------------------------------
(* Counting takes *)

\* A thread that took nothing has taken no mutex, and one that took m has.
LEMMA TakesSome ==
    ASSUME NEW s \in Seq(Mutex), NEW m
    PROVE  /\ Takes(s, m) \in Nat
           /\ Takes(s, m) = 0 <=> \A i \in 1..Len(s) : s[i] # m
           /\ s = <<>> => Takes(s, m) = 0
<1> DEFINE S == {i \in 1..Len(s) : s[i] = m}
<1>1. Len(s) \in Nat /\ IsFiniteSet(1..Len(s))
  BY LenProperties, FS_Interval
<1>2. IsFiniteSet(S)
  BY <1>1, FS_Subset
<1>3. Cardinality(S) \in Nat /\ (Cardinality(S) = 0 <=> S = {})
  BY <1>2, FS_CardinalityType, FS_EmptySet
<1>4. s = <<>> => S = {}
  BY EmptySeq
<1> QED
  BY <1>3, <1>4 DEF Takes

\* One more take.
LEMMA TakesAppend ==
    ASSUME NEW s \in Seq(Mutex), NEW x \in Mutex, NEW m
    PROVE  /\ Append(s, x) \in Seq(Mutex)
           /\ Takes(Append(s, x), m) = Takes(s, m) + IF x = m THEN 1 ELSE 0
<1> DEFINE w == Append(s, x)
           S == {i \in 1..Len(s) : s[i] = m}
           n == Len(s) + 1
<1>1. /\ w \in Seq(Mutex)
      /\ Len(s) \in Nat /\ Len(w) = n
      /\ \A j \in 1..Len(s) : w[j] = s[j]
      /\ w[n] = x
  BY AppendProperties, LenProperties
<1>2. {i \in 1..Len(w) : w[i] = m} = IF x = m THEN S \cup {n} ELSE S
  BY <1>1
<1>3. IsFiniteSet(S) /\ n \notin S
  <2>1. IsFiniteSet(1..Len(s))
    BY <1>1, FS_Interval
  <2> QED
    BY <1>1, <2>1, FS_Subset
<1>4. Cardinality(S) \in Nat /\ Cardinality(S \cup {n}) = Cardinality(S) + 1
  BY <1>3, FS_AddElement, FS_CardinalityType
<1>5. Takes(w, m) = Takes(s, m) + IF x = m THEN 1 ELSE 0
  <2>1. Takes(w, m) = Cardinality(IF x = m THEN S \cup {n} ELSE S) /\ Takes(s, m) = Cardinality(S)
    BY <1>2 DEF Takes
  <2> QED
    BY <1>4, <2>1
<1> QED
  BY <1>1, <1>5

\* The first take stays the first.
LEMMA AppendFirst ==
    ASSUME NEW s \in Seq(Mutex), NEW x \in Mutex
    PROVE  Append(s, x) # <<>> /\ Append(s, x)[1] = IF s = <<>> THEN x ELSE s[1]
<1>1. /\ Append(s, x) \in Seq(Mutex)
      /\ Len(s) \in Nat /\ Len(Append(s, x)) = Len(s) + 1
      /\ \A j \in 1..Len(s) : Append(s, x)[j] = s[j]
      /\ Append(s, x)[Len(s) + 1] = x
  BY AppendProperties, LenProperties
<1>2. CASE s = <<>>
  BY <1>1, <1>2
<1>3. CASE s # <<>>
  BY <1>1, <1>3, EmptySeq
<1> QED
  BY <1>2, <1>3

\* s without its i-th element.
Cut(s, i) == SubSeq(s, 1, i - 1) \o SubSeq(s, i + 1, Len(s))

\* One take less.
LEMMA TakesCut ==
    ASSUME NEW s \in Seq(Mutex), NEW i \in 1..Len(s), NEW m
    PROVE  /\ Cut(s, i) \in Seq(Mutex)
           /\ Takes(Cut(s, i), m) = Takes(s, m) - IF s[i] = m THEN 1 ELSE 0
           /\ Len(Cut(s, i)) = Len(s) - 1
           /\ Cut(s, i) # <<>> /\ i = Len(s) => Cut(s, i)[1] = s[1]
<1> DEFINE w == Cut(s, i)
           n == Len(s)
           S == {j \in 1..n : s[j] = m}
           W == {j \in 1..Len(w) : w[j] = m}
           f == [j \in W |-> IF j < i THEN j ELSE j + 1]
<1>1. w \in Seq(Mutex) /\ Skips(w, s, i)
  BY CutShifts DEF Cut
<1> HIDE DEF w
<1>2. n \in Nat /\ i \in 1..n /\ Len(w) = n - 1
  BY <1>1, LenProperties DEF Skips
<1>3. \A j \in 1..(n - 1) : w[j] = IF j < i THEN s[j] ELSE s[j + 1]
  BY <1>1 DEF Skips
<1>4. \A j : j \in W <=> j \in 1..(n - 1) /\ (IF j < i THEN s[j] ELSE s[j + 1]) = m
  BY <1>2, <1>3
<1>5. \A j : j \in S <=> j \in 1..n /\ s[j] = m
  OBVIOUS
<1>6. IsFiniteSet(S) /\ IsFiniteSet(W)
  <2>1. IsFiniteSet(1..n) /\ IsFiniteSet(1..(n - 1))
    BY <1>2, FS_Interval
  <2> QED
    BY <1>2, <2>1, FS_Subset
<1>7. w # <<>> /\ i = n => w[1] = s[1]
  <2> SUFFICES ASSUME w # <<>>, i = n PROVE w[1] = s[1]
    OBVIOUS
  <2>1. Len(w) # 0
    BY <1>1, EmptySeq
  <2> QED
    BY <1>2, <1>3, <2>1
<1>8. Cardinality(W) = Cardinality(S \ {i})
  <2>1. \A j \in W : f[j] = IF j < i THEN j ELSE j + 1
    OBVIOUS
  <2>2. f = [j \in W |-> f[j]]
    OBVIOUS
  <2> HIDE DEF n, S, W, f
  <2>3. \A j \in W : f[j] \in S \ {i}
    BY <1>2, <1>4, <1>5, <2>1
  <2>4. f \in [W -> S \ {i}]
    BY <2>2, <2>3
  <2>5. \A j, k \in W : f[j] = f[k] => j = k
    BY <1>2, <1>4, <2>1
  <2>6. ASSUME NEW k \in S \ {i} PROVE \E j \in W : f[j] = k
    <3>1. k \in 1..n /\ s[k] = m /\ k # i
      BY <1>5
    <3>2. CASE k < i
      <4>1. k \in W
        BY <1>2, <1>4, <3>1, <3>2
      <4> QED
        BY <2>1, <3>2, <4>1
    <3>3. CASE k > i
      <4>1. k - 1 \in 1..(n - 1) /\ ~(k - 1 < i) /\ (k - 1) + 1 = k
        BY <1>2, <3>1, <3>3
      <4>2. k - 1 \in W
        BY <1>4, <3>1, <4>1
      <4> QED
        BY <2>1, <4>1, <4>2
    <3> QED
      BY <1>2, <3>1, <3>2, <3>3
  <2>7. f \in Bijection(W, S \ {i})
    BY <2>4, <2>5, <2>6, Fun_IsBij
  <2> QED
    BY <1>6, <2>7, FS_Bijection DEF ExistsBijection
<1>9. Cardinality(S \ {i}) = Cardinality(S) - IF s[i] = m THEN 1 ELSE 0
  <2>1. Cardinality(S \ {i}) = IF i \in S THEN Cardinality(S) - 1 ELSE Cardinality(S)
    BY <1>6, FS_RemoveElement
  <2>2. Cardinality(S) \in Nat /\ (i \in S <=> s[i] = m)
    BY <1>2, <1>6, FS_CardinalityType
  <2> HIDE DEF S
  <2> QED
    BY <2>1, <2>2
<1>10. Takes(s, m) = Cardinality(S) /\ Takes(w, m) = Cardinality(W)
  BY DEF Takes
<1> QED
  BY <1>1, <1>2, <1>7, <1>8, <1>9, <1>10 DEF w
-----------------------------------------------------------------------------
(* Each operation keeps the invariant *)

\* rt_mutex_init leaves nobody waiting.
LEMMA MutexInvInit == Init => MutexInv
<1> SUFFICES ASSUME Init PROVE MutexInv
  OBVIOUS
<1>1. Elements(<<>>) = {} /\ Distinct(<<>>) /\ <<>> \in Seq(Thread) /\ <<>> \in Seq(Mutex)
  BY EmptySeq DEF Elements, Distinct
<1>2. \A p \in 0..(NoPriority - 1) : p \in 0..NoPriority
  BY DEF NoPriority
<1>3. TypeOK
  <2>1. \A t \in Thread : BasePrio[t] \in 0..NoPriority
    BY <1>2, MutexAssumption
  <2> QED
    BY <1>1, <2>1, MutexAssumption DEF Init, TypeOK, NoPriority
<1>4. \A t \in Thread, m \in Mutex : Takes(taken[t], m) = 0 /\ Handed(t, m) = 0
  BY <1>1, TakesSome DEF Init, Handed
<1>5. Owned
  BY <1>4, MutexAssumption DEF Init, Owned
<1> QED
  BY <1>1, <1>3, <1>5 DEF Init, MutexInv, Waits, Waited

\* A thread that executes waits for nothing, and its takes are its holds.
LEMMA Running ==
    ASSUME MutexInv, NEW t \in Thread, state[t] = "run"
    PROVE  /\ wants[t] = None /\ ~armed[t]
           /\ \A m \in Mutex :
                /\ t \notin Elements(waiting[m])
                /\ Handed(t, m) = 0
                /\ Takes(taken[t], m) = IF owner[m] = t THEN hold[m] ELSE 0
<1>1. wants[t] = None /\ ~armed[t]
  BY DEF MutexInv, Waits
<1>2. \A m \in Mutex : t \notin Elements(waiting[m]) /\ Handed(t, m) = 0
  BY DEF MutexInv, Waits, Handed
<1>3. \A m \in Mutex : Takes(taken[t], m) \in Nat
  BY TakesSome DEF MutexInv, TypeOK
<1>4. \A m \in Mutex : Takes(taken[t], m) = IF owner[m] = t THEN hold[m] ELSE 0
  <2> TAKE m \in Mutex
  <2>1. Takes(taken[t], m) + Handed(t, m) = IF owner[m] = t THEN hold[m] ELSE 0
    BY DEF MutexInv, Owned
  <2> QED
    BY <1>2, <1>3, <2>1
<1> QED
  BY <1>1, <1>2, <1>4

\* A step of a running thread in which nobody starts or stops waiting.
LEMMA WaitsStill ==
    ASSUME MutexInv, NEW t \in Thread, state[t] = "run", NEW e,
           error' = [error EXCEPT ![t] = e], UNCHANGED <<waiting, state, wants, armed>>
    PROVE  /\ Waits'
           /\ \A u \in Thread : \A m : Handed(u, m)' = Handed(u, m)
<1>1. \A u \in Thread : u # t => error'[u] = error[u]
  BY DEF MutexInv, TypeOK
<1> QED
  BY <1>1 DEF MutexInv, Waits, Handed

\* rt_mutex_take by the owner.
LEMMA TakeAgainKeeps ==
    ASSUME MutexInv, NEW t \in Thread, NEW m \in Mutex, TakeAgain(t, m)
    PROVE  MutexInv'
<1> USE DEF TakeAgain
<1>1. TypeOK /\ Waited /\ Owned
  BY DEF MutexInv
<1>2. /\ taken[t] \in Seq(Mutex) /\ hold[m] \in 0..MaxHold /\ MaxHold \in 1..255
      /\ \A u \in Thread : taken'[u] = IF u = t THEN Append(taken[t], m) ELSE taken[u]
      /\ \A n \in Mutex : hold'[n] = IF n = m THEN hold[m] + 1 ELSE hold[n]
  BY <1>1, MutexAssumption DEF TypeOK, Took
<1>3. Append(taken[t], m) \in Seq(Mutex)
  BY <1>2, TakesAppend
<1>4. TypeOK'
  BY <1>1, <1>2, <1>3 DEF TypeOK, Took
<1>5. Waits' /\ \A u \in Thread : \A n : Handed(u, n)' = Handed(u, n)
  BY WaitsStill
<1>6. Waited'
  BY <1>1 DEF Waited
<1>7. ASSUME NEW n \in Mutex, NEW u \in Thread
      PROVE  Takes(taken[u], n)' + Handed(u, n)' = IF owner[n] = u THEN hold'[n] ELSE 0
  <2>1. /\ Takes(taken[u], n) \in Nat /\ Handed(u, n) \in Nat /\ hold[n] \in Nat
        /\ Takes(taken[u], n) + Handed(u, n) = IF owner[n] = u THEN hold[n] ELSE 0
    BY <1>1, TakesSome DEF TypeOK, Owned, Handed
  <2>2. CASE u = t
    <3>1. Takes(taken[u], n)' = Takes(taken[u], n) + IF m = n THEN 1 ELSE 0
      BY <1>2, <2>2, TakesAppend
    <3> QED
      BY <1>2, <1>5, <2>1, <2>2, <3>1
  <2>3. CASE u # t
    BY <1>2, <1>5, <2>1, <2>3
  <2> QED
    BY <2>2, <2>3
<1>8. Owned'
  BY <1>1, <1>2, <1>7, MutexAssumption DEF Owned
<1> QED
  BY <1>4, <1>5, <1>6, <1>8 DEF MutexInv

\* rt_mutex_take of an available mutex.
LEMMA TakeNowKeeps ==
    ASSUME MutexInv, NEW t \in Thread, NEW m \in Mutex, TakeNow(t, m)
    PROVE  MutexInv'
<1> USE DEF TakeNow
<1>1. TypeOK /\ Waited /\ Owned /\ Waits
  BY DEF MutexInv
<1>2. /\ taken[t] \in Seq(Mutex) /\ hold[m] \in 0..MaxHold /\ MaxHold \in 1..255
      /\ \A u \in Thread : taken'[u] = IF u = t THEN Append(taken[t], m) ELSE taken[u]
      /\ \A n \in Mutex :
           /\ hold'[n] = IF n = m THEN hold[m] + 1 ELSE hold[n]
           /\ owner'[n] = IF n = m THEN t ELSE owner[n]
           /\ value'[n] = IF n = m THEN value[m] - 1 ELSE value[n]
  BY <1>1, MutexAssumption DEF TypeOK, Took
<1>3. value[m] = 1 /\ owner[m] = None /\ hold[m] = 0 /\ t # None
  BY <1>1, MutexAssumption DEF TypeOK, Owned
<1>4. TypeOK'
  <2>1. Append(taken[t], m) \in Seq(Mutex)
    BY <1>2, TakesAppend
  <2> QED
    BY <1>1, <1>2, <1>3, <2>1 DEF TypeOK, Took
<1>5. Waits' /\ \A u \in Thread : \A n : Handed(u, n)' = Handed(u, n)
  BY WaitsStill
<1>6. Waited'
  <2> SUFFICES ASSUME NEW n \in Mutex, NEW u \in Elements(waiting[n])
               PROVE  owner'[n] # u /\ owner'[n] # None
    BY DEF Waited
  <2>1. owner[n] # u /\ owner[n] # None
    BY <1>1 DEF Waited
  <2> QED
    BY <1>2, <1>3, <2>1
<1>7. ASSUME NEW n \in Mutex, NEW u \in Thread
      PROVE  Takes(taken[u], n)' + Handed(u, n)' = IF owner'[n] = u THEN hold'[n] ELSE 0
  <2>1. /\ Takes(taken[u], n) \in Nat /\ Handed(u, n) \in Nat /\ hold[n] \in Nat
        /\ Takes(taken[u], n) + Handed(u, n) = IF owner[n] = u THEN hold[n] ELSE 0
    BY <1>1, TakesSome DEF TypeOK, Owned, Handed
  <2>2. CASE u = t
    <3>1. Takes(taken[u], n)' = Takes(taken[u], n) + IF m = n THEN 1 ELSE 0
      BY <1>2, <2>2, TakesAppend
    <3> QED
      BY <1>2, <1>3, <1>5, <2>1, <2>2, <3>1
  <2>3. CASE u # t
    BY <1>2, <1>3, <1>5, <2>1, <2>3, MutexAssumption
  <2> QED
    BY <2>2, <2>3
<1>8. Owned'
  BY <1>1, <1>2, <1>3, <1>7, MutexAssumption DEF Owned
<1> QED
  BY <1>4, <1>5, <1>6, <1>8 DEF MutexInv

\* rt_mutex_take that fails at once, rt_mutex_release by another thread.
LEMMA RefusedKeeps ==
    ASSUME MutexInv, NEW t \in Thread, NEW m \in Mutex, TakeFails(t, m) \/ ReleaseRefused(t, m)
    PROVE  MutexInv'
<1>1. /\ state[t] = "run" /\ UNCHANGED <<mutexVars, prio, state, wants, armed, taken>>
      /\ \/ error' = [error EXCEPT ![t] = "ETIMEOUT"]
         \/ error' = [error EXCEPT ![t] = "ERROR"]
  BY DEF TakeFails, ReleaseRefused
<1>2. Waits' /\ \A u \in Thread : \A n : Handed(u, n)' = Handed(u, n)
  BY <1>1, WaitsStill DEF mutexVars
<1>3. TypeOK'
  BY <1>1 DEF MutexInv, TypeOK, mutexVars
<1>4. Waited' /\ Owned'
  BY <1>1, <1>2 DEF MutexInv, Waited, Owned, mutexVars
<1> QED
  BY <1>2, <1>3, <1>4 DEF MutexInv

\* rt_mutex_take that suspends its caller.
LEMMA TakeWaitsKeeps ==
    ASSUME MutexInv, NEW t \in Thread, NEW m \in Mutex, NEW timed \in BOOLEAN,
           TakeWaits(t, m, timed)
    PROVE  MutexInv'
<1> USE DEF TakeWaits
<1>1. TypeOK /\ Waited /\ Owned /\ Waits /\ m # None
  BY MutexAssumption DEF MutexInv
<1> DEFINE q == Enqueued(waiting[m], t, Flag, prio)
<1>2. t \notin Elements(waiting[m]) /\ waiting[m] \in Seq(Thread)
  BY <1>1, Running DEF TypeOK
<1>3. /\ q \in Seq(Thread) /\ Elements(q) = Elements(waiting[m]) \cup {t}
      /\ Distinct(waiting[m]) => Distinct(q)
  BY <1>2, EnqueuedElements
<1>4. /\ owner[m] # None /\ owner[m] \in Thread /\ owner[m] # t
      /\ prio' \in [Thread -> 0..NoPriority]
  BY <1>1 DEF Owned, TypeOK
<1> HIDE DEF q
<1>5. TypeOK'
  BY <1>1, <1>3, <1>4 DEF TypeOK, q
<1>6. Waits'
  <2>1. /\ \A n \in Mutex : waiting'[n] = IF n = m THEN q ELSE waiting[n]
        /\ \A u \in Thread :
             /\ state'[u] = IF u = t THEN "suspended" ELSE state[u]
             /\ wants'[u] = IF u = t THEN m ELSE wants[u]
             /\ error'[u] = IF u = t THEN "EOK" ELSE error[u]
             /\ armed'[u] = IF u = t THEN timed ELSE armed[u]
    BY <1>1 DEF TypeOK, q
  <2>2. \A n \in Mutex : Distinct(waiting'[n])
    BY <1>1, <1>3, <2>1 DEF Waits
  <2>3. \A n \in Mutex : t \notin Elements(waiting[n])
    BY Running
  <2>4. \A u \in Thread, n \in Mutex :
          u \in Elements(waiting'[n]) <=> state'[u] = "suspended" /\ wants'[u] = n
    BY <1>1, <1>3, <2>1, <2>3 DEF Waits
  <2> QED
    BY <1>1, <2>1, <2>2, <2>4 DEF Waits
<1>7. Waited'
  <2>1. \A n \in Mutex : waiting'[n] = IF n = m THEN q ELSE waiting[n]
    BY <1>1 DEF TypeOK, q
  <2>2. ASSUME NEW n \in Mutex, NEW u \in Elements(waiting'[n])
        PROVE  owner[n] # u /\ owner[n] # None
    <3>1. CASE n = m
      <4>1. u \in Elements(waiting[m]) \cup {t}
        BY <1>3, <2>1, <3>1
      <4> QED
        BY <1>1, <1>4, <3>1, <4>1 DEF Waited
    <3>2. CASE n # m
      BY <1>1, <2>1, <3>2 DEF Waited
    <3> QED
      BY <3>1, <3>2
  <2> QED
    BY <2>2 DEF Waited
<1>8. \A u \in Thread, n \in Mutex : Handed(u, n)' = Handed(u, n)
  BY <1>1 DEF Handed, TypeOK
<1>9. Owned'
  BY <1>1, <1>8 DEF Owned
<1> QED
  BY <1>5, <1>6, <1>7, <1>9 DEF MutexInv

\* The end of rt_mutex_take: what was handed over is taken.
LEMMA TakeReturnsKeeps ==
    ASSUME MutexInv, NEW t \in Thread, TakeReturns(t)
    PROVE  MutexInv'
<1> USE DEF TakeReturns
<1>1. TypeOK /\ Waited /\ Owned /\ Waits /\ None \notin Mutex
  BY MutexAssumption DEF MutexInv
<1> DEFINE m == wants[t]
<1>2. m \in Mutex
  BY <1>1 DEF TypeOK, Waits
<1>3. /\ UNCHANGED mutexVars /\ taken[t] \in Seq(Mutex)
      /\ \A u \in Thread :
           /\ state'[u] = IF u = t THEN "run" ELSE state[u]
           /\ wants'[u] = IF u = t THEN None ELSE wants[u]
           /\ taken'[u] = IF u = t /\ error[t] = "EOK" THEN Append(taken[t], m) ELSE taken[u]
      /\ UNCHANGED <<prio, error, armed>>
  BY <1>1 DEF TypeOK, Took
<1>4. TypeOK'
  <2>1. Append(taken[t], m) \in Seq(Mutex)
    BY <1>2, <1>3, TakesAppend
  <2> QED
    BY <1>1, <1>3, <2>1 DEF TypeOK, mutexVars, Took
<1>5. Waits'
  BY <1>1, <1>3 DEF Waits, mutexVars
<1>6. Waited'
  BY <1>1, <1>3 DEF Waited, mutexVars
<1>7. ASSUME NEW n \in Mutex, NEW u \in Thread
      PROVE  Takes(taken[u], n)' + Handed(u, n)' = Takes(taken[u], n) + Handed(u, n)
  <2>1. CASE u = t /\ error[t] = "EOK"
    <3>1. Takes(taken[u], n)' = Takes(taken[u], n) + IF m = n THEN 1 ELSE 0
      BY <1>2, <1>3, <2>1, TakesAppend
    <3>2. Handed(u, n) = (IF m = n THEN 1 ELSE 0) /\ Handed(u, n)' = 0
      BY <1>3, <2>1 DEF Handed
    <3>3. Takes(taken[u], n) \in Nat
      BY <1>3, <2>1, TakesSome
    <3> QED
      BY <3>1, <3>2, <3>3
  <2>2. CASE u = t /\ error[t] # "EOK"
    BY <1>3, <2>2 DEF Handed
  <2>3. CASE u # t
    BY <1>3, <2>3 DEF Handed
  <2> QED
    BY <2>1, <2>2, <2>3
<1>8. Owned'
  BY <1>1, <1>3, <1>7 DEF Owned, mutexVars
<1> QED
  BY <1>4, <1>5, <1>6, <1>8 DEF MutexInv

\* The mutex is given back once.
LEMMA GivesBackOnce ==
    ASSUME MutexInv, NEW t \in Thread, NEW m \in Mutex, GivesBack(t, m)
    PROVE  /\ taken' \in [Thread -> Seq(Mutex)]
           /\ \A u \in Thread : u # t => taken'[u] = taken[u]
           /\ \A n \in Mutex : Takes(taken'[t], n) = Takes(taken[t], n) - IF n = m THEN 1 ELSE 0
           /\ Nested => /\ Len(taken[t]) >= 1 /\ taken[t][Len(taken[t])] = m
                        /\ Len(taken'[t]) = Len(taken[t]) - 1
                        /\ taken'[t] # <<>> => taken'[t][1] = taken[t][1]
<1>1. taken \in [Thread -> Seq(Mutex)] /\ taken[t] \in Seq(Mutex)
  BY DEF MutexInv, TypeOK
<1>2. PICK i \in 1..Len(taken[t]) :
        /\ taken[t][i] = m
        /\ Nested => i = Len(taken[t])
        /\ taken' = [taken EXCEPT ![t] = SubSeq(@, 1, i - 1) \o SubSeq(@, i + 1, Len(@))]
  BY DEF GivesBack
<1>3. taken'[t] = Cut(taken[t], i)
  BY <1>1, <1>2 DEF Cut
<1>4. /\ taken'[t] \in Seq(Mutex)
      /\ \A n : Takes(taken'[t], n) = Takes(taken[t], n) - IF taken[t][i] = n THEN 1 ELSE 0
      /\ Len(taken'[t]) = Len(taken[t]) - 1
      /\ taken'[t] # <<>> /\ i = Len(taken[t]) => taken'[t][1] = taken[t][1]
  <2>1. \A n : /\ Cut(taken[t], i) \in Seq(Mutex)
               /\ Takes(Cut(taken[t], i), n) = Takes(taken[t], n) - IF taken[t][i] = n THEN 1 ELSE 0
               /\ Len(Cut(taken[t], i)) = Len(taken[t]) - 1
               /\ Cut(taken[t], i) # <<>> /\ i = Len(taken[t]) => Cut(taken[t], i)[1] = taken[t][1]
    BY <1>1, TakesCut
  <2> QED
    BY <1>3, <2>1
<1>5. i \in 1..Len(taken[t]) /\ Len(taken[t]) \in Nat
  BY <1>1, LenProperties
<1>6. taken' \in [Thread -> Seq(Mutex)] /\ \A u \in Thread : u # t => taken'[u] = taken[u]
  <2>1. taken' = [taken EXCEPT ![t] = taken'[t]]
    BY <1>1, <1>2
  <2> QED
    BY <1>1, <1>4, <2>1
<1>7. \A n \in Mutex : Takes(taken'[t], n) = Takes(taken[t], n) - IF n = m THEN 1 ELSE 0
  BY <1>2, <1>4
<1>8. Nested => /\ Len(taken[t]) >= 1 /\ taken[t][Len(taken[t])] = m
                /\ Len(taken'[t]) = Len(taken[t]) - 1
                /\ taken'[t] # <<>> => taken'[t][1] = taken[t][1]
  <2> SUFFICES ASSUME Nested PROVE /\ Len(taken[t]) >= 1 /\ taken[t][Len(taken[t])] = m
                                   /\ Len(taken'[t]) = Len(taken[t]) - 1
                                   /\ taken'[t] # <<>> => taken'[t][1] = taken[t][1]
    OBVIOUS
  <2>1. i = Len(taken[t])
    BY <1>2
  <2> QED
    BY <1>2, <1>4, <1>5, <2>1
<1> QED
  BY <1>6, <1>7, <1>8

\* rt_mutex_release of one of several takes.
LEMMA ReleaseInnerKeeps ==
    ASSUME MutexInv, NEW t \in Thread, NEW m \in Mutex, ReleaseInner(t, m)
    PROVE  MutexInv'
<1> USE DEF ReleaseInner
<1>1. TypeOK /\ Waited /\ Owned /\ Waits /\ t # None
  BY MutexAssumption DEF MutexInv
<1>2. \A n \in Mutex : hold'[n] = IF n = m THEN hold[m] - 1 ELSE hold[n]
  BY <1>1 DEF TypeOK
<1>3. hold[m] \in 0..MaxHold /\ MaxHold \in 1..255 /\ hold[m] > 1
  BY <1>1, MutexAssumption DEF TypeOK
<1>4. TypeOK'
  BY <1>1, <1>2, <1>3, GivesBackOnce DEF TypeOK
<1>5. Waits' /\ \A u \in Thread : \A n : Handed(u, n)' = Handed(u, n)
  BY <1>1 DEF Waits, Handed
<1>6. Waited'
  BY <1>1 DEF Waited
<1>7. ASSUME NEW n \in Mutex, NEW u \in Thread
      PROVE  Takes(taken[u], n)' + Handed(u, n)' = IF owner[n] = u THEN hold'[n] ELSE 0
  <2>1. /\ Takes(taken[u], n) \in Nat /\ Handed(u, n) \in Nat /\ hold[n] \in Nat
        /\ Takes(taken[u], n) + Handed(u, n) = IF owner[n] = u THEN hold[n] ELSE 0
    BY <1>1, TakesSome DEF TypeOK, Owned, Handed
  <2>2. CASE u = t
    <3>1. Takes(taken[u], n)' = Takes(taken[u], n) - IF n = m THEN 1 ELSE 0
      BY <2>2, GivesBackOnce
    <3> QED
      BY <1>2, <1>5, <2>1, <2>2, <3>1
  <2>3. CASE u # t
    BY <1>2, <1>5, <2>1, <2>3, GivesBackOnce
  <2> QED
    BY <2>2, <2>3
<1>8. Owned'
  BY <1>1, <1>2, <1>3, <1>7 DEF Owned
<1> QED
  BY <1>4, <1>5, <1>6, <1>8 DEF MutexInv

\* The first waiter of a mutex is a thread suspended on it.
LEMMA FirstWaiter ==
    ASSUME MutexInv, NEW m \in Mutex, waiting[m] # <<>>
    PROVE  LET w == Head(waiting[m])
           IN  /\ w \in Thread /\ state[w] = "suspended" /\ wants[w] = m /\ error[w] = "EOK"
               /\ Without(waiting[m], w) \in Seq(Thread)
               /\ Distinct(Without(waiting[m], w))
               /\ Elements(Without(waiting[m], w)) = Elements(waiting[m]) \ {w}
<1>1. waiting[m] \in Seq(Thread) /\ Distinct(waiting[m])
  BY DEF MutexInv, TypeOK, Waits
<1>2. Head(waiting[m]) \in Thread /\ Head(waiting[m]) \in Elements(waiting[m])
  BY <1>1, HeadElement
<1> DEFINE w == Head(waiting[m])
<1>3. /\ Without(waiting[m], w) \in Seq(Thread)
      /\ Distinct(Without(waiting[m], w))
      /\ Elements(Without(waiting[m], w)) = Elements(waiting[m]) \ {w}
  BY <1>1, WithoutElements, WithoutDistinct
<1>4. state[w] = "suspended" /\ wants[w] = m /\ error[w] = "EOK"
  BY <1>2 DEF MutexInv, Waits
<1> QED
  BY <1>2, <1>3, <1>4

\* The last rt_mutex_release of a mutex somebody waits for.
LEMMA HandOverKeeps ==
    ASSUME MutexInv, NEW t \in Thread, NEW m \in Mutex, ReleaseLast(t, m), HandOver(m)
    PROVE  MutexInv'
<1> DEFINE w == Head(waiting[m])
           q == Without(waiting[m], w)
<1>1. TypeOK /\ Waited /\ Owned /\ Waits /\ t # None /\ m # None /\ None \notin Thread
  BY MutexAssumption DEF MutexInv
<1>2. /\ w \in Thread /\ state[w] = "suspended" /\ wants[w] = m /\ error[w] = "EOK"
      /\ q \in Seq(Thread) /\ Distinct(q) /\ Elements(q) = Elements(waiting[m]) \ {w}
  BY FirstWaiter DEF HandOver
<1>3. /\ state[t] = "run" /\ owner[m] = t /\ hold[m] = 1 /\ t # w
      /\ UNCHANGED <<wants, error, value>> /\ GivesBack(t, m)
  BY <1>2 DEF ReleaseLast, HandOver
<1>4. /\ owner' = [owner EXCEPT ![m] = w] /\ hold' = [hold EXCEPT ![m] = 1]
      /\ waiting' = [waiting EXCEPT ![m] = q] /\ original' = [original EXCEPT ![m] = prio[w]]
      /\ state' = [state EXCEPT ![w] = "resumed"] /\ armed' = [armed EXCEPT ![w] = FALSE]
      /\ prio' = [prio EXCEPT ![t] = original[m]]
  BY DEF HandOver, ReleaseLast
<1> HIDE DEF w, q
<1>5. /\ \A n \in Mutex :
           /\ owner'[n] = IF n = m THEN w ELSE owner[n]
           /\ hold'[n] = IF n = m THEN 1 ELSE hold[n]
           /\ waiting'[n] = IF n = m THEN q ELSE waiting[n]
      /\ \A u \in Thread :
           /\ state'[u] = IF u = w THEN "resumed" ELSE state[u]
           /\ armed'[u] = IF u = w THEN FALSE ELSE armed[u]
  BY <1>1, <1>4 DEF TypeOK
<1>6. TypeOK'
  BY <1>1, <1>2, <1>3, <1>4, GivesBackOnce, MutexAssumption DEF TypeOK
<1>7. Waits'
  <2>1. \A n \in Mutex : Distinct(waiting'[n])
    BY <1>1, <1>2, <1>5 DEF Waits
  <2>2. ASSUME NEW u \in Thread, NEW n \in Mutex
        PROVE  u \in Elements(waiting'[n]) <=> state'[u] = "suspended" /\ wants'[u] = n
    <3>1. u \in Elements(waiting[n]) <=> state[u] = "suspended" /\ wants[u] = n
      BY <1>1 DEF Waits
    <3>2. wants'[u] = wants[u]
      BY <1>3
    <3> QED
      BY <1>2, <1>5, <3>1, <3>2
  <2>3. ASSUME NEW u \in Thread
        PROVE  /\ armed'[u] => state'[u] = "suspended"
               /\ state'[u] = "suspended" => error'[u] = "EOK"
               /\ state'[u] = "run" <=> wants'[u] = None
    <3>1. /\ armed[u] => state[u] = "suspended"
          /\ state[u] = "suspended" => error[u] = "EOK"
          /\ state[u] = "run" <=> wants[u] = None
      BY <1>1 DEF Waits
    <3> QED
      BY <1>1, <1>2, <1>3, <1>5, <3>1
  <2> QED
    BY <2>1, <2>2, <2>3 DEF Waits
<1>8. Waited'
  <2>1. \A u \in Elements(waiting[m]) : u \in Thread
    BY <1>1, HeadElement DEF TypeOK
  <2> QED
    BY <1>1, <1>2, <1>5 DEF Waited
<1>9. ASSUME NEW n \in Mutex, NEW u \in Thread
      PROVE  Takes(taken[u], n)' + Handed(u, n)' = IF owner'[n] = u THEN hold'[n] ELSE 0
  <2>1. /\ Takes(taken[u], n) \in Nat /\ Handed(u, n) \in Nat /\ hold[n] \in Nat
        /\ Takes(taken[u], n) + Handed(u, n) = IF owner[n] = u THEN hold[n] ELSE 0
    BY <1>1, TakesSome DEF TypeOK, Owned, Handed
  <2>2. Handed(u, n)' = IF u = w /\ n = m THEN 1 ELSE Handed(u, n)
    BY <1>2, <1>3, <1>5 DEF Handed
  <2>3. Takes(taken[u], n)' = Takes(taken[u], n) - IF u = t /\ n = m THEN 1 ELSE 0
    BY <2>1, GivesBackOnce, <1>3
  <2>4. CASE n # m
    <3>1. owner'[n] = owner[n] /\ hold'[n] = hold[n] /\ Handed(u, n)' = Handed(u, n)
      BY <1>5, <2>2, <2>4
    <3>2. Takes(taken[u], n)' = Takes(taken[u], n)
      BY <2>1, <2>3, <2>4
    <3> QED
      BY <2>1, <3>1, <3>2
  <2>5. CASE n = m /\ u = t
    <3>1. Handed(u, n) = 0
      BY <1>3, <2>5 DEF Handed
    <3> QED
      BY <1>3, <1>5, <2>1, <2>2, <2>3, <2>5, <3>1
  <2>6. CASE n = m /\ u = w
    <3>1. Handed(u, n) = 0
      BY <1>2, <2>6 DEF Handed
    <3> QED
      BY <1>3, <1>5, <2>1, <2>2, <2>3, <2>6, <3>1
  <2>7. CASE n = m /\ u # t /\ u # w
    BY <1>3, <1>5, <2>1, <2>2, <2>3, <2>7
  <2> QED
    BY <2>4, <2>5, <2>6, <2>7
<1>10. Owned'
  BY <1>1, <1>2, <1>3, <1>5, <1>9 DEF Owned
<1> QED
  BY <1>6, <1>7, <1>8, <1>10 DEF MutexInv

\* The last rt_mutex_release of a mutex nobody waits for.
LEMMA SetFreeKeeps ==
    ASSUME MutexInv, NEW t \in Thread, NEW m \in Mutex, ReleaseLast(t, m), SetFree(m)
    PROVE  MutexInv'
<1>1. TypeOK /\ Waited /\ Owned /\ Waits /\ t # None /\ m # None /\ None \notin Thread
  BY MutexAssumption DEF MutexInv
<1>2. /\ state[t] = "run" /\ owner[m] = t /\ hold[m] = 1 /\ waiting[m] = <<>>
      /\ UNCHANGED <<wants, error, waiting, state, armed>> /\ GivesBack(t, m)
  BY DEF ReleaseLast, SetFree
<1>3. /\ owner' = [owner EXCEPT ![m] = None] /\ hold' = [hold EXCEPT ![m] = 0]
      /\ original' = [original EXCEPT ![m] = NoPriority]
      /\ value' = [value EXCEPT ![m] = @ + 1] /\ value[m] = 0
      /\ prio' = [prio EXCEPT ![t] = original[m]]
  BY <1>1, <1>2 DEF SetFree, ReleaseLast, Owned, TypeOK
<1>4. \A n \in Mutex :
        /\ owner'[n] = IF n = m THEN None ELSE owner[n]
        /\ hold'[n] = IF n = m THEN 0 ELSE hold[n]
        /\ value'[n] = IF n = m THEN 1 ELSE value[n]
  BY <1>1, <1>3 DEF TypeOK
<1>5. TypeOK'
  <2>1. NoPriority \in 0..NoPriority /\ MaxHold \in 1..255
    BY MutexAssumption DEF NoPriority
  <2>2. value' \in [Mutex -> {0, 1}]
    BY <1>1, <1>3 DEF TypeOK
  <2>3. owner' \in [Mutex -> Thread \cup {None}] /\ hold' \in [Mutex -> 0..MaxHold]
    BY <1>1, <1>3, <2>1 DEF TypeOK
  <2>4. original' \in [Mutex -> 0..NoPriority] /\ prio' \in [Thread -> 0..NoPriority]
    BY <1>1, <1>3, <2>1 DEF TypeOK
  <2>5. taken' \in [Thread -> Seq(Mutex)]
    BY <1>2, GivesBackOnce
  <2> QED
    BY <1>1, <1>2, <2>2, <2>3, <2>4, <2>5 DEF TypeOK
<1>6. Waits' /\ \A u \in Thread : \A n : Handed(u, n)' = Handed(u, n)
  BY <1>1, <1>2 DEF Waits, Handed
<1>7. Waited'
  <2>1. Elements(waiting[m]) = {}
    BY <1>1, <1>2, HeadElement DEF TypeOK
  <2> QED
    BY <1>1, <1>2, <1>4, <2>1 DEF Waited
<1>8. ASSUME NEW n \in Mutex, NEW u \in Thread
      PROVE  Takes(taken[u], n)' + Handed(u, n)' = IF owner'[n] = u THEN hold'[n] ELSE 0
  <2>1. /\ Takes(taken[u], n) \in Nat /\ Handed(u, n) \in Nat /\ hold[n] \in Nat
        /\ Takes(taken[u], n) + Handed(u, n) = IF owner[n] = u THEN hold[n] ELSE 0
    BY <1>1, TakesSome DEF TypeOK, Owned, Handed
  <2>2. Takes(taken[u], n)' = Takes(taken[u], n) - IF u = t /\ n = m THEN 1 ELSE 0
    BY <2>1, GivesBackOnce, <1>2
  <2>3. u = t => Handed(u, n) = 0
    BY <1>2 DEF Handed
  <2> QED
    BY <1>1, <1>2, <1>4, <1>6, <2>1, <2>2, <2>3
<1>9. Owned'
  BY <1>1, <1>4, <1>8 DEF Owned
<1> QED
  BY <1>5, <1>6, <1>7, <1>9 DEF MutexInv

\* rt_thread_timeout
LEMMA TimeoutKeeps ==
    ASSUME MutexInv, NEW t \in Thread, Timeout(t)
    PROVE  MutexInv'
<1> USE DEF Timeout
<1>1. TypeOK /\ Waited /\ Owned /\ Waits /\ state[t] = "suspended"
  BY DEF MutexInv, Waits
<1>2. \A n \in Mutex :
        /\ waiting'[n] \in Seq(Thread) /\ Distinct(waiting'[n])
        /\ Elements(waiting'[n]) = Elements(waiting[n]) \ {t}
  <2> TAKE n \in Mutex
  <2>1. waiting'[n] = Without(waiting[n], t) /\ waiting[n] \in Seq(Thread) /\ Distinct(waiting[n])
    BY <1>1 DEF TypeOK, Waits
  <2> QED
    BY <2>1, WithoutElements, WithoutDistinct
<1>3. TypeOK'
  BY <1>1, <1>2 DEF TypeOK
<1>4. /\ \A u \in Thread :
           /\ state'[u] = IF u = t THEN "resumed" ELSE state[u]
           /\ armed'[u] = IF u = t THEN FALSE ELSE armed[u]
           /\ error'[u] = IF u = t THEN "ETIMEOUT" ELSE error[u]
      /\ UNCHANGED <<value, owner, hold, wants, taken>>
  BY <1>1 DEF TypeOK
<1> HIDE DEF Timeout
<1>5. Waits'
  <2>1. \A n \in Mutex : Distinct(waiting'[n])
    BY <1>2
  <2>2. ASSUME NEW u \in Thread, NEW n \in Mutex
        PROVE  u \in Elements(waiting'[n]) <=> state'[u] = "suspended" /\ wants'[u] = n
    <3>1. u \in Elements(waiting[n]) <=> state[u] = "suspended" /\ wants[u] = n
      BY <1>1 DEF Waits
    <3> QED
      BY <1>2, <1>4, <3>1
  <2>3. ASSUME NEW u \in Thread
        PROVE  /\ armed'[u] => state'[u] = "suspended"
               /\ state'[u] = "suspended" => error'[u] = "EOK"
               /\ state'[u] = "run" <=> wants'[u] = None
    <3>1. /\ armed[u] => state[u] = "suspended"
          /\ state[u] = "suspended" => error[u] = "EOK"
          /\ state[u] = "run" <=> wants[u] = None
      BY <1>1 DEF Waits
    <3> QED
      BY <1>1, <1>4, <3>1
  <2> QED
    BY <2>1, <2>2, <2>3 DEF Waits
<1>6. Waited'
  BY <1>1, <1>2, <1>4 DEF Waited
<1>7. \A u \in Thread, n \in Mutex : Handed(u, n)' = Handed(u, n)
  BY <1>1, <1>4 DEF Handed
<1>8. Owned'
  BY <1>1, <1>4, <1>7 DEF Owned
<1> QED
  BY <1>3, <1>5, <1>6, <1>8 DEF MutexInv

\* Every step keeps the invariant.
LEMMA MutexInvNext == MutexInv /\ [Next]_vars => MutexInv'
<1> SUFFICES ASSUME MutexInv, [Next]_vars PROVE MutexInv'
  OBVIOUS
<1>1. ASSUME NEW t \in Thread, NEW m \in Mutex, ReleaseLast(t, m) PROVE MutexInv'
  BY <1>1, HandOverKeeps, SetFreeKeeps DEF ReleaseLast
<1>2. ASSUME NEW t \in Thread, Works(t) PROVE MutexInv'
  BY <1>1, <1>2, TakeReturnsKeeps, TakeAgainKeeps, TakeNowKeeps, RefusedKeeps,
     TakeWaitsKeeps, ReleaseInnerKeeps DEF Works
<1>3. CASE UNCHANGED vars
  BY <1>3 DEF vars, mutexVars, threadVars, MutexInv, TypeOK, Waits, Waited, Owned, Handed
<1> QED
  BY <1>2, <1>3, TimeoutKeeps DEF Next

\* For any threads and mutexes, the variables of the model keep their types; in
\* particular the value of a mutex is 0 or 1.
THEOREM MutexTypes == Spec => []TypeOK
<1>1. MutexInv => TypeOK
  BY DEF MutexInv
<1> QED
  BY <1>1, MutexInvInit, MutexInvNext, PTL DEF Spec

\* A mutex has one holder, which rt_mutex_take and rt_mutex_release agree on with
\* the programs that called them, in whatever order they release.
THEOREM OwnerHoldsHolds == Spec => []OwnerHolds
<1>1. MutexInv => OwnerHolds
  <2> SUFFICES ASSUME MutexInv PROVE OwnerHolds
    OBVIOUS
  <2>1. TypeOK /\ Waited /\ Owned
    BY DEF MutexInv
  <2>2. ASSUME NEW m \in Mutex, owner[m] = None PROVE waiting[m] = <<>>
    BY <2>1, <2>2, HeadElement DEF Waited, TypeOK
  <2>3. \A t \in Thread, m \in Mutex : Count(t, m) = Takes(taken[t], m)
    BY DEF Count, Takes
  <2>4. ASSUME NEW m \in Mutex, NEW t \in Thread
        PROVE  LET handed == IF state[t] = "resumed" /\ wants[t] = m /\ error[t] = "EOK"
                               THEN 1 ELSE 0
               IN  IF owner[m] = t THEN hold[m] = Count(t, m) + handed
                                   ELSE Count(t, m) + handed = 0
    BY <2>1, <2>3 DEF Owned, Handed
  <2> QED
    BY <2>1, <2>2, <2>4 DEF OwnerHolds, Owned
<1> QED
  BY <1>1, MutexInvInit, MutexInvNext, PTL DEF Spec

-----------------------------------------------------------------------------
(* Priorities *)

\* A thread owns the first mutex it took, and a mutex it owns without having
\* taken any was handed to it.
OwnsFirst ==
    \A t \in Thread :
      /\ taken[t] # <<>> => taken[t][1] \in Mutex /\ owner[taken[t][1]] = t
      /\ \A m \in Mutex :
           /\ owner[m] = t /\ taken[t] = <<>> => state[t] = "resumed"
           /\ Handed(t, m) = 1 => owner[m] = t

\* This follows from the counts.
LEMMA FirstIsOwned == MutexInv => OwnsFirst
<1> SUFFICES ASSUME MutexInv PROVE OwnsFirst
  OBVIOUS
<1>1. TypeOK /\ Owned
  BY DEF MutexInv
<1>2. ASSUME NEW t \in Thread, taken[t] # <<>>
      PROVE  taken[t][1] \in Mutex /\ owner[taken[t][1]] = t
  <2> DEFINE m == taken[t][1]
  <2>1. taken[t] \in Seq(Mutex)
    BY <1>1 DEF TypeOK
  <2>2. 1 \in 1..Len(taken[t])
    BY <1>2, <2>1, EmptySeq, LenProperties
  <2>3. m \in Mutex /\ Takes(taken[t], m) \in Nat /\ Takes(taken[t], m) # 0
    BY <2>1, <2>2, TakesSome, ElementOfSeq
  <2>4. /\ Takes(taken[t], m) + Handed(t, m) = IF owner[m] = t THEN hold[m] ELSE 0
        /\ Handed(t, m) \in Nat
    BY <1>1, <2>3 DEF Owned, Handed
  <2> QED
    BY <2>3, <2>4
<1>3. ASSUME NEW t \in Thread, NEW m \in Mutex
      PROVE  /\ owner[m] = t /\ taken[t] = <<>> => state[t] = "resumed"
             /\ Handed(t, m) = 1 => owner[m] = t
  <2>1. /\ Takes(taken[t], m) + Handed(t, m) = IF owner[m] = t THEN hold[m] ELSE 0
        /\ owner[m] # None => hold[m] >= 1
        /\ Takes(taken[t], m) \in Nat /\ (taken[t] = <<>> => Takes(taken[t], m) = 0)
        /\ hold[m] \in Nat /\ t # None
    BY <1>1, TakesSome, MutexAssumption DEF Owned, TypeOK
  <2>2. Handed(t, m) \in Nat /\ (Handed(t, m) # 0 => state[t] = "resumed")
    BY DEF Handed
  <2> QED
    BY <2>1, <2>2
<1> QED
  BY <1>2, <1>3 DEF OwnsFirst

\* The program takes another mutex, or the same once more.
LEMMA TakesKeepFirst ==
    ASSUME PrioInv, NEW t \in Thread, NEW m \in Mutex, TakeAgain(t, m) \/ TakeNow(t, m)
    PROVE  FirstOriginal'
<1>1. MutexInv /\ TypeOK /\ OwnsFirst /\ PriorityRestored /\ FirstOriginal /\ t # None
  BY FirstIsOwned, MutexAssumption DEF PrioInv, MutexInv, FirstOriginal
<1>2. /\ state[t] = "run" /\ UNCHANGED prio
      /\ \A u \in Thread : u # t => taken'[u] = taken[u]
      /\ taken'[t] # <<>> /\ taken'[t][1] = IF taken[t] = <<>> THEN m ELSE taken[t][1]
  <2>1. state[t] = "run" /\ Took(t, m) /\ UNCHANGED prio
    BY DEF TakeAgain, TakeNow
  <2>2. taken[t] \in Seq(Mutex) /\ taken'[t] = Append(taken[t], m)
    BY <1>1, <2>1 DEF Took, TypeOK
  <2>3. taken'[t] # <<>> /\ taken'[t][1] = IF taken[t] = <<>> THEN m ELSE taken[t][1]
    BY <2>2, AppendFirst
  <2> QED
    BY <1>1, <2>1, <2>3 DEF Took, TypeOK
<1>3. \A n \in Mutex : owner[n] = t => taken[t] # <<>>
  BY <1>1, <1>2 DEF OwnsFirst
<1>4. CASE TakeAgain(t, m)
  <2>1. UNCHANGED <<owner, original>> /\ taken[t] # <<>>
    BY <1>3, <1>4 DEF TakeAgain
  <2> QED
    BY <1>1, <1>2, <2>1 DEF FirstOriginal, PriorityRestored
<1>5. CASE TakeNow(t, m)
  <2>1. /\ owner[m] = None
        /\ \A n \in Mutex :
             /\ owner'[n] = IF n = m THEN t ELSE owner[n]
             /\ original'[n] = IF n = m THEN prio[t] ELSE original[n]
    BY <1>1, <1>5 DEF TakeNow, TypeOK, MutexInv, Owned
  <2>2. \A u \in Thread : taken[u] # <<>> => taken[u][1] \in Mutex /\ taken[u][1] # m
    BY <1>1, <2>1, MutexAssumption DEF OwnsFirst
  <2>3. taken[t] = <<>> => prio[t] = BasePrio[t]
    BY <1>1, <1>3 DEF PriorityRestored
  <2>4. PriorityRestored'
    BY <1>1, <1>2, <2>1, MutexAssumption DEF PriorityRestored
  <2>5. ASSUME NEW u \in Thread, taken'[u] # <<>>
        PROVE  original'[taken'[u][1]] = BasePrio[u]
    BY <1>1, <1>2, <2>1, <2>2, <2>3, <2>5 DEF FirstOriginal
  <2>6. ASSUME NEW u \in Thread, NEW n \in Mutex, taken'[u] = <<>>, owner'[n] = u
        PROVE  original'[n] = BasePrio[u]
    BY <1>1, <1>2, <2>1, <2>6 DEF FirstOriginal
  <2> QED
    BY <2>4, <2>5, <2>6 DEF FirstOriginal
<1> QED
  BY <1>4, <1>5

\* What was handed over becomes a take, the first one perhaps.
LEMMA ReturnKeepsFirst ==
    ASSUME PrioInv, NEW t \in Thread, TakeReturns(t)
    PROVE  FirstOriginal'
<1>1. MutexInv /\ TypeOK /\ OwnsFirst /\ FirstOriginal /\ Waits
  BY FirstIsOwned DEF PrioInv, MutexInv
<1> DEFINE m == wants[t]
<1>2. /\ UNCHANGED <<owner, original, prio>> /\ state[t] = "resumed" /\ m \in Mutex
      /\ \A u \in Thread : u # t => taken'[u] = taken[u]
  BY <1>1 DEF TakeReturns, mutexVars, Took, TypeOK, Waits
<1>3. CASE error[t] = "EOK"
  <2>1. taken[t] \in Seq(Mutex) /\ taken'[t] = Append(taken[t], m)
    BY <1>1, <1>3 DEF TakeReturns, Took, TypeOK
  <2>2. taken'[t] # <<>> /\ taken'[t][1] = IF taken[t] = <<>> THEN m ELSE taken[t][1]
    BY <1>2, <2>1, AppendFirst
  <2>3. owner[m] = t
    BY <1>1, <1>2, <1>3 DEF OwnsFirst, Handed
  <2> QED
    BY <1>1, <1>2, <2>2, <2>3 DEF FirstOriginal, PriorityRestored
<1>4. CASE error[t] # "EOK"
  BY <1>1, <1>2, <1>4 DEF TakeReturns, FirstOriginal, PriorityRestored
<1> QED
  BY <1>3, <1>4

\* The last take is given back: it is the first only if nothing is left.
LEMMA ReleaseKeepsFirst ==
    ASSUME Nested, PrioInv, MutexInv', NEW t \in Thread, NEW m \in Mutex,
           ReleaseInner(t, m) \/ ReleaseLast(t, m)
    PROVE  FirstOriginal'
<1>1. MutexInv /\ TypeOK /\ OwnsFirst /\ PriorityRestored /\ FirstOriginal /\ t # None
  BY FirstIsOwned, MutexAssumption DEF PrioInv, MutexInv, FirstOriginal
<1>2. OwnsFirst'
  <2>1. (MutexInv => OwnsFirst)'
    BY FirstIsOwned, PTL
  <2> QED
    BY <2>1
<1>3. /\ owner[m] = t /\ state[t] = "run" /\ GivesBack(t, m)
      /\ \A u \in Thread : u # t => taken'[u] = taken[u]
      /\ taken[t] # <<>>
      /\ taken'[t] # <<>> => taken'[t][1] = taken[t][1]
  <2>1. owner[m] = t /\ state[t] = "run" /\ GivesBack(t, m)
    BY DEF ReleaseInner, ReleaseLast
  <2>2. taken[t] # <<>>
    BY <1>1, <2>1 DEF OwnsFirst
  <2> QED
    BY <1>1, <2>1, <2>2, GivesBackOnce
<1>4. CASE ReleaseInner(t, m)
  <2>1. UNCHANGED <<owner, original, prio, state>>
    BY <1>4 DEF ReleaseInner
  <2>2. taken'[t] # <<>>
    BY <1>2, <1>3, <2>1 DEF OwnsFirst
  <2> QED
    BY <1>1, <1>3, <2>1, <2>2 DEF FirstOriginal, PriorityRestored
<1>5. CASE ReleaseLast(t, m)
  <2>1. PICK w \in Thread \cup {None} :
          /\ w # t /\ (w # None => state[w] = "suspended" /\ original'[m] = prio[w])
          /\ \A n \in Mutex :
               /\ owner'[n] = IF n = m THEN w ELSE owner[n]
               /\ n # m => original'[n] = original[n]
          /\ state'[t] = "run"
    <3>1. CASE HandOver(m)
      <4> DEFINE v == Head(waiting[m])
      <4>1. v \in Thread /\ state[v] = "suspended" /\ v # None
        BY <1>1, <3>1, FirstWaiter, MutexAssumption DEF HandOver
      <4>2. \A n \in Mutex :
              /\ owner'[n] = IF n = m THEN v ELSE owner[n]
              /\ original'[n] = IF n = m THEN prio[v] ELSE original[n]
        BY <1>1, <3>1 DEF HandOver, TypeOK
      <4>3. state'[t] = "run"
        BY <1>1, <1>3, <3>1, <4>1 DEF HandOver, TypeOK
      <4> HIDE DEF v
      <4> QED
        BY <1>3, <4>1, <4>2, <4>3
    <3>2. CASE SetFree(m)
      <4>1. \A n \in Mutex :
              /\ owner'[n] = IF n = m THEN None ELSE owner[n]
              /\ n # m => original'[n] = original[n]
        BY <1>1, <3>2 DEF SetFree, TypeOK
      <4> QED
        BY <1>1, <1>3, <3>2, <4>1 DEF SetFree
    <3> QED
      BY <1>5, <3>1, <3>2 DEF ReleaseLast
  <2>2. \A u \in Thread : prio'[u] = IF u = t THEN original[m] ELSE prio[u]
    BY <1>1, <1>5 DEF ReleaseLast, TypeOK
  <2>3. \A u \in Thread : taken'[u] # <<>> => /\ taken'[u][1] \in Mutex /\ owner'[taken'[u][1]] = u
                                              /\ taken'[u][1] = taken[u][1] /\ taken[u] # <<>>
    BY <1>2, <1>3 DEF OwnsFirst
  <2>4. ASSUME NEW u \in Thread, \A n \in Mutex : owner'[n] # u PROVE prio'[u] = BasePrio[u]
    <3>1. CASE u = t
      <4>1. taken[t][1] \in Mutex /\ owner[taken[t][1]] = t
        BY <1>1, <1>3 DEF OwnsFirst
      <4>2. taken[t][1] = m
        BY <2>1, <2>4, <3>1, <4>1
      <4> QED
        BY <1>1, <1>3, <2>2, <3>1, <4>2 DEF FirstOriginal
    <3>2. CASE u # t
      <4>1. \A n \in Mutex : owner[n] # u
        BY <1>3, <2>1, <2>4, <3>2
      <4> QED
        BY <1>1, <2>2, <3>2, <4>1 DEF PriorityRestored
    <3> QED
      BY <3>1, <3>2
  <2>5. ASSUME NEW u \in Thread, taken'[u] # <<>> PROVE original'[taken'[u][1]] = BasePrio[u]
    <3>1. taken[u][1] \in Mutex /\ owner[taken[u][1]] = u /\ original[taken[u][1]] = BasePrio[u]
      BY <1>1, <2>3, <2>5 DEF OwnsFirst, FirstOriginal
    <3>2. taken[u][1] # m
      BY <1>3, <2>1, <2>3, <2>5, <3>1
    <3> QED
      BY <2>1, <2>3, <2>5, <3>1, <3>2
  <2>6. ASSUME NEW u \in Thread, NEW n \in Mutex, taken'[u] = <<>>, owner'[n] = u
        PROVE  original'[n] = BasePrio[u]
    <3>1. u # t
      BY <1>2, <2>1, <2>6 DEF OwnsFirst
    <3>2. taken[u] = <<>>
      BY <1>3, <2>6, <3>1
    <3>3. CASE n = m
      <4>1. u = w /\ state[u] = "suspended" /\ original'[m] = prio[u]
        BY <2>1, <2>6, <3>3, MutexAssumption
      <4>2. \A k \in Mutex : owner[k] # u
        BY <1>1, <3>2, <4>1 DEF OwnsFirst
      <4> QED
        BY <1>1, <3>3, <4>1, <4>2 DEF PriorityRestored
    <3>4. CASE n # m
      BY <1>1, <2>1, <2>6, <3>2, <3>4 DEF FirstOriginal
    <3> QED
      BY <3>3, <3>4
  <2> QED
    BY <2>4, <2>5, <2>6 DEF FirstOriginal, PriorityRestored
<1> QED
  BY <1>4, <1>5

\* Every other step leaves owners and takes alone, or raises an owner.
LEMMA OthersKeepFirst ==
    ASSUME PrioInv, NEW t \in Thread,
           \/ Timeout(t)
           \/ \E m \in Mutex : \/ TakeFails(t, m) \/ ReleaseRefused(t, m)
                               \/ \E timed \in BOOLEAN : TakeWaits(t, m, timed)
    PROVE  FirstOriginal'
<1>1. TypeOK /\ Owned /\ FirstOriginal /\ PriorityRestored
  BY DEF PrioInv, MutexInv, FirstOriginal
<1>2. UNCHANGED <<owner, original, taken>>
  BY DEF Timeout, TakeFails, ReleaseRefused, TakeWaits, mutexVars
<1>3. ASSUME NEW u \in Thread, \A n \in Mutex : owner[n] # u PROVE prio'[u] = prio[u]
  <2>1. CASE \E m \in Mutex, timed \in BOOLEAN : TakeWaits(t, m, timed)
    BY <1>1, <1>3, <2>1 DEF TakeWaits, TypeOK
  <2> QED
    BY <2>1 DEF Timeout, TakeFails, ReleaseRefused
<1> QED
  BY <1>1, <1>2, <1>3 DEF FirstOriginal, PriorityRestored

\* The strengthened invariant starts true,
LEMMA PrioInvInit == Init => PrioInv
<1> SUFFICES ASSUME Init PROVE PrioInv
  OBVIOUS
<1>1. FirstOriginal
  BY MutexAssumption DEF Init, FirstOriginal, PriorityRestored
<1> QED
  BY <1>1, MutexInvInit DEF PrioInv

\* and stays so.
LEMMA PrioInvNext == ASSUME Nested PROVE PrioInv /\ [Next]_vars => PrioInv'
<1> SUFFICES ASSUME PrioInv, [Next]_vars PROVE PrioInv'
  OBVIOUS
<1>1. MutexInv'
  BY MutexInvNext DEF PrioInv
<1>2. ASSUME NEW t \in Thread, Works(t) PROVE FirstOriginal'
  BY <1>1, <1>2, TakesKeepFirst, ReturnKeepsFirst, ReleaseKeepsFirst, OthersKeepFirst DEF Works
<1>3. ASSUME UNCHANGED vars PROVE FirstOriginal'
  BY <1>3 DEF vars, mutexVars, threadVars, PrioInv, FirstOriginal, PriorityRestored
<1>4. FirstOriginal'
  BY <1>2, <1>3, OthersKeepFirst DEF Next, PrioInv
<1> QED
  BY <1>1, <1>4 DEF PrioInv

\* If mutexes are released in the reverse order of their takes, a thread that
\* holds none runs at the priority it was created with, whatever it inherited,
\* from whom and through which of its mutexes.
THEOREM PriorityRestoredHolds == ASSUME Nested PROVE Spec => []PriorityRestored
<1>1. PrioInv => PriorityRestored
  BY DEF PrioInv, FirstOriginal
<1> QED
  BY <1>1, PrioInvInit, PrioInvNext, PTL DEF Spec
=============================================================================
