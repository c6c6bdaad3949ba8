----------------------------- MODULE ObjectProofs -----------------------------
(***************************************************************************)
(* Mailboxes, message queues, memory pools and data queues of any size,    *)
(* events of any bits, and completions, for any threads: no wake-up is     *)
(* lost, no event, mail, message, item, slot or block.                     *)
(***************************************************************************)
EXTENDS Mailbox, MessageQueue, Event, MemPool, DataQueue, Completion,
        ListTheorems

-----------------------------------------------------------------------------
(* The waiting lists of all objects: who is on a list sleeps in a call of  *)
(* the list's kind, on no other list, once; and how a step of an object    *)
(* changes the number of threads that are awake inside a call of some kind.*)

\* What a thread is in, as `Waiters` has it.
ThreadState == {"run", "suspended", "woken", "failed"}

\* The threads on list l sleep in calls of kind[l].
WaitInv(kind) ==
    /\ waiting \in [List -> Seq(Thread)]
    /\ state \in [Thread -> ThreadState]
    /\ call = [t \in Thread |-> call[t]]
    /\ \A l \in List : Distinct(waiting[l])
    /\ \A l \in List : \A t \in Elements(waiting[l]) :
         state[t] = "suspended" /\ l \in DOMAIN kind /\ call[t].op = kind[l]
    /\ \A l, k \in List : Elements(waiting[l]) \cap Elements(waiting[k]) # {} => l = k

\* What is left of a list, and what was taken off it.
LEMMA TailElements ==
    ASSUME NEW S, NEW s \in Seq(S), s # <<>>
    PROVE  /\ Head(s) \in S /\ Tail(s) \in Seq(S) /\ Len(Tail(s)) = Len(s) - 1
           /\ Elements(s) = Elements(Tail(s)) \cup {Head(s)}
           /\ Distinct(s) => Distinct(Tail(s)) /\ Head(s) \notin Elements(Tail(s))
<1>1. /\ Len(s) \in Nat /\ Len(s) > 0
      /\ Tail(s) \in Seq(S) /\ Len(Tail(s)) = Len(s) - 1
      /\ \A i \in 1..Len(Tail(s)) : Tail(s)[i] = s[i + 1]
      /\ Head(s) = s[1] /\ Head(s) \in S
  BY HeadTailProperties, LenProperties, EmptySeq
<1>2. Elements(Tail(s)) \cup {Head(s)} \subseteq Elements(s)
  BY <1>1 DEF Elements
<1>3. Elements(s) \subseteq Elements(Tail(s)) \cup {Head(s)}
  <2>1. ASSUME NEW i \in 1..Len(s), i # 1
        PROVE  i - 1 \in 1..Len(Tail(s)) /\ s[i] = Tail(s)[i - 1]
    BY <1>1, <2>1
  <2> QED
    BY <1>1, <2>1 DEF Elements
<1>4. Distinct(s) => Distinct(Tail(s)) /\ Head(s) \notin Elements(Tail(s))
  BY <1>1 DEF Distinct, Elements
<1> QED
  BY <1>1, <1>2, <1>3, <1>4

\* Taking an element off a list makes it no longer.
LEMMA WithoutShorter ==
    ASSUME NEW S, NEW s \in Seq(S), NEW x
    PROVE  Len(Without(s, x)) <= Len(s) /\ Len(Without(s, x)) \in Nat /\ Len(s) \in Nat
<1>1. Without(s, x) \in Seq(S)
  BY WithoutElements
<1>2. CASE x \in Elements(s)
  BY <1>1, <1>2, WithoutShifts, LenProperties DEF Skips
<1>3. CASE x \notin Elements(s)
  BY <1>3, WithoutAbsent, LenProperties
<1> QED
  BY <1>2, <1>3

-----------------------------------------------------------------------------
(* The lists *)

\* Nobody waits on a new object.
LEMMA WaitersStart ==
    ASSUME WaitersInit, NEW kind
    PROVE  WaitInv(kind) /\ \A t \in Thread : call[t] = NoCall /\ state[t] = "run"
<1>1. Elements(<<>>) = {} /\ Distinct(<<>>) /\ <<>> \in Seq(Thread)
  BY DEF Elements, Distinct
<1> QED
  BY <1>1 DEF WaitersInit, WaitInv, ThreadState

\* A step after which nobody waits who did not wait before, and in which the
\* threads that still wait do nothing.
LEMMA FewerWait ==
    ASSUME NEW kind, WaitInv(kind),
           waiting' \in [List -> Seq(Thread)], state' \in [Thread -> ThreadState],
           call' = [t \in Thread |-> call'[t]],
           \A l \in List : /\ Distinct(waiting'[l])
                           /\ Elements(waiting'[l]) \subseteq Elements(waiting[l]),
           \A l \in List : \A t \in Elements(waiting'[l]) :
             state'[t] = state[t] /\ call'[t] = call[t]
    PROVE  WaitInv(kind)'
<1>1. \A l \in List : \A t \in Elements(waiting'[l]) :
        state'[t] = "suspended" /\ l \in DOMAIN kind /\ call'[t].op = kind[l]
  <2> SUFFICES ASSUME NEW l \in List, NEW t \in Elements(waiting'[l])
               PROVE  state'[t] = "suspended" /\ l \in DOMAIN kind /\ call'[t].op = kind[l]
    OBVIOUS
  <2>1. t \in Elements(waiting[l]) /\ state'[t] = state[t] /\ call'[t] = call[t]
    OBVIOUS
  <2>2. state[t] = "suspended" /\ l \in DOMAIN kind /\ call[t].op = kind[l]
    BY <2>1 DEF WaitInv
  <2> QED
    BY <2>1, <2>2
<1>2. \A l, k \in List : Elements(waiting'[l]) \cap Elements(waiting'[k]) # {} => l = k
  <2>1. \A l, k \in List : Elements(waiting[l]) \cap Elements(waiting[k]) # {} => l = k
    BY DEF WaitInv
  <2> QED
    BY <2>1
<1> QED
  BY <1>1, <1>2 DEF WaitInv

\* A step of thread t, which does not sleep, that wakes nobody.
LEMMA RunsOn ==
    ASSUME NEW kind, WaitInv(kind), NEW t \in Thread, state[t] # "suspended",
           state' = [state EXCEPT ![t] = "run"], UNCHANGED waiting,
           \/ Leaves(t)
           \/ \E c : call' = [call EXCEPT ![t] = c]
    PROVE  /\ WaitInv(kind)'
           /\ \A op : Woken(op)' = Woken(op) \ {t}
<1>1. call' = [u \in Thread |-> call'[u]] /\ \A u \in Thread \ {t} : call'[u] = call[u]
  BY DEF WaitInv, Leaves
<1>2. \A l \in List : \A u \in Elements(waiting[l]) : u \in Thread /\ u # t
  BY HeadElement DEF WaitInv
<1>3. WaitInv(kind)'
  <2>1. /\ waiting' \in [List -> Seq(Thread)] /\ state' \in [Thread -> ThreadState]
        /\ \A l \in List : waiting'[l] = waiting[l] /\ Distinct(waiting'[l])
        /\ \A u \in Thread \ {t} : state'[u] = state[u]
    BY DEF WaitInv, ThreadState
  <2>2. \A l \in List : \A u \in Elements(waiting'[l]) :
          state'[u] = state[u] /\ call'[u] = call[u]
    BY <1>1, <1>2, <2>1
  <2> QED
    BY <1>1, <2>1, <2>2, FewerWait
<1>4. \A u \in Thread : state'[u] = IF u = t THEN "run" ELSE state[u]
  BY DEF WaitInv
<1> QED
  BY <1>1, <1>3, <1>4 DEF Woken

\* Thread t puts itself on list l, in one of the orders of the objects.
Suspends(l, t, c) ==
    \/ SuspendOn(l, t, c)
    \/ SuspendLast(l, t, c)
    \/ /\ waiting' = [waiting EXCEPT ![l] = <<t>> \o @]
       /\ state' = [state EXCEPT ![t] = "suspended"]
       /\ call' = [call EXCEPT ![t] = c]

\* A call falls asleep: its thread joins the list of its kind, and is no longer
\* one that was woken.
LEMMA SuspendsKeeps ==
    ASSUME NEW kind, WaitInv(kind), NEW t \in Thread, state[t] # "suspended",
           NEW l \in List, l \in DOMAIN kind, NEW c, c.op = kind[l], Suspends(l, t, c)
    PROVE  /\ WaitInv(kind)'
           /\ \A op : Woken(op)' = Woken(op) \ {t}
           /\ waiting'[l] # <<>> /\ \A k \in List \ {l} : waiting'[k] = waiting[k]
<1>1. waiting[l] \in Seq(Thread) /\ Distinct(waiting[l])
  BY DEF WaitInv
<1>2. \A k \in List : t \notin Elements(waiting[k])
  BY DEF WaitInv
<1>3. PICK w \in Seq(Thread) :
        /\ waiting' = [waiting EXCEPT ![l] = w]
        /\ Elements(w) = Elements(waiting[l]) \cup {t}
        /\ Distinct(w)
  <2>1. CASE SuspendOn(l, t, c)
    BY <1>1, <1>2, <2>1, EnqueuedElements DEF SuspendOn
  <2>2. CASE SuspendLast(l, t, c)
    BY <1>1, <1>2, <2>2, AppendElements DEF SuspendLast
  <2>3. CASE waiting' = [waiting EXCEPT ![l] = <<t>> \o @]
    BY <1>1, <1>2, <2>3, PushElements
  <2> QED
    BY <2>1, <2>2, <2>3 DEF Suspends
<1>4. state' = [state EXCEPT ![t] = "suspended"] /\ call' = [call EXCEPT ![t] = c]
  BY DEF Suspends, SuspendOn, SuspendLast
<1>5. /\ waiting' \in [List -> Seq(Thread)]
      /\ waiting'[l] = w /\ \A k \in List \ {l} : waiting'[k] = waiting[k]
  BY <1>3 DEF WaitInv
<1>6. /\ state' \in [Thread -> ThreadState]
      /\ state'[t] = "suspended" /\ \A u \in Thread \ {t} : state'[u] = state[u]
  BY <1>4 DEF WaitInv, ThreadState
<1>7. /\ call' = [u \in Thread |-> call'[u]]
      /\ call'[t] = c /\ \A u \in Thread \ {t} : call'[u] = call[u]
  BY <1>4 DEF WaitInv
<1>8. \A k \in List : Elements(waiting[k]) \subseteq Thread
  BY HeadElement DEF WaitInv
<1>9. \A k \in List : Elements(waiting'[k]) =
        IF k = l THEN Elements(waiting[l]) \cup {t} ELSE Elements(waiting[k])
  BY <1>3, <1>5
<1>10. \A k \in List : \A u \in Elements(waiting'[k]) :
         state'[u] = "suspended" /\ k \in DOMAIN kind /\ call'[u].op = kind[k]
  <2> SUFFICES ASSUME NEW k \in List, NEW u \in Elements(waiting'[k])
               PROVE  state'[u] = "suspended" /\ k \in DOMAIN kind /\ call'[u].op = kind[k]
    OBVIOUS
  <2>1. CASE u = t
    BY <1>2, <1>6, <1>7, <1>9, <2>1
  <2>2. CASE u # t
    <3>1. u \in Elements(waiting[k]) /\ u \in Thread
      BY <1>8, <1>9, <2>2
    <3>2. state[u] = "suspended" /\ k \in DOMAIN kind /\ call[u].op = kind[k]
      BY <3>1 DEF WaitInv
    <3> QED
      BY <1>6, <1>7, <2>2, <3>1, <3>2
  <2> QED
    BY <2>1, <2>2
<1>11. \A j, k \in List : Elements(waiting'[j]) \cap Elements(waiting'[k]) # {} => j = k
  <2>1. \A j, k \in List : Elements(waiting[j]) \cap Elements(waiting[k]) # {} => j = k
    BY DEF WaitInv
  <2> QED
    BY <1>2, <1>9, <2>1
<1>12. WaitInv(kind)'
  BY <1>3, <1>5, <1>6, <1>7, <1>10, <1>11 DEF WaitInv
<1>13. waiting'[l] # <<>>
  BY <1>3, <1>5, HeadElement
<1> QED
  BY <1>5, <1>6, <1>7, <1>12, <1>13 DEF Woken

\* The first thread of list l is woken, if there is one.
LEMMA ResumeFirstKeeps ==
    ASSUME NEW kind, WaitInv(kind), NEW l \in List, NEW running \in SUBSET Thread,
           \A t \in running : state[t] # "suspended", ResumeFirst(l, running),
           call' = [t \in Thread |-> call'[t]],
           \A t \in Thread \ running : call'[t] = call[t]
    PROVE  /\ WaitInv(kind)'
           /\ \A k \in List \ {l} : waiting'[k] = waiting[k]
           /\ waiting[l] = <<>> =>
                waiting'[l] = <<>> /\ \A op : Woken(op)' = Woken(op) \ running
           /\ waiting[l] # <<>> =>
                /\ Len(waiting'[l]) = Len(waiting[l]) - 1
                /\ Head(waiting[l]) \in Thread /\ Head(waiting[l]) \notin running
                /\ state[Head(waiting[l])] = "suspended"
                /\ \A op : Woken(op)' = (Woken(op) \ running)
                             \cup (IF op = kind[l] THEN {Head(waiting[l])} ELSE {})
<1>1. waiting[l] \in Seq(Thread) /\ Distinct(waiting[l])
  BY DEF WaitInv
<1>2. \A k \in List : Elements(waiting[k]) \subseteq Thread
  BY HeadElement DEF WaitInv
<1>3. CASE waiting[l] = <<>>
  <2>1. waiting' = waiting /\ state' = [t \in Thread |-> IF t \in running THEN "run" ELSE state[t]]
    BY <1>3 DEF ResumeFirst, WaitInv
  <2>2. /\ state' \in [Thread -> ThreadState] /\ waiting' \in [List -> Seq(Thread)]
        /\ \A k \in List : waiting'[k] = waiting[k] /\ Distinct(waiting'[k])
    BY <2>1 DEF WaitInv, ThreadState
  <2>3. \A k \in List : \A t \in Elements(waiting'[k]) : t \in Thread \ running
    BY <1>2, <2>2 DEF WaitInv
  <2>4. WaitInv(kind)'
    BY <2>1, <2>2, <2>3, FewerWait
  <2> QED
    BY <1>3, <2>1, <2>2, <2>4 DEF Woken
<1>4. CASE waiting[l] # <<>>
  <2> DEFINE h == Head(waiting[l])
  <2>1. /\ h \in Thread /\ Tail(waiting[l]) \in Seq(Thread)
        /\ Len(Tail(waiting[l])) = Len(waiting[l]) - 1
        /\ Elements(waiting[l]) = Elements(Tail(waiting[l])) \cup {h}
        /\ Distinct(Tail(waiting[l])) /\ h \notin Elements(Tail(waiting[l]))
    BY <1>1, <1>4, TailElements
  <2>2. state[h] = "suspended" /\ call[h].op = kind[l] /\ h \notin running
    BY <2>1 DEF WaitInv
  <2>3. /\ waiting' = [waiting EXCEPT ![l] = Tail(waiting[l])]
        /\ state' = [t \in Thread |-> IF t = h THEN "woken"
                                      ELSE IF t \in running THEN "run" ELSE state[t]]
    BY <1>4 DEF ResumeFirst, WaitInv
  <2> HIDE DEF h
  <2>4. /\ state' \in [Thread -> ThreadState] /\ waiting' \in [List -> Seq(Thread)]
        /\ waiting'[l] = Tail(waiting[l])
        /\ \A k \in List \ {l} : waiting'[k] = waiting[k]
    BY <2>1, <2>3 DEF WaitInv, ThreadState
  <2>5. \A k \in List : /\ Distinct(waiting'[k])
                        /\ Elements(waiting'[k]) \subseteq Elements(waiting[k])
    BY <2>1, <2>4 DEF WaitInv
  <2>6. \A k \in List : h \notin Elements(waiting'[k])
    <3>1. \A k \in List \ {l} : Elements(waiting[l]) \cap Elements(waiting[k]) = {}
      BY DEF WaitInv
    <3> QED
      BY <2>1, <2>4, <3>1
  <2>7. \A k \in List : \A t \in Elements(waiting'[k]) : t \in Thread \ running /\ t # h
    <3>1. \A k \in List : \A t \in Elements(waiting[k]) : t \in Thread /\ t \notin running
      BY <1>2 DEF WaitInv
    <3> QED
      BY <2>5, <2>6, <3>1
  <2>8. WaitInv(kind)'
    BY <2>3, <2>4, <2>5, <2>7, FewerWait
  <2>9. \A op : Woken(op)' = (Woken(op) \ running) \cup (IF op = kind[l] THEN {h} ELSE {})
    BY <2>1, <2>2, <2>3 DEF Woken
  <2> QED
    BY <1>4, <2>1, <2>2, <2>4, <2>8, <2>9 DEF h
<1> QED
  BY <1>3, <1>4

\* A wait times out.
LEMMA TimeoutKeeps ==
    ASSUME NEW kind, WaitInv(kind), NEW t \in Thread, Timeout(t)
    PROVE  /\ WaitInv(kind)'
           /\ \A op : Woken(op)' = Woken(op)
           /\ \A l \in List : /\ waiting'[l] # <<>> => waiting[l] # <<>>
                              /\ Len(waiting'[l]) <= Len(waiting[l])
                              /\ Len(waiting'[l]) \in Nat /\ Len(waiting[l]) \in Nat
<1>1. ASSUME NEW l \in List
      PROVE  /\ waiting'[l] \in Seq(Thread) /\ Distinct(waiting'[l])
             /\ Elements(waiting'[l]) = Elements(waiting[l]) \ {t}
             /\ waiting'[l] # <<>> => waiting[l] # <<>>
             /\ Len(waiting'[l]) <= Len(waiting[l])
             /\ Len(waiting'[l]) \in Nat /\ Len(waiting[l]) \in Nat
  <2>1. waiting[l] \in Seq(Thread) /\ Distinct(waiting[l]) /\ waiting'[l] = Without(waiting[l], t)
    BY DEF WaitInv, Timeout
  <2>2. /\ waiting'[l] \in Seq(Thread) /\ Distinct(waiting'[l])
        /\ Elements(waiting'[l]) = Elements(waiting[l]) \ {t}
        /\ Len(waiting'[l]) <= Len(waiting[l])
        /\ Len(waiting'[l]) \in Nat /\ Len(waiting[l]) \in Nat
    BY <2>1, WithoutElements, WithoutDistinct, WithoutShorter
  <2>3. /\ waiting[l] = <<>> <=> Elements(waiting[l]) = {}
        /\ waiting'[l] = <<>> <=> Elements(waiting'[l]) = {}
    BY <2>1, <2>2, HeadElement
  <2> QED
    BY <2>2, <2>3
<1>2. waiting' \in [List -> Seq(Thread)]
  <2>1. waiting' = [l \in List |-> waiting'[l]]
    BY DEF Timeout
  <2> QED
    BY <1>1, <2>1
<1>3. /\ state' \in [Thread -> ThreadState] /\ call' = call
      /\ state[t] = "suspended" /\ state'[t] = "failed"
      /\ \A u \in Thread \ {t} : state'[u] = state[u]
  BY DEF Timeout, WaitInv, ThreadState
<1>4. \A l \in List : \A u \in Elements(waiting'[l]) : u \in Thread \ {t}
  <2>1. \A l \in List : Elements(waiting[l]) \subseteq Thread
    BY HeadElement DEF WaitInv
  <2> QED
    BY <1>1, <2>1
<1>5. WaitInv(kind)'
  <2>1. call' = [u \in Thread |-> call'[u]]
    BY <1>3 DEF WaitInv
  <2>2. \A l \in List : /\ Distinct(waiting'[l])
                        /\ Elements(waiting'[l]) \subseteq Elements(waiting[l])
    BY <1>1
  <2>3. \A l \in List : \A u \in Elements(waiting'[l]) :
          state'[u] = state[u] /\ call'[u] = call[u]
    BY <1>3, <1>4
  <2> QED
    BY <1>2, <1>3, <2>1, <2>2, <2>3, FewerWait
<1> QED
  BY <1>1, <1>3, <1>5 DEF Woken

\* A failed wait returns.
LEMMA WaitFailsKeeps ==
    ASSUME NEW kind, WaitInv(kind), NEW t \in Thread, WaitFails(t)
    PROVE  /\ WaitInv(kind)' /\ UNCHANGED waiting
           /\ \A op : Woken(op)' = Woken(op)
<1>1. WaitInv(kind)' /\ \A op : Woken(op)' = Woken(op) \ {t}
  BY RunsOn DEF WaitFails
<1>2. \A op : t \notin Woken(op)
  BY DEF WaitFails, Woken
<1> QED
  BY <1>1, <1>2 DEF WaitFails

\* The waits of some lists fail.
LEMMA ResumeAllKeeps ==
    ASSUME NEW kind, WaitInv(kind), NEW ls \in SUBSET List, ResumeAll(ls)
    PROVE  /\ WaitInv(kind)'
           /\ \A l \in ls : waiting'[l] = <<>>
           /\ \A l \in List \ ls : waiting'[l] = waiting[l]
           /\ \A op : Woken(op)' = Woken(op)
<1> DEFINE resumed == UNION {Elements(waiting[l]) : l \in ls}
<1>1. Elements(<<>>) = {} /\ Distinct(<<>>) /\ <<>> \in Seq(Thread)
  BY DEF Elements, Distinct
<1>2. /\ waiting' = [l \in List |-> IF l \in ls THEN <<>> ELSE waiting[l]]
      /\ state' = [t \in Thread |-> IF t \in resumed THEN "failed" ELSE state[t]]
      /\ call' = call
  BY DEF ResumeAll
<1>3. \A t \in resumed : state[t] = "suspended"
  <2>1. \A l \in List : \A t \in Elements(waiting[l]) : state[t] = "suspended"
    BY DEF WaitInv
  <2> QED
    BY <2>1
<1>4. \A l \in List \ ls : \A t \in Elements(waiting[l]) : t \in Thread /\ t \notin resumed
  <2>1. \A l \in List : Elements(waiting[l]) \subseteq Thread
    BY HeadElement DEF WaitInv
  <2>2. \A l, k \in List : Elements(waiting[l]) \cap Elements(waiting[k]) # {} => l = k
    BY DEF WaitInv
  <2> QED
    BY <2>1, <2>2
<1> HIDE DEF resumed
<1>5. /\ waiting' \in [List -> Seq(Thread)] /\ state' \in [Thread -> ThreadState]
      /\ \A l \in List : waiting'[l] = IF l \in ls THEN <<>> ELSE waiting[l]
      /\ \A t \in Thread : state'[t] = IF t \in resumed THEN "failed" ELSE state[t]
  BY <1>1, <1>2 DEF WaitInv, ThreadState
<1>6. WaitInv(kind)'
  <2>1. call' = [u \in Thread |-> call'[u]]
    BY <1>2 DEF WaitInv
  <2>2. \A l \in List : /\ Distinct(waiting'[l])
                        /\ Elements(waiting'[l]) \subseteq Elements(waiting[l])
    BY <1>1, <1>5 DEF WaitInv
  <2>3. \A l \in List : \A u \in Elements(waiting'[l]) :
          state'[u] = state[u] /\ call'[u] = call[u]
    BY <1>1, <1>2, <1>4, <1>5
  <2> QED
    BY <1>5, <2>1, <2>2, <2>3, FewerWait
<1> QED
  BY <1>2, <1>3, <1>5, <1>6 DEF Woken

-----------------------------------------------------------------------------
(* How many threads are awake inside calls of a kind *)

\* They are finitely many.
LEMMA WokenFinite ==
    ASSUME NEW op
    PROVE  IsFiniteSet(Woken(op)) /\ Cardinality(Woken(op)) \in Nat
<1>1. IsFiniteSet(Woken(op))
  BY FS_Subset, WaitersAssumption DEF Woken
<1> QED
  BY <1>1, FS_CardinalityType

\* One member less, or one more.
LEMMA CountWithout ==
    ASSUME NEW S, IsFiniteSet(S), NEW x
    PROVE  /\ IsFiniteSet(S \ {x}) /\ Cardinality(S) \in Nat
           /\ Cardinality(S \ {x}) = Cardinality(S) - (IF x \in S THEN 1 ELSE 0)
<1> DEFINE n == Cardinality(S)
           m == Cardinality(S \ {x})
<1>1. IsFiniteSet(S \ {x}) /\ m = IF x \in S THEN n - 1 ELSE n
  BY FS_RemoveElement
<1>2. n \in Nat
  BY FS_CardinalityType
<1> HIDE DEF n, m
<1>3. m = n - (IF x \in S THEN 1 ELSE 0)
  BY <1>1, <1>2
<1> QED
  BY <1>1, <1>2, <1>3 DEF n, m

\* One more element.
LEMMA CountWith ==
    ASSUME NEW S, IsFiniteSet(S), NEW x, x \notin S
    PROVE  /\ IsFiniteSet(S \cup {x}) /\ Cardinality(S) \in Nat
           /\ Cardinality(S \cup {x}) = Cardinality(S) + 1
  BY FS_AddElement, FS_CardinalityType

\* Thread t goes on, and wakes nobody.
LEMMA CountRuns ==
    ASSUME NEW t, NEW op, Woken(op)' = Woken(op) \ {t}
    PROVE  /\ Cardinality(Woken(op)) \in Nat /\ Cardinality(Woken(op)') \in Nat
           /\ Cardinality(Woken(op)') =
                Cardinality(Woken(op)) - (IF t \in Woken(op) THEN 1 ELSE 0)
<1>1. IsFiniteSet(Woken(op)) /\ IsFiniteSet(Woken(op) \ {t})
  BY WokenFinite, FS_Subset
<1> QED
  BY <1>1, CountWithout, FS_CardinalityType

\* The thread in running, if there is one, wakes the first thread of list l.
LEMMA CountWakes ==
    ASSUME NEW kind, WaitInv(kind), NEW l \in List, NEW running \in SUBSET Thread,
           \A t, u \in running : t = u,
           \A t \in running : state[t] # "suspended", ResumeFirst(l, running),
           call' = [t \in Thread |-> call'[t]],
           \A t \in Thread \ running : call'[t] = call[t],
           NEW op
    PROVE  /\ Cardinality(Woken(op)) \in Nat /\ Cardinality(Woken(op)') \in Nat
           /\ Cardinality(Woken(op)') = Cardinality(Woken(op))
                - (IF running \cap Woken(op) = {} THEN 0 ELSE 1)
                + (IF waiting[l] # <<>> /\ op = kind[l] THEN 1 ELSE 0)
<1> DEFINE rest == Woken(op) \ running
           goes == running \cap Woken(op) # {}
           first == waiting[l] # <<>> /\ op = kind[l]
<1>1. /\ IsFiniteSet(rest) /\ Cardinality(rest) \in Nat /\ Cardinality(Woken(op)) \in Nat
      /\ Cardinality(rest) = Cardinality(Woken(op)) - (IF goes THEN 1 ELSE 0)
  <2>1. IsFiniteSet(rest) /\ IsFiniteSet(Woken(op))
    BY WokenFinite, FS_Subset
  <2>2. Cardinality(rest) \in Nat /\ Cardinality(Woken(op)) \in Nat
    BY <2>1, FS_CardinalityType
  <2>3. CASE goes
    <3>1. PICK t \in running : t \in Woken(op)
      BY <2>3
    <3>2. rest = Woken(op) \ {t}
      OBVIOUS
    <3>3. Cardinality(Woken(op) \ {t}) = Cardinality(Woken(op)) - 1
      BY <2>1, <3>1, FS_RemoveElement
    <3> HIDE DEF rest, goes
    <3> QED
      BY <2>1, <2>2, <2>3, <3>2, <3>3
  <2>4. CASE ~ goes
    <3>1. rest = Woken(op)
      BY <2>4
    <3> HIDE DEF rest, goes
    <3> QED
      BY <2>1, <2>2, <2>4, <3>1
  <2> QED
    BY <2>3, <2>4
<1>2. CASE ~ first
  <2>1. Woken(op)' = rest
    BY <1>2, ResumeFirstKeeps
  <2> HIDE DEF rest, first, goes
  <2>2. Cardinality(Woken(op)') = Cardinality(rest)
    BY <2>1
  <2> QED
    BY <1>1, <1>2, <2>2 DEF first, goes
<1>3. CASE first
  <2> DEFINE h == Head(waiting[l])
  <2>1. Woken(op)' = rest \cup {h} /\ state[h] = "suspended"
    BY <1>3, ResumeFirstKeeps
  <2>2. h \notin rest
    BY <2>1 DEF Woken
  <2> HIDE DEF rest, h, first, goes
  <2>3. Cardinality(Woken(op)') = Cardinality(rest) + 1
    BY <1>1, <2>1, <2>2, CountWith
  <2> QED
    BY <1>1, <1>3, <2>3 DEF first, goes
<1> QED
  BY <1>2, <1>3

-----------------------------------------------------------------------------
(* Mailboxes *)

\* The calls that sleep on each list of the mailbox.
MbKind == [mb_receivers |-> "receive", mb_senders |-> "send"]

\* The counter is one of the mailbox, and waiters and wake-ups agree.
MbInv ==
    /\ WaitInv(MbKind)
    /\ entry \in 0..Size
    /\ MailboxWakes

\* The lists of a mailbox and their kinds.
LEMMA MbKinds ==
    /\ "mb_receivers" \in List /\ "mb_senders" \in List
    /\ "mb_receivers" \in DOMAIN MbKind /\ MbKind["mb_receivers"] = "receive"
    /\ "mb_senders" \in DOMAIN MbKind /\ MbKind["mb_senders"] = "send"
  BY MailboxAssumption DEF MbKind

\* A mail enters: the receiver that is woken for it makes up for it, and a
\* sender that goes on for the place it takes.
LEMMA PutKeeps ==
    ASSUME MbInv, NEW m, NEW running \in SUBSET Thread, Put(m, running),
           \A t, u \in running : t = u,
           \A u \in running : state[u] # "suspended" /\ u \notin Woken("receive"),
           call' = [u \in Thread |-> call'[u]],
           \A u \in Thread \ running : call'[u] = call[u]
    PROVE  MbInv'
<1>1. /\ WaitInv(MbKind) /\ ResumeFirst("mb_receivers", running)
      /\ running \cap Woken("receive") = {} /\ \A u \in running : state[u] # "suspended"
  BY DEF MbInv, Put
<1>2. /\ WaitInv(MbKind)'
      /\ waiting'["mb_senders"] = waiting["mb_senders"]
      /\ waiting["mb_receivers"] = <<>> => waiting'["mb_receivers"] = <<>>
  BY <1>1, MbKinds, ResumeFirstKeeps
<1> DEFINE r == Cardinality(Woken("receive"))
           s == Cardinality(Woken("send"))
<1>3. r \in Nat /\ r' \in Nat /\ r' = r + (IF waiting["mb_receivers"] # <<>> THEN 1 ELSE 0)
  <2>1. /\ r \in Nat /\ r' \in Nat
        /\ r' = r - (IF running \cap Woken("receive") = {} THEN 0 ELSE 1)
                  + (IF waiting["mb_receivers"] # <<>> /\ "receive" = MbKind["mb_receivers"]
                       THEN 1 ELSE 0)
    BY <1>1, MbKinds, CountWakes
  <2> HIDE DEF r
  <2> QED
    BY <2>1, MbKinds
<1>4. s \in Nat /\ s' \in Nat /\ s' >= s - 1
  <2>1. /\ s \in Nat /\ s' \in Nat
        /\ s' = s - (IF running \cap Woken("send") = {} THEN 0 ELSE 1)
                  + (IF waiting["mb_receivers"] # <<>> /\ "send" = MbKind["mb_receivers"]
                       THEN 1 ELSE 0)
    BY <1>1, MbKinds, CountWakes
  <2> HIDE DEF s
  <2> QED
    BY <2>1
<1>5. entry \in 0..Size /\ entry < Size /\ entry' = entry + 1 /\ Size \in Nat
  BY MailboxAssumption DEF MbInv, Put
<1>6. /\ waiting["mb_receivers"] # <<>> => entry <= r
      /\ waiting["mb_senders"] # <<>> => Size - entry <= s
  BY DEF MbInv, MailboxWakes
<1> HIDE DEF r, s
<1>7. /\ waiting'["mb_receivers"] # <<>> => entry' <= r'
      /\ waiting'["mb_senders"] # <<>> => Size - entry' <= s'
  BY <1>2, <1>3, <1>4, <1>5, <1>6
<1> QED
  BY <1>2, <1>5, <1>7 DEF MbInv, MailboxWakes, r, s

\* A mail leaves: the mirror image.
LEMMA GetKeeps ==
    ASSUME MbInv, NEW t \in Thread, Get(t), state[t] # "suspended", t \notin Woken("send")
    PROVE  MbInv'
<1>1. /\ WaitInv(MbKind) /\ ResumeFirst("mb_senders", {t})
      /\ call' = [u \in Thread |-> call'[u]] /\ \A u \in Thread \ {t} : call'[u] = call[u]
  BY DEF MbInv, Get, MbReturns, Leaves, WaitInv
<1>2. /\ WaitInv(MbKind)'
      /\ waiting'["mb_receivers"] = waiting["mb_receivers"]
      /\ waiting["mb_senders"] = <<>> => waiting'["mb_senders"] = <<>>
  BY <1>1, MbKinds, ResumeFirstKeeps
<1> DEFINE r == Cardinality(Woken("receive"))
           s == Cardinality(Woken("send"))
<1>3. s \in Nat /\ s' \in Nat /\ s' = s + (IF waiting["mb_senders"] # <<>> THEN 1 ELSE 0)
  <2>1. /\ s \in Nat /\ s' \in Nat
        /\ s' = s - (IF {t} \cap Woken("send") = {} THEN 0 ELSE 1)
                  + (IF waiting["mb_senders"] # <<>> /\ "send" = MbKind["mb_senders"]
                       THEN 1 ELSE 0)
    BY <1>1, MbKinds, CountWakes
  <2> HIDE DEF s
  <2> QED
    BY <2>1, MbKinds
<1>4. r \in Nat /\ r' \in Nat /\ r' >= r - 1
  <2>1. /\ r \in Nat /\ r' \in Nat
        /\ r' = r - (IF {t} \cap Woken("receive") = {} THEN 0 ELSE 1)
                  + (IF waiting["mb_senders"] # <<>> /\ "receive" = MbKind["mb_senders"]
                       THEN 1 ELSE 0)
    BY <1>1, MbKinds, CountWakes
  <2> HIDE DEF r
  <2> QED
    BY <2>1
<1>5. entry \in 0..Size /\ entry > 0 /\ entry' = entry - 1 /\ Size \in Nat
  BY MailboxAssumption DEF MbInv, Get
<1>6. /\ waiting["mb_receivers"] # <<>> => entry <= r
      /\ waiting["mb_senders"] # <<>> => Size - entry <= s
  BY DEF MbInv, MailboxWakes
<1> HIDE DEF r, s
<1>7. /\ waiting'["mb_receivers"] # <<>> => entry' <= r'
      /\ waiting'["mb_senders"] # <<>> => Size - entry' <= s'
  BY <1>2, <1>3, <1>4, <1>5, <1>6
<1> QED
  BY <1>2, <1>5, <1>7 DEF MbInv, MailboxWakes, r, s

\* A step in which nobody is woken, and which leaves the mails alone.
LEMMA MbOthersKeep ==
    ASSUME MbInv, WaitInv(MbKind)', UNCHANGED entry,
           waiting'["mb_receivers"] # <<>> =>
             /\ waiting["mb_receivers"] # <<>> \/ entry = 0
             /\ Woken("receive")' = Woken("receive") \/ entry = 0,
           waiting'["mb_senders"] # <<>> =>
             /\ waiting["mb_senders"] # <<>> \/ entry = Size
             /\ Woken("send")' = Woken("send") \/ entry = Size
    PROVE  MbInv'
<1>1. /\ Cardinality(Woken("receive")) \in Nat /\ Cardinality(Woken("send")) \in Nat
  BY WokenFinite
<1>2. IsFiniteSet(Woken("receive")') /\ IsFiniteSet(Woken("send")')
  BY FS_Subset, WaitersAssumption DEF Woken
<1>3. Cardinality(Woken("receive")') \in Nat /\ Cardinality(Woken("send")') \in Nat
  BY <1>2, FS_CardinalityType
<1>4. entry \in 0..Size /\ Size \in Nat
  BY MailboxAssumption DEF MbInv
<1>5. /\ waiting["mb_receivers"] # <<>> => entry <= Cardinality(Woken("receive"))
      /\ waiting["mb_senders"] # <<>> => Size - entry <= Cardinality(Woken("send"))
  BY DEF MbInv, MailboxWakes
<1>6. waiting'["mb_receivers"] # <<>> => entry <= Cardinality(Woken("receive")')
  BY <1>3, <1>4, <1>5
<1>7. waiting'["mb_senders"] # <<>> => Size - entry <= Cardinality(Woken("send")')
  BY <1>3, <1>4, <1>5
<1> QED
  BY <1>4, <1>6, <1>7 DEF MbInv, MailboxWakes

\* The mailbox is full for a sender, or empty for a receiver.
LEMMA NoPlaceKeeps ==
    ASSUME MbInv, NEW t \in Thread, state[t] # "suspended", NEW left \in BOOLEAN,
           \/ NoMail(t, left) /\ t \notin Woken("send")
           \/ \E m : NoPlace(t, m, left) /\ t \notin Woken("receive")
    PROVE  MbInv'
<1>1. WaitInv(MbKind) /\ UNCHANGED entry
  BY DEF MbInv, NoMail, NoPlace
<1>2. CASE NoMail(t, left) /\ t \notin Woken("send")
  <2>1. CASE ~ left
    <3>1. WaitInv(MbKind)' /\ UNCHANGED waiting /\ \A op : Woken(op)' = Woken(op) \ {t}
      BY <1>1, <1>2, <2>1, RunsOn DEF NoMail, MbReturns
    <3> QED
      BY <1>1, <1>2, <3>1, MbOthersKeep DEF NoMail
  <2>2. CASE left
    <3>1. Suspends("mb_receivers", t, Receiving) /\ Receiving.op = "receive"
      BY <1>2, <2>2 DEF NoMail, Suspends, Receiving
    <3>2. /\ WaitInv(MbKind)' /\ \A op : Woken(op)' = Woken(op) \ {t}
          /\ waiting'["mb_senders"] = waiting["mb_senders"]
      BY <1>1, <3>1, MbKinds, SuspendsKeeps
    <3> QED
      BY <1>1, <1>2, <3>2, MbOthersKeep DEF NoMail
  <2> QED
    BY <2>1, <2>2
<1>3. ASSUME NEW m, NoPlace(t, m, left), t \notin Woken("receive") PROVE MbInv'
  <2>1. CASE ~ left
    <3>1. WaitInv(MbKind)' /\ UNCHANGED waiting /\ \A op : Woken(op)' = Woken(op) \ {t}
      BY <1>1, <1>3, <2>1, RunsOn DEF NoPlace, MbReturns
    <3> QED
      BY <1>1, <1>3, <3>1, MbOthersKeep DEF NoPlace
  <2>2. CASE left
    <3>1. Suspends("mb_senders", t, Sending(m)) /\ Sending(m).op = "send"
      BY <1>3, <2>2 DEF NoPlace, Suspends, Sending
    <3>2. /\ WaitInv(MbKind)' /\ \A op : Woken(op)' = Woken(op) \ {t}
          /\ waiting'["mb_receivers"] = waiting["mb_receivers"]
      BY <1>1, <3>1, MbKinds, SuspendsKeeps
    <3> QED
      BY <1>1, <1>3, <3>2, MbOthersKeep DEF NoPlace
  <2> QED
    BY <2>1, <2>2
<1> QED
  BY <1>2, <1>3

\* A new mailbox is empty and nobody waits.
LEMMA MbInvInit == WaitersInit /\ MbInit => MbInv
<1> SUFFICES ASSUME WaitersInit, MbInit PROVE MbInv
  OBVIOUS
<1>1. WaitInv(MbKind)
  BY WaitersStart
<1>2. entry = 0 /\ waiting["mb_receivers"] = <<>> /\ waiting["mb_senders"] = <<>>
  BY MbKinds DEF WaitersInit, MbInit
<1> QED
  BY <1>1, <1>2, MailboxAssumption DEF MbInv, MailboxWakes

\* Every call of a mailbox keeps its invariant.
LEMMA MbInvNext == MbInv /\ [MbNext]_<<waitVars, mbVars>> => MbInv'
<1> SUFFICES ASSUME MbInv, [MbNext]_<<waitVars, mbVars>> PROVE MbInv'
  OBVIOUS
<1>1. \A t \in Thread : Idle(t) => state[t] = "run" /\ \A op : t \notin Woken(op)
  BY DEF Idle, Woken
<1>2. ASSUME NEW t \in Thread, NEW m, NEW left \in BOOLEAN, MbSend(t, m, left) PROVE MbInv'
  <2>1. CASE Put(m, {t}) /\ MbReturns(t, "EOK")
    <3>1. call' = [u \in Thread |-> call'[u]] /\ \A u \in Thread \ {t} : call'[u] = call[u]
      BY <2>1 DEF MbReturns, Leaves, MbInv, WaitInv
    <3> QED
      BY <1>1, <1>2, <2>1, <3>1, PutKeeps DEF MbSend
  <2> QED
    BY <1>1, <1>2, <2>1, NoPlaceKeeps DEF MbSend
<1>3. ASSUME NEW t \in Thread, MbSendAgain(t) PROVE MbInv'
  <2>1. PICK m \in Message :
          /\ state[t] = "woken" /\ call[t] = Sending(m)
          /\ \/ Put(m, {t}) /\ MbReturns(t, "EOK")
             \/ \E left \in BOOLEAN : NoPlace(t, m, left)
    BY <1>3 DEF MbSendAgain
  <2>2. t \notin Woken("receive")
    BY <2>1 DEF Woken, Sending
  <2>3. CASE Put(m, {t}) /\ MbReturns(t, "EOK")
    <3>1. call' = [u \in Thread |-> call'[u]] /\ \A u \in Thread \ {t} : call'[u] = call[u]
      BY <2>3 DEF MbReturns, Leaves, MbInv, WaitInv
    <3> QED
      BY <2>1, <2>2, <2>3, <3>1, PutKeeps
  <2> QED
    BY <2>1, <2>2, <2>3, NoPlaceKeeps
<1>4. ASSUME NEW t \in Thread, NEW left \in BOOLEAN, MbRecv(t, left) PROVE MbInv'
  BY <1>1, <1>4, GetKeeps, NoPlaceKeeps DEF MbRecv
<1>5. ASSUME NEW t \in Thread, MbRecvAgain(t) PROVE MbInv'
  <2>1. state[t] = "woken" /\ t \notin Woken("send")
    BY <1>5 DEF MbRecvAgain, Woken, Receiving
  <2> QED
    BY <1>5, <2>1, GetKeeps, NoPlaceKeeps DEF MbRecvAgain
<1>6. ASSUME NEW t \in Thread, MbFails(t) PROVE MbInv'
  <2>1. WaitInv(MbKind)' /\ UNCHANGED <<waiting, entry>> /\ \A op : Woken(op)' = Woken(op)
    BY <1>6, WaitFailsKeeps DEF MbFails, MbInv
  <2> QED
    BY <2>1, MbOthersKeep
<1>7. ASSUME NEW t \in Thread, Timeout(t), UNCHANGED mbVars PROVE MbInv'
  <2>1. /\ WaitInv(MbKind)' /\ UNCHANGED entry
        /\ \A op : Woken(op)' = Woken(op)
        /\ \A l \in List : waiting'[l] # <<>> => waiting[l] # <<>>
    BY <1>7, TimeoutKeeps DEF MbInv, mbVars
  <2> QED
    BY <2>1, MbKinds, MbOthersKeep
<1>8. ASSUME NEW m, MbSendIsr(m) PROVE MbInv'
  <2>1. call' = [u \in Thread |-> call'[u]] /\ call' = call
    BY <1>8 DEF MbSendIsr, MbInv, WaitInv
  <2> QED
    BY <1>8, <2>1, PutKeeps DEF MbSendIsr
<1>9. CASE MbReset
  <2>1. /\ WaitInv(MbKind)'
        /\ waiting'["mb_receivers"] = <<>> /\ waiting'["mb_senders"] = <<>>
    BY <1>9, MbKinds, ResumeAllKeeps DEF MbReset, MbInv
  <2>2. entry' \in 0..Size
    BY <1>9, MailboxAssumption DEF MbReset
  <2> QED
    BY <2>1, <2>2 DEF MbInv, MailboxWakes
<1>10. CASE UNCHANGED <<waitVars, mbVars>>
  BY <1>10 DEF waitVars, mbVars, MbInv, WaitInv, MailboxWakes, Woken
<1> QED
  BY <1>2, <1>3, <1>4, <1>5, <1>6, <1>7, <1>8, <1>9, <1>10 DEF MbNext

\* No receiver sleeps next to a mail, and no sender next to a free place, without
\* a thread that is awake for it.
THEOREM MailboxWakesHolds == MbSpec => []MailboxWakes
<1>1. MbInv => MailboxWakes
  BY DEF MbInv
<1> QED
  BY <1>1, MbInvInit, MbInvNext, PTL DEF MbSpec

\* The place i places behind offset o.
Place(o, i) == IF o + i < Size THEN o + i ELSE o + i - Size

\* The ring holds the mails from outOffset up to inOffset, and the result of a
\* call that has not returned is not set.
MailInv ==
    /\ pool \in [0..(Size - 1) -> Message \cup {NoMessage}]
    /\ entry \in 0..Size
    /\ outOffset \in 0..(Size - 1)
    /\ inOffset = Place(outOffset, entry)
    /\ mbResult = [t \in Thread |-> mbResult[t]]
    /\ call = [t \in Thread |-> call[t]]
    /\ \A t \in Thread :
         call[t] # NoCall => /\ call[t] \in {Receiving} \cup {Sending(m) : m \in Message}
                             /\ mbResult[t] = "EOK"

\* Two offsets within the ring are less than twice its size apart.
LEMMA PlaceOf ==
    ASSUME NEW n \in Nat \ {0}, NEW x \in 0..(2 * n - 1)
    PROVE  x % n = IF x < n THEN x ELSE x - n
<1>1. CASE x < n
  BY <1>1
<1>2. CASE ~ (x < n)
  <2>1. x = n * 1 + (x - n) /\ x - n \in 0..(n - 1)
    BY <1>2
  <2> QED
    BY <1>2, <2>1
<1> QED
  BY <1>1, <1>2

\* So the mails are where Place says they are.
LEMMA MailsAt ==
    MailInv => /\ Mails = [i \in 1..entry |-> pool[Place(outOffset, i - 1)]]
               /\ Mails \in Seq(Message \cup {NoMessage}) /\ Len(Mails) = entry
<1> SUFFICES ASSUME MailInv
             PROVE  /\ Mails = [i \in 1..entry |-> pool[Place(outOffset, i - 1)]]
                    /\ Mails \in Seq(Message \cup {NoMessage}) /\ Len(Mails) = entry
  OBVIOUS
<1>1. /\ Size \in Nat \ {0} /\ entry \in 0..Size /\ outOffset \in 0..(Size - 1)
      /\ pool \in [0..(Size - 1) -> Message \cup {NoMessage}]
  BY MailboxAssumption DEF MailInv
<1>2. ASSUME NEW i \in 1..entry
      PROVE  /\ (outOffset + i - 1) % Size = Place(outOffset, i - 1)
             /\ pool[Place(outOffset, i - 1)] \in Message \cup {NoMessage}
  <2> DEFINE x == outOffset + i - 1
  <2>1. x \in 0..(2 * Size - 1)
    BY <1>1
  <2>2. x % Size = IF x < Size THEN x ELSE x - Size
    <3> HIDE DEF x
    <3> QED
      BY <1>1, <2>1, PlaceOf
  <2>3. Place(outOffset, i - 1) \in 0..(Size - 1)
    BY <1>1 DEF Place
  <2> QED
    BY <1>1, <2>2, <2>3 DEF Place
<1>3. Mails = [i \in 1..entry |-> pool[Place(outOffset, i - 1)]]
  BY <1>2 DEF Mails
<1>4. [i \in 1..entry |-> pool[Place(outOffset, i - 1)]] \in [1..entry -> Message \cup {NoMessage}]
  BY <1>2
<1> QED
  BY <1>1, <1>3, <1>4

\* rt_mb_init
LEMMA MailInvInit == WaitersInit /\ MbInit => MailInv /\ MailChannel!Init
<1> SUFFICES ASSUME WaitersInit, MbInit PROVE MailInv /\ MailChannel!Init
  OBVIOUS
<1>1. MailInv
  BY MailboxAssumption DEF WaitersInit, MbInit, MailInv, Place
<1>2. Mails = <<>>
  BY <1>1, MailsAt, EmptySeq DEF MbInit
<1>3. MailCall = [t \in Thread |-> NoCall]
  BY DEF WaitersInit, MailCall
<1> QED
  BY <1>1, <1>2, <1>3 DEF MailChannel!Init, MbInit

\* What the mails become when one enters or leaves.
PutIn(m) ==
    /\ entry < Size
    /\ pool' = [pool EXCEPT ![inOffset] = m]
    /\ inOffset' = NextOffset(inOffset)
    /\ entry' = entry + 1
    /\ UNCHANGED outOffset

\* One mail is read and its place is free.
TakenOut ==
    /\ entry > 0
    /\ outOffset' = NextOffset(outOffset)
    /\ entry' = entry - 1
    /\ UNCHANGED <<pool, inOffset>>

\* A mail goes behind the others.
LEMMA PutAppends ==
    ASSUME MailInv, MailInv', NEW m \in Message, PutIn(m)
    PROVE  Mails' = Append(Mails, m) /\ Len(Mails) < Size
<1>1. /\ Size \in Nat \ {0} /\ entry \in 0..Size /\ outOffset \in 0..(Size - 1)
      /\ pool \in [0..(Size - 1) -> Message \cup {NoMessage}]
      /\ inOffset = Place(outOffset, entry) /\ entry < Size
      /\ pool' = [pool EXCEPT ![inOffset] = m]
      /\ entry' = entry + 1 /\ outOffset' = outOffset
  BY MailboxAssumption DEF MailInv, PutIn
<1>2. /\ Mails = [i \in 1..entry |-> pool[Place(outOffset, i - 1)]]
      /\ Mails \in Seq(Message \cup {NoMessage}) /\ Len(Mails) = entry
  BY MailsAt
<1>3. /\ Mails' = [i \in 1..(entry + 1) |-> pool'[Place(outOffset, i - 1)]]
      /\ Mails' \in Seq(Message \cup {NoMessage}) /\ Len(Mails') = entry + 1
  <2>1. (MailInv => /\ Mails = [i \in 1..entry |-> pool[Place(outOffset, i - 1)]]
                    /\ Mails \in Seq(Message \cup {NoMessage}) /\ Len(Mails) = entry)'
    BY MailsAt, PTL
  <2> QED
    BY <1>1, <2>1 DEF Place
<1>4. ASSUME NEW i \in 1..(entry + 1)
      PROVE  Mails'[i] = IF i = entry + 1 THEN m ELSE Mails[i]
  <2>1. Mails'[i] = pool'[Place(outOffset, i - 1)] /\ Place(outOffset, i - 1) \in 0..(Size - 1)
    BY <1>1, <1>3 DEF Place
  <2>2. CASE i = entry + 1
    BY <1>1, <2>1, <2>2
  <2>3. CASE i # entry + 1
    <3>1. Place(outOffset, i - 1) # Place(outOffset, entry)
      BY <1>1, <2>3 DEF Place
    <3>2. i \in 1..entry
      BY <1>1, <2>3
    <3> QED
      BY <1>1, <1>2, <2>1, <2>3, <3>1, <3>2
  <2> QED
    BY <2>2, <2>3
<1>5. /\ Append(Mails, m) \in Seq(Message \cup {NoMessage}) /\ Len(Append(Mails, m)) = entry + 1
      /\ \A i \in 1..(entry + 1) : Append(Mails, m)[i] = IF i = entry + 1 THEN m ELSE Mails[i]
  BY <1>1, <1>2, AppendProperties
<1>6. Mails' = Append(Mails, m)
  <2> DEFINE v == Mails'
             w == Append(Mails, m)
  <2>1. Len(v) = Len(w) /\ \A i \in 1..Len(v) : v[i] = w[i]
    BY <1>3, <1>4, <1>5
  <2>2. v \in Seq(Message \cup {NoMessage}) /\ w \in Seq(Message \cup {NoMessage})
    BY <1>3, <1>5
  <2> HIDE DEF v, w
  <2>3. v = w
    BY <2>1, <2>2, SeqEqual
  <2> QED
    BY <2>3 DEF v, w
<1> QED
  BY <1>1, <1>2, <1>6

\* The first mail goes.
LEMMA GetTakesHead ==
    ASSUME MailInv, MailInv', TakenOut
    PROVE  /\ Mails # <<>> /\ Mails' = Tail(Mails) /\ Head(Mails) = pool[outOffset]
<1>1. /\ Size \in Nat \ {0} /\ entry \in 0..Size /\ outOffset \in 0..(Size - 1)
      /\ pool \in [0..(Size - 1) -> Message \cup {NoMessage}]
      /\ entry > 0 /\ entry' = entry - 1 /\ pool' = pool
      /\ outOffset' = NextOffset(outOffset)
  BY MailboxAssumption DEF MailInv, TakenOut
<1>2. /\ Mails = [i \in 1..entry |-> pool[Place(outOffset, i - 1)]]
      /\ Mails \in Seq(Message \cup {NoMessage}) /\ Len(Mails) = entry
  BY MailsAt
<1>3. /\ Mails' = [i \in 1..(entry - 1) |-> pool[Place(outOffset', i - 1)]]
      /\ Mails' \in Seq(Message \cup {NoMessage}) /\ Len(Mails') = entry - 1
  <2>1. (MailInv => /\ Mails = [i \in 1..entry |-> pool[Place(outOffset, i - 1)]]
                    /\ Mails \in Seq(Message \cup {NoMessage}) /\ Len(Mails) = entry)'
    BY MailsAt, PTL
  <2> QED
    BY <1>1, <2>1 DEF Place
<1>4. Mails # <<>> /\ Head(Mails) = Mails[1] /\ Mails[1] = pool[outOffset]
  <2>1. Place(outOffset, 0) = outOffset
    BY <1>1 DEF Place
  <2>2. Mails[1] = pool[Place(outOffset, 0)]
    BY <1>1, <1>2
  <2> QED
    BY <1>1, <1>2, <2>1, <2>2, EmptySeq, HeadTailProperties
<1>5. /\ Tail(Mails) \in Seq(Message \cup {NoMessage}) /\ Len(Tail(Mails)) = entry - 1
      /\ \A i \in 1..(entry - 1) : Tail(Mails)[i] = Mails[i + 1]
  <2>1. /\ Tail(Mails) \in Seq(Message \cup {NoMessage}) /\ Len(Tail(Mails)) = Len(Mails) - 1
        /\ \A i \in 1..Len(Tail(Mails)) : Tail(Mails)[i] = Mails[i + 1]
    BY <1>2, <1>4, HeadTailProperties
  <2> QED
    BY <1>2, <2>1
<1>6. ASSUME NEW i \in 1..(entry - 1) PROVE Mails'[i] = Mails[i + 1]
  <2>1. Place(outOffset', i - 1) = Place(outOffset, i)
    BY <1>1 DEF Place, NextOffset
  <2>2. i + 1 \in 1..entry /\ (i + 1) - 1 = i
    BY <1>1
  <2>3. Mails[i + 1] = pool[Place(outOffset, i)]
    BY <1>2, <2>2
  <2> QED
    BY <1>3, <2>1, <2>3
<1>7. Mails' = Tail(Mails)
  <2> DEFINE v == Mails'
             w == Tail(Mails)
  <2>1. Len(v) = Len(w) /\ \A i \in 1..Len(v) : v[i] = w[i]
    BY <1>3, <1>5, <1>6
  <2>2. v \in Seq(Message \cup {NoMessage}) /\ w \in Seq(Message \cup {NoMessage})
    BY <1>3, <1>5
  <2> HIDE DEF v, w
  <2>3. v = w
    BY <2>1, <2>2, SeqEqual
  <2> QED
    BY <2>3 DEF v, w
<1> QED
  BY <1>4, <1>7

\* Every step leaves the ring and the calls as MailInv says.
LEMMA MailInvNext == MailInv /\ [MbNext]_<<waitVars, mbVars>> => MailInv'
<1> SUFFICES ASSUME MailInv, [MbNext]_<<waitVars, mbVars>> PROVE MailInv'
  OBVIOUS
<1>1. Size \in Nat \ {0}
  BY MailboxAssumption
<1>2. ASSUME NEW t \in Thread, NEW r, MbReturns(t, r)
      PROVE  /\ mbResult' = [u \in Thread |-> mbResult'[u]] /\ call' = [u \in Thread |-> call'[u]]
             /\ \A u \in Thread :
                  call'[u] # NoCall => /\ call'[u] \in {Receiving} \cup {Sending(m) : m \in Message}
                                       /\ mbResult'[u] = "EOK"
  BY <1>2 DEF MailInv, MbReturns, Leaves
<1>3. ASSUME NEW t \in Thread, NEW c \in {Receiving} \cup {Sending(m) : m \in Message},
             call' = [call EXCEPT ![t] = c], MbWaits(t)
      PROVE  /\ mbResult' = [u \in Thread |-> mbResult'[u]] /\ call' = [u \in Thread |-> call'[u]]
             /\ \A u \in Thread :
                  call'[u] # NoCall => /\ call'[u] \in {Receiving} \cup {Sending(m) : m \in Message}
                                       /\ mbResult'[u] = "EOK"
  BY <1>3 DEF MailInv, MbWaits
<1>4. ASSUME UNCHANGED <<pool, entry, inOffset, outOffset>>
      PROVE  /\ pool' \in [0..(Size - 1) -> Message \cup {NoMessage}]
             /\ entry' \in 0..Size /\ outOffset' \in 0..(Size - 1)
             /\ inOffset' = Place(outOffset', entry')
  BY <1>4 DEF MailInv
<1>5. ASSUME NEW m \in Message, PutIn(m)
      PROVE  /\ pool' \in [0..(Size - 1) -> Message \cup {NoMessage}]
             /\ entry' \in 0..Size /\ outOffset' \in 0..(Size - 1)
             /\ inOffset' = Place(outOffset', entry')
  BY <1>1, <1>5 DEF MailInv, PutIn, NextOffset, Place
<1>6. ASSUME TakenOut
      PROVE  /\ pool' \in [0..(Size - 1) -> Message \cup {NoMessage}]
             /\ entry' \in 0..Size /\ outOffset' \in 0..(Size - 1)
             /\ inOffset' = Place(outOffset', entry')
  BY <1>1, <1>6 DEF MailInv, TakenOut, NextOffset, Place
<1>7. ASSUME NEW t \in Thread, NEW m \in Message,
             (\E running : Put(m, running)) /\ MbReturns(t, "EOK")
      PROVE  MailInv'
  <2>1. PutIn(m)
    BY <1>7 DEF Put, PutIn
  <2> QED
    BY <1>2, <1>5, <1>7, <2>1 DEF MailInv
<1>8. ASSUME NEW t \in Thread, NEW m \in Message, NEW left \in BOOLEAN, NoPlace(t, m, left)
      PROVE  MailInv'
  <2>1. \/ MbReturns(t, "failed")
        \/ call' = [call EXCEPT ![t] = Sending(m)] /\ MbWaits(t)
    BY <1>8 DEF NoPlace, SuspendOn
  <2>2. UNCHANGED <<pool, entry, inOffset, outOffset>>
    BY <1>8 DEF NoPlace
  <2> QED
    BY <1>2, <1>3, <1>4, <2>1, <2>2 DEF MailInv
<1>9. ASSUME NEW t \in Thread, Get(t) PROVE MailInv'
  <2>1. TakenOut /\ MbReturns(t, pool[outOffset])
    BY <1>9 DEF Get, TakenOut
  <2> QED
    BY <1>2, <1>6, <2>1 DEF MailInv
<1>10. ASSUME NEW t \in Thread, NEW left \in BOOLEAN, NoMail(t, left) PROVE MailInv'
  <2>1. \/ MbReturns(t, "failed")
        \/ call' = [call EXCEPT ![t] = Receiving] /\ MbWaits(t)
    BY <1>10 DEF NoMail, SuspendOn
  <2>2. UNCHANGED <<pool, entry, inOffset, outOffset>>
    BY <1>10 DEF NoMail
  <2> QED
    BY <1>2, <1>3, <1>4, <2>1, <2>2 DEF MailInv
<1>11. ASSUME NEW t \in Thread, MbFails(t) PROVE MailInv'
  <2>1. MbReturns(t, "failed") /\ UNCHANGED <<pool, entry, inOffset, outOffset>>
    BY <1>11 DEF MbFails, WaitFails, MbReturns
  <2> QED
    BY <1>2, <1>4, <2>1 DEF MailInv
<1>12. ASSUME NEW m \in Message, MbSendIsr(m) PROVE MailInv'
  <2>1. PutIn(m) /\ UNCHANGED <<call, mbResult>>
    BY <1>12 DEF MbSendIsr, Put, PutIn
  <2> QED
    BY <1>5, <2>1 DEF MailInv
<1>13. CASE MbReset
  BY <1>1, <1>13 DEF MbReset, ResumeAll, MailInv, Place
<1>14. ASSUME UNCHANGED <<call, mbVars>> PROVE MailInv'
  BY <1>4, <1>14 DEF mbVars, MailInv
<1> QED
  BY <1>7, <1>8, <1>9, <1>10, <1>11, <1>12, <1>13, <1>14
     DEF MbNext, MbSend, MbSendAgain, MbRecv, MbRecvAgain, Timeout, waitVars

\* A thread is in no other calls than those of the mailbox.
LEMMA MailCallIsCall == MailInv => MailCall = call
  BY DEF MailInv, MailCall, Sending, Receiving

\* What a step of a thread is to the channel.
LEMMA ChannelCalls ==
    ASSUME MailInv, MailInv', NEW t \in Thread
    PROVE  /\ \A m \in Message :
                PutIn(m) /\ MbReturns(t, "EOK") /\ call[t] \in {NoCall, Sending(m)}
                  => MailChannel!Send(t, m)
           /\ TakenOut /\ MbReturns(t, pool[outOffset]) /\ call[t] \in {NoCall, Receiving}
                => MailChannel!Receive(t)
           /\ UNCHANGED Mails /\ MbReturns(t, "failed") => MailChannel!Fail(t)
           /\ \A c \in {Receiving} \cup {Sending(m) : m \in Message} :
                UNCHANGED Mails /\ MbWaits(t) /\ call' = [call EXCEPT ![t] = c]
                  /\ call[t] \in {NoCall, c}
                => MailChannel!Begin(t) \/ UNCHANGED <<Mails, MailCall, mbResult>>
<1>1. MailCall = call /\ MailCall' = call'
  <2>1. (MailInv => MailCall = call)'
    BY MailCallIsCall, PTL
  <2> QED
    BY <2>1, MailCallIsCall
<1>2. ASSUME NEW r, MbReturns(t, r) PROVE MailChannel!Returns(t, r)
  BY <1>1, <1>2 DEF MbReturns, Leaves, MailChannel!Returns
<1>3. ASSUME NEW m \in Message, PutIn(m), MbReturns(t, "EOK"), call[t] \in {NoCall, Sending(m)}
      PROVE  MailChannel!Send(t, m)
  BY <1>1, <1>2, <1>3, PutAppends DEF MailChannel!Send, MailChannel!In, Sending
<1>4. ASSUME TakenOut, MbReturns(t, pool[outOffset]), call[t] \in {NoCall, Receiving}
      PROVE  MailChannel!Receive(t)
  BY <1>1, <1>2, <1>4, GetTakesHead DEF MailChannel!Receive, MailChannel!In, Receiving
<1>5. ASSUME UNCHANGED Mails, MbReturns(t, "failed") PROVE MailChannel!Fail(t)
  BY <1>2, <1>5 DEF MailChannel!Fail
<1>6. ASSUME NEW c \in {Receiving} \cup {Sending(m) : m \in Message},
             UNCHANGED Mails, MbWaits(t), call' = [call EXCEPT ![t] = c], call[t] \in {NoCall, c}
      PROVE  MailChannel!Begin(t) \/ UNCHANGED <<Mails, MailCall, mbResult>>
  <2>1. CASE call[t] = NoCall
    <3>1. c \in MailChannel!Calls
      BY <1>6 DEF MailChannel!Calls, Receiving, Sending
    <3>2. call'[t] = c
      BY <1>6 DEF MailInv
    <3> QED
      BY <1>1, <1>6, <2>1, <3>1, <3>2 DEF MailChannel!Begin, MbWaits
  <2>2. CASE call[t] = c /\ c # NoCall
    <3>1. mbResult[t] = "EOK" /\ UNCHANGED <<call, mbResult>>
      BY <1>6, <2>2 DEF MailInv, MbWaits
    <3> QED
      BY <1>1, <1>6, <3>1
  <2> QED
    BY <1>6, <2>1, <2>2
<1> QED
  BY <1>3, <1>4, <1>5, <1>6

\* Every step of the mailbox is a step of the channel, or none.
LEMMA MailStep ==
    MailInv /\ [MbNext]_<<waitVars, mbVars>>
      => [MailChannel!Next]_(MailChannel!channelVars)
<1> SUFFICES ASSUME MailInv, [MbNext]_<<waitVars, mbVars>>
             PROVE  MailChannel!Next \/ UNCHANGED <<Mails, MailCall, mbResult>>
  BY DEF MailChannel!channelVars
<1>1. MailInv'
  BY MailInvNext
<1>2. MailCall = call /\ MailCall' = call'
  <2>1. (MailInv => MailCall = call)'
    BY MailCallIsCall, PTL
  <2> QED
    BY <1>1, <2>1, MailCallIsCall
<1>3. UNCHANGED <<pool, entry, outOffset>> => UNCHANGED Mails
  BY DEF Mails
<1> DEFINE Step == MailChannel!Next \/ UNCHANGED <<Mails, MailCall, mbResult>>
<1>4. ASSUME NEW t \in Thread, NEW m \in Message,
             (\E running : Put(m, running)) /\ MbReturns(t, "EOK"), call[t] \in {NoCall, Sending(m)}
      PROVE  Step
  <2>1. PutIn(m)
    BY <1>4 DEF Put, PutIn
  <2> QED
    BY <1>1, <1>4, <2>1, ChannelCalls DEF MailChannel!Next
<1>5. ASSUME NEW t \in Thread, NEW m \in Message, NEW left \in BOOLEAN, NoPlace(t, m, left),
             call[t] \in {NoCall, Sending(m)}
      PROVE  Step
  <2>1. UNCHANGED Mails
    BY <1>3, <1>5 DEF NoPlace
  <2>2. \/ MbReturns(t, "failed")
        \/ call' = [call EXCEPT ![t] = Sending(m)] /\ MbWaits(t)
    BY <1>5 DEF NoPlace, SuspendOn
  <2> QED
    BY <1>1, <1>5, <2>1, <2>2, ChannelCalls DEF MailChannel!Next
<1>6. ASSUME NEW t \in Thread, Get(t), call[t] \in {NoCall, Receiving} PROVE Step
  <2>1. TakenOut /\ MbReturns(t, pool[outOffset])
    BY <1>6 DEF Get, TakenOut
  <2> QED
    BY <1>1, <1>6, <2>1, ChannelCalls DEF MailChannel!Next
<1>7. ASSUME NEW t \in Thread, NEW left \in BOOLEAN, NoMail(t, left),
             call[t] \in {NoCall, Receiving}
      PROVE  Step
  <2>1. UNCHANGED Mails
    BY <1>3, <1>7 DEF NoMail
  <2>2. \/ MbReturns(t, "failed")
        \/ call' = [call EXCEPT ![t] = Receiving] /\ MbWaits(t)
    BY <1>7 DEF NoMail, SuspendOn
  <2> QED
    BY <1>1, <1>7, <2>1, <2>2, ChannelCalls DEF MailChannel!Next
<1>8. ASSUME NEW t \in Thread, MbFails(t) PROVE Step
  <2>1. MbReturns(t, "failed") /\ UNCHANGED Mails
    BY <1>3, <1>8 DEF MbFails, WaitFails, MbReturns
  <2> QED
    BY <1>1, <2>1, ChannelCalls DEF MailChannel!Next
<1>9. ASSUME NEW m \in Message, MbSendIsr(m) PROVE Step
  <2>1. PutIn(m) /\ UNCHANGED <<call, mbResult>>
    BY <1>9 DEF MbSendIsr, Put, PutIn
  <2>2. MailChannel!SendIsr(m)
    BY <1>1, <1>2, <2>1, PutAppends DEF MailChannel!SendIsr
  <2> QED
    BY <2>2 DEF MailChannel!Next
<1>10. ASSUME MbReset PROVE Step
  <2>1. entry' = 0 /\ UNCHANGED <<call, mbResult>>
    BY <1>10 DEF MbReset, ResumeAll
  <2>2. Mails' = <<>>
    <3>1. (MailInv => /\ Mails = [i \in 1..entry |-> pool[Place(outOffset, i - 1)]]
                      /\ Mails \in Seq(Message \cup {NoMessage}) /\ Len(Mails) = entry)'
      BY MailsAt, PTL
    <3> QED
      BY <1>1, <2>1, <3>1, EmptySeq
  <2>3. MailChannel!Reset
    BY <1>2, <2>1, <2>2 DEF MailChannel!Reset
  <2> QED
    BY <2>3 DEF MailChannel!Next
<1>11. ASSUME UNCHANGED <<call, mbVars>> PROVE Step
  BY <1>2, <1>3, <1>11 DEF mbVars
<1> HIDE DEF Step
<1>12. ASSUME NEW t \in Thread, NEW m \in Message, NEW left \in BOOLEAN, MbSend(t, m, left)
       PROVE  Step
  BY <1>4, <1>5, <1>12 DEF MbSend, Idle
<1>13. ASSUME NEW t \in Thread, MbSendAgain(t) PROVE Step
  BY <1>4, <1>5, <1>13 DEF MbSendAgain
<1>14. ASSUME NEW t \in Thread, NEW left \in BOOLEAN, MbRecv(t, left) PROVE Step
  BY <1>6, <1>7, <1>14 DEF MbRecv, Idle
<1>15. ASSUME NEW t \in Thread, MbRecvAgain(t) PROVE Step
  BY <1>6, <1>7, <1>15 DEF MbRecvAgain
<1>16. ASSUME NEW t \in Thread, Timeout(t), UNCHANGED mbVars PROVE Step
  BY <1>11, <1>16 DEF Timeout
<1>17. ASSUME UNCHANGED <<waitVars, mbVars>> PROVE Step
  BY <1>11, <1>17 DEF waitVars
<1>18. Step
  BY <1>8, <1>9, <1>10, <1>12, <1>13, <1>14, <1>15, <1>16, <1>17 DEF MbNext
<1> QED
  BY <1>18 DEF Step

\* The mailbox of the code is a channel, whatever its size: a mail that
\* rt_mb_recv returns is the oldest one sent and not received, and a send that
\* fails leaves nothing behind.
THEOREM MailboxIsChannelHolds == MbSpec => MailboxIsChannel
<1>1. MbSpec => []MailInv
  BY MailInvInit, MailInvNext, PTL DEF MbSpec
<1> QED
  BY <1>1, MailInvInit, MailStep, PTL DEF MbSpec, MailboxIsChannel, MailChannel!Spec

-----------------------------------------------------------------------------
(* Message queues *)

\* The calls that sleep on the list of the message queue.
MqKind == [mq_receivers |-> "mq_receive"]

\* The threads that copy a message into or out of a slot, and the slots.
Holders == {t \in Thread : slot[t] # NoSlot}
Held == {slot[t] : t \in Thread} \ {NoSlot}

\* Where the slots are.  Only a thread that runs inside a call copies.
SlotInv ==
    /\ mqFree \in Seq(Slot) /\ mqQueue \in Seq(Slot)
    /\ slot \in [Thread -> Slot \cup {NoSlot}]
    /\ \A t \in Thread : slot[t] # NoSlot => state[t] = "run" /\ call[t] # NoCall
    /\ mqEntry = Len(mqQueue)
    /\ Len(mqFree) + Len(mqQueue) + Cardinality(Holders) = Cardinality(Slot)
    /\ Slot \subseteq Elements(mqFree) \cup Elements(mqQueue) \cup Held

\* The inductive invariant of a message queue.
MqInv == WaitInv(MqKind) /\ SlotInv /\ QueueWakes

\* The list of a message queue and its kind.
LEMMA MqKinds ==
    "mq_receivers" \in List /\ "mq_receivers" \in DOMAIN MqKind
    /\ MqKind["mq_receivers"] = "mq_receive"
  BY MessageQueueAssumption DEF MqKind

\* The numbers in SlotsConserved are numbers.
LEMMA SlotCounts ==
    ASSUME SlotInv
    PROVE  /\ Len(mqFree) \in Nat /\ Len(mqQueue) \in Nat
           /\ IsFiniteSet(Holders) /\ Cardinality(Holders) \in Nat
           /\ Elements(mqFree) \subseteq Slot /\ Elements(mqQueue) \subseteq Slot
<1>1. IsFiniteSet(Holders)
  BY FS_Subset, WaitersAssumption DEF Holders
<1> QED
  BY <1>1, FS_CardinalityType, LenProperties, HeadElement DEF SlotInv

\* SlotInv says what SlotsConserved does.
LEMMA SlotInvConserves == SlotInv => SlotsConserved
<1> SUFFICES ASSUME SlotInv PROVE SlotsConserved
  OBVIOUS
<1>1. Elements(mqFree) \cup Elements(mqQueue) \cup Held = Slot
  BY SlotCounts DEF SlotInv, Held
<1> QED
  BY <1>1 DEF SlotInv, SlotsConserved, Held, Holders

\* Thread t takes slot x in hand.
LEMMA SlotTaken ==
    ASSUME SlotInv, NEW t \in Thread, slot[t] = NoSlot, NEW x \in Slot,
           slot' = [slot EXCEPT ![t] = x]
    PROVE  /\ slot' \in [Thread -> Slot \cup {NoSlot}] /\ slot'[t] = x
           /\ \A u \in Thread \ {t} : slot'[u] = slot[u]
           /\ Cardinality(Holders') = Cardinality(Holders) + 1
           /\ Held' = Held \cup {x}
<1>1. /\ slot' \in [Thread -> Slot \cup {NoSlot}] /\ slot'[t] = x
      /\ \A u \in Thread \ {t} : slot'[u] = slot[u]
  BY DEF SlotInv
<1>2. Holders' = Holders \cup {t} /\ t \notin Holders
  BY <1>1, MessageQueueAssumption DEF Holders
<1>3. Held' = Held \cup {x}
  BY <1>1, MessageQueueAssumption DEF Held
<1>4. Cardinality(Holders \cup {t}) = Cardinality(Holders) + 1
  BY <1>2, SlotCounts, CountWith
<1> QED
  BY <1>1, <1>2, <1>3, <1>4

\* Thread t puts its slot down.
LEMMA SlotPut ==
    ASSUME SlotInv, NEW t \in Thread, slot[t] # NoSlot, slot' = [slot EXCEPT ![t] = NoSlot]
    PROVE  /\ slot[t] \in Slot
           /\ slot' \in [Thread -> Slot \cup {NoSlot}] /\ slot'[t] = NoSlot
           /\ \A u \in Thread \ {t} : slot'[u] = slot[u]
           /\ Cardinality(Holders') = Cardinality(Holders) - 1
           /\ Held \subseteq Held' \cup {slot[t]}
<1>1. /\ slot[t] \in Slot
      /\ slot' \in [Thread -> Slot \cup {NoSlot}] /\ slot'[t] = NoSlot
      /\ \A u \in Thread \ {t} : slot'[u] = slot[u]
  BY DEF SlotInv
<1>2. Holders' = Holders \ {t} /\ t \in Holders
  BY <1>1 DEF Holders
<1>3. Held \subseteq Held' \cup {slot[t]}
  BY <1>1 DEF Held
<1>4. Cardinality(Holders \ {t}) = Cardinality(Holders) - 1
  BY <1>2, SlotCounts, FS_RemoveElement
<1> QED
  BY <1>1, <1>2, <1>3, <1>4

\* A slot becomes the last, or the first, of a list of slots.
LEMMA SlotListed ==
    ASSUME NEW s \in Seq(Slot), NEW x \in Slot
    PROVE  /\ Append(s, x) \in Seq(Slot) /\ Len(Append(s, x)) = Len(s) + 1
           /\ Elements(Append(s, x)) = Elements(s) \cup {x}
           /\ <<x>> \o s \in Seq(Slot) /\ Len(<<x>> \o s) = Len(s) + 1
           /\ Elements(<<x>> \o s) = Elements(s) \cup {x}
<1>1. Len(Append(s, x)) = Len(s) + 1
  BY AppendProperties
<1>2. Len(<<x>> \o s) = Len(s) + 1
  OBVIOUS
<1> QED
  BY <1>1, <1>2, AppendElements, PushElements

\* RT_IPC_CMD_RESET puts a list in front of another one, back to front.
LEMMA ReversedElements ==
    ASSUME NEW s \in Seq(Slot), NEW q \in Seq(Slot)
    PROVE  LET w == [i \in 1..Len(q) |-> q[Len(q) + 1 - i]] \o s
           IN  /\ w \in Seq(Slot) /\ Len(w) = Len(q) + Len(s)
               /\ Elements(q) \cup Elements(s) \subseteq Elements(w)
<1> DEFINE n == Len(q)
           r == [i \in 1..n |-> q[n + 1 - i]]
           w == r \o s
<1>1. n \in Nat /\ Len(s) \in Nat
  BY LenProperties
<1>2. \A i \in 1..n : n + 1 - i \in 1..n /\ q[n + 1 - i] \in Slot
  BY <1>1, ElementOfSeq
<1>3. r \in [1..n -> Slot]
  BY <1>2
<1>4. r \in Seq(Slot) /\ Len(r) = n /\ \A i \in 1..n : r[i] = q[n + 1 - i]
  <2>1. r \in Seq(Slot)
    BY <1>1, <1>3, SeqDef
  <2>2. DOMAIN r = 1..n
    OBVIOUS
  <2> QED
    BY <1>1, <2>1, <2>2, LenProperties
<1> HIDE DEF r, n
<1>5. /\ w \in Seq(Slot) /\ Len(w) = n + Len(s)
      /\ \A i \in 1..n : w[i] = r[i]
      /\ \A i \in 1..Len(s) : w[n + i] = s[i]
  <2>1. w \in Seq(Slot) /\ Len(w) = n + Len(s)
    BY <1>4, ConcatProperties
  <2>2. \A i \in 1..(n + Len(s)) : w[i] = IF i <= n THEN r[i] ELSE s[i - n]
    BY <1>4, ConcatProperties
  <2> QED
    BY <1>1, <2>1, <2>2
<1> HIDE DEF w
<1>6. Elements(s) \subseteq Elements(w)
  <2>1. \A i \in 1..Len(s) : n + i \in 1..Len(w)
    BY <1>1, <1>5
  <2> QED
    BY <1>5, <2>1 DEF Elements
<1>7. Elements(q) \subseteq Elements(w)
  <2>1. \A i \in 1..n : n + 1 - i \in 1..Len(w) /\ w[n + 1 - i] = q[i]
    <3> TAKE i \in 1..n
    <3>1. n + 1 - i \in 1..n /\ n + 1 - (n + 1 - i) = i /\ n + 1 - i \in 1..Len(w)
      BY <1>1, <1>5
    <3> QED
      BY <1>4, <1>5, <3>1
  <2> QED
    BY <2>1 DEF Elements, n
<1> QED
  BY <1>5, <1>6, <1>7 DEF w, r, n

\* Thread t goes on and wakes nobody; if it was woken, it takes a message, or
\* there is none.
LEMMA MqGoesOn ==
    ASSUME MqInv, NEW t \in Thread, state[t] # "suspended",
           state' = [state EXCEPT ![t] = "run"], UNCHANGED waiting,
           Leaves(t) \/ \E c : call' = [call EXCEPT ![t] = c],
           \/ mqEntry' = mqEntry /\ (state[t] = "run" \/ mqEntry = 0)
           \/ mqEntry' = mqEntry - 1
    PROVE  WaitInv(MqKind)' /\ QueueWakes'
<1> DEFINE n == Cardinality(Woken("mq_receive"))
<1>1. WaitInv(MqKind)' /\ Woken("mq_receive")' = Woken("mq_receive") \ {t}
  BY RunsOn DEF MqInv
<1>2. /\ n \in Nat /\ n' \in Nat
      /\ n' = n - (IF t \in Woken("mq_receive") THEN 1 ELSE 0)
  BY <1>1, CountRuns
<1>3. state[t] = "run" => t \notin Woken("mq_receive")
  BY DEF Woken
<1>4. mqEntry \in Nat /\ (waiting["mq_receivers"] # <<>> => mqEntry <= n)
  BY SlotCounts DEF MqInv, SlotInv, QueueWakes
<1> HIDE DEF n
<1>5. waiting'["mq_receivers"] # <<>> => mqEntry' <= n'
  BY <1>2, <1>3, <1>4
<1> QED
  BY <1>1, <1>5 DEF QueueWakes, n

\* A message is linked, by a thread that runs or by a handler, and wakes a
\* receiver.
LEMMA MqLinked ==
    ASSUME MqInv, NEW running \in SUBSET Thread, \A t, u \in running : t = u,
           \A t \in running : state[t] = "run", ResumeFirst("mq_receivers", running),
           call' = [t \in Thread |-> call'[t]],
           \A t \in Thread \ running : call'[t] = call[t],
           mqEntry' = mqEntry + 1
    PROVE  /\ WaitInv(MqKind)' /\ QueueWakes'
           /\ \A t \in Thread : state[t] = "run" => state'[t] = "run"
<1> DEFINE n == Cardinality(Woken("mq_receive"))
<1>1. WaitInv(MqKind) /\ \A t \in running : state[t] # "suspended"
  BY DEF MqInv
<1>2. /\ WaitInv(MqKind)'
      /\ waiting["mq_receivers"] = <<>> => waiting'["mq_receivers"] = <<>>
      /\ waiting["mq_receivers"] # <<>> => state[Head(waiting["mq_receivers"])] = "suspended"
  BY <1>1, MqKinds, ResumeFirstKeeps
<1>3. running \cap Woken("mq_receive") = {}
  BY DEF Woken
<1>4. /\ n \in Nat /\ n' \in Nat
      /\ n' = n - (IF running \cap Woken("mq_receive") = {} THEN 0 ELSE 1)
                + (IF waiting["mq_receivers"] # <<>> /\ "mq_receive" = MqKind["mq_receivers"]
                     THEN 1 ELSE 0)
  BY <1>1, MqKinds, CountWakes
<1>5. mqEntry \in Nat /\ (waiting["mq_receivers"] # <<>> => mqEntry <= n)
  BY SlotCounts DEF MqInv, SlotInv, QueueWakes
<1> HIDE DEF n
<1>6. waiting'["mq_receivers"] # <<>> => mqEntry' <= n'
  BY <1>2, <1>3, <1>4, <1>5, MqKinds
<1>7. \A t \in Thread : state[t] = "run" => state'[t] = "run"
  BY <1>2 DEF ResumeFirst
<1> QED
  BY <1>2, <1>6, <1>7 DEF QueueWakes, n

\* Calls of the message queue are not NoCall.
LEMMA MqCalls ==
    /\ \A op \in {"mq_send", "mq_urgent"}, m \in Message : MqSending(op, m) # NoCall
    /\ MqReceiving # NoCall
  BY MessageQueueAssumption DEF MqSending, MqReceiving

\* A send takes a slot from the free ones.
LEMMA MqClaimKeeps ==
    ASSUME MqInv, NEW t \in Thread, NEW op \in {"mq_send", "mq_urgent"}, NEW m \in Message,
           MqClaim(t, op, m)
    PROVE  MqInv'
<1>1. SlotInv /\ Idle(t) /\ mqFree # <<>> /\ mqFree \in Seq(Slot)
  BY DEF MqInv, SlotInv, MqClaim
<1>2. state[t] = "run" /\ slot[t] = NoSlot
  BY <1>1 DEF Idle, SlotInv
<1>3. WaitInv(MqKind)' /\ QueueWakes'
  <2>1. state' = [state EXCEPT ![t] = "run"]
    BY <1>2 DEF MqInv, WaitInv, MqClaim
  <2> QED
    BY <1>2, <2>1, MqGoesOn DEF MqClaim
<1> DEFINE h == Head(mqFree)
<1>4. /\ h \in Slot /\ mqFree' \in Seq(Slot) /\ Len(mqFree') = Len(mqFree) - 1
      /\ Elements(mqFree) = Elements(mqFree') \cup {h}
  BY <1>1, TailElements DEF MqClaim
<1>5. slot' = [slot EXCEPT ![t] = h] /\ UNCHANGED <<mqQueue, mqEntry, state>>
  BY DEF MqClaim
<1>6. call' = [call EXCEPT ![t] = MqSending(op, m)]
  BY DEF MqClaim
<1> HIDE DEF h
<1>7. /\ slot' \in [Thread -> Slot \cup {NoSlot}]
      /\ \A u \in Thread \ {t} : slot'[u] = slot[u]
      /\ Cardinality(Holders') = Cardinality(Holders) + 1
      /\ Held' = Held \cup {h}
  BY <1>1, <1>2, <1>4, <1>5, SlotTaken
<1>8. \A u \in Thread : slot'[u] # NoSlot => state'[u] = "run" /\ call'[u] # NoCall
  <2>1. call'[t] = MqSending(op, m) /\ \A u \in Thread \ {t} : call'[u] = call[u]
    BY <1>6 DEF MqInv, WaitInv
  <2> QED
    BY <1>1, <1>2, <1>5, <1>7, <2>1, MqCalls DEF SlotInv
<1>9. /\ mqEntry' = Len(mqQueue')
      /\ Len(mqFree') + Len(mqQueue') + Cardinality(Holders') = Cardinality(Slot)
  BY <1>1, <1>4, <1>5, <1>7, SlotCounts DEF SlotInv
<1>10. Slot \subseteq Elements(mqFree') \cup Elements(mqQueue') \cup Held'
  BY <1>1, <1>4, <1>5, <1>7 DEF SlotInv
<1>11. SlotInv'
  BY <1>1, <1>4, <1>5, <1>7, <1>8, <1>9, <1>10 DEF SlotInv
<1> QED
  BY <1>3, <1>11 DEF MqInv

\* A send links its slot and wakes a receiver.
LEMMA MqLinkKeeps ==
    ASSUME MqInv, NEW t \in Thread, MqLink(t)
    PROVE  MqInv'
<1>1. SlotInv /\ state[t] = "run" /\ slot[t] # NoSlot
  BY DEF MqInv, MqLink
<1>2. call' = [call EXCEPT ![t] = NoCall] /\ call' = [u \in Thread |-> call'[u]]
      /\ \A u \in Thread \ {t} : call'[u] = call[u]
  BY DEF MqInv, WaitInv, MqLink, MqReturns, Leaves
<1>3. /\ WaitInv(MqKind)' /\ QueueWakes'
      /\ \A u \in Thread : state[u] = "run" => state'[u] = "run"
  <2>1. ResumeFirst("mq_receivers", {t}) /\ mqEntry' = mqEntry + 1
    BY DEF MqLink
  <2>2. {t} \in SUBSET Thread /\ \A u \in {t} : state[u] = "run"
    BY <1>1
  <2> QED
    BY <1>2, <2>1, <2>2, MqLinked
<1>4. slot' = [slot EXCEPT ![t] = NoSlot] /\ mqEntry' = mqEntry + 1 /\ mqFree' = mqFree
      /\ (mqQueue' = Append(mqQueue, slot[t]) \/ mqQueue' = <<slot[t]>> \o mqQueue)
  BY DEF MqLink
<1>5. /\ slot[t] \in Slot
      /\ slot' \in [Thread -> Slot \cup {NoSlot}] /\ slot'[t] = NoSlot
      /\ \A u \in Thread \ {t} : slot'[u] = slot[u]
      /\ Cardinality(Holders') = Cardinality(Holders) - 1
      /\ Held \subseteq Held' \cup {slot[t]}
  BY <1>1, <1>4, SlotPut
<1>6. /\ mqQueue' \in Seq(Slot) /\ Len(mqQueue') = Len(mqQueue) + 1
      /\ Elements(mqQueue') = Elements(mqQueue) \cup {slot[t]}
  <2>1. mqQueue \in Seq(Slot)
    BY <1>1 DEF SlotInv
  <2>2. CASE mqQueue' = Append(mqQueue, slot[t])
    BY <1>5, <2>1, <2>2, SlotListed
  <2>3. CASE mqQueue' = <<slot[t]>> \o mqQueue
    BY <1>5, <2>1, <2>3, SlotListed
  <2> QED
    BY <1>4, <2>2, <2>3
<1>7. \A u \in Thread : slot'[u] # NoSlot => state'[u] = "run" /\ call'[u] # NoCall
  BY <1>1, <1>2, <1>3, <1>5 DEF SlotInv
<1>8. /\ mqEntry' = Len(mqQueue')
      /\ Len(mqFree') + Len(mqQueue') + Cardinality(Holders') = Cardinality(Slot)
  BY <1>1, <1>4, <1>5, <1>6, SlotCounts DEF SlotInv
<1>9. Slot \subseteq Elements(mqFree') \cup Elements(mqQueue') \cup Held'
  BY <1>1, <1>4, <1>5, <1>6 DEF SlotInv
<1>10. SlotInv'
  BY <1>1, <1>4, <1>5, <1>6, <1>7, <1>8, <1>9 DEF SlotInv
<1> QED
  BY <1>3, <1>10 DEF MqInv

\* A handler sends: its slot goes from the free ones to the queue.
LEMMA MqSendIsrKeeps ==
    ASSUME MqInv, NEW m \in Message, MqSendIsr(m)
    PROVE  MqInv'
<1>1. SlotInv /\ mqFree # <<>> /\ mqFree \in Seq(Slot) /\ mqQueue \in Seq(Slot)
  BY DEF MqInv, SlotInv, MqSendIsr
<1>2. call' = call /\ call' = [u \in Thread |-> call'[u]]
  BY DEF MqInv, WaitInv, MqSendIsr
<1>3. /\ WaitInv(MqKind)' /\ QueueWakes'
      /\ \A u \in Thread : state[u] = "run" => state'[u] = "run"
  BY <1>2, MqLinked DEF MqSendIsr
<1> DEFINE h == Head(mqFree)
<1>4. /\ h \in Slot /\ mqFree' \in Seq(Slot) /\ Len(mqFree') = Len(mqFree) - 1
      /\ Elements(mqFree) = Elements(mqFree') \cup {h}
  BY <1>1, TailElements DEF MqSendIsr
<1>5. UNCHANGED slot /\ mqEntry' = mqEntry + 1 /\ mqQueue' = Append(mqQueue, h)
  BY DEF MqSendIsr
<1> HIDE DEF h
<1>6. /\ mqQueue' \in Seq(Slot) /\ Len(mqQueue') = Len(mqQueue) + 1
      /\ Elements(mqQueue') = Elements(mqQueue) \cup {h}
  BY <1>1, <1>4, <1>5, SlotListed
<1>7. Holders' = Holders /\ Held' = Held
  BY <1>5 DEF Holders, Held
<1>8. Cardinality(Holders') = Cardinality(Holders)
  BY <1>7
<1>9. /\ mqEntry' = Len(mqQueue')
      /\ Len(mqFree') + Len(mqQueue') + Cardinality(Holders') = Cardinality(Slot)
  BY <1>1, <1>4, <1>5, <1>6, <1>8, SlotCounts DEF SlotInv
<1>10. Slot \subseteq Elements(mqFree') \cup Elements(mqQueue') \cup Held'
  BY <1>1, <1>4, <1>6, <1>7 DEF SlotInv
<1>11. SlotInv'
  BY <1>1, <1>2, <1>3, <1>4, <1>5, <1>6, <1>9, <1>10 DEF SlotInv
<1> QED
  BY <1>3, <1>11 DEF MqInv

\* A receiver takes the first message's slot.
LEMMA MqUnlinkKeeps ==
    ASSUME MqInv, NEW t \in Thread, MqUnlink(t), Idle(t) \/ state[t] = "woken"
    PROVE  MqInv'
<1>1. /\ SlotInv /\ mqQueue \in Seq(Slot) /\ mqEntry > 0 /\ mqEntry = Len(mqQueue)
      /\ state[t] # "suspended" /\ slot[t] = NoSlot
  BY DEF MqInv, SlotInv, MqUnlink, Idle
<1>2. mqQueue # <<>>
  BY <1>1
<1>3. WaitInv(MqKind)' /\ QueueWakes'
  BY <1>1, MqGoesOn DEF MqUnlink
<1> DEFINE h == Head(mqQueue)
<1>4. /\ h \in Slot /\ mqQueue' \in Seq(Slot) /\ Len(mqQueue') = Len(mqQueue) - 1
      /\ Elements(mqQueue) = Elements(mqQueue') \cup {h}
  BY <1>1, <1>2, TailElements DEF MqUnlink
<1>5. slot' = [slot EXCEPT ![t] = h] /\ mqFree' = mqFree /\ mqEntry' = mqEntry - 1
  BY DEF MqUnlink
<1>6. /\ state'[t] = "run" /\ call'[t] = MqReceiving
      /\ \A u \in Thread \ {t} : state'[u] = state[u] /\ call'[u] = call[u]
  BY DEF MqUnlink, MqInv, WaitInv
<1> HIDE DEF h
<1>7. /\ slot' \in [Thread -> Slot \cup {NoSlot}]
      /\ \A u \in Thread \ {t} : slot'[u] = slot[u]
      /\ Cardinality(Holders') = Cardinality(Holders) + 1
      /\ Held' = Held \cup {h}
  BY <1>1, <1>4, <1>5, SlotTaken
<1>8. \A u \in Thread : slot'[u] # NoSlot => state'[u] = "run" /\ call'[u] # NoCall
  BY <1>1, <1>6, <1>7, MqCalls DEF SlotInv
<1>9. /\ mqEntry' = Len(mqQueue')
      /\ Len(mqFree') + Len(mqQueue') + Cardinality(Holders') = Cardinality(Slot)
  BY <1>1, <1>4, <1>5, <1>7, SlotCounts DEF SlotInv
<1>10. Slot \subseteq Elements(mqFree') \cup Elements(mqQueue') \cup Held'
  BY <1>1, <1>4, <1>5, <1>7 DEF SlotInv
<1>11. SlotInv'
  BY <1>1, <1>4, <1>5, <1>7, <1>8, <1>9, <1>10 DEF SlotInv
<1> QED
  BY <1>3, <1>11 DEF MqInv

\* A receiver gives its slot back.
LEMMA MqFreeSlotKeeps ==
    ASSUME MqInv, NEW t \in Thread, MqFreeSlot(t)
    PROVE  MqInv'
<1>1. SlotInv /\ state[t] = "run" /\ slot[t] # NoSlot
  BY DEF MqInv, MqFreeSlot
<1>2. WaitInv(MqKind)' /\ QueueWakes'
  <2>1. state' = [state EXCEPT ![t] = "run"]
    BY <1>1 DEF MqInv, WaitInv, MqFreeSlot
  <2> QED
    BY <1>1, <2>1, MqGoesOn DEF MqFreeSlot, MqReturns
<1>3. /\ slot' = [slot EXCEPT ![t] = NoSlot] /\ UNCHANGED <<state, mqEntry, mqQueue>>
      /\ mqFree' = <<slot[t]>> \o mqFree
  BY DEF MqFreeSlot
<1>4. \A u \in Thread \ {t} : call'[u] = call[u]
  BY DEF MqFreeSlot, MqReturns, Leaves, MqInv, WaitInv
<1>5. /\ slot[t] \in Slot
      /\ slot' \in [Thread -> Slot \cup {NoSlot}] /\ slot'[t] = NoSlot
      /\ \A u \in Thread \ {t} : slot'[u] = slot[u]
      /\ Cardinality(Holders') = Cardinality(Holders) - 1
      /\ Held \subseteq Held' \cup {slot[t]}
  BY <1>1, <1>3, SlotPut
<1>6. /\ mqFree' \in Seq(Slot) /\ Len(mqFree') = Len(mqFree) + 1
      /\ Elements(mqFree') = Elements(mqFree) \cup {slot[t]}
  BY <1>1, <1>3, <1>5, SlotListed DEF SlotInv
<1>7. \A u \in Thread : slot'[u] # NoSlot => state'[u] = "run" /\ call'[u] # NoCall
  BY <1>1, <1>3, <1>4, <1>5 DEF SlotInv
<1>8. /\ mqEntry' = Len(mqQueue')
      /\ Len(mqFree') + Len(mqQueue') + Cardinality(Holders') = Cardinality(Slot)
  BY <1>1, <1>3, <1>5, <1>6, SlotCounts DEF SlotInv
<1>9. Slot \subseteq Elements(mqFree') \cup Elements(mqQueue') \cup Held'
  BY <1>1, <1>3, <1>5, <1>6 DEF SlotInv
<1>10. SlotInv'
  BY <1>1, <1>3, <1>5, <1>6, <1>7, <1>8, <1>9 DEF SlotInv
<1> QED
  BY <1>2, <1>10 DEF MqInv

\* A step that leaves the slots where they are.
LEMMA SlotsStay ==
    ASSUME MqInv, UNCHANGED <<mqFree, mqQueue, mqEntry, slot>>,
           \A t \in Thread : slot[t] # NoSlot => state'[t] = "run" /\ call'[t] # NoCall
    PROVE  SlotInv'
<1>1. Holders' = Holders /\ Held' = Held
  BY DEF Holders, Held
<1>2. SlotInv
  BY DEF MqInv
<1>3. Cardinality(Holders') = Cardinality(Holders)
  BY <1>1
<1>4. Slot \subseteq Elements(mqFree') \cup Elements(mqQueue') \cup Held'
  BY <1>1, <1>2 DEF SlotInv
<1> QED
  BY <1>2, <1>3, <1>4 DEF SlotInv

\* A receiver finds no message: it returns or falls asleep.
LEMMA MqEmptyKeeps ==
    ASSUME MqInv, NEW t \in Thread, NEW left \in BOOLEAN, MqEmpty(t, left),
           Idle(t) \/ state[t] = "woken"
    PROVE  MqInv'
<1>1. /\ state[t] # "suspended" /\ slot[t] = NoSlot
      /\ mqEntry = 0 /\ UNCHANGED <<mqFree, mqQueue, mqEntry, slot>>
  BY DEF MqInv, SlotInv, MqEmpty, Idle
<1>2. \A u \in Thread \ {t} : state'[u] = state[u] /\ call'[u] = call[u]
  BY DEF MqEmpty, MqReturns, Leaves, SuspendOn, MqInv, WaitInv
<1>3. SlotInv'
  BY <1>1, <1>2, SlotsStay DEF MqInv, SlotInv
<1>4. CASE ~ left
  <2>1. WaitInv(MqKind)' /\ QueueWakes'
    BY <1>1, <1>4, MqGoesOn DEF MqEmpty, MqReturns
  <2> QED
    BY <1>3, <2>1 DEF MqInv
<1>5. CASE left
  <2>1. Suspends("mq_receivers", t, MqReceiving) /\ MqReceiving.op = "mq_receive"
    BY <1>5 DEF MqEmpty, Suspends, MqReceiving
  <2>2. WaitInv(MqKind)' /\ Woken("mq_receive")' = Woken("mq_receive") \ {t}
    BY <1>1, <2>1, MqKinds, SuspendsKeeps DEF MqInv
  <2>3. Cardinality(Woken("mq_receive")') \in Nat
    BY <2>2, CountRuns
  <2> QED
    BY <1>1, <1>3, <2>2, <2>3 DEF MqInv, QueueWakes
<1> QED
  BY <1>4, <1>5

\* A reset frees all queued slots and wakes everybody.
LEMMA MqResetKeeps ==
    ASSUME MqInv, MqReset
    PROVE  MqInv'
<1>1. SlotInv /\ mqFree \in Seq(Slot) /\ mqQueue \in Seq(Slot)
  BY DEF MqInv, SlotInv
<1>2. WaitInv(MqKind)' /\ waiting'["mq_receivers"] = <<>>
  BY MqKinds, ResumeAllKeeps DEF MqInv, MqReset
<1>3. /\ mqQueue' = <<>> /\ mqEntry' = 0 /\ slot' = slot /\ call' = call
      /\ mqFree' = [i \in 1..Len(mqQueue) |-> mqQueue[Len(mqQueue) + 1 - i]] \o mqFree
  BY DEF MqReset, ResumeAll
<1>4. /\ mqFree' \in Seq(Slot) /\ Len(mqFree') = Len(mqQueue) + Len(mqFree)
      /\ Elements(mqQueue) \cup Elements(mqFree) \subseteq Elements(mqFree')
  BY <1>1, <1>3, ReversedElements
<1>5. \A t \in Thread : state[t] = "run" => state'[t] = "run"
  <2>1. \A t \in UNION {Elements(waiting[l]) : l \in {"mq_receivers"}} : state[t] = "suspended"
    BY MqKinds DEF MqInv, WaitInv
  <2> QED
    BY <2>1 DEF MqReset, ResumeAll
<1>6. Holders' = Holders /\ Held' = Held
  BY <1>3 DEF Holders, Held
<1>7. Cardinality(Holders') = Cardinality(Holders)
  BY <1>6
<1>8. <<>> \in Seq(Slot) /\ Len(<<>>) = 0
  OBVIOUS
<1>9. Len(mqFree') + Len(mqQueue') + Cardinality(Holders') = Cardinality(Slot)
  BY <1>1, <1>3, <1>4, <1>7, <1>8, SlotCounts DEF SlotInv
<1>10. Slot \subseteq Elements(mqFree') \cup Elements(mqQueue') \cup Held'
  BY <1>1, <1>4, <1>6 DEF SlotInv
<1>11. SlotInv'
  BY <1>1, <1>3, <1>4, <1>5, <1>8, <1>9, <1>10 DEF SlotInv
<1> QED
  BY <1>2, <1>11 DEF MqInv, QueueWakes

\* A new queue has all slots free.
LEMMA MqInvInit == WaitersInit /\ MqInit => MqInv
<1> SUFFICES ASSUME WaitersInit, MqInit PROVE MqInv
  OBVIOUS
<1>1. WaitInv(MqKind) /\ waiting["mq_receivers"] = <<>>
  BY WaitersStart, MqKinds DEF WaitersInit
<1>2. /\ mqFree \in [1..Cardinality(Slot) -> Slot] /\ Elements(mqFree) = Slot
      /\ mqQueue = <<>> /\ mqEntry = 0
  BY DEF MqInit
<1>3. Cardinality(Slot) \in Nat
  BY MessageQueueAssumption, FS_CardinalityType
<1>4. mqFree \in Seq(Slot) /\ Len(mqFree) = Cardinality(Slot)
  <2>1. mqFree \in Seq(Slot)
    BY <1>2, <1>3, SeqDef
  <2>2. DOMAIN mqFree = 1..Cardinality(Slot)
    BY <1>2
  <2> QED
    BY <1>3, <2>1, <2>2, LenProperties
<1>5. slot = [t \in Thread |-> NoSlot] /\ Holders = {}
  BY DEF MqInit, Holders
<1>6. Cardinality(Holders) = 0
  BY <1>5, FS_EmptySet
<1>7. <<>> \in Seq(Slot) /\ Len(<<>>) = 0
  OBVIOUS
<1>8. SlotInv
  BY <1>2, <1>3, <1>4, <1>5, <1>6, <1>7 DEF SlotInv
<1> QED
  BY <1>1, <1>8 DEF MqInv, QueueWakes

\* Every call of a message queue keeps its invariant.
LEMMA MqInvNext == MqInv /\ [MqNext]_<<waitVars, mqVars>> => MqInv'
<1> SUFFICES ASSUME MqInv, [MqNext]_<<waitVars, mqVars>> PROVE MqInv'
  OBVIOUS
<1>1. ASSUME NEW t \in Thread, MqFull(t) PROVE MqInv'
  <2>1. state[t] = "run" /\ slot[t] = NoSlot /\ state' = [state EXCEPT ![t] = "run"]
    BY <1>1 DEF MqFull, Idle, MqInv, SlotInv, WaitInv
  <2>2. WaitInv(MqKind)' /\ QueueWakes'
    BY <1>1, <2>1, MqGoesOn DEF MqFull, MqReturns
  <2>3. \A u \in Thread \ {t} : state'[u] = state[u] /\ call'[u] = call[u]
    BY <1>1 DEF MqFull, MqReturns, Leaves, MqInv, WaitInv
  <2>4. SlotInv'
    BY <1>1, <2>1, <2>3, SlotsStay DEF MqInv, SlotInv, MqFull
  <2> QED
    BY <2>2, <2>4 DEF MqInv
<1>2. ASSUME NEW t \in Thread, NEW left \in BOOLEAN, MqRecv(t, left) PROVE MqInv'
  BY <1>2, MqUnlinkKeeps, MqEmptyKeeps DEF MqRecv
<1>3. ASSUME NEW t \in Thread, MqRecvAgain(t) PROVE MqInv'
  BY <1>3, MqUnlinkKeeps, MqEmptyKeeps DEF MqRecvAgain
<1>4. ASSUME NEW t \in Thread, MqFails(t) \/ (Timeout(t) /\ UNCHANGED mqVars) PROVE MqInv'
  <2>1. /\ WaitInv(MqKind)' /\ Woken("mq_receive")' = Woken("mq_receive")
        /\ waiting'["mq_receivers"] # <<>> => waiting["mq_receivers"] # <<>>
    BY <1>4, MqKinds, WaitFailsKeeps, TimeoutKeeps DEF MqInv, MqFails
  <2>2. UNCHANGED <<mqFree, mqQueue, mqEntry, slot>>
    BY <1>4 DEF MqFails, mqVars
  <2>3. QueueWakes'
    <3>1. Cardinality(Woken("mq_receive")') = Cardinality(Woken("mq_receive"))
      BY <2>1
    <3> QED
      BY <2>1, <2>2, <3>1 DEF MqInv, QueueWakes
  <2>4. \A u \in Thread : state[u] = "run" => state'[u] = "run" /\ call'[u] = call[u]
    BY <1>4 DEF MqFails, WaitFails, Timeout, Leaves, MqInv, WaitInv
  <2>5. SlotInv'
    BY <2>2, <2>4, SlotsStay DEF MqInv, SlotInv
  <2> QED
    BY <2>1, <2>3, <2>5 DEF MqInv
<1>5. CASE UNCHANGED <<waitVars, mqVars>>
  <2>1. SlotInv'
    BY <1>5, SlotsStay DEF waitVars, mqVars, MqInv, SlotInv
  <2> QED
    BY <1>5, <2>1 DEF waitVars, mqVars, MqInv, WaitInv, QueueWakes, Woken
<1> QED
  BY <1>1, <1>2, <1>3, <1>4, <1>5, MqClaimKeeps, MqLinkKeeps, MqSendIsrKeeps,
     MqFreeSlotKeeps, MqResetKeeps DEF MqNext

\* The invariant holds in every state of a message queue.
LEMMA MqInvHolds == MqSpec => []MqInv
  BY MqInvInit, MqInvNext, PTL DEF MqSpec

\* No receiver sleeps next to a message without a thread that is awake for it.
THEOREM QueueWakesHolds == MqSpec => []QueueWakes
<1>1. MqInv => QueueWakes
  BY DEF MqInv
<1> QED
  BY <1>1, MqInvHolds, PTL

\* No slot is lost or listed twice, also by a reset while threads copy.
THEOREM SlotsConservedHolds == MqSpec => []SlotsConserved
<1>1. MqInv => SlotsConserved
  BY SlotInvConserves DEF MqInv
<1> QED
  BY <1>1, MqInvHolds, PTL

\* ---- Message queues as channels ----

\* A slot is in one place only.
Apart ==
    /\ Distinct(mqFree) /\ Distinct(mqQueue)
    /\ Elements(mqFree) \cap Elements(mqQueue) = {}
    /\ \A t \in Thread : slot[t] # NoSlot => slot[t] \notin Elements(mqFree) \cup Elements(mqQueue)
    /\ \A t, u \in Thread : slot[t] # NoSlot /\ slot[t] = slot[u] => t = u

\* The calls of senders.
MqSends == {MqSending(op, m) : op \in {"mq_send", "mq_urgent"}, m \in Message}

\* What thread t is inside of; the slot of a sender holds its message.
CopyOf(t) ==
    /\ call[t] \in {NoCall, MqReceiving} \cup MqSends
    /\ state[t] # "run" => call[t] = MqReceiving
    /\ call[t] # NoCall => buffer[t] = "EOK"
    /\ \A op \in {"mq_send", "mq_urgent"}, m \in Message :
         call[t] = MqSending(op, m) => slot[t] # NoSlot /\ data[slot[t]] = m

\* The contents of the slots, and what all threads are inside of.
Copies ==
    /\ data \in [Slot -> Message \cup {NoMessage}]
    /\ buffer = [t \in Thread |-> buffer[t]]
    /\ \A t \in Thread : CopyOf(t)

\* The inductive invariant of the refinement.
QueueInv == MqInv /\ Apart /\ Copies

\* A receive is not NoCall.
LEMMA MqReceivingIsCall == MqReceiving # NoCall
  BY MessageQueueAssumption DEF MqReceiving

\* A send is neither NoCall nor a receive.
LEMMA MqSendingIsCall ==
    ASSUME NEW op \in {"mq_send", "mq_urgent"}, NEW m \in Message
    PROVE  /\ MqSending(op, m) # NoCall /\ MqSending(op, m) # MqReceiving
           /\ MqSending(op, m).op = op /\ MqSending(op, m).arg = m
<1>1. MqSending(op, m) # NoCall
  BY MessageQueueAssumption DEF MqSending
<1>2. MqSending(op, m).op = op /\ MqSending(op, m).arg = m
  BY DEF MqSending
<1>3. MqReceiving.op = "mq_receive"
  BY DEF MqReceiving
<1> QED
  BY <1>1, <1>2, <1>3

\* A list with each of its elements once, reversed, in front of one that has
\* none of them.
LEMMA ReversedDistinct ==
    ASSUME NEW S, NEW s \in Seq(S), NEW w \in Seq(S), Distinct(s), Distinct(w),
           Elements(s) \cap Elements(w) = {}
    PROVE  LET r == [i \in 1..Len(s) |-> s[Len(s) + 1 - i]] \o w
           IN  Distinct(r) /\ Elements(r) \subseteq Elements(s) \cup Elements(w)
<1> DEFINE v == [i \in 1..Len(s) |-> s[Len(s) + 1 - i]]
           r == v \o w
<1>1. Len(s) \in Nat /\ Len(w) \in Nat
  BY LenProperties
<1>2. v \in Seq(S) /\ Len(v) = Len(s) /\ \A i \in 1..Len(s) : v[i] = s[Len(s) + 1 - i]
  <2>1. \A i \in 1..Len(s) : s[Len(s) + 1 - i] \in S
    BY <1>1, ElementOfSeq
  <2>2. v \in [1..Len(s) -> S]
    BY <2>1
  <2> QED
    BY <1>1, <2>2
<1> HIDE DEF v
<1>3. /\ Len(r) = Len(s) + Len(w)
      /\ \A i \in 1..Len(r) : r[i] = IF i <= Len(s) THEN s[Len(s) + 1 - i] ELSE w[i - Len(s)]
  <2>1. /\ Len(r) = Len(v) + Len(w)
        /\ \A i \in 1..(Len(v) + Len(w)) : r[i] = IF i <= Len(v) THEN v[i] ELSE w[i - Len(v)]
    BY <1>2, ConcatProperties
  <2> QED
    BY <1>1, <1>2, <2>1
<1> HIDE DEF r
<1>4. ASSUME NEW i \in 1..Len(r)
      PROVE  IF i <= Len(s) THEN Len(s) + 1 - i \in 1..Len(s) /\ r[i] \in Elements(s)
             ELSE i - Len(s) \in 1..Len(w) /\ r[i] \in Elements(w)
  <2>1. CASE i <= Len(s)
    <3>1. Len(s) + 1 - i \in 1..Len(s) /\ r[i] = s[Len(s) + 1 - i]
      BY <1>1, <1>3, <2>1
    <3> QED
      BY <2>1, <3>1 DEF Elements
  <2>2. CASE ~ (i <= Len(s))
    <3>1. i - Len(s) \in 1..Len(w) /\ r[i] = w[i - Len(s)]
      BY <1>1, <1>3, <2>2
    <3> QED
      BY <2>2, <3>1 DEF Elements
  <2> QED
    BY <2>1, <2>2
<1>5. Elements(r) \subseteq Elements(s) \cup Elements(w)
  <2>1. \A i \in 1..Len(r) : r[i] \in Elements(s) \cup Elements(w)
    BY <1>4
  <2> QED
    BY <2>1 DEF Elements
<1>6. ASSUME NEW i \in 1..Len(r), NEW j \in 1..Len(r), r[i] = r[j] PROVE i = j
  <2>1. (i <= Len(s)) <=> (j <= Len(s))
    BY <1>4, <1>6
  <2>2. CASE i <= Len(s)
    <3>1. /\ Len(s) + 1 - i \in 1..Len(s) /\ Len(s) + 1 - j \in 1..Len(s)
          /\ s[Len(s) + 1 - i] = s[Len(s) + 1 - j]
      BY <1>3, <1>4, <1>6, <2>1, <2>2
    <3>2. Len(s) + 1 - i = Len(s) + 1 - j
      BY <3>1 DEF Distinct
    <3> QED
      BY <1>1, <3>2
  <2>3. CASE ~ (i <= Len(s))
    <3>1. /\ i - Len(s) \in 1..Len(w) /\ j - Len(s) \in 1..Len(w)
          /\ w[i - Len(s)] = w[j - Len(s)]
      BY <1>3, <1>4, <1>6, <2>1, <2>3
    <3>2. i - Len(s) = j - Len(s)
      BY <3>1 DEF Distinct
    <3> QED
      BY <1>1, <3>2
  <2> QED
    BY <2>2, <2>3
<1>7. Distinct(r)
  BY <1>6 DEF Distinct
<1> QED
  BY <1>5, <1>7 DEF r, v

\* The messages of a queue.
LEMMA QueuedAt ==
    QueueInv => /\ Queued \in Seq(Message \cup {NoMessage}) /\ Len(Queued) = Len(mqQueue)
                /\ Len(mqQueue) \in Nat
                /\ mqQueue # <<>> => Queued # <<>> /\ Head(Queued) = data[Head(mqQueue)]
<1> SUFFICES ASSUME QueueInv
             PROVE  /\ Queued \in Seq(Message \cup {NoMessage}) /\ Len(Queued) = Len(mqQueue)
                    /\ Len(mqQueue) \in Nat
                    /\ mqQueue # <<>> => Queued # <<>> /\ Head(Queued) = data[Head(mqQueue)]
  OBVIOUS
<1>1. mqQueue \in Seq(Slot) /\ Len(mqQueue) \in Nat /\ data \in [Slot -> Message \cup {NoMessage}]
  BY LenProperties DEF QueueInv, MqInv, SlotInv, Copies
<1>2. \A i \in 1..Len(mqQueue) : data[mqQueue[i]] \in Message \cup {NoMessage}
  BY <1>1, ElementOfSeq
<1>3. Queued \in [1..Len(mqQueue) -> Message \cup {NoMessage}]
  BY <1>2 DEF Queued
<1>4. Queued \in Seq(Message \cup {NoMessage}) /\ Len(Queued) = Len(mqQueue)
  BY <1>1, <1>3
<1>5. ASSUME mqQueue # <<>> PROVE Queued # <<>> /\ Head(Queued) = data[Head(mqQueue)]
  <2>1. Len(mqQueue) # 0 /\ Head(mqQueue) = mqQueue[1]
    BY <1>1, <1>5, EmptySeq, HeadTailProperties
  <2>2. Queued[1] = data[mqQueue[1]]
    BY <1>1, <2>1 DEF Queued
  <2>3. Queued # <<>>
    BY <1>1, <1>4, <2>1, EmptySeq
  <2> QED
    BY <1>4, <2>1, <2>2, <2>3, HeadTailProperties
<1> QED
  BY <1>1, <1>4, <1>5

\* A slot leaves the lists for the hands of t.
LEMMA ApartTaken ==
    ASSUME QueueInv, NEW t \in Thread, slot[t] = NoSlot, NEW x \in Slot,
           slot' = [slot EXCEPT ![t] = x],
           Distinct(mqFree)', Distinct(mqQueue)',
           Elements(mqFree)' \subseteq Elements(mqFree),
           Elements(mqQueue)' \subseteq Elements(mqQueue),
           x \in Elements(mqFree) \cup Elements(mqQueue),
           x \notin Elements(mqFree)' \cup Elements(mqQueue)'
    PROVE  /\ Apart'
           /\ \A u \in Thread \ {t} : slot'[u] = slot[u] /\ slot[u] # x
<1>1. slot'[t] = x /\ \A u \in Thread \ {t} : slot'[u] = slot[u]
  BY DEF QueueInv, MqInv, SlotInv
<1>2. x # NoSlot /\ \A u \in Thread \ {t} : slot[u] # x
  BY MessageQueueAssumption DEF QueueInv, Apart
<1> QED
  BY <1>1, <1>2 DEF QueueInv, Apart

\* The slot in the hands of t goes to one of the lists.
LEMMA ApartPut ==
    ASSUME QueueInv, NEW t \in Thread, slot[t] # NoSlot, slot' = [slot EXCEPT ![t] = NoSlot],
           Distinct(mqFree)', Distinct(mqQueue)',
           \/ mqFree' = mqFree /\ Elements(mqQueue)' = Elements(mqQueue) \cup {slot[t]}
           \/ mqQueue' = mqQueue /\ Elements(mqFree)' = Elements(mqFree) \cup {slot[t]}
    PROVE  Apart' /\ \A u \in Thread \ {t} : slot'[u] = slot[u]
<1>1. slot'[t] = NoSlot /\ \A u \in Thread \ {t} : slot'[u] = slot[u]
  BY DEF QueueInv, MqInv, SlotInv
<1>2. mqFree' = mqFree => Elements(mqFree)' = Elements(mqFree)
  OBVIOUS
<1>3. mqQueue' = mqQueue => Elements(mqQueue)' = Elements(mqQueue)
  OBVIOUS
<1>4. Elements(mqFree)' \cap Elements(mqQueue)' = {}
  BY <1>2, <1>3 DEF QueueInv, Apart
<1>5. \A u \in Thread : slot'[u] # NoSlot =>
        slot'[u] \notin Elements(mqFree)' \cup Elements(mqQueue)'
  BY <1>1, <1>2, <1>3 DEF QueueInv, Apart
<1>6. \A u, v \in Thread : slot'[u] # NoSlot /\ slot'[u] = slot'[v] => u = v
  BY <1>1 DEF QueueInv, Apart
<1> QED
  BY <1>1, <1>4, <1>5, <1>6 DEF Apart

\* Slots move between the lists.
LEMMA ApartMoves ==
    ASSUME QueueInv, UNCHANGED slot, Distinct(mqFree)', Distinct(mqQueue)',
           Elements(mqFree)' \cup Elements(mqQueue)' \subseteq Elements(mqFree) \cup Elements(mqQueue),
           Elements(mqFree)' \cap Elements(mqQueue)' = {}
    PROVE  Apart'
  BY DEF QueueInv, Apart

\* A step of others: thread u goes on as before.
Untouched(u) ==
    /\ call'[u] = call[u] /\ buffer'[u] = buffer[u] /\ slot'[u] = slot[u]
    /\ slot[u] # NoSlot => data'[slot[u]] = data[slot[u]]
    /\ state'[u] # "run" => state[u] # "run"

\* What untouched threads are inside of is what it was.
LEMMA CopiesKeep ==
    ASSUME QueueInv, data' \in [Slot -> Message \cup {NoMessage}],
           buffer' = [u \in Thread |-> buffer'[u]],
           \A u \in Thread : Untouched(u) \/ CopyOf(u)'
    PROVE  Copies'
<1>1. ASSUME NEW u \in Thread, Untouched(u) PROVE CopyOf(u)'
  <2>1. CopyOf(u)
    BY DEF QueueInv, Copies
  <2> QED
    BY <1>1, <2>1 DEF CopyOf, MqSends, Untouched
<1> QED
  BY <1>1 DEF Copies

\* The messages of a queue that stays as it is.
LEMMA QueuedSame ==
    ASSUME QueueInv, UNCHANGED mqQueue, \A x \in Elements(mqQueue) : data'[x] = data[x]
    PROVE  Queued' = Queued
<1>1. \A i \in 1..Len(mqQueue) : data'[mqQueue[i]] = data[mqQueue[i]]
  BY DEF Elements
<1> QED
  BY <1>1 DEF Queued

\* A slot is linked at the end: its message is the last one.
LEMMA QueuedAppends ==
    ASSUME QueueInv, NEW x \in Slot, mqQueue' = Append(mqQueue, x),
           data' \in [Slot -> Message \cup {NoMessage}],
           \A y \in Elements(mqQueue) : data'[y] = data[y]
    PROVE  Queued' = Append(Queued, data'[x])
<1>1. mqQueue \in Seq(Slot) /\ Len(mqQueue) \in Nat
  BY LenProperties DEF QueueInv, MqInv, SlotInv
<1>2. /\ Len(mqQueue') = Len(mqQueue) + 1 /\ mqQueue'[Len(mqQueue) + 1] = x
      /\ \A i \in 1..Len(mqQueue) : mqQueue'[i] = mqQueue[i]
  BY <1>1, AppendProperties
<1>3. Queued \in Seq(Message \cup {NoMessage}) /\ Len(Queued) = Len(mqQueue)
  BY QueuedAt
<1> DEFINE v == Queued'
           w == Append(Queued, data'[x])
<1>4. /\ w \in Seq(Message \cup {NoMessage}) /\ Len(w) = Len(mqQueue) + 1
      /\ w[Len(mqQueue) + 1] = data'[x]
      /\ \A i \in 1..Len(mqQueue) : w[i] = data[mqQueue[i]]
  <2>1. \A i \in 1..Len(mqQueue) : Queued[i] = data[mqQueue[i]]
    BY DEF Queued
  <2>2. data'[x] \in Message \cup {NoMessage}
    OBVIOUS
  <2> QED
    BY <1>3, <2>1, <2>2, AppendProperties
<1>5. v = [i \in 1..(Len(mqQueue) + 1) |-> data'[mqQueue'[i]]]
  BY <1>2 DEF Queued
<1>6. \A i \in 1..(Len(mqQueue) + 1) : w[i] = data'[mqQueue'[i]]
  <2> TAKE i \in 1..(Len(mqQueue) + 1)
  <2>1. CASE i = Len(mqQueue) + 1
    BY <1>2, <1>4, <2>1
  <2>2. CASE i \in 1..Len(mqQueue)
    <3>1. mqQueue[i] \in Elements(mqQueue) /\ w[i] = data[mqQueue[i]]
      BY <1>4, <2>2 DEF Elements
    <3>2. mqQueue'[i] = mqQueue[i]
      BY <1>2, <2>2
    <3> HIDE DEF w
    <3> QED
      BY <3>1, <3>2
  <2>3. i = Len(mqQueue) + 1 \/ i \in 1..Len(mqQueue)
    BY <1>1
  <2> QED
    BY <2>1, <2>2, <2>3
<1>7. \A i \in 1..(Len(mqQueue) + 1) : w[i] \in Message \cup {NoMessage}
  BY <1>4, ElementOfSeq
<1>8. v \in Seq(Message \cup {NoMessage}) /\ Len(v) = Len(mqQueue) + 1
  BY <1>1, <1>5, <1>6, <1>7
<1>9. \A i \in 1..(Len(mqQueue) + 1) : v[i] = w[i]
  BY <1>5, <1>6
<1> HIDE DEF v, w
<1>10. v = w
  BY <1>4, <1>8, <1>9, SeqEqual
<1> QED
  BY <1>10 DEF v, w

\* A slot is linked at the head: its message is the first one.
LEMMA QueuedPushes ==
    ASSUME QueueInv, NEW x \in Slot, mqQueue' = <<x>> \o mqQueue, UNCHANGED data
    PROVE  Queued' = <<data[x]>> \o Queued
<1>1. mqQueue \in Seq(Slot) /\ Len(mqQueue) \in Nat
  BY LenProperties DEF QueueInv, MqInv, SlotInv
<1>2. /\ Len(mqQueue') = Len(mqQueue) + 1
      /\ \A i \in 1..(Len(mqQueue) + 1) : mqQueue'[i] = IF i = 1 THEN x ELSE mqQueue[i - 1]
  BY <1>1
<1>3. Queued \in Seq(Message \cup {NoMessage}) /\ Len(Queued) = Len(mqQueue)
  BY QueuedAt
<1>4. data[x] \in Message \cup {NoMessage}
  BY DEF QueueInv, Copies
<1> DEFINE v == Queued'
           w == <<data[x]>> \o Queued
<1>5. /\ w \in Seq(Message \cup {NoMessage}) /\ Len(w) = Len(mqQueue) + 1
      /\ \A i \in 1..(Len(mqQueue) + 1) : w[i] = IF i = 1 THEN data[x] ELSE Queued[i - 1]
  <2> HIDE DEF Queued
  <2> QED
    BY <1>1, <1>3, <1>4
<1>6. v = [i \in 1..(Len(mqQueue) + 1) |-> data[mqQueue'[i]]]
  BY <1>2 DEF Queued
<1>7. \A i \in 1..(Len(mqQueue) + 1) : w[i] = data[mqQueue'[i]]
  <2> TAKE i \in 1..(Len(mqQueue) + 1)
  <2>1. CASE i = 1
    BY <1>1, <1>2, <1>5, <2>1
  <2>2. CASE i # 1
    <3>1. i - 1 \in 1..Len(mqQueue)
      BY <1>1, <2>2
    <3>2. Queued[i - 1] = data[mqQueue[i - 1]]
      BY <3>1 DEF Queued
    <3> QED
      BY <1>2, <1>5, <2>2, <3>2
  <2> QED
    BY <2>1, <2>2
<1>8. \A i \in 1..(Len(mqQueue) + 1) : w[i] \in Message \cup {NoMessage}
  BY <1>5, ElementOfSeq
<1>9. v \in Seq(Message \cup {NoMessage}) /\ Len(v) = Len(mqQueue) + 1
  <2>1. v \in [1..(Len(mqQueue) + 1) -> Message \cup {NoMessage}]
    BY <1>6, <1>7, <1>8
  <2> HIDE DEF v
  <2> QED
    BY <1>1, <2>1
<1>10. \A i \in 1..(Len(mqQueue) + 1) : v[i] = w[i]
  BY <1>6, <1>7
<1> HIDE DEF v, w
<1>11. v = w
  BY <1>5, <1>9, <1>10, SeqEqual
<1> QED
  BY <1>11 DEF v, w

\* The first slot is unlinked: its message was the first one.
LEMMA QueuedLoses ==
    ASSUME QueueInv, mqQueue # <<>>, mqQueue' = Tail(mqQueue), UNCHANGED data
    PROVE  Queued # <<>> /\ Queued' = Tail(Queued) /\ Head(Queued) = data[Head(mqQueue)]
<1>1. mqQueue \in Seq(Slot) /\ Len(mqQueue) \in Nat
  BY LenProperties DEF QueueInv, MqInv, SlotInv
<1>2. /\ Len(mqQueue') = Len(mqQueue) - 1 /\ Len(mqQueue) # 0
      /\ \A i \in 1..(Len(mqQueue) - 1) : mqQueue'[i] = mqQueue[i + 1]
  BY <1>1, EmptySeq, HeadTailProperties
<1>3. /\ Queued \in Seq(Message \cup {NoMessage}) /\ Len(Queued) = Len(mqQueue)
      /\ Queued # <<>> /\ Head(Queued) = data[Head(mqQueue)]
  BY QueuedAt
<1> DEFINE v == Queued'
           w == Tail(Queued)
<1>4. /\ w \in Seq(Message \cup {NoMessage}) /\ Len(w) = Len(mqQueue) - 1
      /\ \A i \in 1..(Len(mqQueue) - 1) : w[i] = Queued[i + 1]
  BY <1>3, HeadTailProperties
<1>5. v = [i \in 1..(Len(mqQueue) - 1) |-> data[mqQueue'[i]]]
  BY <1>2 DEF Queued
<1>6. \A i \in 1..(Len(mqQueue) - 1) : w[i] = data[mqQueue'[i]]
  <2> TAKE i \in 1..(Len(mqQueue) - 1)
  <2>1. i + 1 \in 1..Len(mqQueue)
    BY <1>1
  <2>2. Queued[i + 1] = data[mqQueue[i + 1]]
    BY <2>1 DEF Queued
  <2> QED
    BY <1>2, <1>4, <2>2
<1>7. \A i \in 1..(Len(mqQueue) - 1) : w[i] \in Message \cup {NoMessage}
  BY <1>4, ElementOfSeq
<1>8. v \in Seq(Message \cup {NoMessage}) /\ Len(v) = Len(mqQueue) - 1
  <2>1. v \in [1..(Len(mqQueue) - 1) -> Message \cup {NoMessage}]
    BY <1>5, <1>6, <1>7
  <2>2. Len(mqQueue) - 1 \in Nat
    BY <1>1, <1>2
  <2> HIDE DEF v
  <2> QED
    BY <2>1, <2>2
<1>9. \A i \in 1..(Len(mqQueue) - 1) : v[i] = w[i]
  BY <1>5, <1>6
<1> HIDE DEF v, w
<1>10. v = w
  BY <1>4, <1>8, <1>9, SeqEqual
<1> QED
  BY <1>3, <1>10 DEF v, w

\* What the channel sees of thread t.
Seen(t) ==
    /\ call[t] = NoCall => QueueCall[t] = NoCall /\ QueueResult[t] = buffer[t]
    /\ \A m \in Message :
         /\ call[t] = MqSending("mq_send", m) =>
              QueueCall[t] = [op |-> "send", arg |-> m] /\ QueueResult[t] = buffer[t]
         /\ call[t] = MqSending("mq_urgent", m) =>
              QueueCall[t] = [op |-> "urgent", arg |-> m] /\ QueueResult[t] = buffer[t]
    /\ call[t] = MqReceiving /\ slot[t] = NoSlot =>
         QueueCall[t] = [op |-> "receive", arg |-> "EOK"] /\ QueueResult[t] = buffer[t]
    /\ call[t] = MqReceiving /\ slot[t] # NoSlot =>
         QueueCall[t] = NoCall /\ QueueResult[t] = data[slot[t]]

LEMMA QueueView == \A t \in Thread : Seen(t)
<1> TAKE t \in Thread
<1>1. /\ DOMAIN QueueOp = {"mq_send", "mq_urgent", "mq_receive"}
      /\ QueueOp["mq_send"] = "send" /\ QueueOp["mq_urgent"] = "urgent"
      /\ QueueOp["mq_receive"] = "receive"
  BY DEF QueueOp
<1>2. /\ QueueCall[t] = IF call[t] # NoCall /\ call[t].op \in DOMAIN QueueOp /\ ~ CopyingOut(t)
                          THEN [op |-> QueueOp[call[t].op], arg |-> call[t].arg] ELSE NoCall
      /\ QueueResult[t] = IF CopyingOut(t) THEN data[slot[t]] ELSE buffer[t]
  BY DEF QueueCall, QueueResult
<1>3. MqReceiving # NoCall /\ MqReceiving.op = "mq_receive" /\ MqReceiving.arg = "EOK"
  BY MqReceivingIsCall DEF MqReceiving
<1>4. call[t] = NoCall => QueueCall[t] = NoCall /\ QueueResult[t] = buffer[t]
  BY <1>2, <1>3 DEF CopyingOut
<1>5. ASSUME NEW op \in {"mq_send", "mq_urgent"}, NEW m \in Message, call[t] = MqSending(op, m)
      PROVE  QueueCall[t] = [op |-> QueueOp[op], arg |-> m] /\ QueueResult[t] = buffer[t]
  BY <1>1, <1>2, <1>5, MqSendingIsCall DEF CopyingOut
<1>6. ASSUME call[t] = MqReceiving, slot[t] = NoSlot
      PROVE  QueueCall[t] = [op |-> "receive", arg |-> "EOK"] /\ QueueResult[t] = buffer[t]
  BY <1>1, <1>2, <1>3, <1>6 DEF CopyingOut
<1>7. ASSUME call[t] = MqReceiving, slot[t] # NoSlot
      PROVE  QueueCall[t] = NoCall /\ QueueResult[t] = data[slot[t]]
  BY <1>2, <1>7 DEF CopyingOut
<1> QED
  BY <1>1, <1>4, <1>5, <1>6, <1>7 DEF Seen

\* The same of the state after a step.
LEMMA QueueViewNext == (\A t \in Thread : Seen(t))'
  BY QueueView, PTL

\* A step of the threads in T does not change what the channel sees of others.
LEMMA QueueViewKeeps ==
    ASSUME NEW T \in SUBSET Thread, \A u \in Thread \ T : Untouched(u)
    PROVE  /\ \A u \in Thread \ T : QueueCall'[u] = QueueCall[u] /\ QueueResult'[u] = QueueResult[u]
           /\ T = {} => QueueCall' = QueueCall /\ QueueResult' = QueueResult
           /\ \A t \in Thread : T = {t} =>
                /\ QueueCall' = [QueueCall EXCEPT ![t] = QueueCall'[t]]
                /\ QueueResult' = [QueueResult EXCEPT ![t] = QueueResult'[t]]
<1>1. ASSUME NEW u \in Thread \ T
      PROVE  QueueCall'[u] = QueueCall[u] /\ QueueResult'[u] = QueueResult[u]
  <2>1. CopyingOut(u)' <=> CopyingOut(u)
    BY DEF CopyingOut, Untouched
  <2>2. QueueCall'[u] = QueueCall[u]
    BY <2>1 DEF QueueCall, Untouched
  <2>3. CopyingOut(u) => slot[u] # NoSlot
    BY DEF CopyingOut
  <2>4. QueueResult'[u] = QueueResult[u]
    BY <2>1, <2>3 DEF QueueResult, Untouched
  <2> QED
    BY <2>2, <2>4
<1>2. /\ QueueCall = [u \in Thread |-> QueueCall[u]] /\ QueueCall' = [u \in Thread |-> QueueCall'[u]]
      /\ QueueResult = [u \in Thread |-> QueueResult[u]]
      /\ QueueResult' = [u \in Thread |-> QueueResult'[u]]
  BY DEF QueueCall, QueueResult
<1> QED
  BY <1>1, <1>2

\* What a step of the queue is to the channel.
QueueStep == QueueChannel!Next \/ UNCHANGED <<Queued, QueueCall, QueueResult>>

\* A send takes a slot: its call begins.
LEMMA ClaimSteps ==
    ASSUME QueueInv, NEW t \in Thread, NEW op \in {"mq_send", "mq_urgent"}, NEW m \in Message,
           MqClaim(t, op, m)
    PROVE  QueueInv' /\ QueueStep
<1>1. MqInv' /\ mqFree \in Seq(Slot) /\ mqQueue \in Seq(Slot) /\ Distinct(mqFree)
  BY MqClaimKeeps DEF QueueInv, MqInv, SlotInv, Apart
<1> DEFINE x == Head(mqFree)
<1>2. /\ x \in Slot /\ x \in Elements(mqFree) /\ x \notin Elements(mqQueue)
      /\ Distinct(mqFree)' /\ x \notin Elements(mqFree)'
      /\ Elements(mqFree)' \subseteq Elements(mqFree)
  BY <1>1, TailElements DEF MqClaim, QueueInv, Apart
<1>3. /\ slot[t] = NoSlot /\ call[t] = NoCall /\ state[t] = "run"
      /\ slot' = [slot EXCEPT ![t] = x] /\ data' = [data EXCEPT ![x] = m]
      /\ call' = [call EXCEPT ![t] = MqSending(op, m)] /\ UNCHANGED <<state, mqQueue>>
      /\ buffer' = [buffer EXCEPT ![t] = "EOK"]
  BY DEF MqClaim, Idle, QueueInv, MqInv, SlotInv
<1> HIDE DEF x
<1>4. Elements(mqQueue)' = Elements(mqQueue) /\ Distinct(mqQueue)'
  BY <1>3 DEF QueueInv, Apart
<1>5. Apart' /\ \A u \in Thread \ {t} : slot'[u] = slot[u] /\ slot[u] # x
  BY <1>2, <1>3, <1>4, ApartTaken
<1>6. /\ data' \in [Slot -> Message \cup {NoMessage}] /\ data'[x] = m
      /\ \A y \in Slot : y # x => data'[y] = data[y]
  BY <1>2, <1>3 DEF QueueInv, Copies
<1>7. /\ slot'[t] = x /\ call'[t] = MqSending(op, m) /\ buffer'[t] = "EOK" /\ state'[t] = "run"
      /\ buffer' = [u \in Thread |-> buffer'[u]]
      /\ \A u \in Thread \ {t} : call'[u] = call[u] /\ buffer'[u] = buffer[u]
  BY <1>3 DEF QueueInv, MqInv, SlotInv, WaitInv, Copies
<1>8. \A u \in Thread : slot[u] \in Slot \cup {NoSlot}
  BY DEF QueueInv, MqInv, SlotInv
<1>9. \A u \in Thread \ {t} : Untouched(u)
  BY <1>3, <1>5, <1>6, <1>7, <1>8 DEF Untouched
<1>10. CopyOf(t)'
  <2>1. x # NoSlot
    BY <1>2, MessageQueueAssumption
  <2>2. \A o \in {"mq_send", "mq_urgent"}, n \in Message : MqSending(op, m) = MqSending(o, n) => n = m
    BY MqSendingIsCall
  <2> QED
    BY <1>6, <1>7, <2>1, <2>2 DEF CopyOf, MqSends
<1>11. Copies'
  BY <1>6, <1>7, <1>9, <1>10, CopiesKeep
<1>12. Queued' = Queued
  <2>1. \A y \in Elements(mqQueue) : data'[y] = data[y]
    BY <1>1, <1>2, <1>6, HeadElement
  <2> QED
    BY <1>3, <2>1, QueuedSame
<1>13. /\ QueueCall' = [QueueCall EXCEPT ![t] = QueueCall'[t]]
       /\ QueueResult' = [QueueResult EXCEPT ![t] = QueueResult'[t]]
  BY <1>9, QueueViewKeeps
<1>14. QueueCall[t] = NoCall /\ QueueResult'[t] = "EOK" /\ QueueCall'[t] \in QueueChannel!Calls
  <2>1. QueueCall[t] = NoCall
    BY <1>3, QueueView DEF Seen
  <2>2. op = "mq_send" \/ op = "mq_urgent"
    OBVIOUS
  <2>3. /\ QueueResult'[t] = "EOK"
        /\ QueueCall'[t] \in {[op |-> "send", arg |-> m], [op |-> "urgent", arg |-> m]}
    BY <1>7, <2>2, QueueViewNext DEF Seen
  <2>4. {[op |-> "send", arg |-> m], [op |-> "urgent", arg |-> m]} \subseteq QueueChannel!Calls
    BY DEF QueueChannel!Calls
  <2> QED
    BY <2>1, <2>3, <2>4
<1>15. QueueChannel!Begin(t)
  BY <1>12, <1>13, <1>14 DEF QueueChannel!Begin
<1> QED
  BY <1>1, <1>5, <1>11, <1>15 DEF QueueInv, QueueStep, QueueChannel!Next

\* A send links its slot: the message is sent.
LEMMA LinkSteps ==
    ASSUME QueueInv, NEW t \in Thread, MqLink(t)
    PROVE  QueueInv' /\ QueueStep
<1>1. MqInv' /\ mqFree \in Seq(Slot) /\ mqQueue \in Seq(Slot)
  BY MqLinkKeeps DEF QueueInv, MqInv, SlotInv
<1>2. /\ slot[t] \in Slot /\ slot[t] # NoSlot /\ state[t] = "run"
      /\ slot' = [slot EXCEPT ![t] = NoSlot] /\ UNCHANGED <<mqFree, data>>
      /\ call' = [call EXCEPT ![t] = NoCall] /\ buffer' = [buffer EXCEPT ![t] = "EOK"]
      /\ ResumeFirst("mq_receivers", {t})
  BY DEF MqLink, MqReturns, Leaves, QueueInv, MqInv, SlotInv
<1>3. PICK m \in Message :
        \/ call[t] = MqSending("mq_send", m) /\ mqQueue' = Append(mqQueue, slot[t])
        \/ call[t] = MqSending("mq_urgent", m) /\ mqQueue' = <<slot[t]>> \o mqQueue
  BY DEF MqLink
<1>4. data[slot[t]] = m
  BY <1>3 DEF QueueInv, Copies, CopyOf
<1>5. /\ Distinct(mqFree)' /\ Distinct(mqQueue)'
      /\ Elements(mqQueue)' = Elements(mqQueue) \cup {slot[t]}
  <2>1. Distinct(mqQueue) /\ slot[t] \notin Elements(mqQueue)
    BY <1>2 DEF QueueInv, Apart
  <2>2. Distinct(mqQueue)' /\ Elements(mqQueue)' = Elements(mqQueue) \cup {slot[t]}
    <3>1. CASE mqQueue' = Append(mqQueue, slot[t])
      BY <1>1, <1>2, <2>1, <3>1, AppendElements
    <3>2. CASE mqQueue' = <<slot[t]>> \o mqQueue
      BY <1>1, <1>2, <2>1, <3>2, PushElements
    <3> QED
      BY <1>3, <3>1, <3>2
  <2> QED
    BY <1>2, <2>2 DEF QueueInv, Apart
<1>6. Apart' /\ \A u \in Thread \ {t} : slot'[u] = slot[u]
  BY <1>2, <1>5, ApartPut
<1>7. /\ call'[t] = NoCall /\ buffer'[t] = "EOK" /\ buffer' = [u \in Thread |-> buffer'[u]]
      /\ \A u \in Thread \ {t} : call'[u] = call[u] /\ buffer'[u] = buffer[u]
  BY <1>2 DEF QueueInv, MqInv, WaitInv, Copies
<1>8. /\ state'[t] = "run"
      /\ \A u \in Thread : state'[u] # "run" => state[u] # "run"
  <2>1. waiting["mq_receivers"] # <<>> => state[Head(waiting["mq_receivers"])] = "suspended"
    BY MqKinds, HeadElement DEF QueueInv, MqInv, WaitInv
  <2> QED
    BY <1>2, <2>1 DEF ResumeFirst
<1>9. \A u \in Thread \ {t} : Untouched(u)
  BY <1>2, <1>6, <1>7, <1>8 DEF Untouched
<1>10. CopyOf(t)'
  BY <1>7, <1>8, MqSendingIsCall DEF CopyOf
<1>11. data' \in [Slot -> Message \cup {NoMessage}]
  BY <1>2 DEF QueueInv, Copies
<1>12. Copies'
  BY <1>7, <1>9, <1>10, <1>11, CopiesKeep
<1>13. /\ QueueCall' = [QueueCall EXCEPT ![t] = NoCall]
       /\ QueueResult' = [QueueResult EXCEPT ![t] = "EOK"]
  <2>1. QueueCall'[t] = NoCall /\ QueueResult'[t] = "EOK"
    BY <1>7, QueueViewNext DEF Seen
  <2> QED
    BY <1>9, <2>1, QueueViewKeeps
<1>14. Len(Queued) < Cardinality(Slot)
  <2>1. t \in Holders /\ IsFiniteSet(Holders) /\ Cardinality(Holders) \in Nat
        /\ Len(mqFree) \in Nat /\ Len(mqQueue) \in Nat
    BY <1>2, SlotCounts DEF Holders, QueueInv, MqInv
  <2>2. Cardinality(Holders) # 0
    BY <2>1, FS_EmptySet
  <2>3. Len(Queued) = Len(mqQueue)
    BY QueuedAt
  <2>4. Len(mqFree) + Len(mqQueue) + Cardinality(Holders) = Cardinality(Slot)
    BY DEF QueueInv, MqInv, SlotInv
  <2> QED
    BY <2>1, <2>2, <2>3, <2>4
<1>15. CASE call[t] = MqSending("mq_send", m) /\ mqQueue' = Append(mqQueue, slot[t])
  <2>1. Queued' = Append(Queued, m)
    BY <1>2, <1>4, <1>11, <1>15, QueuedAppends
  <2>2. QueueCall[t] = [op |-> "send", arg |-> m]
    BY <1>15, QueueView DEF Seen
  <2>3. QueueChannel!Send(t, m)
    BY <1>13, <1>14, <2>1, <2>2 DEF QueueChannel!Send, QueueChannel!In, QueueChannel!Returns
  <2> QED
    BY <1>1, <1>6, <1>12, <2>3 DEF QueueInv, QueueStep, QueueChannel!Next
<1>16. CASE call[t] = MqSending("mq_urgent", m) /\ mqQueue' = <<slot[t]>> \o mqQueue
  <2>1. Queued' = <<m>> \o Queued
    BY <1>2, <1>4, <1>16, QueuedPushes
  <2>2. QueueCall[t] = [op |-> "urgent", arg |-> m]
    BY <1>16, QueueView DEF Seen
  <2>3. QueueChannel!Urgent(t, m)
    BY <1>13, <1>14, <2>1, <2>2 DEF QueueChannel!Urgent, QueueChannel!In, QueueChannel!Returns
  <2> QED
    BY <1>1, <1>6, <1>12, <2>3 DEF QueueInv, QueueStep, QueueChannel!Next
<1> QED
  BY <1>3, <1>15, <1>16

\* A handler sends.
LEMMA SendIsrSteps ==
    ASSUME QueueInv, NEW m \in Message, MqSendIsr(m)
    PROVE  QueueInv' /\ QueueStep
<1>1. MqInv' /\ mqFree \in Seq(Slot) /\ mqQueue \in Seq(Slot) /\ Distinct(mqFree)
  BY MqSendIsrKeeps DEF QueueInv, MqInv, SlotInv, Apart
<1> DEFINE x == Head(mqFree)
<1>2. /\ x \in Slot /\ x \in Elements(mqFree) /\ x \notin Elements(mqQueue)
      /\ Distinct(mqFree)' /\ x \notin Elements(mqFree)' /\ mqFree # <<>>
      /\ Elements(mqFree)' \subseteq Elements(mqFree)
  BY <1>1, TailElements DEF MqSendIsr, QueueInv, Apart
<1>3. /\ data' = [data EXCEPT ![x] = m] /\ UNCHANGED <<call, slot, buffer>>
      /\ mqQueue' = Append(mqQueue, x) /\ ResumeFirst("mq_receivers", {})
  BY DEF MqSendIsr
<1> HIDE DEF x
<1>4. Elements(mqQueue)' = Elements(mqQueue) \cup {x} /\ Distinct(mqQueue)'
  BY <1>1, <1>2, <1>3, AppendElements DEF QueueInv, Apart
<1>5. Apart'
  BY <1>2, <1>3, <1>4, ApartMoves DEF QueueInv, Apart
<1>6. /\ data' \in [Slot -> Message \cup {NoMessage}] /\ data'[x] = m
      /\ \A y \in Slot : y # x => data'[y] = data[y]
  BY <1>2, <1>3 DEF QueueInv, Copies
<1>7. \A u \in Thread : slot[u] \in Slot \cup {NoSlot} /\ slot[u] # x
  BY <1>2, MessageQueueAssumption DEF QueueInv, MqInv, SlotInv, Apart
<1>8. \A u \in Thread : state'[u] # "run" => state[u] # "run"
  <2>1. waiting["mq_receivers"] # <<>> => state[Head(waiting["mq_receivers"])] = "suspended"
    BY MqKinds, HeadElement DEF QueueInv, MqInv, WaitInv
  <2> QED
    BY <1>3, <2>1 DEF ResumeFirst
<1>9. \A u \in Thread : Untouched(u)
  BY <1>3, <1>6, <1>7, <1>8 DEF Untouched
<1>10. Copies'
  BY <1>3, <1>6, <1>9, CopiesKeep DEF QueueInv, Copies
<1>11. Queued' = Append(Queued, m)
  <2>1. \A y \in Elements(mqQueue) : data'[y] = data[y]
    BY <1>1, <1>2, <1>6, HeadElement
  <2> QED
    BY <1>2, <1>3, <1>6, <2>1, QueuedAppends
<1>12. QueueCall' = QueueCall /\ QueueResult' = QueueResult
  BY <1>9, QueueViewKeeps
<1>13. Len(Queued) < Cardinality(Slot)
  <2>1. /\ Cardinality(Holders) \in Nat /\ Len(mqFree) \in Nat /\ Len(mqQueue) \in Nat
        /\ Len(mqFree) # 0
    BY <1>1, <1>2, SlotCounts, EmptySeq DEF QueueInv, MqInv
  <2>2. Len(Queued) = Len(mqQueue)
    BY QueuedAt
  <2>3. Len(mqFree) + Len(mqQueue) + Cardinality(Holders) = Cardinality(Slot)
    BY DEF QueueInv, MqInv, SlotInv
  <2> QED
    BY <2>1, <2>2, <2>3
<1>14. QueueChannel!SendIsr(m)
  BY <1>11, <1>12, <1>13 DEF QueueChannel!SendIsr
<1> QED
  BY <1>1, <1>5, <1>10, <1>14 DEF QueueInv, QueueStep, QueueChannel!Next

\* A receiver, in its call or at the start of it, unlinks the first slot: the
\* message is received.
LEMMA UnlinkSteps ==
    ASSUME QueueInv, NEW t \in Thread, MqUnlink(t), Idle(t) \/ state[t] = "woken"
    PROVE  QueueInv' /\ QueueStep
<1>1. /\ MqInv' /\ mqFree \in Seq(Slot) /\ mqQueue \in Seq(Slot) /\ Distinct(mqQueue)
      /\ mqQueue # <<>>
  <2>1. mqQueue \in Seq(Slot) /\ mqEntry = Len(mqQueue) /\ mqEntry > 0
    BY DEF QueueInv, MqInv, SlotInv, MqUnlink
  <2>2. mqQueue # <<>>
    BY <2>1
  <2> QED
    BY <2>1, <2>2, MqUnlinkKeeps DEF QueueInv, MqInv, SlotInv, Apart
<1> DEFINE x == Head(mqQueue)
<1>2. /\ x \in Slot /\ x \in Elements(mqQueue) /\ x \notin Elements(mqFree)
      /\ Distinct(mqQueue)' /\ x \notin Elements(mqQueue)'
      /\ Elements(mqQueue)' \subseteq Elements(mqQueue)
  BY <1>1, TailElements DEF MqUnlink, QueueInv, Apart
<1>3. /\ slot[t] = NoSlot /\ call[t] \in {NoCall, MqReceiving}
      /\ slot' = [slot EXCEPT ![t] = x] /\ UNCHANGED <<data, mqFree>>
      /\ call' = [call EXCEPT ![t] = MqReceiving] /\ state' = [state EXCEPT ![t] = "run"]
      /\ buffer' = [buffer EXCEPT ![t] = "EOK"] /\ mqQueue' = Tail(mqQueue)
  BY DEF MqUnlink, Idle, QueueInv, MqInv, SlotInv, Copies, CopyOf
<1>4. Queued # <<>> /\ Queued' = Tail(Queued) /\ Head(Queued) = data[x]
  BY <1>1, <1>3, QueuedLoses
<1> HIDE DEF x
<1>5. Elements(mqFree)' = Elements(mqFree) /\ Distinct(mqFree)'
  BY <1>3 DEF QueueInv, Apart
<1>6. Apart' /\ \A u \in Thread \ {t} : slot'[u] = slot[u]
  BY <1>2, <1>3, <1>5, ApartTaken
<1>7. /\ slot'[t] = x /\ call'[t] = MqReceiving /\ buffer'[t] = "EOK" /\ state'[t] = "run"
      /\ buffer' = [u \in Thread |-> buffer'[u]]
      /\ \A u \in Thread \ {t} :
           call'[u] = call[u] /\ buffer'[u] = buffer[u] /\ state'[u] = state[u]
  BY <1>3 DEF QueueInv, MqInv, SlotInv, WaitInv, Copies
<1>8. \A u \in Thread \ {t} : Untouched(u)
  BY <1>3, <1>6, <1>7 DEF Untouched
<1>9. CopyOf(t)'
  BY <1>7, MqSendingIsCall DEF CopyOf
<1>10. Copies'
  BY <1>3, <1>7, <1>8, <1>9, CopiesKeep DEF QueueInv, Copies
<1>11. QueueCall'[t] = NoCall /\ QueueResult'[t] = Head(Queued)
  <2>1. x # NoSlot
    BY <1>2, MessageQueueAssumption
  <2> QED
    BY <1>3, <1>4, <1>7, <2>1, QueueViewNext DEF Seen
<1>12. /\ QueueCall' = [QueueCall EXCEPT ![t] = NoCall]
       /\ QueueResult' = [QueueResult EXCEPT ![t] = Head(Queued)]
  BY <1>8, <1>11, QueueViewKeeps
<1>13. QueueCall[t] \in {NoCall, [op |-> "receive", arg |-> "EOK"]}
  BY <1>3, QueueView DEF Seen
<1>14. QueueChannel!Receive(t)
  BY <1>4, <1>12, <1>13 DEF QueueChannel!Receive, QueueChannel!In, QueueChannel!Returns
<1> QED
  BY <1>1, <1>6, <1>10, <1>14 DEF QueueInv, QueueStep, QueueChannel!Next

\* Thread t leaves its call, or goes on in it, without a slot.
LEMMA SlotlessSteps ==
    ASSUME QueueInv, NEW t \in Thread, slot[t] = NoSlot,
           UNCHANGED <<mqFree, mqQueue, data, slot>>, MqInv',
           \A u \in Thread \ {t} : state'[u] # "run" => state[u] # "run",
           \/ MqReturns(t, "failed") /\ state'[t] = "run"
           \/ /\ call[t] \in {NoCall, MqReceiving}
              /\ call' = [call EXCEPT ![t] = MqReceiving]
              /\ buffer' = [buffer EXCEPT ![t] = "EOK"]
    PROVE  QueueInv' /\ QueueStep
<1>1. Apart'
  BY DEF QueueInv, Apart
<1>2. /\ buffer' = [u \in Thread |-> buffer'[u]]
      /\ \A u \in Thread \ {t} : call'[u] = call[u] /\ buffer'[u] = buffer[u]
      /\ \/ call'[t] = NoCall /\ buffer'[t] = "failed" /\ state'[t] = "run"
         \/ /\ call[t] \in {NoCall, MqReceiving}
            /\ call'[t] = MqReceiving /\ buffer'[t] = "EOK"
  BY DEF QueueInv, MqInv, WaitInv, Copies, MqReturns, Leaves
<1>3. \A u \in Thread \ {t} : Untouched(u)
  BY <1>2 DEF Untouched
<1>4. CopyOf(t)'
  BY <1>2, MqReceivingIsCall, MqSendingIsCall DEF CopyOf
<1>5. Copies'
  BY <1>2, <1>3, <1>4, CopiesKeep DEF QueueInv, Copies
<1>6. Queued' = Queued
  BY QueuedSame
<1>7. /\ QueueCall' = [QueueCall EXCEPT ![t] = QueueCall'[t]]
      /\ QueueResult' = [QueueResult EXCEPT ![t] = QueueResult'[t]]
  BY <1>3, QueueViewKeeps
<1>8. CASE call'[t] = NoCall /\ buffer'[t] = "failed"
  <2>1. QueueCall'[t] = NoCall /\ QueueResult'[t] = "failed"
    BY <1>8, QueueViewNext DEF Seen
  <2>2. QueueChannel!Fail(t)
    BY <1>6, <1>7, <2>1 DEF QueueChannel!Fail, QueueChannel!Returns
  <2> QED
    BY <1>1, <1>5, <2>2 DEF QueueInv, QueueStep, QueueChannel!Next
<1>9. CASE call[t] = NoCall /\ call'[t] = MqReceiving /\ buffer'[t] = "EOK"
  <2>1. QueueCall'[t] = [op |-> "receive", arg |-> "EOK"] /\ QueueResult'[t] = "EOK"
    BY <1>9, QueueViewNext DEF Seen
  <2>2. QueueCall[t] = NoCall
    BY <1>9, QueueView DEF Seen
  <2>3. [op |-> "receive", arg |-> "EOK"] \in QueueChannel!Calls
    BY DEF QueueChannel!Calls
  <2>4. QueueChannel!Begin(t)
    BY <1>6, <1>7, <2>1, <2>2, <2>3 DEF QueueChannel!Begin
  <2> QED
    BY <1>1, <1>5, <2>4 DEF QueueInv, QueueStep, QueueChannel!Next
<1>10. CASE call[t] = MqReceiving /\ call'[t] = MqReceiving /\ buffer'[t] = "EOK"
  <2>1. buffer[t] = "EOK"
    BY <1>10, MqReceivingIsCall DEF QueueInv, Copies, CopyOf
  <2>2. QueueCall'[t] = QueueCall[t] /\ QueueResult'[t] = QueueResult[t]
    BY <1>10, <2>1, QueueView, QueueViewNext DEF Seen
  <2>3. QueueCall' = QueueCall /\ QueueResult' = QueueResult
    <3>1. /\ QueueCall = [u \in Thread |-> QueueCall[u]]
          /\ QueueResult = [u \in Thread |-> QueueResult[u]]
      BY DEF QueueCall, QueueResult
    <3> QED
      BY <1>7, <2>2, <3>1
  <2> QED
    BY <1>1, <1>5, <1>6, <2>3 DEF QueueInv, QueueStep
<1> QED
  BY <1>2, <1>8, <1>9, <1>10

\* A receiver gives its slot back: the channel does nothing.
LEMMA FreeSlotSteps ==
    ASSUME QueueInv, NEW t \in Thread, MqFreeSlot(t)
    PROVE  QueueInv' /\ QueueStep
<1>1. MqInv' /\ mqFree \in Seq(Slot)
  BY MqFreeSlotKeeps DEF QueueInv, MqInv, SlotInv
<1>2. /\ slot[t] \in Slot /\ slot[t] # NoSlot /\ state[t] = "run" /\ call[t] = MqReceiving
      /\ slot' = [slot EXCEPT ![t] = NoSlot] /\ UNCHANGED <<state, mqQueue, data>>
      /\ call' = [call EXCEPT ![t] = NoCall] /\ buffer' = [buffer EXCEPT ![t] = data[slot[t]]]
      /\ mqFree' = <<slot[t]>> \o mqFree
  BY DEF MqFreeSlot, MqReturns, Leaves, QueueInv, MqInv, SlotInv
<1>3. /\ Distinct(mqFree)' /\ Distinct(mqQueue)'
      /\ Elements(mqFree)' = Elements(mqFree) \cup {slot[t]}
  <2>1. Distinct(mqFree) /\ slot[t] \notin Elements(mqFree)
    BY <1>2 DEF QueueInv, Apart
  <2> QED
    BY <1>1, <1>2, <2>1, PushElements DEF QueueInv, Apart
<1>4. Apart' /\ \A u \in Thread \ {t} : slot'[u] = slot[u]
  BY <1>2, <1>3, ApartPut
<1>5. /\ call'[t] = NoCall /\ buffer'[t] = data[slot[t]] /\ state'[t] = "run"
      /\ buffer' = [u \in Thread |-> buffer'[u]]
      /\ \A u \in Thread \ {t} : call'[u] = call[u] /\ buffer'[u] = buffer[u]
  BY <1>2 DEF QueueInv, MqInv, WaitInv, Copies
<1>6. \A u \in Thread \ {t} : Untouched(u)
  BY <1>2, <1>4, <1>5 DEF Untouched
<1>7. CopyOf(t)'
  BY <1>5, MqSendingIsCall DEF CopyOf
<1>8. Copies'
  BY <1>2, <1>5, <1>6, <1>7, CopiesKeep DEF QueueInv, Copies
<1>9. Queued' = Queued
  BY <1>2, QueuedSame
<1>10. QueueCall'[t] = QueueCall[t] /\ QueueResult'[t] = QueueResult[t]
  <2>1. QueueCall[t] = NoCall /\ QueueResult[t] = data[slot[t]]
    BY <1>2, QueueView DEF Seen
  <2>2. QueueCall'[t] = NoCall /\ QueueResult'[t] = data[slot[t]]
    BY <1>5, QueueViewNext DEF Seen
  <2> QED
    BY <2>1, <2>2
<1>11. QueueCall' = QueueCall /\ QueueResult' = QueueResult
  <2>1. /\ QueueCall' = [QueueCall EXCEPT ![t] = QueueCall'[t]]
        /\ QueueResult' = [QueueResult EXCEPT ![t] = QueueResult'[t]]
    BY <1>6, QueueViewKeeps
  <2> QED
    BY <1>10, <2>1 DEF QueueCall, QueueResult
<1> QED
  BY <1>1, <1>4, <1>8, <1>9, <1>11 DEF QueueInv, QueueStep

\* The queue is reset: the messages are thrown away, and the slots that are
\* being copied stay where they are.
LEMMA ResetSteps ==
    ASSUME QueueInv, MqReset
    PROVE  QueueInv' /\ QueueStep
<1>1. MqInv' /\ mqFree \in Seq(Slot) /\ mqQueue \in Seq(Slot)
  BY MqResetKeeps DEF QueueInv, MqInv, SlotInv
<1>2. /\ mqQueue' = <<>> /\ UNCHANGED <<call, data, slot, buffer>>
      /\ mqFree' = [i \in 1..Len(mqQueue) |-> mqQueue[Len(mqQueue) + 1 - i]] \o mqFree
  BY DEF MqReset, ResumeAll
<1>3. Distinct(mqFree)' /\ Elements(mqFree)' \subseteq Elements(mqQueue) \cup Elements(mqFree)
  <2>1. /\ Distinct(mqQueue) /\ Distinct(mqFree)
        /\ Elements(mqQueue) \cap Elements(mqFree) = {}
    BY DEF QueueInv, Apart
  <2> QED
    BY <1>1, <1>2, <2>1, ReversedDistinct
<1>4. Distinct(mqQueue)' /\ Elements(mqQueue)' = {}
  BY <1>2 DEF Distinct, Elements
<1>5. Apart'
  BY <1>2, <1>3, <1>4, ApartMoves
<1>6. \A u \in Thread : state'[u] # "run" => state[u] # "run"
  <2>1. \A u \in UNION {Elements(waiting[l]) : l \in {"mq_receivers"}} : state[u] = "suspended"
    BY MqKinds DEF QueueInv, MqInv, WaitInv
  <2> QED
    BY <2>1 DEF MqReset, ResumeAll
<1>7. \A u \in Thread : Untouched(u)
  BY <1>2, <1>6 DEF Untouched
<1>8. Copies'
  BY <1>2, <1>7, CopiesKeep DEF QueueInv, Copies
<1>9. QueueCall' = QueueCall /\ QueueResult' = QueueResult
  BY <1>7, QueueViewKeeps
<1>10. Queued' = <<>>
  BY <1>2 DEF Queued
<1>11. QueueChannel!Reset
  BY <1>9, <1>10 DEF QueueChannel!Reset
<1> QED
  BY <1>1, <1>5, <1>8, <1>11 DEF QueueInv, QueueStep, QueueChannel!Next

\* Every step of the message queue keeps the invariant, and is a step of the
\* channel or none.
LEMMA QueueInvNext == QueueInv /\ [MqNext]_<<waitVars, mqVars>> => QueueInv' /\ QueueStep
<1> SUFFICES ASSUME QueueInv, [MqNext]_<<waitVars, mqVars>> PROVE QueueInv' /\ QueueStep
  OBVIOUS
<1>1. MqInv'
  BY MqInvNext DEF QueueInv
<1>2. ASSUME NEW t \in Thread, NEW left \in BOOLEAN, MqEmpty(t, left),
             Idle(t) \/ state[t] = "woken"
      PROVE  QueueInv' /\ QueueStep
  <2>1. slot[t] = NoSlot /\ call[t] \in {NoCall, MqReceiving}
    BY <1>2 DEF Idle, QueueInv, MqInv, SlotInv, Copies, CopyOf
  <2>2. UNCHANGED <<mqFree, mqQueue, data, slot>> /\ state \in [Thread -> ThreadState]
    BY <1>2 DEF MqEmpty, QueueInv, MqInv, WaitInv
  <2>3. CASE ~ left
    <3>1. MqReturns(t, "failed") /\ state' = [state EXCEPT ![t] = "run"]
      BY <1>2, <2>3 DEF MqEmpty
    <3>2. state'[t] = "run" /\ \A u \in Thread \ {t} : state'[u] = state[u]
      BY <2>2, <3>1
    <3> QED
      BY <1>1, <2>1, <2>2, <3>1, <3>2, SlotlessSteps
  <2>4. CASE left
    <3>1. /\ call' = [call EXCEPT ![t] = MqReceiving] /\ buffer' = [buffer EXCEPT ![t] = "EOK"]
          /\ state' = [state EXCEPT ![t] = "suspended"]
      BY <1>2, <2>4 DEF MqEmpty, SuspendOn
    <3>2. \A u \in Thread \ {t} : state'[u] = state[u]
      BY <2>2, <3>1
    <3> QED
      BY <1>1, <2>1, <2>2, <3>1, <3>2, SlotlessSteps
  <2> QED
    BY <2>3, <2>4
<1>3. ASSUME NEW t \in Thread, MqFull(t) PROVE QueueInv' /\ QueueStep
  <2>1. slot[t] = NoSlot /\ state[t] = "run" /\ UNCHANGED <<mqFree, mqQueue, data, slot, state>>
        /\ MqReturns(t, "failed")
    BY <1>3 DEF MqFull, Idle, QueueInv, MqInv, SlotInv
  <2> QED
    BY <1>1, <2>1, SlotlessSteps
<1>4. ASSUME NEW t \in Thread, MqFails(t) PROVE QueueInv' /\ QueueStep
  <2>1. /\ slot[t] = NoSlot /\ UNCHANGED <<mqFree, mqQueue, data, slot>>
        /\ MqReturns(t, "failed") /\ state' = [state EXCEPT ![t] = "run"]
    BY <1>4 DEF MqFails, WaitFails, MqReturns, QueueInv, MqInv, SlotInv
  <2>2. state'[t] = "run" /\ \A u \in Thread \ {t} : state'[u] = state[u]
    BY <2>1 DEF QueueInv, MqInv, WaitInv
  <2> QED
    BY <1>1, <2>1, <2>2, SlotlessSteps
<1>5. ASSUME UNCHANGED <<call, mqVars>>, \A u \in Thread : state'[u] # "run" => state[u] # "run"
      PROVE  QueueInv' /\ QueueStep
  <2>1. UNCHANGED <<mqFree, mqQueue, data, slot, buffer>>
    BY <1>5 DEF mqVars
  <2>2. Apart'
    BY <2>1 DEF QueueInv, Apart
  <2>3. Copies'
    BY <1>5, <2>1, CopiesKeep DEF Untouched, QueueInv, Copies
  <2>4. UNCHANGED <<Queued, QueueCall, QueueResult>>
    BY <1>5, <2>1 DEF Queued, QueueCall, QueueResult, CopyingOut
  <2> QED
    BY <1>1, <2>2, <2>3, <2>4 DEF QueueInv, QueueStep
<1>6. ASSUME NEW t \in Thread, Timeout(t), UNCHANGED mqVars PROVE QueueInv' /\ QueueStep
  <2>1. UNCHANGED call /\ \A u \in Thread : state'[u] # "run" => state[u] # "run"
    BY <1>6 DEF Timeout, QueueInv, MqInv, WaitInv
  <2> QED
    BY <1>5, <1>6, <2>1
<1>7. CASE UNCHANGED <<waitVars, mqVars>>
  BY <1>5, <1>7 DEF waitVars
<1>8. ASSUME NEW t \in Thread, NEW left \in BOOLEAN, MqRecv(t, left)
      PROVE  QueueInv' /\ QueueStep
  BY <1>2, <1>8, UnlinkSteps DEF MqRecv
<1>9. ASSUME NEW t \in Thread, MqRecvAgain(t) PROVE QueueInv' /\ QueueStep
  BY <1>2, <1>9, UnlinkSteps DEF MqRecvAgain
<1> QED
  BY <1>3, <1>4, <1>6, <1>7, <1>8, <1>9, ClaimSteps, LinkSteps, SendIsrSteps, FreeSlotSteps,
     ResetSteps DEF MqNext

\* A list as long as the set it covers has each of its elements once.
LEMMA CoversOnce ==
    ASSUME NEW S, IsFiniteSet(S), NEW s \in [1..Cardinality(S) -> S], Elements(s) = S
    PROVE  Distinct(s)
<1> DEFINE n == Cardinality(S)
<1>1. n \in Nat
  BY FS_CardinalityType
<1>2. IsFiniteSet(1..n) /\ Cardinality(1..n) = n
  BY <1>1, FS_Interval
<1>3. s \in Seq(S) /\ Len(s) = n
  BY <1>1
<1>4. s \in Surjection(1..n, S)
  BY <1>3 DEF Elements, Surjection
<1>5. s \in Injection(1..n, S)
  BY <1>2, <1>4, FS_SurjSameCardinalityImpliesInj
<1> QED
  <2>1. \A i, j \in 1..n : s[i] = s[j] => i = j
    BY <1>5 DEF Injection, IsInjective
  <2> HIDE DEF n
  <2> QED
    BY <1>3, <2>1 DEF Distinct

\* A new queue is an empty channel.
LEMMA QueueInvInit == WaitersInit /\ MqInit => QueueInv /\ QueueChannel!Init
<1> SUFFICES ASSUME WaitersInit, MqInit PROVE QueueInv /\ QueueChannel!Init
  OBVIOUS
<1>1. MqInv
  BY MqInvInit
<1>2. /\ mqFree \in [1..Cardinality(Slot) -> Slot] /\ Elements(mqFree) = Slot /\ mqQueue = <<>>
      /\ data = [x \in Slot |-> NoMessage] /\ slot = [t \in Thread |-> NoSlot]
      /\ buffer = [t \in Thread |-> "EOK"] /\ call = [t \in Thread |-> NoCall]
      /\ state = [t \in Thread |-> "run"]
  BY DEF MqInit, WaitersInit
<1>3. Distinct(mqFree)
  BY <1>2, MessageQueueAssumption, CoversOnce
<1>4. Distinct(mqQueue) /\ Elements(mqQueue) = {}
  BY <1>2 DEF Distinct, Elements
<1>5. Apart
  BY <1>2, <1>3, <1>4 DEF Apart
<1>6. Copies
  BY <1>2, MqSendingIsCall DEF Copies, CopyOf
<1>7. Queued = <<>>
  BY <1>2 DEF Queued
<1>8. QueueCall = [t \in Thread |-> NoCall] /\ QueueResult = [t \in Thread |-> "EOK"]
  BY <1>2 DEF QueueCall, QueueResult, CopyingOut
<1> QED
  BY <1>1, <1>5, <1>6, <1>7, <1>8 DEF QueueInv, QueueChannel!Init

\* The message queue of the code is a channel, whatever the number of its
\* slots, although messages are copied with interrupts enabled: a copy is never
\* disturbed by other calls, handlers or a reset.
THEOREM MessageQueueIsChannelHolds == MqSpec => MessageQueueIsChannel
<1>1. MqSpec => []QueueInv
  BY QueueInvInit, QueueInvNext, PTL DEF MqSpec
<1>2. QueueInv /\ [MqNext]_<<waitVars, mqVars>> => [QueueChannel!Next]_(QueueChannel!channelVars)
  BY QueueInvNext DEF QueueStep, QueueChannel!channelVars
<1> QED
  BY <1>1, <1>2, QueueInvInit, PTL DEF MqSpec, MessageQueueIsChannel, QueueChannel!Spec

-----------------------------------------------------------------------------
(* Memory pools *)

\* The calls that sleep on the list of the pool.
MpKind == [pool |-> "alloc"]

\* The inductive invariant of a memory pool.
MpInv ==
    /\ WaitInv(MpKind)
    /\ free \in Seq(Block) /\ Distinct(free)
    /\ used \subseteq Block
    /\ count \in Nat
    /\ BlocksConserved
    /\ NoLostWakeup

\* The list of a pool and its kind.
LEMMA MpKinds ==
    "pool" \in List /\ "pool" \in DOMAIN MpKind /\ MpKind["pool"] = "alloc"
  BY MemPoolAssumption DEF MpKind

\* The numbers of NoLostWakeup are numbers.
LEMMA MpCounts ==
    ASSUME MpInv
    PROVE  /\ freeCount \in Nat /\ count \in Nat
           /\ waiting["pool"] \in Seq(Thread) /\ Len(waiting["pool"]) \in Nat
           /\ Cardinality(Woken("alloc")) \in Nat
  BY MpKinds, WokenFinite, LenProperties DEF MpInv, WaitInv, BlocksConserved

\* The blocks are where they were.
LEMMA MpBlocksStay ==
    ASSUME MpInv, UNCHANGED <<free, freeCount, used>>
    PROVE  free' \in Seq(Block) /\ Distinct(free') /\ used' \subseteq Block /\ BlocksConserved'
  BY DEF MpInv, BlocksConserved

\* An allocation takes the first free block.
LEMMA TakeBlockKeeps ==
    ASSUME MpInv, NEW t \in Thread, state[t] # "suspended", TakeBlock(t)
    PROVE  MpInv'
<1> DEFINE h == Head(free)
           n == Cardinality(Woken("alloc"))
<1>1. /\ free \in Seq(Block) /\ Distinct(free) /\ used \subseteq Block
      /\ freeCount > 0 /\ Len(free) = freeCount /\ free # <<>>
      /\ Elements(free) = Block \ used /\ freeCount = Cardinality(Block \ used)
  BY DEF MpInv, BlocksConserved, TakeBlock
<1>2. /\ h \in Block /\ free' \in Seq(Block) /\ Distinct(free')
      /\ Len(free') = Len(free) - 1
      /\ Elements(free) = Elements(free') \cup {h} /\ h \notin Elements(free')
  BY <1>1, TailElements DEF TakeBlock
<1>3. used' = used \cup {h} /\ freeCount' = freeCount - 1 /\ count' = count
  BY DEF TakeBlock
<1> HIDE DEF h
<1>4. Block \ used' = (Block \ used) \ {h} /\ h \in Block \ used
  BY <1>1, <1>2, <1>3
<1>5. Cardinality((Block \ used) \ {h}) = Cardinality(Block \ used) - 1
  <2>1. IsFiniteSet(Block \ used)
    BY FS_Subset, MemPoolAssumption
  <2> QED
    BY <1>4, <2>1, FS_RemoveElement
<1>6. Cardinality(Block \ used') = freeCount'
  BY <1>1, <1>3, <1>4, <1>5
<1>7. BlocksConserved'
  BY <1>1, <1>2, <1>3, <1>4, <1>6 DEF BlocksConserved
<1>8. WaitInv(MpKind)' /\ waiting' = waiting /\ Woken("alloc")' = Woken("alloc") \ {t}
  BY RunsOn DEF MpInv, TakeBlock
<1>9. n \in Nat /\ n' \in Nat /\ n' = n - (IF t \in Woken("alloc") THEN 1 ELSE 0)
  BY <1>8, CountRuns
<1>10. /\ freeCount \in Nat
       /\ waiting["pool"] # <<>> => freeCount <= n
       /\ count >= Len(waiting["pool"])
  BY MpCounts DEF MpInv, NoLostWakeup
<1> HIDE DEF n
<1>11. waiting'["pool"] # <<>> => freeCount' <= n'
  BY <1>3, <1>8, <1>9, <1>10
<1> QED
  BY <1>1, <1>2, <1>3, <1>7, <1>8, <1>10, <1>11 DEF MpInv, NoLostWakeup, n

\* An allocation finds no block: it returns or falls asleep.
LEMMA NoBlockKeeps ==
    ASSUME MpInv, NEW t \in Thread, state[t] # "suspended", NEW left \in BOOLEAN,
           NoBlock(t, left)
    PROVE  MpInv'
<1>1. UNCHANGED <<free, freeCount, used>> /\ freeCount = 0
  BY DEF NoBlock
<1>2. free' \in Seq(Block) /\ Distinct(free') /\ used' \subseteq Block /\ BlocksConserved'
  BY <1>1, MpBlocksStay
<1>3. WaitInv(MpKind) /\ count \in Nat /\ count >= Len(waiting["pool"])
  BY DEF MpInv, NoLostWakeup
<1>4. CASE ~ left
  <2>1. WaitInv(MpKind)' /\ UNCHANGED <<waiting, count>> /\ Woken("alloc")' = Woken("alloc") \ {t}
    BY <1>3, <1>4, RunsOn DEF NoBlock
  <2>2. Cardinality(Woken("alloc")') \in Nat
    BY <2>1, CountRuns
  <2> QED
    BY <1>1, <1>2, <1>3, <2>1, <2>2 DEF MpInv, NoLostWakeup
<1>5. CASE left
  <2>1. Suspends("pool", t, Allocating) /\ Allocating.op = "alloc"
    BY <1>5 DEF NoBlock, Suspends, Allocating
  <2>2. WaitInv(MpKind)' /\ Woken("alloc")' = Woken("alloc") \ {t}
    BY <1>3, <2>1, MpKinds, SuspendsKeeps
  <2>3. Cardinality(Woken("alloc")') \in Nat
    BY <2>2, CountRuns
  <2>4. waiting'["pool"] = <<t>> \o waiting["pool"] /\ count' = count + 1
    BY <1>3, <1>5, MpKinds DEF NoBlock, WaitInv
  <2>5. Len(waiting'["pool"]) = Len(waiting["pool"]) + 1
    BY <2>4, MpCounts
  <2>6. count' \in Nat /\ count' >= Len(waiting'["pool"])
    BY <1>3, <2>4, <2>5, MpCounts
  <2> QED
    BY <1>1, <1>2, <2>2, <2>3, <2>6 DEF MpInv, NoLostWakeup
<1> QED
  BY <1>4, <1>5

\* A block comes back, and the waiter of the list's front is woken.
LEMMA MpFreeKeeps ==
    ASSUME MpInv, NEW b \in Block, MpFree(b)
    PROVE  MpInv'
<1> DEFINE n == Cardinality(Woken("alloc"))
<1>1. /\ free \in Seq(Block) /\ Distinct(free) /\ used \subseteq Block
      /\ Len(free) = freeCount /\ freeCount \in Nat
      /\ Elements(free) = Block \ used /\ freeCount = Cardinality(Block \ used)
  BY MpCounts DEF MpInv, BlocksConserved
<1>2. /\ b \in used /\ used' = used \ {b} /\ free' = <<b>> \o free
      /\ freeCount' = freeCount + 1 /\ call' = call
  BY DEF MpFree, GiveBack
<1>3. /\ free' \in Seq(Block) /\ Distinct(free') /\ Elements(free') = Elements(free) \cup {b}
  BY <1>1, <1>2, PushElements
<1>4. Len(free') = Len(free) + 1
  BY <1>1, <1>2
<1>5. Block \ used' = (Block \ used) \cup {b} /\ b \notin Block \ used
  BY <1>2
<1>6. Cardinality((Block \ used) \cup {b}) = Cardinality(Block \ used) + 1
  <2>1. IsFiniteSet(Block \ used)
    BY FS_Subset, MemPoolAssumption
  <2> QED
    BY <1>5, <2>1, CountWith
<1>7. Cardinality(Block \ used') = freeCount'
  BY <1>1, <1>2, <1>5, <1>6
<1>8. BlocksConserved'
  BY <1>1, <1>2, <1>3, <1>4, <1>5, <1>7 DEF BlocksConserved
<1>9. /\ WaitInv(MpKind) /\ count \in Nat /\ n \in Nat /\ Len(waiting["pool"]) \in Nat
      /\ waiting["pool"] # <<>> => freeCount <= n
      /\ count >= Len(waiting["pool"])
  BY MpCounts DEF MpInv, NoLostWakeup
<1>10. CASE /\ count > 0 /\ waiting["pool"] # <<>>
            /\ ResumeFirst("pool", {}) /\ count' = count - 1
  <2>1. call' = [t \in Thread |-> call'[t]] /\ {} \in SUBSET Thread
    BY <1>2, <1>9 DEF WaitInv
  <2>2. /\ WaitInv(MpKind)' /\ Len(waiting'["pool"]) = Len(waiting["pool"]) - 1
    BY <1>2, <1>9, <1>10, <2>1, MpKinds, ResumeFirstKeeps
  <2>3. /\ n' \in Nat
        /\ n' = n - (IF {} \cap Woken("alloc") = {} THEN 0 ELSE 1)
                  + (IF waiting["pool"] # <<>> /\ "alloc" = MpKind["pool"] THEN 1 ELSE 0)
    <3>1. /\ \A t, u \in {} : t = u
          /\ \A t \in {} : state[t] # "suspended"
          /\ \A t \in Thread \ {} : call'[t] = call[t]
      BY <1>2
    <3>2. WaitInv(MpKind) /\ ResumeFirst("pool", {}) /\ "pool" \in List
      BY <1>9, <1>10, MpKinds
    <3> QED
      BY <2>1, <3>1, <3>2, CountWakes
  <2> HIDE DEF n
  <2>4. n' = n + 1
    BY <1>9, <1>10, <2>3, MpKinds
  <2>5. freeCount' <= n'
    <3>1. freeCount <= n /\ freeCount \in Nat /\ n \in Nat /\ freeCount' = freeCount + 1
      BY <1>1, <1>2, <1>9, <1>10
    <3> QED
      BY <2>4, <3>1
  <2> DEFINE k == Len(waiting["pool"])
             j == Len(waiting'["pool"])
  <2>6. k \in Nat /\ count >= k /\ count \in Nat /\ count > 0 /\ count' = count - 1 /\ j = k - 1
    BY <1>9, <1>10, <2>2
  <2> HIDE DEF k, j
  <2>7. count' \in Nat /\ count' >= j
    BY <2>6
  <2> QED
    BY <1>1, <1>2, <1>3, <1>8, <2>2, <2>5, <2>7 DEF MpInv, NoLostWakeup, n, j
<1>11. CASE count = 0 /\ UNCHANGED <<waiting, state, count>>
  <2>1. waiting["pool"] = <<>>
    BY <1>9, <1>11, MpCounts
  <2>2. WaitInv(MpKind)'
    BY <1>2, <1>9, <1>11 DEF WaitInv
  <2> QED
    BY <1>1, <1>2, <1>3, <1>8, <1>9, <1>11, <2>1, <2>2 DEF MpInv, NoLostWakeup
<1> QED
  BY <1>10, <1>11 DEF MpFree

\* A new pool has all blocks free.
LEMMA MpInvInit == WaitersInit /\ MpInit => MpInv
<1> SUFFICES ASSUME WaitersInit, MpInit PROVE MpInv
  OBVIOUS
<1> DEFINE n == Cardinality(Block)
<1>1. WaitInv(MpKind) /\ waiting["pool"] = <<>>
  BY WaitersStart, MpKinds DEF WaitersInit
<1>2. /\ free \in [1..n -> Block] /\ Elements(free) = Block
      /\ freeCount = n /\ used = {} /\ count = 0
  BY DEF MpInit
<1>3. n \in Nat /\ IsFiniteSet(Block)
  BY MemPoolAssumption, FS_CardinalityType
<1>4. free \in Seq(Block) /\ Len(free) = n
  <2> HIDE DEF n
  <2>1. free \in Seq(Block)
    BY <1>2, <1>3, SeqDef
  <2>2. DOMAIN free = 1..n
    BY <1>2
  <2> QED
    BY <1>3, <2>1, <2>2, LenProperties
<1>5. Distinct(free)
  <2>1. IsFiniteSet(1..n) /\ Cardinality(1..n) = n
    <3> HIDE DEF n
    <3>1. IsFiniteSet(1..n)
      BY <1>3, FS_Interval
    <3>2. Cardinality(1..n) = IF 1 > n THEN 0 ELSE n - 1 + 1
      BY <1>3, FS_Interval
    <3> QED
      BY <1>3, <3>1, <3>2
  <2>2. free \in Surjection(1..n, Block)
    BY <1>2, <1>4 DEF Surjection, Elements
  <2>3. free \in Injection(1..n, Block)
    BY <1>3, <2>1, <2>2, FS_SurjSameCardinalityImpliesInj
  <2> QED
    BY <1>4, <2>3 DEF Injection, IsInjective, Distinct
<1>6. Block \ used = Block
  BY <1>2
<1>7. BlocksConserved
  BY <1>2, <1>4, <1>6 DEF BlocksConserved
<1> QED
  BY <1>1, <1>2, <1>4, <1>5, <1>7 DEF MpInv, NoLostWakeup

\* Every call of a memory pool keeps its invariant.
LEMMA MpInvNext == MpInv /\ [MpNext]_<<waitVars, mpVars>> => MpInv'
<1> SUFFICES ASSUME MpInv, [MpNext]_<<waitVars, mpVars>> PROVE MpInv'
  OBVIOUS
<1>1. ASSUME NEW t \in Thread, NEW left \in BOOLEAN, MpAlloc(t, left) PROVE MpInv'
  BY <1>1, TakeBlockKeeps, NoBlockKeeps DEF MpAlloc, Idle
<1>2. ASSUME NEW t \in Thread, MpAllocAgain(t) PROVE MpInv'
  BY <1>2, TakeBlockKeeps, NoBlockKeeps DEF MpAllocAgain
<1>3. ASSUME NEW t \in Thread, WaitFails(t) \/ Timeout(t), UNCHANGED mpVars PROVE MpInv'
  <2>1. /\ WaitInv(MpKind)' /\ Woken("alloc")' = Woken("alloc")
        /\ waiting'["pool"] # <<>> => waiting["pool"] # <<>>
        /\ Len(waiting'["pool"]) <= Len(waiting["pool"]) /\ Len(waiting'["pool"]) \in Nat
    BY <1>3, MpKinds, MpCounts, WaitFailsKeeps, TimeoutKeeps DEF MpInv
  <2>2. UNCHANGED <<free, freeCount, used, count>>
    BY <1>3 DEF mpVars
  <2>3. free' \in Seq(Block) /\ Distinct(free') /\ used' \subseteq Block /\ BlocksConserved'
    BY <2>2, MpBlocksStay
  <2>4. Cardinality(Woken("alloc")') = Cardinality(Woken("alloc"))
    BY <2>1
  <2>5. NoLostWakeup'
    BY <2>1, <2>2, <2>4, MpCounts DEF MpInv, NoLostWakeup
  <2> QED
    BY <2>1, <2>2, <2>3, <2>5 DEF MpInv
<1>4. CASE UNCHANGED <<waitVars, mpVars>>
  BY <1>4 DEF waitVars, mpVars, MpInv, WaitInv, BlocksConserved, NoLostWakeup, Woken
<1> QED
  BY <1>1, <1>2, <1>3, <1>4, MpFreeKeeps DEF MpNext

\* The invariant holds in every state of a memory pool.
LEMMA MpInvHolds == MpSpec => []MpInv
  BY MpInvInit, MpInvNext, PTL DEF MpSpec

\* Every block is on the free list, once, or handed out.
THEOREM BlocksConservedHolds == MpSpec => []BlocksConserved
<1>1. MpInv => BlocksConserved
  BY DEF MpInv
<1> QED
  BY <1>1, MpInvHolds, PTL

\* No thread waits next to a free block unless somebody is awake for it, also
\* after time-outs.
THEOREM NoLostWakeupHolds == MpSpec => []NoLostWakeup
<1>1. MpInv => NoLostWakeup
  BY DEF MpInv
<1> QED
  BY <1>1, MpInvHolds, PTL

-----------------------------------------------------------------------------
(* Data queues *)

\* The calls that sleep on each list of the data queue.
DqKind == [poppers |-> "pop", pushers |-> "push"]

\* The inductive invariant of a data queue.
DqInv ==
    /\ WaitInv(DqKind)
    /\ putIndex \in 0..MaxIndex
    /\ getIndex \in 0..putIndex
    /\ Fill \in 0..DqSize
    /\ resetting \in [at : {"no", "look", "take"}, of : {"poppers", "pushers"}]
    /\ DataQueueWakes

\* The lists of a data queue and their kinds.
LEMMA DqKinds ==
    /\ "poppers" \in List /\ "pushers" \in List
    /\ "poppers" \in DOMAIN DqKind /\ DqKind["poppers"] = "pop"
    /\ "pushers" \in DOMAIN DqKind /\ DqKind["pushers"] = "push"
  BY DataQueueAssumption DEF DqKind

\* An index that is below the range does not wrap.
LEMMA NoWrap ==
    ASSUME NEW n \in Nat \ {0}, NEW i \in 0..(n - 1)
    PROVE  i % n = i
  OBVIOUS

\* The indices and marks of a data queue are numbers.
LEMMA DqNumbers ==
    ASSUME DqInv
    PROVE  /\ putIndex \in Nat /\ getIndex \in Nat /\ getIndex <= putIndex
           /\ putIndex <= MaxIndex /\ MaxIndex \in Nat /\ DqSize \in Nat /\ DqSize > 0
           /\ Fill \in Nat /\ Fill <= DqSize /\ Fill = putIndex - getIndex
           /\ LowMark \in Nat /\ LowMark < DqSize
           /\ Cardinality(Woken("pop")) \in Nat /\ Cardinality(Woken("push")) \in Nat
  BY DataQueueAssumption, WokenFinite DEF DqInv, Fill

\* An item enters: the popper that is woken for it makes up for it, and the item
\* for the pusher that went on.
LEMMA PutItemKeeps ==
    ASSUME MaxIndex < IndexRange, DqInv, NEW m, NEW running \in SUBSET Thread,
           PutItem(m, running),
           \A t, u \in running : t = u,
           \A u \in running : state[u] # "suspended" /\ u \notin Woken("pop"),
           call' = [u \in Thread |-> call'[u]],
           \A u \in Thread \ running : call'[u] = call[u]
    PROVE  DqInv'
<1> DEFINE p == Cardinality(Woken("pop"))
           q == Cardinality(Woken("push"))
<1>1. /\ WaitInv(DqKind) /\ ResumeFirst("poppers", running)
      /\ running \cap Woken("pop") = {} /\ \A u \in running : state[u] # "suspended"
  BY DEF DqInv, PutItem
<1>2. /\ WaitInv(DqKind)'
      /\ waiting'["pushers"] = waiting["pushers"]
      /\ waiting["poppers"] = <<>> => waiting'["poppers"] = <<>>
  BY <1>1, DqKinds, ResumeFirstKeeps
<1>3. p \in Nat /\ p' \in Nat /\ p' = p + (IF waiting["poppers"] # <<>> THEN 1 ELSE 0)
  <2>1. /\ p \in Nat /\ p' \in Nat
        /\ p' = p - (IF running \cap Woken("pop") = {} THEN 0 ELSE 1)
                  + (IF waiting["poppers"] # <<>> /\ "pop" = DqKind["poppers"] THEN 1 ELSE 0)
    BY <1>1, DqKinds, CountWakes
  <2> HIDE DEF p
  <2> QED
    BY <1>1, <2>1, DqKinds
<1>4. q \in Nat /\ q' \in Nat /\ q' >= q - 1
  <2>1. /\ q \in Nat /\ q' \in Nat
        /\ q' = q - (IF running \cap Woken("push") = {} THEN 0 ELSE 1)
                  + (IF waiting["poppers"] # <<>> /\ "push" = DqKind["poppers"] THEN 1 ELSE 0)
    BY <1>1, DqKinds, CountWakes
  <2> HIDE DEF q
  <2> QED
    BY <2>1
<1>5. /\ Fill # DqSize /\ putIndex < MaxIndex /\ getIndex' = getIndex
      /\ putIndex' = (putIndex + 1) % IndexRange /\ resetting' = resetting
  BY DEF PutItem
<1>6. putIndex' = putIndex + 1
  <2>1. putIndex + 1 \in 0..(IndexRange - 1) /\ IndexRange \in Nat \ {0}
    BY <1>5, DqNumbers, DataQueueAssumption
  <2> QED
    BY <1>5, <2>1, NoWrap
<1>7. Fill' = Fill + 1
  BY <1>5, <1>6, DqNumbers DEF Fill
<1>8. /\ waiting["poppers"] # <<>> => Fill <= p
      /\ waiting["pushers"] # <<>> => Fill + q > LowMark
  BY DEF DqInv, DataQueueWakes
<1> HIDE DEF p, q
<1>9. putIndex' \in 0..MaxIndex /\ getIndex' \in 0..putIndex' /\ Fill' \in 0..DqSize
  BY <1>5, <1>6, <1>7, DqNumbers
<1>10. /\ waiting'["poppers"] # <<>> => Fill' <= p'
       /\ waiting'["pushers"] # <<>> => Fill' + q' > LowMark
  BY <1>2, <1>3, <1>4, <1>7, <1>8, DqNumbers
<1> QED
  BY <1>2, <1>5, <1>9, <1>10 DEF DqInv, DataQueueWakes, p, q

\* An item leaves: as long as more than the mark remain, nobody has to be woken.
LEMMA GetItemKeeps ==
    ASSUME MaxIndex < IndexRange, DqInv, NEW t \in Thread, GetItem(t),
           state[t] # "suspended", t \notin Woken("push")
    PROVE  DqInv'
<1> DEFINE p == Cardinality(Woken("pop"))
           q == Cardinality(Woken("push"))
<1>1. /\ WaitInv(DqKind) /\ Leaves(t)
      /\ call' = [u \in Thread |-> call'[u]] /\ \A u \in Thread \ {t} : call'[u] = call[u]
  BY DEF DqInv, GetItem, DqReturns, Leaves, WaitInv
<1>2. /\ Fill # 0 /\ putIndex' = putIndex /\ resetting' = resetting
      /\ getIndex' = (getIndex + 1) % IndexRange
  BY DEF GetItem
<1>3. getIndex' = getIndex + 1 /\ getIndex' <= putIndex
  <2>1. getIndex + 1 <= putIndex
    BY <1>2, DqNumbers
  <2>2. getIndex + 1 \in 0..(IndexRange - 1) /\ IndexRange \in Nat \ {0}
    BY <2>1, DqNumbers, DataQueueAssumption
  <2> QED
    BY <1>2, <2>1, <2>2, NoWrap
<1>4. Fill' = Fill - 1 /\ Fill' = putIndex - getIndex'
  BY <1>2, <1>3, DqNumbers DEF Fill
<1>5. putIndex' \in 0..MaxIndex /\ getIndex' \in 0..putIndex' /\ Fill' \in 0..DqSize
  BY <1>2, <1>3, <1>4, DqNumbers
<1>6. /\ waiting["poppers"] # <<>> => Fill <= p
      /\ waiting["pushers"] # <<>> => Fill + q > LowMark
  BY DEF DqInv, DataQueueWakes
<1>7. CASE Fill' <= LowMark
  <2>1. ResumeFirst("pushers", {t}) /\ {t} \in SUBSET Thread
    BY <1>4, <1>7 DEF GetItem
  <2>2. /\ WaitInv(DqKind)'
        /\ waiting'["poppers"] = waiting["poppers"]
        /\ waiting["pushers"] = <<>> => waiting'["pushers"] = <<>>
    BY <1>1, <2>1, DqKinds, ResumeFirstKeeps
  <2>3. q \in Nat /\ q' \in Nat /\ q' = q + (IF waiting["pushers"] # <<>> THEN 1 ELSE 0)
    <3>1. /\ q \in Nat /\ q' \in Nat
          /\ q' = q - (IF {t} \cap Woken("push") = {} THEN 0 ELSE 1)
                    + (IF waiting["pushers"] # <<>> /\ "push" = DqKind["pushers"] THEN 1 ELSE 0)
      BY <1>1, <2>1, DqKinds, CountWakes
    <3> HIDE DEF q
    <3> QED
      BY <3>1, DqKinds
  <2>4. p \in Nat /\ p' \in Nat /\ p' >= p - 1
    <3>1. /\ p \in Nat /\ p' \in Nat
          /\ p' = p - (IF {t} \cap Woken("pop") = {} THEN 0 ELSE 1)
                    + (IF waiting["pushers"] # <<>> /\ "pop" = DqKind["pushers"] THEN 1 ELSE 0)
      BY <1>1, <2>1, DqKinds, CountWakes
    <3> HIDE DEF p
    <3> QED
      BY <3>1
  <2> HIDE DEF p, q
  <2>5. /\ waiting'["poppers"] # <<>> => Fill' <= p'
        /\ waiting'["pushers"] # <<>> => Fill' + q' > LowMark
    <3>1. Fill \in Nat /\ LowMark \in Nat
      BY DqNumbers
    <3>2. waiting'["poppers"] # <<>> => Fill' <= p'
      BY <1>4, <1>6, <2>2, <2>4, <3>1
    <3>3. waiting'["pushers"] # <<>> => Fill' + q' > LowMark
      BY <1>4, <1>6, <2>2, <2>3, <3>1
    <3> QED
      BY <3>2, <3>3
  <2> QED
    BY <1>2, <1>5, <2>2, <2>5 DEF DqInv, DataQueueWakes, p, q
<1>8. CASE ~ (Fill' <= LowMark)
  <2>1. state' = [state EXCEPT ![t] = "run"] /\ UNCHANGED waiting
    BY <1>4, <1>8 DEF GetItem
  <2>2. WaitInv(DqKind)' /\ \A op : Woken(op)' = Woken(op) \ {t}
    BY <1>1, <2>1, RunsOn
  <2>3. p \in Nat /\ p' \in Nat /\ p' >= p - 1 /\ q' \in Nat
    <3>1. /\ p \in Nat /\ p' \in Nat
          /\ p' = p - (IF t \in Woken("pop") THEN 1 ELSE 0)
      BY <2>2, CountRuns
    <3>2. q' \in Nat
      BY <2>2, CountRuns
    <3> HIDE DEF p
    <3> QED
      BY <3>1, <3>2
  <2> HIDE DEF p, q
  <2>4. /\ waiting'["poppers"] # <<>> => Fill' <= p'
        /\ Fill' + q' > LowMark
    BY <1>4, <1>6, <1>8, <2>1, <2>3, DqNumbers
  <2> QED
    BY <1>2, <1>5, <2>2, <2>4 DEF DqInv, DataQueueWakes, p, q
<1> QED
  BY <1>7, <1>8

\* A step in which nobody is woken, and which leaves the items alone.
LEMMA DqOthersKeep ==
    ASSUME DqInv, WaitInv(DqKind)', UNCHANGED <<putIndex, getIndex>>,
           resetting' \in [at : {"no", "look", "take"}, of : {"poppers", "pushers"}],
           waiting'["poppers"] # <<>> =>
             Fill = 0 \/ (waiting["poppers"] # <<>> /\ Woken("pop")' = Woken("pop")),
           waiting'["pushers"] # <<>> =>
             Fill = DqSize \/ (waiting["pushers"] # <<>> /\ Woken("push")' = Woken("push"))
    PROVE  DqInv'
<1> DEFINE p == Cardinality(Woken("pop"))
           q == Cardinality(Woken("push"))
<1>1. p' \in Nat /\ q' \in Nat
  <2>1. IsFiniteSet(Woken("pop")') /\ IsFiniteSet(Woken("push")')
    BY FS_Subset, WaitersAssumption DEF Woken
  <2> QED
    BY <2>1, FS_CardinalityType
<1>2. Fill' = Fill
  BY DEF Fill
<1>3. /\ waiting["poppers"] # <<>> => Fill <= p
      /\ waiting["pushers"] # <<>> => Fill + q > LowMark
  BY DEF DqInv, DataQueueWakes
<1>4. waiting'["poppers"] # <<>> => Fill' <= p'
  BY <1>1, <1>2, <1>3
<1>5. waiting'["pushers"] # <<>> => Fill' + q' > LowMark
  BY <1>1, <1>2, <1>3, DqNumbers
<1> QED
  BY <1>2, <1>4, <1>5 DEF DqInv, DataQueueWakes

\* The queue is full for a pusher, or empty for a popper.
LEMMA NoRoomKeeps ==
    ASSUME DqInv, NEW t \in Thread, state[t] # "suspended", NEW left \in BOOLEAN,
           \/ NoItem(t, left) /\ t \notin Woken("push")
           \/ \E m : NoRoom(t, m, left) /\ t \notin Woken("pop")
    PROVE  DqInv'
<1>1. /\ WaitInv(DqKind) /\ UNCHANGED <<putIndex, getIndex, resetting>>
      /\ resetting' \in [at : {"no", "look", "take"}, of : {"poppers", "pushers"}]
  BY DEF DqInv, NoItem, NoRoom
<1>2. CASE NoItem(t, left) /\ t \notin Woken("push")
  <2>1. CASE ~ left
    <3>1. WaitInv(DqKind)' /\ UNCHANGED waiting /\ \A op : Woken(op)' = Woken(op) \ {t}
      BY <1>1, <1>2, <2>1, RunsOn DEF NoItem, DqReturns
    <3> QED
      BY <1>1, <1>2, <3>1, DqOthersKeep DEF NoItem
  <2>2. CASE left
    <3>1. Suspends("poppers", t, Popping) /\ Popping.op = "pop"
      BY <1>2, <2>2 DEF NoItem, Suspends, Popping
    <3>2. /\ WaitInv(DqKind)' /\ \A op : Woken(op)' = Woken(op) \ {t}
          /\ waiting'["pushers"] = waiting["pushers"]
      BY <1>1, <3>1, DqKinds, SuspendsKeeps
    <3> QED
      BY <1>1, <1>2, <3>2, DqOthersKeep DEF NoItem
  <2> QED
    BY <2>1, <2>2
<1>3. ASSUME NEW m, NoRoom(t, m, left), t \notin Woken("pop") PROVE DqInv'
  <2>1. CASE ~ left
    <3>1. WaitInv(DqKind)' /\ UNCHANGED waiting /\ \A op : Woken(op)' = Woken(op) \ {t}
      BY <1>1, <1>3, <2>1, RunsOn DEF NoRoom, DqReturns
    <3> QED
      BY <1>1, <1>3, <3>1, DqOthersKeep DEF NoRoom
  <2>2. CASE left
    <3>1. Suspends("pushers", t, Pushing(m)) /\ Pushing(m).op = "push"
      BY <1>3, <2>2 DEF NoRoom, Suspends, Pushing
    <3>2. /\ WaitInv(DqKind)' /\ \A op : Woken(op)' = Woken(op) \ {t}
          /\ waiting'["poppers"] = waiting["poppers"]
      BY <1>1, <3>1, DqKinds, SuspendsKeeps
    <3> QED
      BY <1>1, <1>3, <3>2, DqOthersKeep DEF NoRoom
  <2> QED
    BY <2>1, <2>2
<1> QED
  BY <1>2, <1>3

\* rt_data_queue_reset takes a thread off its list.
LEMMA DqResetTakeKeeps ==
    ASSUME DqInv, DqResetTake
    PROVE  DqInv'
<1> DEFINE l == resetting.of
           h == Head(waiting[l])
<1>1. /\ WaitInv(DqKind) /\ l \in {"poppers", "pushers"} /\ l \in List /\ waiting[l] # <<>>
      /\ waiting' = [waiting EXCEPT ![l] = Tail(@)]
      /\ state' = [state EXCEPT ![h] = "failed"]
      /\ UNCHANGED <<call, putIndex, getIndex>>
      /\ resetting' = [resetting EXCEPT !.at = "look"]
  BY DqKinds DEF DqInv, DqResetTake
<1>2. resetting' \in [at : {"no", "look", "take"}, of : {"poppers", "pushers"}]
  BY <1>1 DEF DqInv
<1> HIDE DEF l
<1>3. /\ waiting[l] \in Seq(Thread) /\ Distinct(waiting[l])
  BY <1>1 DEF WaitInv
<1>4. /\ h \in Thread /\ Tail(waiting[l]) \in Seq(Thread)
      /\ Elements(waiting[l]) = Elements(Tail(waiting[l])) \cup {h}
      /\ Distinct(Tail(waiting[l])) /\ h \notin Elements(Tail(waiting[l]))
  BY <1>1, <1>3, TailElements
<1> HIDE DEF h
<1>5. /\ waiting' \in [List -> Seq(Thread)] /\ waiting'[l] = Tail(waiting[l])
      /\ \A k \in List \ {l} : waiting'[k] = waiting[k]
  BY <1>1, <1>4 DEF WaitInv
<1>6. /\ state' \in [Thread -> ThreadState]
      /\ \A u \in Thread : state'[u] = IF u = h THEN "failed" ELSE state[u]
      /\ call' = [u \in Thread |-> call'[u]] /\ call' = call
  BY <1>1 DEF WaitInv, ThreadState
<1>7. \A k \in List : /\ Distinct(waiting'[k])
                      /\ Elements(waiting'[k]) \subseteq Elements(waiting[k])
  BY <1>1, <1>4, <1>5 DEF WaitInv
<1>8. \A k \in List : h \notin Elements(waiting'[k])
  <2>1. \A k \in List \ {l} : Elements(waiting[l]) \cap Elements(waiting[k]) = {}
    BY <1>1 DEF WaitInv
  <2> QED
    BY <1>1, <1>4, <1>5, <2>1
<1>9. \A k \in List : \A u \in Elements(waiting'[k]) : state'[u] = state[u] /\ call'[u] = call[u]
  <2>1. \A k \in List : Elements(waiting[k]) \subseteq Thread
    BY <1>1, HeadElement DEF WaitInv
  <2> QED
    BY <1>6, <1>7, <1>8, <2>1
<1>10. WaitInv(DqKind)'
  BY <1>1, <1>5, <1>6, <1>7, <1>9, FewerWait
<1>11. \A op : Woken(op)' = Woken(op)
  <2>1. state[h] = "suspended"
    <3>1. h \in Elements(waiting[l])
      BY <1>4
    <3> QED
      BY <1>1, <3>1 DEF WaitInv
  <2> QED
    BY <1>6, <2>1 DEF Woken
<1>12. \A k \in List : waiting'[k] # <<>> => waiting[k] # <<>>
  BY <1>1, <1>5
<1> QED
  BY <1>1, <1>2, <1>10, <1>11, <1>12, DqKinds, DqOthersKeep

\* A new data queue is empty and nobody waits.
LEMMA DqInvInit == WaitersInit /\ DqInit => DqInv
<1> SUFFICES ASSUME WaitersInit, DqInit PROVE DqInv
  OBVIOUS
<1>1. WaitInv(DqKind)
  BY WaitersStart
<1>2. waiting["poppers"] = <<>> /\ waiting["pushers"] = <<>>
  BY DqKinds DEF WaitersInit
<1>3. putIndex = 0 /\ getIndex = 0 /\ resetting = NoReset
  BY DEF DqInit
<1> QED
  BY <1>1, <1>2, <1>3, DataQueueAssumption DEF DqInv, DataQueueWakes, Fill, NoReset

\* Every call of a data queue keeps its invariant.
LEMMA DqInvNext ==
    ASSUME MaxIndex < IndexRange
    PROVE  DqInv /\ [DqNext]_<<waitVars, dqVars>> => DqInv'
<1> SUFFICES ASSUME DqInv, [DqNext]_<<waitVars, dqVars>> PROVE DqInv'
  OBVIOUS
<1>1. \A t \in Thread : Idle(t) => state[t] = "run" /\ \A op : t \notin Woken(op)
  BY DEF Idle, Woken
<1>2. ASSUME NEW t \in Thread, NEW m, PutItem(m, {t}), DqReturns(t, "EOK"),
             state[t] # "suspended", t \notin Woken("pop")
      PROVE  DqInv'
  <2>1. call' = [u \in Thread |-> call'[u]] /\ \A u \in Thread \ {t} : call'[u] = call[u]
    BY <1>2 DEF DqReturns, Leaves, DqInv, WaitInv
  <2> QED
    BY <1>2, <2>1, PutItemKeeps
<1>3. ASSUME NEW t \in Thread, NEW m, NEW left \in BOOLEAN, DqPush(t, m, left) PROVE DqInv'
  BY <1>1, <1>2, <1>3, NoRoomKeeps DEF DqPush
<1>4. ASSUME NEW t \in Thread, DqPushAgain(t) PROVE DqInv'
  <2>1. PICK m \in Message :
          /\ state[t] = "woken" /\ call[t] = Pushing(m)
          /\ \/ PutItem(m, {t}) /\ DqReturns(t, "EOK")
             \/ NoRoom(t, m, TRUE)
    BY <1>4 DEF DqPushAgain
  <2>2. t \notin Woken("pop")
    BY <2>1 DEF Woken, Pushing
  <2> QED
    BY <1>2, <2>1, <2>2, NoRoomKeeps
<1>5. ASSUME NEW t \in Thread, NEW left \in BOOLEAN, DqPop(t, left) PROVE DqInv'
  BY <1>1, <1>5, GetItemKeeps, NoRoomKeeps DEF DqPop
<1>6. ASSUME NEW t \in Thread, DqPopAgain(t) PROVE DqInv'
  <2>1. state[t] = "woken" /\ t \notin Woken("push")
    BY <1>6 DEF DqPopAgain, Woken, Popping
  <2> QED
    BY <1>6, <2>1, GetItemKeeps, NoRoomKeeps DEF DqPopAgain
<1>7. ASSUME NEW t \in Thread, DqFails(t) \/ (Timeout(t) /\ UNCHANGED dqVars) PROVE DqInv'
  <2>1. /\ WaitInv(DqKind)' /\ \A op : Woken(op)' = Woken(op)
        /\ \A l \in List : waiting'[l] # <<>> => waiting[l] # <<>>
    BY <1>7, WaitFailsKeeps, TimeoutKeeps DEF DqInv, DqFails
  <2>2. UNCHANGED <<putIndex, getIndex, resetting>>
    BY <1>7 DEF DqFails, dqVars
  <2> QED
    BY <2>1, <2>2, DqKinds, DqOthersKeep DEF DqInv
<1>8. ASSUME NEW m, DqPushIsr(m) PROVE DqInv'
  <2>1. call' = [u \in Thread |-> call'[u]] /\ call' = call
    BY <1>8 DEF DqPushIsr, DqInv, WaitInv
  <2> QED
    BY <1>8, <2>1, PutItemKeeps DEF DqPushIsr
<1>9. CASE DqResetBegin \/ DqResetLook \/ UNCHANGED <<waitVars, dqVars>>
  <2>1. /\ UNCHANGED <<waiting, state, call, putIndex, getIndex>>
        /\ resetting' \in [at : {"no", "look", "take"}, of : {"poppers", "pushers"}]
    BY <1>9 DEF DqResetBegin, DqResetLook, NoReset, waitVars, dqVars, DqInv
  <2>2. WaitInv(DqKind)' /\ \A op : Woken(op)' = Woken(op)
    BY <2>1 DEF DqInv, WaitInv, Woken
  <2> QED
    BY <2>1, <2>2, DqOthersKeep
<1> QED
  BY <1>3, <1>4, <1>5, <1>6, <1>7, <1>8, <1>9, DqResetTakeKeeps DEF DqNext

\* Until the indices wrap: no popper sleeps next to an item without a thread that
\* is awake for it, and pushers sleep next to free places only while a later pop
\* will wake one.
THEOREM DataQueueWakesHolds ==
    ASSUME MaxIndex < IndexRange
    PROVE  DqSpec => []DataQueueWakes
<1>1. DqInv => DataQueueWakes
  BY DEF DqInv
<1>2. DqInv /\ [DqNext]_<<waitVars, dqVars>> => DqInv'
  BY DqInvNext
<1> QED
  BY <1>1, <1>2, DqInvInit, PTL DEF DqSpec

-----------------------------------------------------------------------------
(* Data queues as channels *)

\* The calls of the data queue.
DqCalls == {Popping} \cup {Pushing(m) : m \in Message}

\* The ring, the indices and the calls.
DataInv ==
    /\ items \in [0..(DqSize - 1) -> Message \cup {NoMessage}]
    /\ putIndex \in 0..MaxIndex /\ getIndex \in 0..putIndex /\ Fill \in 0..DqSize
    /\ call = [t \in Thread |-> call[t]]
    /\ dqResult = [t \in Thread |-> dqResult[t]]
    /\ \A t \in Thread : call[t] # NoCall => call[t] \in DqCalls /\ dqResult[t] = "EOK"

\* An index has a place in the ring, and two indices less than its size apart
\* have different ones.
LEMMA RingPlaces ==
    ASSUME NEW n \in Nat \ {0}, NEW x \in Nat
    PROVE  /\ x % n \in 0..(n - 1)
           /\ \A y \in Nat : x < y /\ y < x + n => x % n # y % n
<1>1. x % n \in 0..(n - 1) /\ x = n * (x \div n) + (x % n) /\ x \div n \in Int
  OBVIOUS
<1>2. ASSUME NEW y \in Nat, x < y, y < x + n, x % n = y % n
      PROVE  FALSE
  <2>1. y = n * (y \div n) + (y % n) /\ y \div n \in Int
    OBVIOUS
  <2> DEFINE k == (y \div n) - (x \div n)
  <2>2. k \in Int /\ n * k = y - x
    BY <1>1, <1>2, <2>1
  <2> HIDE DEF k
  <2>3. k > 0
    BY <1>2, <2>2
  <2>4. n * k >= n
    BY <2>2, <2>3
  <2> QED
    BY <1>2, <2>2, <2>4
<1> QED
  BY <1>1, <1>2

\* The items are a sequence of messages.
LEMMA ItemsAt ==
    DataInv => Items \in Seq(Message \cup {NoMessage}) /\ Len(Items) = Fill /\ Fill \in Nat
<1> SUFFICES ASSUME DataInv
             PROVE  Items \in Seq(Message \cup {NoMessage}) /\ Len(Items) = Fill /\ Fill \in Nat
  OBVIOUS
<1>1. /\ DqSize \in Nat \ {0} /\ getIndex \in Nat /\ Fill \in Nat
      /\ items \in [0..(DqSize - 1) -> Message \cup {NoMessage}]
  BY DataQueueAssumption DEF DataInv
<1>2. ASSUME NEW i \in 1..Fill
      PROVE  items[(getIndex + i - 1) % DqSize] \in Message \cup {NoMessage}
  <2> DEFINE x == getIndex + i - 1
  <2>1. x \in Nat
    BY <1>1
  <2> HIDE DEF x
  <2>2. x % DqSize \in 0..(DqSize - 1)
    BY <1>1, <2>1, RingPlaces
  <2>3. items[x % DqSize] \in Message \cup {NoMessage}
    BY <1>1, <2>2
  <2> QED
    BY <2>3 DEF x
<1>3. Items \in [1..Fill -> Message \cup {NoMessage}]
  BY <1>2 DEF Items
<1> QED
  BY <1>1, <1>3

\* What the items become when one enters or leaves.
ItemIn(m) ==
    /\ Fill # DqSize /\ putIndex < MaxIndex
    /\ items' = [items EXCEPT ![putIndex % DqSize] = m]
    /\ putIndex' = (putIndex + 1) % IndexRange
    /\ UNCHANGED getIndex

\* An item is taken out.
ItemOut ==
    /\ Fill # 0
    /\ getIndex' = (getIndex + 1) % IndexRange
    /\ UNCHANGED <<items, putIndex>>

\* The indices do not wrap.
LEMMA IndicesStep ==
    ASSUME MaxIndex < IndexRange, DataInv
    PROVE  /\ \A m : ItemIn(m) => putIndex' = putIndex + 1 /\ getIndex' = getIndex
                                  /\ Fill < DqSize /\ Fill' = Fill + 1
           /\ ItemOut => getIndex' = getIndex + 1 /\ putIndex' = putIndex
                         /\ getIndex < putIndex /\ Fill > 0 /\ Fill' = Fill - 1
<1>1. /\ IndexRange \in Nat \ {0} /\ MaxIndex \in Nat /\ DqSize \in Nat
      /\ putIndex \in Nat /\ putIndex <= MaxIndex /\ getIndex \in Nat /\ getIndex <= putIndex
      /\ Fill = putIndex - getIndex /\ Fill' = putIndex' - getIndex' /\ Fill <= DqSize
  BY DataQueueAssumption DEF DataInv, Fill
<1>2. ASSUME NEW m, ItemIn(m) PROVE putIndex' = putIndex + 1 /\ getIndex' = getIndex /\ Fill < DqSize
  <2> DEFINE x == putIndex + 1
  <2>1. x \in 0..(IndexRange - 1) /\ putIndex' = x % IndexRange /\ getIndex' = getIndex
    BY <1>1, <1>2 DEF ItemIn
  <2>2. Fill # DqSize
    BY <1>2 DEF ItemIn
  <2> HIDE DEF x
  <2>3. putIndex' = x
    BY <1>1, <2>1, NoWrap
  <2> QED
    BY <1>1, <2>1, <2>2, <2>3 DEF x
<1>3. ASSUME ItemOut PROVE getIndex' = getIndex + 1 /\ putIndex' = putIndex /\ getIndex < putIndex
  <2> DEFINE x == getIndex + 1
  <2>1. x \in 0..(IndexRange - 1) /\ getIndex' = x % IndexRange /\ putIndex' = putIndex
        /\ getIndex < putIndex
    BY <1>1, <1>3 DEF ItemOut
  <2> HIDE DEF x
  <2>2. getIndex' = x
    BY <1>1, <2>1, NoWrap
  <2> QED
    BY <2>1, <2>2 DEF x
<1> QED
  BY <1>1, <1>2, <1>3

\* An item goes behind the others: its place is none of theirs.
LEMMA ItemAppends ==
    ASSUME MaxIndex < IndexRange, DataInv, DataInv', NEW m \in Message, ItemIn(m)
    PROVE  Items' = Append(Items, m) /\ Len(Items) < DqSize
<1>1. /\ DqSize \in Nat \ {0} /\ Fill \in Nat /\ Fill < DqSize /\ Fill' = Fill + 1
      /\ putIndex \in Nat /\ getIndex \in Nat /\ putIndex = getIndex + Fill
      /\ items \in [0..(DqSize - 1) -> Message \cup {NoMessage}]
      /\ items' = [items EXCEPT ![putIndex % DqSize] = m] /\ getIndex' = getIndex
  <2>1. /\ Fill < DqSize /\ Fill' = Fill + 1 /\ getIndex' = getIndex
        /\ items' = [items EXCEPT ![putIndex % DqSize] = m]
    BY IndicesStep DEF ItemIn
  <2>2. /\ DqSize \in Nat \ {0} /\ Fill \in Nat /\ MaxIndex \in Nat
        /\ items \in [0..(DqSize - 1) -> Message \cup {NoMessage}]
        /\ putIndex \in 0..MaxIndex /\ getIndex \in 0..putIndex
    BY DataQueueAssumption DEF DataInv
  <2>3. putIndex = getIndex + Fill
    BY <2>2 DEF Fill
  <2> QED
    BY <2>1, <2>2, <2>3
<1>2. Items \in Seq(Message \cup {NoMessage}) /\ Len(Items) = Fill
  BY ItemsAt
<1>3. Items' \in Seq(Message \cup {NoMessage}) /\ Len(Items') = Fill + 1
  <2>1. (DataInv => Items \in Seq(Message \cup {NoMessage}) /\ Len(Items) = Fill /\ Fill \in Nat)'
    BY ItemsAt, PTL
  <2> QED
    BY <1>1, <2>1
<1>4. ASSUME NEW i \in 1..(Fill + 1)
      PROVE  Items'[i] = IF i = Fill + 1 THEN m ELSE Items[i]
  <2> DEFINE x == getIndex + i - 1
  <2>1. x \in Nat /\ (i = Fill + 1 => x = putIndex)
        /\ (i # Fill + 1 => i \in 1..Fill /\ x < putIndex /\ putIndex < x + DqSize)
    BY <1>1
  <2>2. Items'[i] = items'[x % DqSize]
    BY <1>1 DEF Items
  <2>3. i \in 1..Fill => Items[i] = items[x % DqSize]
    BY <1>1 DEF Items
  <2> HIDE DEF x
  <2>4. x % DqSize \in 0..(DqSize - 1) /\ (i # Fill + 1 => x % DqSize # putIndex % DqSize)
    BY <1>1, <2>1, RingPlaces
  <2> QED
    BY <1>1, <2>1, <2>2, <2>3, <2>4
<1>5. /\ Append(Items, m) \in Seq(Message \cup {NoMessage}) /\ Len(Append(Items, m)) = Fill + 1
      /\ \A i \in 1..(Fill + 1) : Append(Items, m)[i] = IF i = Fill + 1 THEN m ELSE Items[i]
  BY <1>1, <1>2, AppendProperties
<1>6. Items' = Append(Items, m)
  <2> DEFINE v == Items'
             w == Append(Items, m)
  <2>1. Len(v) = Len(w) /\ \A i \in 1..Len(v) : v[i] = w[i]
    BY <1>3, <1>4, <1>5
  <2>2. v \in Seq(Message \cup {NoMessage}) /\ w \in Seq(Message \cup {NoMessage})
    BY <1>3, <1>5
  <2> HIDE DEF v, w
  <2>3. v = w
    BY <2>1, <2>2, SeqEqual
  <2> QED
    BY <2>3 DEF v, w
<1> QED
  BY <1>1, <1>2, <1>6

\* The first item goes.
LEMMA ItemLeaves ==
    ASSUME MaxIndex < IndexRange, DataInv, DataInv', ItemOut
    PROVE  Items # <<>> /\ Items' = Tail(Items) /\ Head(Items) = items[getIndex % DqSize]
<1>1. /\ DqSize \in Nat \ {0} /\ Fill \in Nat /\ Fill > 0 /\ Fill' = Fill - 1
      /\ getIndex \in Nat /\ getIndex' = getIndex + 1 /\ items' = items
  BY IndicesStep, DataQueueAssumption DEF DataInv, ItemOut
<1>2. Items \in Seq(Message \cup {NoMessage}) /\ Len(Items) = Fill
  BY ItemsAt
<1>3. Items' \in Seq(Message \cup {NoMessage}) /\ Len(Items') = Fill - 1
  <2>1. (DataInv => Items \in Seq(Message \cup {NoMessage}) /\ Len(Items) = Fill /\ Fill \in Nat)'
    BY ItemsAt, PTL
  <2> QED
    BY <1>1, <2>1
<1>4. Items # <<>> /\ Head(Items) = Items[1] /\ Items[1] = items[getIndex % DqSize]
  <2>1. Items[1] = items[(getIndex + 1 - 1) % DqSize] /\ getIndex + 1 - 1 = getIndex
    BY <1>1 DEF Items
  <2> QED
    BY <1>1, <1>2, <2>1, EmptySeq, HeadTailProperties
<1>5. /\ Tail(Items) \in Seq(Message \cup {NoMessage}) /\ Len(Tail(Items)) = Fill - 1
      /\ \A i \in 1..(Fill - 1) : Tail(Items)[i] = Items[i + 1]
  <2>1. /\ Tail(Items) \in Seq(Message \cup {NoMessage}) /\ Len(Tail(Items)) = Len(Items) - 1
        /\ \A i \in 1..Len(Tail(Items)) : Tail(Items)[i] = Items[i + 1]
    BY <1>2, <1>4, HeadTailProperties
  <2> QED
    BY <1>2, <2>1
<1>6. ASSUME NEW i \in 1..(Fill - 1) PROVE Items'[i] = Items[i + 1]
  <2>1. i + 1 \in 1..Fill /\ i \in 1..Fill' /\ getIndex' + i - 1 = getIndex + (i + 1) - 1
    BY <1>1
  <2>2. Items'[i] = items[(getIndex' + i - 1) % DqSize]
    BY <1>1, <2>1 DEF Items
  <2>3. Items[i + 1] = items[(getIndex + (i + 1) - 1) % DqSize]
    BY <2>1 DEF Items
  <2> QED
    BY <2>1, <2>2, <2>3
<1>7. Items' = Tail(Items)
  <2> DEFINE v == Items'
             w == Tail(Items)
  <2>1. Len(v) = Len(w) /\ \A i \in 1..Len(v) : v[i] = w[i]
    BY <1>3, <1>5, <1>6
  <2>2. v \in Seq(Message \cup {NoMessage}) /\ w \in Seq(Message \cup {NoMessage})
    BY <1>3, <1>5
  <2> HIDE DEF v, w
  <2>3. v = w
    BY <2>1, <2>2, SeqEqual
  <2> QED
    BY <2>3 DEF v, w
<1> QED
  BY <1>4, <1>7

\* Every step leaves the ring and the calls as DataInv says.
LEMMA DataInvNext ==
    ASSUME MaxIndex < IndexRange
    PROVE  DataInv /\ [DqNext]_<<waitVars, dqVars>> => DataInv'
<1> SUFFICES ASSUME DataInv, [DqNext]_<<waitVars, dqVars>> PROVE DataInv'
  OBVIOUS
<1> DEFINE Ring == /\ items \in [0..(DqSize - 1) -> Message \cup {NoMessage}]
                   /\ putIndex \in 0..MaxIndex /\ getIndex \in 0..putIndex
                   /\ Fill \in 0..DqSize
           Inside == /\ call = [t \in Thread |-> call[t]]
                     /\ dqResult = [t \in Thread |-> dqResult[t]]
                     /\ \A t \in Thread :
                          call[t] # NoCall => call[t] \in DqCalls /\ dqResult[t] = "EOK"
<1>1. DqSize \in Nat \ {0} /\ MaxIndex \in Nat
  BY DataQueueAssumption
<1>2. ASSUME NEW t \in Thread, NEW r, DqReturns(t, r) PROVE Inside'
  BY <1>2 DEF DataInv, DqReturns, Leaves
<1>3. ASSUME NEW t \in Thread, NEW c \in DqCalls, call' = [call EXCEPT ![t] = c], DqWaits(t)
      PROVE  Inside'
  BY <1>3 DEF DataInv, DqWaits
<1>4. ASSUME UNCHANGED <<items, putIndex, getIndex>> PROVE Ring'
  BY <1>4 DEF DataInv, Fill
<1>5. ASSUME NEW m \in Message, ItemIn(m) PROVE Ring'
  <2>1. /\ putIndex' = putIndex + 1 /\ getIndex' = getIndex /\ Fill < DqSize
        /\ Fill' = Fill + 1 /\ putIndex < MaxIndex
    BY <1>5, IndicesStep DEF ItemIn
  <2>2. items' \in [0..(DqSize - 1) -> Message \cup {NoMessage}]
    BY <1>5 DEF DataInv, ItemIn
  <2>3. putIndex \in 0..MaxIndex /\ getIndex \in 0..putIndex /\ Fill \in 0..DqSize
    BY DEF DataInv
  <2> QED
    BY <1>1, <2>1, <2>2, <2>3
<1>6. ASSUME ItemOut PROVE Ring'
  <2>1. /\ getIndex' = getIndex + 1 /\ putIndex' = putIndex /\ Fill > 0 /\ Fill' = Fill - 1
        /\ getIndex < putIndex /\ items' = items
    BY <1>6, IndicesStep DEF ItemOut
  <2>2. putIndex \in 0..MaxIndex /\ getIndex \in 0..putIndex /\ Fill \in 0..DqSize
        /\ items \in [0..(DqSize - 1) -> Message \cup {NoMessage}]
    BY DEF DataInv
  <2> QED
    BY <1>1, <2>1, <2>2
<1>7. Ring' /\ Inside' => DataInv'
  BY DEF DataInv
<1>8. ASSUME UNCHANGED <<call, items, putIndex, getIndex, dqResult>> PROVE DataInv'
  BY <1>8 DEF DataInv, Fill
<1> HIDE DEF Ring, Inside
<1>9. ASSUME NEW t \in Thread, NEW m \in Message, NEW running, PutItem(m, running),
             DqReturns(t, "EOK")
      PROVE  DataInv'
  BY <1>2, <1>5, <1>7, <1>9 DEF PutItem, ItemIn
<1>10. ASSUME NEW t \in Thread, NEW m \in Message, NEW left \in BOOLEAN, NoRoom(t, m, left)
       PROVE  DataInv'
  <2>1. \/ DqReturns(t, "failed")
        \/ call' = [call EXCEPT ![t] = Pushing(m)] /\ DqWaits(t)
    BY <1>10 DEF NoRoom, SuspendLast
  <2>2. UNCHANGED <<items, putIndex, getIndex>>
    BY <1>10 DEF NoRoom
  <2> QED
    BY <1>2, <1>3, <1>4, <1>7, <2>1, <2>2 DEF DqCalls
<1>11. ASSUME NEW t \in Thread, GetItem(t) PROVE DataInv'
  <2>1. ItemOut /\ DqReturns(t, items[getIndex % DqSize])
    BY <1>11 DEF GetItem, ItemOut
  <2> QED
    BY <1>2, <1>6, <1>7, <2>1
<1>12. ASSUME NEW t \in Thread, NEW left \in BOOLEAN, NoItem(t, left) PROVE DataInv'
  <2>1. \/ DqReturns(t, "failed")
        \/ call' = [call EXCEPT ![t] = Popping] /\ DqWaits(t)
    BY <1>12 DEF NoItem, SuspendLast
  <2>2. UNCHANGED <<items, putIndex, getIndex>>
    BY <1>12 DEF NoItem
  <2> QED
    BY <1>2, <1>3, <1>4, <1>7, <2>1, <2>2 DEF DqCalls
<1>13. ASSUME NEW t \in Thread, DqFails(t) PROVE DataInv'
  <2>1. DqReturns(t, "failed") /\ UNCHANGED <<items, putIndex, getIndex>>
    BY <1>13 DEF DqFails, WaitFails, DqReturns
  <2> QED
    BY <1>2, <1>4, <1>7, <2>1
<1>14. ASSUME NEW m \in Message, DqPushIsr(m) PROVE DataInv'
  <2>1. ItemIn(m) /\ UNCHANGED <<call, dqResult>>
    BY <1>14 DEF DqPushIsr, PutItem, ItemIn
  <2>2. Inside'
    BY <2>1 DEF Inside, DataInv
  <2> QED
    BY <1>5, <1>7, <2>1, <2>2
<1> QED
  BY <1>8, <1>9, <1>10, <1>11, <1>12, <1>13, <1>14
     DEF DqNext, DqPush, DqPushAgain, DqPop, DqPopAgain, Timeout, waitVars, dqVars,
         DqResetBegin, DqResetLook, DqResetTake

\* What a step of a thread is to the channel.
LEMMA DataCalls ==
    ASSUME MaxIndex < IndexRange, DataInv, DataInv', NEW t \in Thread
    PROVE  /\ \A m \in Message :
                ItemIn(m) /\ DqReturns(t, "EOK") /\ call[t] \in {NoCall, Pushing(m)}
                  => DataChannel!Send(t, m)
           /\ ItemOut /\ DqReturns(t, items[getIndex % DqSize]) /\ call[t] \in {NoCall, Popping}
                => DataChannel!Receive(t)
           /\ UNCHANGED Items /\ DqReturns(t, "failed") => DataChannel!Fail(t)
           /\ \A c \in DqCalls :
                UNCHANGED Items /\ DqWaits(t) /\ call' = [call EXCEPT ![t] = c]
                  /\ call[t] \in {NoCall, c}
                => DataChannel!Begin(t) \/ UNCHANGED <<Items, DataCall, dqResult>>
<1>1. /\ Popping # NoCall
      /\ \A m \in Message : Pushing(m) # NoCall
  BY DataQueueAssumption DEF Popping, Pushing
<1>2. ASSUME NEW r, DqReturns(t, r) PROVE DataChannel!Returns(t, r)
  BY <1>2 DEF DqReturns, Leaves, DataChannel!Returns, DataCall, DataInv
<1>3. ASSUME NEW m \in Message, ItemIn(m), DqReturns(t, "EOK"), call[t] \in {NoCall, Pushing(m)}
      PROVE  DataChannel!Send(t, m)
  <2>1. DataCall[t] \in {NoCall, [op |-> "send", arg |-> m]}
    BY <1>3 DEF DataCall, Pushing
  <2> QED
    BY <1>2, <1>3, <2>1, ItemAppends DEF DataChannel!Send, DataChannel!In
<1>4. ASSUME ItemOut, DqReturns(t, items[getIndex % DqSize]), call[t] \in {NoCall, Popping}
      PROVE  DataChannel!Receive(t)
  <2>1. DataCall[t] \in {NoCall, [op |-> "receive", arg |-> "EOK"]}
    BY <1>4 DEF DataCall, Popping
  <2> QED
    BY <1>2, <1>4, <2>1, ItemLeaves DEF DataChannel!Receive, DataChannel!In
<1>5. ASSUME UNCHANGED Items, DqReturns(t, "failed") PROVE DataChannel!Fail(t)
  BY <1>2, <1>5 DEF DataChannel!Fail
<1>6. ASSUME NEW c \in DqCalls, UNCHANGED Items, DqWaits(t), call' = [call EXCEPT ![t] = c],
             call[t] \in {NoCall, c}
      PROVE  DataChannel!Begin(t) \/ UNCHANGED <<Items, DataCall, dqResult>>
  <2>1. CASE call[t] = NoCall
    <3>1. call'[t] = c /\ c # NoCall
      BY <1>1, <1>6 DEF DataInv, DqCalls
    <3>2. DataCall'[t] \in DataChannel!Calls
      BY <3>1 DEF DataCall, DataChannel!Calls, DqCalls, Popping, Pushing
    <3>3. DataCall' = [DataCall EXCEPT ![t] = DataCall'[t]] /\ DataCall[t] = NoCall
      BY <1>6, <2>1 DEF DataCall, DataInv
    <3> QED
      BY <1>6, <3>2, <3>3 DEF DataChannel!Begin, DqWaits
  <2>2. CASE call[t] = c /\ c # NoCall
    <3>1. dqResult[t] = "EOK" /\ UNCHANGED <<call, dqResult>>
      BY <1>6, <2>2 DEF DataInv, DqWaits
    <3> QED
      BY <1>6, <3>1 DEF DataCall
  <2> QED
    BY <1>1, <1>6, <2>1, <2>2 DEF DqCalls
<1> QED
  BY <1>3, <1>4, <1>5, <1>6

\* Every step of the data queue is a step of the channel, or none.
LEMMA DataStep ==
    ASSUME MaxIndex < IndexRange
    PROVE  DataInv /\ [DqNext]_<<waitVars, dqVars>>
             => [DataChannel!Next]_(DataChannel!channelVars)
<1> SUFFICES ASSUME DataInv, [DqNext]_<<waitVars, dqVars>>
             PROVE  DataChannel!Next \/ UNCHANGED <<Items, DataCall, dqResult>>
  BY DEF DataChannel!channelVars
<1>1. DataInv'
  BY DataInvNext
<1>2. UNCHANGED <<items, putIndex, getIndex>> => UNCHANGED Items
  BY DEF Items, Fill
<1> DEFINE Step == DataChannel!Next \/ UNCHANGED <<Items, DataCall, dqResult>>
<1>3. ASSUME NEW t \in Thread, NEW m \in Message, NEW running, PutItem(m, running),
             DqReturns(t, "EOK"), call[t] \in {NoCall, Pushing(m)}
      PROVE  Step
  <2>1. ItemIn(m)
    BY <1>3 DEF PutItem, ItemIn
  <2> QED
    BY <1>1, <1>3, <2>1, DataCalls DEF DataChannel!Next
<1>4. ASSUME NEW t \in Thread, NEW m \in Message, NEW left \in BOOLEAN, NoRoom(t, m, left),
             call[t] \in {NoCall, Pushing(m)}
      PROVE  Step
  <2>1. UNCHANGED Items
    BY <1>2, <1>4 DEF NoRoom
  <2>2. \/ DqReturns(t, "failed")
        \/ call' = [call EXCEPT ![t] = Pushing(m)] /\ DqWaits(t)
    BY <1>4 DEF NoRoom, SuspendLast
  <2>3. Pushing(m) \in DqCalls
    BY DEF DqCalls
  <2> QED
    BY <1>1, <1>4, <2>1, <2>2, <2>3, DataCalls DEF DataChannel!Next
<1>5. ASSUME NEW t \in Thread, GetItem(t), call[t] \in {NoCall, Popping} PROVE Step
  <2>1. ItemOut /\ DqReturns(t, items[getIndex % DqSize])
    BY <1>5 DEF GetItem, ItemOut
  <2> QED
    BY <1>1, <1>5, <2>1, DataCalls DEF DataChannel!Next
<1>6. ASSUME NEW t \in Thread, NEW left \in BOOLEAN, NoItem(t, left),
             call[t] \in {NoCall, Popping}
      PROVE  Step
  <2>1. UNCHANGED Items
    BY <1>2, <1>6 DEF NoItem
  <2>2. \/ DqReturns(t, "failed")
        \/ call' = [call EXCEPT ![t] = Popping] /\ DqWaits(t)
    BY <1>6 DEF NoItem, SuspendLast
  <2>3. Popping \in DqCalls
    BY DEF DqCalls
  <2> QED
    BY <1>1, <1>6, <2>1, <2>2, <2>3, DataCalls DEF DataChannel!Next
<1>7. ASSUME NEW t \in Thread, DqFails(t) PROVE Step
  <2>1. DqReturns(t, "failed") /\ UNCHANGED Items
    BY <1>2, <1>7 DEF DqFails, WaitFails, DqReturns
  <2> QED
    BY <1>1, <2>1, DataCalls DEF DataChannel!Next
<1>8. ASSUME NEW m \in Message, DqPushIsr(m) PROVE Step
  <2>1. ItemIn(m) /\ UNCHANGED <<call, dqResult>>
    BY <1>8 DEF DqPushIsr, PutItem, ItemIn
  <2>2. UNCHANGED DataCall
    BY <2>1 DEF DataCall
  <2>3. DataChannel!SendIsr(m)
    BY <1>1, <2>1, <2>2, ItemAppends DEF DataChannel!SendIsr
  <2> QED
    BY <2>3 DEF DataChannel!Next
<1>9. ASSUME UNCHANGED <<call, items, putIndex, getIndex, dqResult>> PROVE Step
  BY <1>2, <1>9 DEF DataCall
<1> HIDE DEF Step
<1>10. ASSUME NEW t \in Thread, NEW m \in Message, NEW left \in BOOLEAN, DqPush(t, m, left)
       PROVE  Step
  BY <1>3, <1>4, <1>10 DEF DqPush, Idle
<1>11. ASSUME NEW t \in Thread, DqPushAgain(t) PROVE Step
  BY <1>3, <1>4, <1>11 DEF DqPushAgain
<1>12. ASSUME NEW t \in Thread, NEW left \in BOOLEAN, DqPop(t, left) PROVE Step
  BY <1>5, <1>6, <1>12 DEF DqPop, Idle
<1>13. ASSUME NEW t \in Thread, DqPopAgain(t) PROVE Step
  BY <1>5, <1>6, <1>13 DEF DqPopAgain
<1>14. ASSUME \/ \E t \in Thread : Timeout(t) /\ UNCHANGED dqVars
              \/ DqResetBegin \/ DqResetLook \/ DqResetTake
              \/ UNCHANGED <<waitVars, dqVars>>
       PROVE  Step
  BY <1>9, <1>14 DEF Timeout, DqResetBegin, DqResetLook, DqResetTake, waitVars, dqVars
<1>15. Step
  BY <1>7, <1>8, <1>10, <1>11, <1>12, <1>13, <1>14 DEF DqNext
<1> QED
  BY <1>15 DEF Step

\* rt_data_queue_init
LEMMA DataInvInit == WaitersInit /\ DqInit => DataInv /\ DataChannel!Init
<1> SUFFICES ASSUME WaitersInit, DqInit PROVE DataInv /\ DataChannel!Init
  OBVIOUS
<1>1. Fill = 0 /\ DqSize \in Nat \ {0} /\ MaxIndex \in Nat
  BY DataQueueAssumption DEF DqInit, Fill
<1>2. DataInv
  BY <1>1 DEF WaitersInit, DqInit, DataInv
<1>3. Items = <<>>
  BY <1>1, <1>2, ItemsAt, EmptySeq
<1>4. DataCall = [t \in Thread |-> NoCall]
  BY DEF WaitersInit, DataCall
<1> QED
  BY <1>2, <1>3, <1>4 DEF DataChannel!Init, DqInit

\* Until the indices wrap, a data queue is a channel, whatever its size and its
\* low-water mark: an item that rt_data_queue_pop returns is the oldest one pushed
\* and not popped, also across rt_data_queue_reset, which wakes the threads only.
THEOREM DataQueueIsChannelHolds ==
    ASSUME MaxIndex < IndexRange
    PROVE  DqSpec => DataQueueIsChannel
<1>1. DataInv /\ [DqNext]_<<waitVars, dqVars>> => DataInv'
  BY DataInvNext
<1>2. DataInv /\ [DqNext]_<<waitVars, dqVars>> => [DataChannel!Next]_(DataChannel!channelVars)
  BY DataStep
<1> QED
  BY <1>1, <1>2, DataInvInit, PTL DEF DqSpec, DataQueueIsChannel, DataChannel!Spec

-----------------------------------------------------------------------------
(* Events *)

EvKind == [event |-> "event"]

\* The list of an event and its kind.
LEMMA EvKinds == "event" \in List /\ "event" \in DOMAIN EvKind /\ EvKind["event"] = "event"
  BY EventAssumption DEF EvKind

\* The waiting threads have requests of the kind rt_event_recv accepts.
EvInv ==
    /\ WaitInv(EvKind)
    /\ received \in [Thread -> SUBSET Bit]
    /\ \A t \in Elements(waiting["event"]) : call[t].arg \in Requests
    /\ NoEventMissed

\* What satisfies a request satisfies it on its own, and is there.
LEMMA SatisfyingIs ==
    ASSUME NEW w \in Requests, NEW s
    PROVE  /\ Satisfying(w, s) \subseteq s /\ Satisfying(w, s) \subseteq Bit
           /\ Satisfying(w, Satisfying(w, s)) = Satisfying(w, s)
  BY DEF Requests, Satisfying

\* A request that is not satisfied is not satisfied by fewer bits.
LEMMA LessSatisfies ==
    ASSUME NEW w \in Requests, NEW s, NEW r \in SUBSET s, Satisfying(w, s) = {}
    PROVE  Satisfying(w, r) = {}
<1>1. w.bits # {}
  BY DEF Requests
<1> QED
  BY <1>1 DEF Satisfying

\* NoEventMissed, said of the threads.
LEMMA MissedOf ==
    ASSUME EvInv, NEW t \in Elements(waiting["event"])
    PROVE  Satisfying(call[t].arg, set) = {}
  BY DEF EvInv, NoEventMissed, Elements

\* A step after which no other threads wait than before, and no bits are there
\* that were not.
LEMMA LessWaits ==
    ASSUME EvInv, WaitInv(EvKind)', received' \in [Thread -> SUBSET Bit], set' \subseteq set,
           Elements(waiting'["event"]) \subseteq Elements(waiting["event"]),
           \A t \in Elements(waiting'["event"]) : call'[t] = call[t]
    PROVE  EvInv'
<1>1. \A t \in Elements(waiting'["event"]) :
        /\ call'[t].arg \in Requests /\ Satisfying(call'[t].arg, set) = {}
        /\ Satisfying(call'[t].arg, set') = {}
  BY MissedOf, LessSatisfies DEF EvInv
<1>2. NoEventMissed'
  BY <1>1 DEF NoEventMissed, Elements
<1> QED
  BY <1>1, <1>2 DEF EvInv

\* The threads on the list sleep in rt_event_recv.
LEMMA WaitersSleep ==
    ASSUME EvInv
    PROVE  \A u \in Elements(waiting["event"]) :
             /\ u \in Thread /\ state[u] = "suspended"
             /\ call[u].op = "event" /\ call[u].arg \in Requests
<1>1. waiting["event"] \in Seq(Thread) /\ "event" \in List /\ EvKind["event"] = "event"
  BY EvKinds DEF EvInv, WaitInv
<1>2. Elements(waiting["event"]) \subseteq Thread
  BY <1>1, HeadElement
<1> QED
  BY <1>1, <1>2 DEF EvInv, WaitInv

LEMMA EvInvInit == WaitersInit /\ EvInit => EvInv
<1> SUFFICES ASSUME WaitersInit, EvInit PROVE EvInv
  OBVIOUS
<1>1. WaitInv(EvKind) /\ waiting["event"] = <<>>
  BY WaitersStart, EvKinds DEF WaitersInit
<1>2. Elements(waiting["event"]) = {} /\ Len(waiting["event"]) = 0
  BY <1>1 DEF Elements
<1> QED
  BY <1>1, <1>2 DEF EvInv, EvInit, NoEventMissed

\* The events are there.
LEMMA RecvNowKeeps ==
    ASSUME EvInv, NEW t \in Thread, NEW w \in Want, RecvNow(t, w)
    PROVE  EvInv'
<1>1. /\ state[t] = "run" /\ UNCHANGED waiting /\ state' = state /\ Leaves(t)
      /\ state' = [state EXCEPT ![t] = "run"]
  BY DEF RecvNow, Idle, EvInv, WaitInv
<1>2. WaitInv(EvKind)'
  BY <1>1, RunsOn DEF EvInv
<1>3. \A u \in Elements(waiting["event"]) : state[u] = "suspended" /\ u \in Thread
  BY WaitersSleep
<1>4. \A u \in Elements(waiting'["event"]) : call'[u] = call[u]
  BY <1>1, <1>3 DEF Leaves, EvInv, WaitInv
<1>5. w \in Requests /\ Satisfying(w, set) \subseteq Bit
  BY EventAssumption, SatisfyingIs
<1>6. received' \in [Thread -> SUBSET Bit] /\ set' \subseteq set
  BY <1>5 DEF RecvNow, EvInv
<1> QED
  BY <1>1, <1>2, <1>4, <1>6, LessWaits

\* The events are not there.
LEMMA RecvWaitsKeeps ==
    ASSUME EvInv, NEW t \in Thread, NEW w \in Want, NEW left \in BOOLEAN, RecvWaits(t, w, left)
    PROVE  EvInv'
<1>1. state[t] = "run" /\ set' = set /\ Satisfying(w, set) = {} /\ w \in Requests
  BY EventAssumption DEF RecvWaits, Idle
<1>2. received' \in [Thread -> SUBSET Bit]
  BY DEF RecvWaits, EvInv
<1>3. \A u \in Elements(waiting["event"]) : state[u] = "suspended" /\ u \in Thread
  BY WaitersSleep
<1>4. CASE ~ left
  <2>1. UNCHANGED <<waiting, state>> /\ Leaves(t) /\ state' = [state EXCEPT ![t] = "run"]
    BY <1>1, <1>4 DEF RecvWaits, EvInv, WaitInv
  <2>2. WaitInv(EvKind)'
    BY <1>1, <2>1, RunsOn DEF EvInv
  <2>3. \A u \in Elements(waiting'["event"]) : call'[u] = call[u]
    BY <1>1, <1>3, <2>1 DEF Leaves, EvInv, WaitInv
  <2> QED
    BY <1>1, <1>2, <2>1, <2>2, <2>3, LessWaits
<1>5. CASE left
  <2>1. SuspendOn("event", t, Asking(w)) /\ Asking(w).op = "event" /\ Asking(w).arg = w
    BY <1>5 DEF RecvWaits, Asking
  <2>2. WaitInv(EvKind)'
    <3>1. /\ WaitInv(EvKind) /\ state[t] # "suspended" /\ Suspends("event", t, Asking(w))
          /\ "event" \in List /\ "event" \in DOMAIN EvKind /\ Asking(w).op = EvKind["event"]
      BY <1>1, <2>1, EvKinds DEF EvInv, Suspends
    <3> QED
      BY <3>1, SuspendsKeeps
  <2>3. Elements(waiting'["event"]) = Elements(waiting["event"]) \cup {t}
    BY <2>1, EvKinds, EnqueuedElements DEF SuspendOn, EvInv, WaitInv
  <2>4. \A u \in Thread : call'[u] = IF u = t THEN Asking(w) ELSE call[u]
    BY <2>1 DEF SuspendOn, EvInv, WaitInv
  <2>5. \A u \in Elements(waiting'["event"]) :
          call'[u].arg \in Requests /\ Satisfying(call'[u].arg, set') = {}
    <3> SUFFICES ASSUME NEW u \in Elements(waiting'["event"])
                 PROVE  call'[u].arg \in Requests /\ Satisfying(call'[u].arg, set') = {}
      OBVIOUS
    <3>1. CASE u = t
      BY <1>1, <2>1, <2>4, <3>1
    <3>2. CASE u # t
      <4>1. u \in Elements(waiting["event"]) /\ call'[u] = call[u]
        BY <1>3, <2>3, <2>4, <3>2
      <4> QED
        BY <1>1, <4>1, MissedOf DEF EvInv
    <3> QED
      BY <3>1, <3>2
  <2>6. NoEventMissed'
    BY <2>5 DEF NoEventMissed, Elements
  <2> QED
    BY <1>2, <2>2, <2>5, <2>6 DEF EvInv
<1> QED
  BY <1>4, <1>5

\* The bits that the waiting threads before the i-th have cleared.
Cleared(got, i) ==
    UNION {got[j] : j \in {j \in 1..(i - 1) : call[waiting["event"][j]].arg.clear}}

\* What a walk along the waiting threads does that gives them got of the bits b.
Walks(b, got) ==
    LET line == waiting["event"]
    IN  /\ \A i \in 1..Len(line) :
             /\ got[i] = Satisfying(call[line[i]].arg, b \ Cleared(got, i))
             /\ got[i] # {} => state'[line[i]] = "woken" /\ received'[line[i]] = got[i]
        /\ \A t \in Thread :
             \/ state'[t] = state[t] /\ received'[t] = received[t]
             \/ \E i \in 1..Len(line) : line[i] = t /\ got[i] # {}
        /\ \A t \in Elements(waiting'["event"]) :
             /\ \E i \in 1..Len(line) : line[i] = t /\ got[i] = {}
             /\ state'[t] = state[t]
        /\ set' = b \ Cleared(got, Len(line) + 1)

\* rt_event_send does, and who did not get anything goes on waiting, once.
LEMMA SendWalks ==
    ASSUME EvInv, NEW s \in SUBSET Bit, EvSend(s)
    PROVE  /\ \E got \in [1..Len(waiting["event"]) -> SUBSET Bit] : Walks(set \cup s, got)
           /\ waiting' \in [List -> Seq(Thread)] /\ Distinct(waiting'["event"])
           /\ \A l \in List \ {"event"} : waiting'[l] = waiting[l]
           /\ state' \in [Thread -> ThreadState] /\ received' \in [Thread -> SUBSET Bit]
           /\ call' = call
<1> DEFINE line == waiting["event"]
           n == Len(line)
           w == [i \in 1..n |-> call[line[i]].arg]
           Gets(t, got) == {i \in 1..n : line[i] = t /\ got[i] # {}}
<1>1. PICK got \in [1..n -> SUBSET Bit] :
        /\ Delivery(w, set \cup s, got)
        /\ set' = (set \cup s) \ UNION {got[j] : j \in {j \in 1..n : w[j].clear}}
        /\ received' = [t \in Thread |-> IF Gets(t, got) = {} THEN received[t]
                                         ELSE UNION {got[i] : i \in Gets(t, got)}]
        /\ \E k \in Ascending({i \in 1..n : got[i] = {}}) :
             waiting' = [waiting EXCEPT !["event"] = [i \in DOMAIN k |-> line[k[i]]]]
        /\ state' = [t \in Thread |-> IF Gets(t, got) = {} THEN state[t] ELSE "woken"]
        /\ UNCHANGED call
  BY DEF EvSend
<1> DEFINE K == {i \in 1..n : got[i] = {}}
           m == Cardinality(K)
<1>2. /\ line \in Seq(Thread) /\ Distinct(line) /\ n \in Nat
      /\ \A i \in 1..n : line[i] \in Thread
      /\ \A i, j \in 1..n : line[i] = line[j] => i = j
  BY EvKinds DEF EvInv, WaitInv, Distinct
<1>3. PICK k \in Ascending(K) :
        waiting' = [waiting EXCEPT !["event"] = [i \in DOMAIN k |-> line[k[i]]]]
  BY <1>1
<1>4. m \in Nat
  <2>1. IsFiniteSet(1..n)
    BY <1>2, FS_Interval
  <2>2. IsFiniteSet(K)
    BY <2>1, FS_Subset
  <2> QED
    BY <2>2, FS_CardinalityType
<1> HIDE DEF m
<1>5. k \in [1..m -> K] /\ \A i, j \in 1..m : i < j => k[i] < k[j]
  BY <1>3 DEF Ascending, m
<1> DEFINE rest == [i \in 1..m |-> line[k[i]]]
<1>6. waiting' = [waiting EXCEPT !["event"] = rest]
  BY <1>3, <1>5
<1>7. /\ \A i \in 1..m : k[i] \in 1..n /\ got[k[i]] = {}
      /\ \A i, j \in 1..m : k[i] = k[j] => i = j
  <2>1. \A i \in 1..m : k[i] \in 1..n /\ got[k[i]] = {}
    BY <1>5
  <2>2. ASSUME NEW i \in 1..m, NEW j \in 1..m, k[i] = k[j] PROVE i = j
    <3>1. k[i] \in Nat /\ k[j] \in Nat /\ ~ (i < j) /\ ~ (j < i)
      BY <1>2, <1>5, <2>1, <2>2
    <3> QED
      BY <1>4, <3>1
  <2> QED
    BY <2>1, <2>2
<1>8. rest \in Seq(Thread) /\ Len(rest) = m /\ Distinct(rest)
  <2>1. rest \in Seq(Thread) /\ Len(rest) = m
    BY <1>2, <1>4, <1>7
  <2> QED
    BY <1>2, <1>7, <2>1 DEF Distinct
<1>9. ASSUME NEW t \in Elements(rest)
      PROVE  t \in Thread /\ (\E i \in 1..n : line[i] = t /\ got[i] = {}) /\ Gets(t, got) = {}
  <2>1. PICK i \in 1..m : t = rest[i]
    BY <1>8, <1>9 DEF Elements
  <2>2. k[i] \in 1..n /\ got[k[i]] = {} /\ line[k[i]] = t
    BY <1>7, <2>1
  <2> QED
    BY <1>2, <2>2
<1>10. waiting \in [List -> Seq(Thread)] /\ "event" \in List /\ waiting'["event"] = rest
  BY <1>6, EvKinds DEF EvInv, WaitInv
<1> HIDE DEF rest
<1>11. /\ waiting' \in [List -> Seq(Thread)] /\ Distinct(waiting'["event"])
       /\ \A l \in List \ {"event"} : waiting'[l] = waiting[l]
  BY <1>6, <1>8, <1>10
<1>12. ASSUME NEW i \in 1..n, got[i] # {}
       PROVE  /\ Gets(line[i], got) = {i}
              /\ state'[line[i]] = "woken" /\ received'[line[i]] = got[i]
  <2>1. Gets(line[i], got) = {i}
    BY <1>2, <1>12
  <2>2. UNION {got[j] : j \in Gets(line[i], got)} = got[i]
    BY <2>1
  <2> QED
    BY <1>1, <1>2, <2>1, <2>2
<1>13. \A t \in Thread :
         \/ state'[t] = state[t] /\ received'[t] = received[t]
         \/ \E i \in 1..n : line[i] = t /\ got[i] # {}
  BY <1>1
<1>14. /\ state' \in [Thread -> ThreadState] /\ received' \in [Thread -> SUBSET Bit]
  <2> HIDE DEF n, line
  <2>1. \A t \in Thread : state'[t] \in ThreadState /\ received'[t] \in SUBSET Bit
    <3>1. \A t \in Thread : state[t] \in ThreadState /\ received[t] \in SUBSET Bit
      BY DEF EvInv, WaitInv
    <3>2. "woken" \in ThreadState /\ \A i \in 1..n : got[i] \in SUBSET Bit
      BY <1>1 DEF ThreadState
    <3> QED
      BY <1>12, <1>13, <3>1, <3>2
  <2> QED
    BY <1>1, <2>1
<1>15. \A i \in 1..n : got[i] = Satisfying(call[line[i]].arg, (set \cup s) \ Cleared(got, i))
  <2> SUFFICES ASSUME NEW i \in 1..n
               PROVE  got[i] = Satisfying(call[line[i]].arg, (set \cup s) \ Cleared(got, i))
    OBVIOUS
  <2>1. Len(w) = n
    BY <1>2
  <2>2. got[i] = Satisfying(w[i], (set \cup s) \ UNION {got[j] : j \in {j \in 1..(i - 1) : w[j].clear}})
    BY <1>1, <2>1 DEF Delivery
  <2>3. \A j \in 1..(i - 1) : j \in 1..n /\ w[j] = call[line[j]].arg
    BY <1>2
  <2>4. {j \in 1..(i - 1) : w[j].clear} = {j \in 1..(i - 1) : call[line[j]].arg.clear}
    BY <2>3
  <2> QED
    BY <2>2, <2>4 DEF Cleared
<1>16. set' = (set \cup s) \ Cleared(got, n + 1)
  <2>1. (n + 1) - 1 = n
    BY <1>2
  <2>2. {j \in 1..n : w[j].clear} = {j \in 1..n : call[line[j]].arg.clear}
    OBVIOUS
  <2> QED
    BY <1>1, <2>1, <2>2 DEF Cleared
<1>17. \A t \in Elements(waiting'["event"]) :
         (\E i \in 1..n : line[i] = t /\ got[i] = {}) /\ state'[t] = state[t]
  BY <1>1, <1>9, <1>10
<1>18. Walks(set \cup s, got)
  BY <1>12, <1>13, <1>15, <1>16, <1>17 DEF Walks
<1> QED
  BY <1>1, <1>11, <1>14, <1>18

LEMMA SendKeeps ==
    ASSUME EvInv, NEW s \in SUBSET Bit, EvSend(s)
    PROVE  EvInv'
<1> DEFINE line == waiting["event"]
           n == Len(line)
           b == set \cup s
<1>1. PICK got \in [1..n -> SUBSET Bit] : Walks(b, got)
  BY SendWalks
<1>2. /\ waiting' \in [List -> Seq(Thread)] /\ Distinct(waiting'["event"])
      /\ \A l \in List \ {"event"} : waiting'[l] = waiting[l]
      /\ state' \in [Thread -> ThreadState] /\ received' \in [Thread -> SUBSET Bit]
      /\ call' = call
  BY SendWalks
<1>3. ASSUME NEW t \in Elements(waiting'["event"])
      PROVE  t \in Elements(line) /\ state'[t] = state[t] /\ Satisfying(call[t].arg, set') = {}
  <2>1. PICK i \in 1..n : line[i] = t /\ got[i] = {}
    BY <1>1, <1>3 DEF Walks
  <2>2. t \in Elements(line) /\ call[t].arg \in Requests
    BY <2>1 DEF Elements, EvInv
  <2>3. Satisfying(call[t].arg, b \ Cleared(got, i)) = {}
    BY <1>1, <2>1 DEF Walks
  <2>4. n \in Nat
    BY EvKinds DEF EvInv, WaitInv
  <2>5. Cleared(got, i) \subseteq Cleared(got, n + 1)
    BY <2>4 DEF Cleared
  <2>6. set' \subseteq b \ Cleared(got, i)
    BY <1>1, <2>5 DEF Walks
  <2> QED
    BY <1>1, <1>3, <2>2, <2>3, <2>6, LessSatisfies DEF Walks
<1>4. WaitInv(EvKind)'
  <2>1. /\ WaitInv(EvKind) /\ call' = [t \in Thread |-> call'[t]]
    BY <1>2 DEF EvInv, WaitInv
  <2>2. \A l \in List : /\ Distinct(waiting'[l])
                        /\ Elements(waiting'[l]) \subseteq Elements(waiting[l])
    BY <1>2, <1>3, <2>1 DEF WaitInv
  <2>3. \A l \in List : l # "event" => Elements(waiting[l]) = {}
    BY <2>1, HeadElement DEF WaitInv, EvKind
  <2>4. \A l \in List : \A t \in Elements(waiting'[l]) : state'[t] = state[t] /\ call'[t] = call[t]
    BY <1>2, <1>3, <2>2, <2>3
  <2> QED
    BY <1>2, <2>1, <2>2, <2>4, FewerWait
<1>5. \A t \in Elements(waiting'["event"]) :
        call'[t].arg \in Requests /\ Satisfying(call'[t].arg, set') = {}
  BY <1>2, <1>3 DEF EvInv
<1>6. NoEventMissed'
  BY <1>5 DEF NoEventMissed, Elements
<1> QED
  BY <1>2, <1>4, <1>5, <1>6 DEF EvInv

LEMMA EvInvNext == EvInv /\ [EvNext]_<<waitVars, evVars>> => EvInv'
<1> SUFFICES ASSUME EvInv, [EvNext]_<<waitVars, evVars>> PROVE EvInv'
  OBVIOUS
<1>1. CASE UNCHANGED <<waitVars, evVars>>
  BY <1>1 DEF waitVars, evVars, EvInv, WaitInv, NoEventMissed
<1>2. ASSUME NEW t \in Thread, RecvReturns(t) PROVE EvInv'
  <2>1. WaitInv(EvKind)' /\ UNCHANGED <<waiting, evVars>> /\ Leaves(t) /\ state[t] = "woken"
    BY <1>2, RunsOn DEF RecvReturns, EvInv
  <2>2. \A u \in Elements(waiting["event"]) : u \in Thread /\ u # t
    BY <2>1, WaitersSleep
  <2>3. \A u \in Elements(waiting'["event"]) : call'[u] = call[u]
    BY <2>1, <2>2 DEF Leaves, EvInv, WaitInv
  <2> QED
    BY <2>1, <2>3, LessWaits DEF evVars, EvInv
<1>3. ASSUME NEW t \in Thread, WaitFails(t), UNCHANGED evVars PROVE EvInv'
  <2>1. WaitInv(EvKind)' /\ UNCHANGED waiting /\ Leaves(t) /\ state[t] = "failed"
    BY <1>3, WaitFailsKeeps DEF WaitFails, EvInv
  <2>2. \A u \in Elements(waiting["event"]) : u \in Thread /\ u # t
    BY <2>1, WaitersSleep
  <2>3. \A u \in Elements(waiting'["event"]) : call'[u] = call[u]
    BY <2>1, <2>2 DEF Leaves, EvInv, WaitInv
  <2> QED
    BY <1>3, <2>1, <2>3, LessWaits DEF evVars, EvInv
<1>4. ASSUME NEW t \in Thread, Timeout(t), UNCHANGED evVars PROVE EvInv'
  <2>1. WaitInv(EvKind)' /\ call' = call
    BY <1>4, TimeoutKeeps DEF Timeout, EvInv
  <2>2. Elements(waiting'["event"]) \subseteq Elements(waiting["event"])
    <3>1. waiting["event"] \in Seq(Thread) /\ waiting'["event"] = Without(waiting["event"], t)
      BY <1>4, EvKinds DEF Timeout, EvInv, WaitInv
    <3> QED
      BY <3>1, WithoutElements
  <2> QED
    BY <1>4, <2>1, <2>2, LessWaits DEF evVars, EvInv
<1>5. CASE EvReset
  <2>1. WaitInv(EvKind)' /\ waiting'["event"] = <<>>
    BY <1>5, EvKinds, ResumeAllKeeps DEF EvReset, EvInv
  <2>2. Elements(waiting'["event"]) = {}
    BY <2>1 DEF Elements
  <2> QED
    BY <1>5, <2>1, <2>2, LessWaits DEF EvReset, EvInv
<1> QED
  BY <1>1, <1>2, <1>3, <1>4, <1>5, RecvNowKeeps, RecvWaitsKeeps, SendKeeps DEF EvNext

\* No thread sleeps on events that are all there.
THEOREM NoEventMissedHolds == EvSpec => []NoEventMissed
<1>1. EvInv => NoEventMissed
  BY DEF EvInv
<1> QED
  BY <1>1, EvInvInit, EvInvNext, PTL DEF EvSpec

\* The threads a send wakes get what they asked for, and two that clear it do not
\* get the same bit.
LEMMA SendAccounts ==
    ASSUME EvInv, NEW s \in SUBSET Bit, EvSend(s)
    PROVE  /\ \A t \in Served : /\ received'[t] # {}
                                /\ Satisfying(call[t].arg, received'[t]) = received'[t]
           /\ \A t, u \in Served :
                t # u /\ call[t].arg.clear /\ call[u].arg.clear
                  => received'[t] \cap received'[u] = {}
           /\ \A b \in set \ set' : \E t \in Served : call[t].arg.clear /\ b \in received'[t]
<1> DEFINE line == waiting["event"]
           n == Len(line)
           all == set \cup s
<1>1. PICK got \in [1..n -> SUBSET Bit] : Walks(all, got)
  BY SendWalks
<1>2. /\ n \in Nat
      /\ \A i \in 1..n : /\ line[i] \in Thread /\ state[line[i]] = "suspended"
                         /\ call[line[i]].op = "event" /\ call[line[i]].arg \in Requests
  <2>1. n \in Nat /\ \A i \in 1..n : line[i] \in Elements(line)
    BY EvKinds DEF EvInv, WaitInv, Elements
  <2> QED
    BY <2>1, WaitersSleep
<1>3. ASSUME NEW t \in Served
      PROVE  \E i \in 1..n : line[i] = t /\ got[i] # {} /\ received'[t] = got[i]
  <2>1. t \in Thread /\ state[t] = "suspended" /\ state'[t] = "woken"
    BY DEF Served
  <2>2. \/ state'[t] = state[t]
        \/ \E i \in 1..n : line[i] = t /\ got[i] # {}
    BY <1>1, <2>1 DEF Walks
  <2>3. PICK i \in 1..n : line[i] = t /\ got[i] # {}
    BY <2>1, <2>2
  <2>4. received'[t] = got[i]
    BY <1>1, <2>3 DEF Walks
  <2> QED
    BY <2>3, <2>4
<1>4. \A i \in 1..n : got[i] # {} => line[i] \in Served /\ received'[line[i]] = got[i]
  BY <1>1, <1>2 DEF Walks, Served
<1>5. ASSUME NEW t \in Served
      PROVE  received'[t] # {} /\ Satisfying(call[t].arg, received'[t]) = received'[t]
  <2>1. PICK i \in 1..n : line[i] = t /\ got[i] # {} /\ received'[t] = got[i]
    BY <1>3
  <2> DEFINE rest == all \ Cleared(got, i)
             w == call[t].arg
  <2>2. got[i] = Satisfying(w, rest) /\ w \in Requests
    BY <1>1, <1>2, <2>1 DEF Walks
  <2> HIDE DEF rest, w
  <2>3. Satisfying(w, Satisfying(w, rest)) = Satisfying(w, rest)
    BY <2>2, SatisfyingIs
  <2> QED
    BY <2>1, <2>2, <2>3 DEF w
<1>6. ASSUME NEW i \in 1..n, NEW j \in 1..n, i < j, call[line[i]].arg.clear
      PROVE  got[i] \cap got[j] = {}
  <2> DEFINE rest == all \ Cleared(got, j)
             w == call[line[j]].arg
  <2>1. got[j] \subseteq all \ Cleared(got, j)
    <3>1. got[j] = Satisfying(w, rest) /\ w \in Requests
      BY <1>1, <1>2 DEF Walks
    <3> HIDE DEF rest, w, line
    <3>2. Satisfying(w, rest) \subseteq rest
      BY <3>1, SatisfyingIs
    <3>3. got[j] \subseteq rest
      BY <3>1, <3>2
    <3> QED
      BY <3>3 DEF rest
  <2>2. i \in 1..(j - 1)
    BY <1>2, <1>6
  <2>3. got[i] \subseteq Cleared(got, j)
    BY <1>6, <2>2 DEF Cleared
  <2> QED
    BY <2>1, <2>3
<1>7. ASSUME NEW t \in Served, NEW u \in Served, t # u,
             call[t].arg.clear, call[u].arg.clear
      PROVE  received'[t] \cap received'[u] = {}
  <2>1. PICK i \in 1..n : line[i] = t /\ received'[t] = got[i]
    BY <1>3
  <2>2. PICK j \in 1..n : line[j] = u /\ received'[u] = got[j]
    BY <1>3
  <2>3. i < j \/ j < i
    BY <1>2, <1>7, <2>1, <2>2
  <2> QED
    BY <1>6, <1>7, <2>1, <2>2, <2>3
<1>8. ASSUME NEW b \in set \ set'
      PROVE  \E t \in Served : call[t].arg.clear /\ b \in received'[t]
  <2>1. b \in Cleared(got, n + 1) /\ (n + 1) - 1 = n
    BY <1>1, <1>2, <1>8 DEF Walks
  <2>2. PICK i \in 1..n : call[line[i]].arg.clear /\ b \in got[i]
    BY <2>1 DEF Cleared
  <2> QED
    BY <1>4, <2>2
<1> QED
  BY <1>5, <1>7, <1>8

\* However many threads one rt_event_send wakes: each gets bits that satisfy its
\* request, no bit goes to two receivers that clear it, and no bit is lost.
THEOREM EventsAccountedHolds == EvSpec => EventsAccounted
<1> DEFINE Accounts ==
             /\ \A t \in Served : /\ received'[t] # {}
                                  /\ Satisfying(call[t].arg, received'[t]) = received'[t]
             /\ \A t, u \in Served :
                  t # u /\ call[t].arg.clear /\ call[u].arg.clear
                    => received'[t] \cap received'[u] = {}
             /\ \A b \in set \ set' :
                  \/ \E t \in Served : call[t].arg.clear /\ b \in received'[t]
                  \/ \E t \in Thread, w \in Want : w.clear /\ b \in w.bits /\ RecvNow(t, w)
                  \/ EvReset
<1>1. EvInv /\ [EvNext]_<<waitVars, evVars>> => [Accounts]_<<waitVars, evVars>>
  <2> SUFFICES ASSUME EvInv, EvNext PROVE Accounts
    OBVIOUS
  <2>1. CASE \E s \in (SUBSET Bit) \ {{}} : EvSend(s)
    BY <2>1, SendAccounts
  <2>2. ASSUME Served = {}, set' = set \/ EvReset PROVE Accounts
    BY <2>2
  <2>3. ASSUME NEW t \in Thread, NEW w \in Want, RecvNow(t, w) PROVE Accounts
    <3>1. Served = {} /\ \A b \in set \ set' : w.clear /\ b \in w.bits
      BY <2>3 DEF RecvNow, Served
    <3> QED
      BY <2>3, <3>1
  <2>4. ASSUME NEW t \in Thread, NEW w \in Want, NEW left \in BOOLEAN, RecvWaits(t, w, left)
        PROVE  Served = {} /\ set' = set
    BY <2>4 DEF RecvWaits, SuspendOn, Served, EvInv, WaitInv
  <2>5. ASSUME NEW t \in Thread,
               RecvReturns(t) \/ ((WaitFails(t) \/ Timeout(t)) /\ UNCHANGED evVars)
        PROVE  Served = {} /\ set' = set
    BY <2>5 DEF RecvReturns, WaitFails, Timeout, Served, evVars, EvInv, WaitInv
  <2>6. CASE EvReset
    <3>1. Served = {}
      BY <2>6 DEF EvReset, ResumeAll, Served
    <3> QED
      BY <2>2, <2>6, <3>1
  <2> QED
    BY <2>1, <2>2, <2>3, <2>4, <2>5, <2>6 DEF EvNext
<1> QED
  BY <1>1, EvInvInit, EvInvNext, PTL DEF EvSpec, EventsAccounted

-----------------------------------------------------------------------------
(* Completions *)

\* The calls that sleep on the list of the completion.
CpKind == [completion |-> "complete"]

\* The inductive invariant of a completion.
CpInv ==
    /\ WaitInv(CpKind)
    /\ \A t \in Thread : state[t] # "run" => t \in Awaiting /\ call[t] = Awaits
    /\ CompletionWakes

\* The list of a completion and its kind.
LEMMA CpKinds ==
    /\ "completion" \in List /\ "completion" \in DOMAIN CpKind
    /\ CpKind["completion"] = "complete"
  BY CompletionAssumption DEF CpKind

\* While the thread that waits is awake and goes on by itself, nobody sleeps and
\* nobody else was woken.
LEMMA OnlyOneAwaits ==
    ASSUME CpInv, NEW t \in Awaiting, state[t] # "suspended"
    PROVE  /\ waiting["completion"] = <<>>
           /\ Woken("complete") \subseteq {t}
<1>1. waiting["completion"] \in Seq(Thread)
  BY CpKinds DEF CpInv, WaitInv
<1>2. waiting["completion"] # <<>> => Head(waiting["completion"]) \in Elements(waiting["completion"])
  BY <1>1, TailElements
<1>3. \A u \in Elements(waiting["completion"]) : u \in Awaiting /\ state[u] = "suspended"
  <2>1. \A u \in Elements(waiting["completion"]) : state[u] = "suspended"
    BY CpKinds DEF CpInv, WaitInv
  <2>2. Elements(waiting["completion"]) \subseteq Thread
    BY <1>1 DEF Elements
  <2> QED
    BY <2>1, <2>2 DEF CpInv
<1> QED
  BY <1>2, <1>3, CompletionAssumption DEF CpInv, Woken

\* The flag is set, and the sleeper is woken.
LEMMA SetsKeeps ==
    ASSUME CpInv, NEW running \in SUBSET Thread, Sets(running),
           \A u \in running : state[u] = "run",
           call' = [u \in Thread |-> call'[u]],
           \A u \in Thread \ running : call'[u] = call[u]
    PROVE  CpInv'
<1>1. /\ ResumeFirst("completion", running) /\ completed'
      /\ \A u \in running : state[u] # "suspended"
  BY DEF Sets
<1>2. WaitInv(CpKind)'
  BY <1>1, CpKinds, ResumeFirstKeeps DEF CpInv
<1>3. waiting["completion"] \in Seq(Thread) /\ waiting \in [List -> Seq(Thread)]
  BY CpKinds DEF CpInv, WaitInv
<1>4. waiting["completion"] # <<>> => Len(waiting["completion"]) = 1
  BY DEF CpInv, CompletionWakes
<1>5. waiting'["completion"] = <<>>
  <2>1. CASE waiting["completion"] = <<>>
    BY <1>1, <1>3, <2>1, CpKinds DEF ResumeFirst
  <2>2. CASE waiting["completion"] # <<>>
    <3>1. waiting'["completion"] = Tail(waiting["completion"])
      BY <1>1, <1>3, <2>2, CpKinds DEF ResumeFirst
    <3>2. Tail(waiting["completion"]) \in Seq(Thread) /\ Len(Tail(waiting["completion"])) = 0
      BY <1>3, <1>4, <2>2, TailElements
    <3> QED
      BY <3>1, <3>2, EmptySeq
  <2> QED
    BY <2>1, <2>2
<1>6. ASSUME NEW u \in Thread, state'[u] # "run" PROVE u \in Awaiting /\ call'[u] = Awaits
  <2>1. u \notin running /\ state[u] # "run"
    <3> DEFINE first == IF waiting["completion"] = <<>> THEN {}
                        ELSE {Head(waiting["completion"])}
    <3>1. state'[u] = IF u \in first THEN "woken" ELSE IF u \in running THEN "run" ELSE state[u]
      BY <1>1 DEF ResumeFirst
    <3>2. u \in first => state[u] = "suspended"
      <4>1. waiting["completion"] # <<>> =>
              Head(waiting["completion"]) \in Elements(waiting["completion"])
        BY <1>3, HeadElement
      <4>2. \A v \in Elements(waiting["completion"]) : state[v] = "suspended"
        BY CpKinds DEF CpInv, WaitInv
      <4> QED
        BY <4>1, <4>2
    <3> QED
      BY <1>1, <1>6, <3>1, <3>2 DEF Sets
  <2> QED
    BY <2>1 DEF CpInv
<1> QED
  BY <1>1, <1>2, <1>5, <1>6 DEF CpInv, CompletionWakes

\* The invariant holds where nobody has called yet.
LEMMA CpInvInit == WaitersInit /\ CpInit => CpInv
<1> SUFFICES ASSUME WaitersInit, CpInit PROVE CpInv
  OBVIOUS
<1>1. WaitInv(CpKind) /\ \A t \in Thread : call[t] = NoCall /\ state[t] = "run"
  BY WaitersStart
<1>2. waiting["completion"] = <<>> /\ Woken("complete") = {}
  BY <1>1, CpKinds DEF WaitersInit, Woken
<1> QED
  BY <1>1, <1>2 DEF CpInv, CompletionWakes

\* Every call of a completion keeps its invariant.
LEMMA CpInvNext == CpInv /\ [CpNext]_<<waitVars, completed>> => CpInv'
<1> SUFFICES ASSUME CpInv, [CpNext]_<<waitVars, completed>> PROVE CpInv'
  OBVIOUS
<1>1. Awaiting \subseteq Thread
  BY CompletionAssumption
<1>2. ASSUME NEW t \in Awaiting, AwaitNow(t) PROVE CpInv'
  <2>1. waiting["completion"] = <<>> /\ Woken("complete") = {}
    BY <1>2, OnlyOneAwaits DEF AwaitNow, Idle, Woken
  <2> QED
    BY <1>2, <2>1 DEF AwaitNow, waitVars, CpInv, WaitInv, CompletionWakes, Woken
<1>3. ASSUME NEW t \in Awaiting, NEW left \in BOOLEAN, AwaitWaits(t, left) PROVE CpInv'
  <2>1. /\ state[t] = "run" /\ waiting["completion"] = <<>> /\ ~ completed /\ completed' = completed
        /\ t \in Thread
    BY <1>1, <1>3, OnlyOneAwaits DEF AwaitWaits, Idle
  <2>2. CASE left
    <3>1. SuspendLast("completion", t, Awaits)
      BY <1>3, <2>2 DEF AwaitWaits
    <3>2. Awaits.op = CpKind["completion"] /\ Suspends("completion", t, Awaits)
      BY <3>1, CpKinds DEF Awaits, Suspends
    <3>3. WaitInv(CpKind)' /\ Woken("complete")' = Woken("complete") \ {t}
      BY <2>1, <3>2, CpKinds, SuspendsKeeps DEF CpInv
    <3>4. Len(waiting'["completion"]) = 1
      BY <2>1, <3>1, CpKinds DEF SuspendLast, CpInv, WaitInv
    <3>5. \A u \in Thread : state'[u] # "run" => u \in Awaiting /\ call'[u] = Awaits
      BY <3>1 DEF SuspendLast, CpInv, WaitInv
    <3> QED
      BY <2>1, <3>3, <3>4, <3>5 DEF CpInv, CompletionWakes
  <2>3. CASE ~ left
    <3>1. UNCHANGED <<waiting, state, call, completed>>
      BY <1>3, <2>3 DEF AwaitWaits, waitVars
    <3>2. Woken("complete")' = Woken("complete")
      BY <3>1 DEF Woken
    <3> QED
      BY <3>1, <3>2 DEF CpInv, WaitInv, CompletionWakes
  <2> QED
    BY <2>2, <2>3
<1>4. ASSUME NEW t \in Awaiting, AwaitReturns(t) PROVE CpInv'
  <2>1. /\ state[t] # "suspended" /\ state' = [state EXCEPT ![t] = "run"]
        /\ Leaves(t) /\ UNCHANGED waiting
    BY <1>4 DEF AwaitReturns
  <2>2. WaitInv(CpKind)' /\ Woken("complete")' = Woken("complete") \ {t}
    BY <1>1, <2>1, RunsOn DEF CpInv
  <2>3. waiting["completion"] = <<>> /\ Woken("complete")' = {}
    BY <2>1, <2>2, OnlyOneAwaits
  <2>4. \A u \in Thread : state'[u] # "run" => u \in Awaiting /\ call'[u] = Awaits
    BY <2>1 DEF Leaves, CpInv, WaitInv
  <2> QED
    BY <2>1, <2>2, <2>3, <2>4 DEF CpInv, CompletionWakes
<1>5. ASSUME NEW t \in Awaiting, Timeout(t), UNCHANGED completed PROVE CpInv'
  <2>1. /\ WaitInv(CpKind)' /\ Woken("complete")' = Woken("complete")
        /\ waiting'["completion"] # <<>> => waiting["completion"] # <<>>
        /\ Len(waiting'["completion"]) <= Len(waiting["completion"])
        /\ Len(waiting'["completion"]) \in Nat /\ waiting'["completion"] \in Seq(Thread)
    BY <1>1, <1>5, TimeoutKeeps, CpKinds DEF CpInv, WaitInv
  <2>2. waiting'["completion"] # <<>> => Len(waiting'["completion"]) # 0
    BY <2>1
  <2>3. \A u \in Thread : state'[u] # "run" => u \in Awaiting /\ call'[u] = Awaits
    BY <1>5 DEF Timeout, CpInv, WaitInv
  <2>4. waiting'["completion"] # <<>> => ~ completed'
    BY <1>5, <2>1 DEF CpInv, CompletionWakes
  <2>5. waiting'["completion"] # <<>> => Len(waiting'["completion"]) = 1
    <3> DEFINE n == Len(waiting'["completion"])
    <3>1. waiting'["completion"] # <<>> =>
            n \in Nat /\ n # 0 /\ n <= 1
      BY <2>1, <2>2 DEF CpInv, CompletionWakes
    <3> HIDE DEF n
    <3>2. waiting'["completion"] # <<>> => n = 1
      BY <3>1
    <3> QED
      BY <3>2 DEF n
  <2>6. Woken("complete")' # {} => completed'
    BY <1>5, <2>1 DEF CpInv, CompletionWakes
  <2> QED
    BY <2>1, <2>3, <2>4, <2>5, <2>6 DEF CpInv, CompletionWakes
<1>6. ASSUME NEW t \in Thread, DoneReads(t) PROVE CpInv'
  <2>1. /\ state[t] = "run" /\ state' = [state EXCEPT ![t] = "run"] /\ UNCHANGED waiting
        /\ call' = [call EXCEPT ![t] = Completes] /\ completed' = completed /\ state' = state
    BY <1>6 DEF DoneReads, Idle, CpInv, WaitInv
  <2>2. WaitInv(CpKind)' /\ Woken("complete")' = Woken("complete") \ {t}
    BY <2>1, RunsOn DEF CpInv
  <2>3. \A u \in Thread : state'[u] # "run" => u \in Awaiting /\ call'[u] = Awaits
    BY <2>1 DEF CpInv, WaitInv
  <2> QED
    BY <2>1, <2>2, <2>3 DEF CpInv, CompletionWakes
<1>7. ASSUME NEW t \in Thread, DoneSets(t) PROVE CpInv'
  <2>1. call' = [u \in Thread |-> call'[u]] /\ \A u \in Thread \ {t} : call'[u] = call[u]
    BY <1>7 DEF DoneSets, Leaves, CpInv, WaitInv
  <2> QED
    BY <1>7, <2>1, SetsKeeps DEF DoneSets
<1>8. ASSUME DoneIsr PROVE CpInv'
  <2>1. call' = [u \in Thread |-> call'[u]] /\ \A u \in Thread : call'[u] = call[u]
    BY <1>8 DEF DoneIsr, CpInv, WaitInv
  <2> QED
    BY <1>8, <2>1, SetsKeeps DEF DoneIsr
<1>9. CASE UNCHANGED <<waitVars, completed>>
  BY <1>9 DEF waitVars, CpInv, WaitInv, CompletionWakes, Woken
<1> QED
  BY <1>2, <1>3, <1>4, <1>5, <1>6, <1>7, <1>8, <1>9 DEF CpNext

\* Nobody sleeps next to a completion that is completed, the assertion that one
\* thread sleeps there holds, and a thread that was woken finds the flag set.
THEOREM CompletionWakesHolds == CpSpec => []CompletionWakes
<1>1. CpInv => CompletionWakes
  BY DEF CpInv
<1> QED
  BY <1>1, CpInvInit, CpInvNext, PTL DEF CpSpec
=============================================================================
