----------------------------- MODULE ListTheorems -----------------------------
(* What taking a node off a list, and putting one on it, does to the list, *)
(* and what a remainder is.                                                *)
EXTENDS Lists, SequenceTheorems, FiniteSetTheorems, TLAPS

\* No element is on s twice.
Distinct(s) == \A i, j \in 1..Len(s) : s[i] = s[j] => i = j

\* w is s without its i-th element.
Skips(w, s, i) ==
    /\ Len(w) = Len(s) - 1
    /\ \A j \in 1..(Len(s) - 1) : w[j] = IF j < i THEN s[j] ELSE s[j + 1]

\* w is s with x in front of its i-th element.
Widens(w, s, i, x) ==
    /\ Len(w) = Len(s) + 1
    /\ w[i] = x
    /\ \A j \in 1..(Len(s) + 1) : j # i => w[j] = IF j < i THEN s[j] ELSE s[j - 1]

\* The elements of s come in the order of the numbers f gives them.
Ordered(s, f) == \A i, j \in 1..Len(s) : i < j => f[s[i]] <= f[s[j]]

\* A list that x is not on is left as it is.
LEMMA WithoutAbsent ==
    ASSUME NEW s, NEW x, x \notin Elements(s)
    PROVE  Without(s, x) = s
  BY DEF Without, Elements

\* The i-th element is cut out, and what follows it moves up.
LEMMA CutShifts ==
    ASSUME NEW S, NEW s \in Seq(S), NEW i \in 1..Len(s)
    PROVE  /\ SubSeq(s, 1, i - 1) \o SubSeq(s, i + 1, Len(s)) \in Seq(S)
           /\ Skips(SubSeq(s, 1, i - 1) \o SubSeq(s, i + 1, Len(s)), s, i)
<1> DEFINE a == SubSeq(s, 1, i - 1)
           b == SubSeq(s, i + 1, Len(s))
<1>1. /\ a \in Seq(S) /\ Len(a) = i - 1
      /\ \A j \in 1..(i - 1) : a[j] = s[j]
  BY SubSeqProperties
<1>2. /\ b \in Seq(S) /\ Len(b) = Len(s) - i
      /\ \A j \in 1..(Len(s) - i) : b[j] = s[j + i]
  BY SubSeqProperties
<1> HIDE DEF a, b
<1>3. /\ a \o b \in Seq(S)
      /\ Len(a \o b) = Len(s) - 1
      /\ \A j \in 1..(Len(s) - 1) :
           (a \o b)[j] = IF j <= i - 1 THEN a[j] ELSE b[j - (i - 1)]
  <2>1. Len(s) \in Nat /\ i \in 1..Len(s)
    BY LenProperties
  <2>2. Len(a) + Len(b) = Len(s) - 1
    BY <1>1, <1>2, <2>1
  <2>3. /\ a \o b \in Seq(S) /\ Len(a \o b) = Len(a) + Len(b)
        /\ \A j \in 1..(Len(a) + Len(b)) :
             (a \o b)[j] = IF j <= Len(a) THEN a[j] ELSE b[j - Len(a)]
    BY <1>1, <1>2, ConcatProperties
  <2> QED
    BY <1>1, <2>2, <2>3
<1>4. \A j \in 1..(Len(s) - 1) : (a \o b)[j] = IF j < i THEN s[j] ELSE s[j + 1]
  <2> TAKE j \in 1..(Len(s) - 1)
  <2>1. CASE j < i
    BY <1>1, <1>3, <2>1, LenProperties
  <2>2. CASE ~(j < i)
    <3>1. j - (i - 1) \in 1..(Len(s) - i) /\ (j - (i - 1)) + i = j + 1
      BY <2>2, LenProperties
    <3> QED
      BY <1>2, <1>3, <2>2, <3>1, LenProperties
  <2> QED
    BY <2>1, <2>2
<1> QED
  BY <1>3, <1>4 DEF Skips, a, b

\* One occurrence of x is taken off, and what follows it moves up.
LEMMA WithoutShifts ==
    ASSUME NEW S, NEW s \in Seq(S), NEW x, x \in Elements(s)
    PROVE  \E i \in 1..Len(s) :
             /\ s[i] = x
             /\ Without(s, x) \in Seq(S)
             /\ Skips(Without(s, x), s, i)
<1> DEFINE i == CHOOSE i \in 1..Len(s) : s[i] = x
<1>1. i \in 1..Len(s) /\ s[i] = x
  BY DEF Elements
<1>2. Without(s, x) = SubSeq(s, 1, i - 1) \o SubSeq(s, i + 1, Len(s))
  BY <1>1 DEF Without
<1> HIDE DEF i
<1> QED
  BY <1>1, <1>2, CutShifts

\* A list without x has no elements that it did not have before.
LEMMA WithoutElements ==
    ASSUME NEW S, NEW s \in Seq(S), NEW x
    PROVE  /\ Without(s, x) \in Seq(S)
           /\ Elements(Without(s, x)) \subseteq Elements(s)
           /\ Elements(s) \subseteq Elements(Without(s, x)) \cup {x}
<1>1. CASE x \notin Elements(s)
  BY <1>1, WithoutAbsent
<1>2. CASE x \in Elements(s)
  <2>1. PICK i \in 1..Len(s) :
          s[i] = x /\ Without(s, x) \in Seq(S) /\ Skips(Without(s, x), s, i)
    BY <1>2, WithoutShifts
  <2>2. ASSUME NEW j \in 1..(Len(s) - 1)
        PROVE  Without(s, x)[j] \in Elements(s)
    BY <2>1, LenProperties DEF Elements, Skips
  <2>3. ASSUME NEW j \in 1..Len(s), s[j] # x
        PROVE  \E k \in 1..(Len(s) - 1) : Without(s, x)[k] = s[j]
    <3>1. CASE j < i
      BY <2>1, <3>1, LenProperties DEF Skips
    <3>2. CASE j > i
      <4>1. j - 1 \in 1..(Len(s) - 1) /\ ~(j - 1 < i) /\ (j - 1) + 1 = j
        BY <3>2, LenProperties
      <4> QED
        BY <2>1, <4>1 DEF Skips
    <3> QED
      BY <2>1, <2>3, <3>1, <3>2, LenProperties
  <2> QED
    BY <2>1, <2>2, <2>3 DEF Elements, Skips
<1> QED
  BY <1>1, <1>2

\* Taking x off a list without repetitions leaves one without x.
LEMMA WithoutDistinct ==
    ASSUME NEW S, NEW s \in Seq(S), NEW x, Distinct(s)
    PROVE  /\ Distinct(Without(s, x))
           /\ Elements(Without(s, x)) = Elements(s) \ {x}
<1>1. CASE x \notin Elements(s)
  BY <1>1, WithoutAbsent
<1>2. CASE x \in Elements(s)
  <2>1. PICK i \in 1..Len(s) :
          s[i] = x /\ Without(s, x) \in Seq(S) /\ Skips(Without(s, x), s, i)
    BY <1>2, WithoutShifts
  <2> DEFINE w == Without(s, x)
             from(j) == IF j < i THEN j ELSE j + 1
  <2>2. /\ Len(s) \in Nat /\ Len(w) = Len(s) - 1
        /\ \A j \in 1..Len(w) : from(j) \in 1..Len(s) /\ from(j) # i /\ w[j] = s[from(j)]
    BY <2>1, LenProperties DEF Skips
  <2> HIDE DEF w
  <2>3. Distinct(w)
    <3> SUFFICES ASSUME NEW j \in 1..Len(w), NEW k \in 1..Len(w), w[j] = w[k]
                 PROVE  j = k
      BY DEF Distinct
    <3>1. from(j) = from(k)
      BY <2>2 DEF Distinct
    <3> QED
      BY <2>2, <3>1
  <2>4. x \notin Elements(w)
    BY <2>1, <2>2 DEF Elements, Distinct
  <2> QED
    BY <2>3, <2>4, WithoutElements DEF w
<1> QED
  BY <1>1, <1>2

\* rt_list_insert_before the head: x becomes the last element.
LEMMA AppendElements ==
    ASSUME NEW S, NEW s \in Seq(S), NEW x \in S
    PROVE  /\ Append(s, x) \in Seq(S)
           /\ Elements(Append(s, x)) = Elements(s) \cup {x}
           /\ Distinct(s) /\ x \notin Elements(s) => Distinct(Append(s, x))
<1>1. /\ Append(s, x) \in Seq(S)
      /\ Len(s) \in Nat /\ Len(Append(s, x)) = Len(s) + 1
      /\ \A j \in 1..Len(s) : Append(s, x)[j] = s[j]
      /\ Append(s, x)[Len(s) + 1] = x
  BY AppendProperties, LenProperties
<1> QED
  BY <1>1 DEF Elements, Distinct

\* rt_list_insert_after the head: x becomes the first element.
LEMMA PushElements ==
    ASSUME NEW S, NEW s \in Seq(S), NEW x \in S
    PROVE  /\ <<x>> \o s \in Seq(S)
           /\ Elements(<<x>> \o s) = Elements(s) \cup {x}
           /\ Distinct(s) /\ x \notin Elements(s) => Distinct(<<x>> \o s)
<1> DEFINE w == <<x>> \o s
<1>1. /\ w \in Seq(S)
      /\ Len(s) \in Nat /\ Len(w) = Len(s) + 1
      /\ w[1] = x
      /\ \A j \in 1..Len(s) : w[j + 1] = s[j]
  OBVIOUS
<1>2. \A j \in 1..Len(w) : j # 1 => j - 1 \in 1..Len(s) /\ w[j] = s[j - 1]
  <2> SUFFICES ASSUME NEW j \in 1..Len(w), j # 1
               PROVE  j - 1 \in 1..Len(s) /\ w[j] = s[j - 1]
    OBVIOUS
  <2>1. j - 1 \in 1..Len(s) /\ (j - 1) + 1 = j
    BY <1>1
  <2> QED
    BY <1>1, <2>1
<1> HIDE DEF w
<1>3. Elements(w) = Elements(s) \cup {x}
  <2>1. ASSUME NEW j \in 1..Len(w) PROVE w[j] \in Elements(s) \cup {x}
    <3>1. CASE j = 1
      BY <1>1, <3>1
    <3>2. CASE j # 1
      BY <1>2, <3>2 DEF Elements
    <3> QED
      BY <3>1, <3>2
  <2>2. ASSUME NEW j \in 1..Len(s) PROVE s[j] \in Elements(w)
    BY <1>1, j + 1 \in 1..Len(w) DEF Elements
  <2>3. x \in Elements(w)
    BY <1>1 DEF Elements
  <2> QED
    BY <2>1, <2>2, <2>3 DEF Elements
<1>4. ASSUME Distinct(s), x \notin Elements(s) PROVE Distinct(w)
  <2> SUFFICES ASSUME NEW j \in 1..Len(w), NEW k \in 1..Len(w), w[j] = w[k]
               PROVE  j = k
    BY DEF Distinct
  <2>1. \A n \in 1..Len(s) : s[n] # x
    BY <1>4 DEF Elements
  <2>2. CASE j = 1 \/ k = 1
    BY <1>1, <1>2, <2>1, <2>2
  <2>3. CASE j # 1 /\ k # 1
    <3>1. j - 1 = k - 1
      BY <1>2, <1>4, <2>3 DEF Distinct
    <3> QED
      BY <1>1, <3>1
  <2> QED
    BY <2>2, <2>3
<1> QED
  BY <1>1, <1>3, <1>4 DEF w

\* The first element of a list is one of its elements; an empty list has none.
LEMMA HeadElement ==
    ASSUME NEW S, NEW s \in Seq(S)
    PROVE  /\ s # <<>> => Head(s) \in S /\ Head(s) \in Elements(s)
           /\ s = <<>> <=> Elements(s) = {}
           /\ Elements(s) \subseteq S
<1>1. s # <<>> => 1 \in 1..Len(s) /\ Head(s) = s[1]
  BY HeadTailProperties, EmptySeq, LenProperties
<1>2. \A j \in 1..Len(s) : s[j] \in S
  BY ElementOfSeq, LenProperties
<1>3. s = <<>> => Elements(s) = {}
  BY EmptySeq DEF Elements
<1> QED
  BY <1>1, <1>2, <1>3 DEF Elements

\* A list of distinct nodes without its first one.
LEMMA TailDistinct ==
    ASSUME NEW S, NEW s \in Seq(S), s # <<>>, Distinct(s)
    PROVE  /\ Tail(s) \in Seq(S) /\ Distinct(Tail(s))
           /\ Elements(Tail(s)) = Elements(s) \ {Head(s)}
<1>1. /\ Len(s) \in Nat \ {0} /\ Head(s) = s[1]
      /\ Tail(s) \in Seq(S) /\ Len(Tail(s)) = Len(s) - 1
      /\ \A j \in 1..(Len(s) - 1) : Tail(s)[j] = s[j + 1]
  BY HeadTailProperties, EmptySeq, LenProperties
<1> DEFINE w == Tail(s)
<1> HIDE DEF w
<1>2. Distinct(w)
  <2> SUFFICES ASSUME NEW i \in 1..Len(w), NEW j \in 1..Len(w), w[i] = w[j]
               PROVE  i = j
    BY DEF Distinct
  <2>1. s[i + 1] = s[j + 1] /\ i + 1 \in 1..Len(s) /\ j + 1 \in 1..Len(s)
    BY <1>1 DEF w
  <2> QED
    BY <2>1 DEF Distinct
<1>3. Elements(w) \subseteq Elements(s) \ {s[1]}
  <2> SUFFICES ASSUME NEW j \in 1..Len(w) PROVE w[j] \in Elements(s) /\ w[j] # s[1]
    BY DEF Elements
  <2>1. w[j] = s[j + 1] /\ j + 1 \in 1..Len(s) /\ j + 1 # 1 /\ 1 \in 1..Len(s)
    BY <1>1 DEF w
  <2> QED
    BY <2>1 DEF Elements, Distinct
<1>4. Elements(s) \ {s[1]} \subseteq Elements(w)
  <2> SUFFICES ASSUME NEW j \in 1..Len(s), j # 1 PROVE s[j] \in Elements(w)
    BY DEF Elements
  <2>1. j - 1 \in 1..Len(w) /\ w[j - 1] = s[j]
    BY <1>1 DEF w
  <2> QED
    BY <2>1 DEF Elements
<1> QED
  BY <1>1, <1>2, <1>3, <1>4 DEF w

\* A set of numbers that has a largest one and is not empty has a least one.
LEMMA LeastElement ==
    ASSUME NEW n \in Nat, NEW S \in SUBSET (0..n), S # {}
    PROVE  \E p \in S : \A r \in S : p <= r
<1> DEFINE upTo(p) == S \cap (0..p)
           Up == {upTo(p) : p \in S}
           R == StrictSubsetOrdering(0..n)
<1>1. IsWellFoundedOn(R, FiniteSubsetsOf(0..n))
  BY FS_StrictSubsetOrderingWellFounded
<1>2. FiniteSubsetsOf(0..n) = SUBSET (0..n)
  <2>1. IsFiniteSet(0..n)
    BY FS_Interval
  <2> QED
    BY <2>1, FS_FiniteSubsetsOfFinite
<1>3. Up \subseteq SUBSET (0..n) /\ Up # {}
  OBVIOUS
<1>4. \E low \in Up : \A u \in Up : ~ (<<u, low>> \in R)
  <2> HIDE DEF R, Up
  <2>1. IsWellFoundedOn(R, SUBSET (0..n))
    BY <1>1, <1>2
  <2> QED
    BY <1>3, <2>1, WFMin
<1>5. PICK p \in S : \A u \in Up : ~ (<<u, upTo(p)>> \in R)
  BY <1>4
<1>6. ASSUME NEW r \in S, r < p PROVE FALSE
  <2>1. upTo(r) \subseteq upTo(p) /\ p \in upTo(p) /\ p \notin upTo(r)
    BY <1>6
  <2>2. <<upTo(r), upTo(p)>> \in R
    BY <1>3, <2>1 DEF StrictSubsetOrdering
  <2> QED
    BY <1>5, <2>2
<1> QED
  BY <1>6

\* rt_list_insert_before the i-th element: what is behind it moves down.
LEMMA InsertedShifts ==
    ASSUME NEW S, NEW s \in Seq(S), NEW x \in S, NEW i \in 1..Len(s)
    PROVE  InsertedAt(s, i, x) \in Seq(S) /\ Widens(InsertedAt(s, i, x), s, i, x)
<1> DEFINE a == SubSeq(s, 1, i - 1)
           b == SubSeq(s, i, Len(s))
           w == InsertedAt(s, i, x)
<1>1. /\ a \in Seq(S) /\ Len(a) = i - 1
      /\ \A j \in 1..(i - 1) : a[j] = s[j]
  BY SubSeqProperties, LenProperties
<1>2. /\ b \in Seq(S) /\ Len(b) = Len(s) - i + 1
      /\ \A j \in 1..(Len(s) - i + 1) : b[j] = s[j + i - 1]
  BY SubSeqProperties, LenProperties
<1> DEFINE c == a \o <<x>>
<1>3. w = c \o b
  BY DEF InsertedAt
<1> HIDE DEF a, b, w
<1>4. /\ c \in Seq(S) /\ Len(c) = i
      /\ \A j \in 1..(i - 1) : c[j] = s[j]
      /\ c[i] = x
  BY <1>1
<1> HIDE DEF c
<1> DEFINE from(j) == IF j < i THEN j ELSE j - 1
<1>5. /\ w \in Seq(S) /\ Len(s) \in Nat /\ Len(w) = Len(s) + 1
      /\ w[i] = x
      /\ \A j \in 1..(Len(s) + 1) : j # i => from(j) \in 1..Len(s) /\ w[j] = s[from(j)]
  <2>1. w \in Seq(S) /\ Len(s) \in Nat /\ Len(w) = Len(s) + 1
    <3>1. w \in Seq(S) /\ Len(w) = Len(c) + Len(b) /\ Len(s) \in Nat
      BY <1>2, <1>3, <1>4, LenProperties, ConcatProperties
    <3> QED
      BY <1>2, <1>4, <3>1
  <2>2. \A j \in 1..Len(w) : w[j] = IF j <= i THEN c[j] ELSE b[j - i]
    BY <1>2, <1>3, <1>4, ConcatProperties
  <2>3. ASSUME NEW j \in 1..(Len(s) + 1), j # i
        PROVE  from(j) \in 1..Len(s) /\ w[j] = s[from(j)]
    <3>1. CASE j < i
      <4>1. j \in 1..(i - 1) /\ j \in 1..Len(w) /\ j \in 1..Len(s)
        BY <2>1, <3>1
      <4>2. w[j] = c[j]
        BY <2>2, <3>1, <4>1
      <4> QED
        BY <1>4, <3>1, <4>1, <4>2
    <3>2. CASE j > i
      <4>1. j - i \in 1..(Len(s) - i + 1) /\ (j - i) + i - 1 = j - 1
        BY <2>1, <3>2
      <4>2. b[j - i] = s[j - 1]
        BY <1>2, <4>1
      <4>3. w[j] = b[j - i] /\ j - 1 \in 1..Len(s)
        BY <2>1, <2>2, <3>2
      <4> QED
        BY <3>2, <4>2, <4>3
    <3> QED
      BY <2>1, <2>3, <3>1, <3>2
  <2> QED
    BY <1>4, <2>1, <2>2, <2>3
<1> QED
  BY <1>5 DEF Widens, w

\* rt_list_insert_before puts x on the list, once.
LEMMA InsertedElements ==
    ASSUME NEW S, NEW s \in Seq(S), NEW x \in S, NEW i \in 1..Len(s)
    PROVE  /\ InsertedAt(s, i, x) \in Seq(S)
           /\ Elements(InsertedAt(s, i, x)) = Elements(s) \cup {x}
           /\ Distinct(s) /\ x \notin Elements(s) => Distinct(InsertedAt(s, i, x))
<1> DEFINE w == InsertedAt(s, i, x)
           from(j) == IF j < i THEN j ELSE j - 1
<1>5. /\ w \in Seq(S) /\ Len(s) \in Nat /\ Len(w) = Len(s) + 1
      /\ w[i] = x
      /\ \A j \in 1..(Len(s) + 1) : j # i => from(j) \in 1..Len(s) /\ w[j] = s[from(j)]
  BY InsertedShifts, LenProperties DEF Widens
<1> HIDE DEF w
<1>6. ASSUME NEW k \in 1..Len(s) PROVE s[k] \in Elements(w)
  <2>1. CASE k < i
    BY <1>5, <2>1, k \in 1..Len(w) DEF Elements
  <2>2. CASE ~(k < i)
    <3>1. k + 1 \in 1..Len(w) /\ k + 1 # i /\ from(k + 1) = k
      BY <1>5, <2>2
    <3> QED
      BY <1>5, <3>1 DEF Elements
  <2> QED
    BY <2>1, <2>2
<1>7. Elements(w) = Elements(s) \cup {x}
  <2>1. \A j \in 1..Len(w) : w[j] \in Elements(s) \cup {x}
    BY <1>5 DEF Elements
  <2>2. x \in Elements(w)
    BY <1>5 DEF Elements
  <2> QED
    BY <1>6, <2>1, <2>2 DEF Elements
<1>8. ASSUME Distinct(s), x \notin Elements(s) PROVE Distinct(w)
  <2> SUFFICES ASSUME NEW j \in 1..Len(w), NEW k \in 1..Len(w), w[j] = w[k]
               PROVE  j = k
    BY DEF Distinct
  <2>1. \A n \in 1..Len(s) : s[n] # x
    BY <1>8 DEF Elements
  <2>2. CASE j = i \/ k = i
    BY <1>5, <2>1, <2>2
  <2>3. CASE j # i /\ k # i
    <3>1. from(j) = from(k)
      BY <1>5, <1>8, <2>3 DEF Distinct
    <3> QED
      BY <1>5, <2>3, <3>1
  <2> QED
    BY <2>2, <2>3
<1> QED
  BY <1>5, <1>7, <1>8 DEF w

\* rt_ipc_list_suspend puts the thread on the list, once, in either order.
LEMMA EnqueuedElements ==
    ASSUME NEW S, NEW s \in Seq(S), NEW t \in S, NEW flag, NEW prio
    PROVE  /\ Enqueued(s, t, flag, prio) \in Seq(S)
           /\ Elements(Enqueued(s, t, flag, prio)) = Elements(s) \cup {t}
           /\ Distinct(s) /\ t \notin Elements(s) => Distinct(Enqueued(s, t, flag, prio))
<1> DEFINE behind == Behind(s, prio[t], prio)
<1>1. CASE flag = "PRIO" /\ behind # {}
  <2> DEFINE i == CHOOSE i \in behind : \A j \in behind : i <= j
  <2>1. behind \in SUBSET (0..Len(s)) /\ Len(s) \in Nat
    BY LenProperties DEF Behind
  <2>2. i \in 1..Len(s)
    <3>1. \E p \in behind : \A j \in behind : p <= j
      BY <1>1, <2>1, LeastElement
    <3> QED
      BY <3>1 DEF Behind
  <2>3. Enqueued(s, t, flag, prio) = InsertedAt(s, i, t)
    BY <1>1 DEF Enqueued
  <2> HIDE DEF i
  <2> QED
    BY <2>2, <2>3, InsertedElements
<1>2. CASE ~(flag = "PRIO" /\ behind # {})
  BY <1>2, AppendElements DEF Enqueued
<1> QED
  BY <1>1, <1>2

-----------------------------------------------------------------------------
(* Order *)

\* A list that is in order stays so when a node is taken off.
LEMMA WithoutOrdered ==
    ASSUME NEW S, NEW s \in Seq(S), NEW x, NEW f, Ordered(s, f)
    PROVE  Ordered(Without(s, x), f)
<1>1. CASE x \notin Elements(s)
  BY <1>1, WithoutAbsent
<1>2. CASE x \in Elements(s)
  <2>1. PICK i \in 1..Len(s) : Skips(Without(s, x), s, i)
    BY <1>2, WithoutShifts
  <2> DEFINE w == Without(s, x)
             from(j) == IF j < i THEN j ELSE j + 1
  <2>2. /\ Len(s) \in Nat /\ Len(w) = Len(s) - 1
        /\ \A j \in 1..Len(w) : from(j) \in 1..Len(s) /\ w[j] = s[from(j)]
    BY <2>1, LenProperties DEF Skips
  <2> HIDE DEF w
  <2>3. ASSUME NEW j \in 1..Len(w), NEW k \in 1..Len(w), j < k
        PROVE  f[w[j]] <= f[w[k]]
    <3>1. from(j) < from(k)
      BY <2>2, <2>3
    <3> QED
      BY <2>2, <3>1 DEF Ordered
  <2> QED
    BY <2>3 DEF Ordered, w
<1> QED
  BY <1>1, <1>2

\* The tail of a list that is in order is in order, and its head comes first.
LEMMA TailOrdered ==
    ASSUME NEW S, NEW s \in Seq(S), s # <<>>, NEW f, Ordered(s, f), \A y \in S : f[y] \in Int
    PROVE  /\ Ordered(Tail(s), f)
           /\ \A y \in Elements(s) : f[Head(s)] <= f[y]
<1>1. /\ Len(s) \in Nat \ {0} /\ Head(s) = s[1]
      /\ Tail(s) \in Seq(S) /\ Len(Tail(s)) = Len(s) - 1
      /\ \A j \in 1..(Len(s) - 1) : Tail(s)[j] = s[j + 1]
  BY HeadTailProperties, EmptySeq, LenProperties
<1>2. Ordered(Tail(s), f)
  BY <1>1 DEF Ordered
<1>3. \A j \in 1..Len(s) : s[j] \in S
  BY ElementOfSeq, LenProperties
<1>4. \A y \in Elements(s) : f[Head(s)] <= f[y]
  <2> SUFFICES ASSUME NEW j \in 1..Len(s) PROVE f[s[1]] <= f[s[j]]
    BY <1>1 DEF Elements
  <2>1. CASE j = 1
    BY <1>1, <1>3, <2>1
  <2>2. CASE j # 1
    BY <1>1, <2>2 DEF Ordered
  <2> QED
    BY <2>1, <2>2
<1> QED
  BY <1>2, <1>4

\* A node that comes after all others may be put at the end.
LEMMA AppendOrdered ==
    ASSUME NEW S, NEW s \in Seq(S), NEW x \in S, NEW f, Ordered(s, f),
           \A y \in Elements(s) : f[y] <= f[x]
    PROVE  Ordered(Append(s, x), f)
<1>1. /\ Len(s) \in Nat /\ Len(Append(s, x)) = Len(s) + 1
      /\ \A j \in 1..Len(s) : Append(s, x)[j] = s[j]
      /\ Append(s, x)[Len(s) + 1] = x
  BY AppendProperties, LenProperties
<1> DEFINE w == Append(s, x)
<1> HIDE DEF w
<1> SUFFICES ASSUME NEW j \in 1..Len(w), NEW k \in 1..Len(w), j < k
             PROVE  f[w[j]] <= f[w[k]]
  BY DEF Ordered, w
<1>2. j \in 1..Len(s) /\ w[j] = s[j]
  BY <1>1 DEF w
<1>3. CASE k = Len(s) + 1
  BY <1>1, <1>2, <1>3 DEF Elements, w
<1>4. CASE k # Len(s) + 1
  <2>1. k \in 1..Len(s) /\ w[k] = s[k]
    BY <1>1, <1>4 DEF w
  <2> QED
    BY <1>2, <2>1 DEF Ordered
<1> QED
  BY <1>3, <1>4

\* A node may be put between those that come before it and those that come after.
LEMMA InsertedOrdered ==
    ASSUME NEW S, NEW s \in Seq(S), NEW x \in S, NEW i \in 1..Len(s), NEW f, Ordered(s, f),
           \A j \in 1..(i - 1) : f[s[j]] <= f[x],
           \A j \in i..Len(s) : f[x] <= f[s[j]]
    PROVE  Ordered(InsertedAt(s, i, x), f)
<1> DEFINE w == InsertedAt(s, i, x)
           from(j) == IF j < i THEN j ELSE j - 1
<1>0. Widens(w, s, i, x) /\ Len(s) \in Nat
  BY InsertedShifts, LenProperties
<1> HIDE DEF w
<1>1. /\ Len(s) \in Nat /\ Len(w) = Len(s) + 1 /\ w[i] = x
      /\ \A j \in 1..Len(w) : j # i => from(j) \in 1..Len(s) /\ w[j] = s[from(j)]
  BY <1>0 DEF Widens
<1> SUFFICES ASSUME NEW j \in 1..Len(w), NEW k \in 1..Len(w), j < k
             PROVE  f[w[j]] <= f[w[k]]
  BY DEF Ordered, w
<1>2. CASE j = i
  <2>1. k - 1 \in i..Len(s) /\ w[k] = s[k - 1]
    BY <1>1, <1>2
  <2> QED
    BY <1>1, <1>2, <2>1
<1>3. CASE k = i
  <2>1. j \in 1..(i - 1) /\ w[j] = s[j]
    BY <1>1, <1>3
  <2> QED
    BY <1>1, <1>3, <2>1
<1>4. CASE j # i /\ k # i
  <2>1. from(j) < from(k)
    BY <1>4
  <2> QED
    BY <1>1, <1>4, <2>1 DEF Ordered
<1> QED
  BY <1>2, <1>3, <1>4

-----------------------------------------------------------------------------
(* Remainders *)

\* A multiple of m that is between 0 and m is neither.
LEMMA NoMultiple ==
    ASSUME NEW m \in Nat \ {0}, NEW k \in Int, 0 < m * k, m * k < m
    PROVE  FALSE
<1>1. CASE k >= 1
  <2>1. PICK j \in Nat : k = j + 1
    BY <1>1
  <2>2. m * k = m * j + m /\ m * j \in Nat
    BY <2>1
  <2> QED
    BY <2>2
<1>2. CASE k <= 0
  <2>1. PICK j \in Nat : k = 0 - j
    BY <1>2
  <2>2. m * k = 0 - m * j /\ m * j \in Nat
    BY <2>1
  <2> QED
    BY <2>2
<1> QED
  BY <1>1, <1>2

\* The remainder is the one number from 0 to m - 1 that differs by a multiple of m.
LEMMA RemainderIs ==
    ASSUME NEW m \in Nat \ {0}, NEW a \in Int, NEW k \in Int, NEW y \in 0..(m - 1),
           a = m * k + y
    PROVE  a % m = y
<1> DEFINE q == a \div m
           z == a % m
<1>1. a = m * q + z /\ z \in 0..(m - 1) /\ q \in Int
  OBVIOUS
<1> HIDE DEF q, z
<1>2. m * (q - k) = m * q - m * k /\ m * (k - q) = m * k - m * q
      /\ m * q \in Int /\ m * k \in Int
  BY <1>1
<1>3. m * (q - k) = y - z /\ m * (k - q) = z - y
  BY <1>1, <1>2
<1>4. CASE y > z
  <2>1. 0 < m * (q - k) /\ m * (q - k) < m /\ q - k \in Int
    BY <1>1, <1>3, <1>4
  <2> QED
    BY <2>1, NoMultiple
<1>5. CASE z > y
  <2>1. 0 < m * (k - q) /\ m * (k - q) < m /\ k - q \in Int
    BY <1>1, <1>3, <1>5
  <2> QED
    BY <2>1, NoMultiple
<1> QED
  BY <1>1, <1>4, <1>5 DEF z

\* A remainder may be taken before a sum is.
LEMMA RemainderSum ==
    ASSUME NEW m \in Nat \ {0}, NEW a \in Int, NEW b \in Int
    PROVE  ((a % m) + b) % m = (a + b) % m
<1> DEFINE q == a \div m
           p == (a + b) \div m
           y == (a + b) % m
<1>1. a = m * q + (a % m) /\ a + b = m * p + y
      /\ a % m \in Int /\ y \in 0..(m - 1) /\ q \in Int /\ p \in Int
  OBVIOUS
<1> HIDE DEF q, p, y
<1>2. m * (p - q) = m * p - m * q /\ m * p \in Int /\ m * q \in Int
  BY <1>1
<1>3. (a % m) + b = m * (p - q) + y
  BY <1>1, <1>2
<1> DEFINE c == (a % m) + b
           k == p - q
<1>4. c \in Int /\ k \in Int /\ c = m * k + y
  BY <1>1, <1>3
<1> HIDE DEF c, k
<1>5. c % m = y
  BY <1>1, <1>4, RemainderIs
<1> QED
  BY <1>5 DEF c, y

\* Remainders close to the range.
LEMMA RemainderNear ==
    ASSUME NEW m \in Nat \ {0}, NEW a \in Int
    PROVE  /\ a \in 0..(m - 1) => a % m = a
           /\ a - m \in 0..(m - 1) => a % m = a - m
           /\ a + m \in 0..(m - 1) => a % m = a + m
<1>1. m * 0 = 0 /\ m * 1 = m /\ m * (-1) = -m
  OBVIOUS
<1>2. ASSUME a \in 0..(m - 1) PROVE a % m = a
  BY <1>1, <1>2, RemainderIs
<1>3. ASSUME a - m \in 0..(m - 1) PROVE a % m = a - m
  <2>1. a = m * 1 + (a - m)
    BY <1>1
  <2> QED
    BY <1>3, <2>1, RemainderIs
<1>4. ASSUME a + m \in 0..(m - 1) PROVE a % m = a + m
  <2>1. a = m * (-1) + (a + m)
    BY <1>1
  <2> QED
    BY <1>4, <2>1, RemainderIs
<1> QED
  BY <1>2, <1>3, <1>4

\* A turn more leaves the remainder.
LEMMA RemainderTurn ==
    ASSUME NEW m \in Nat \ {0}, NEW a \in Int
    PROVE  (a + m) % m = a % m
<1>1. m \in Int /\ m - m \in 0..(m - 1) /\ m - m = 0
  OBVIOUS
<1>2. m % m = 0
  BY <1>1, RemainderNear, Zenon
<1>3. ((m % m) + a) % m = (m + a) % m
  BY <1>1, RemainderSum, Zenon
<1>4. 0 + a = a /\ m + a = a + m
  OBVIOUS
<1> QED
  BY <1>2, <1>3, <1>4, Zenon

=============================================================================
