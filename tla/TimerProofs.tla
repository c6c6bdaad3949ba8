------------------------------ MODULE TimerProofs ------------------------------
(***************************************************************************)
(* The timers are kept in order and expire in time, for any number of      *)
(* timers and threads, at any tick, through every wrap of the tick.        *)
(*                                                                         *)
(* Ticks are compared by their distance around the ring.  What makes that  *)
(* an order is that every timer of the list expires less than half a ring  *)
(* ahead of now, or rather of a moment a little before now, since a timer  *)
(* may be late: Ahead measures from there, without wrapping.               *)
(***************************************************************************)
EXTENDS SoftTimer, ListTheorems

Ticks == 0..TickMax

\* How far the tick d is ahead of the tick k, give or take m ticks.
Ahead(d, k, m) == (d + m - k) % (TickMax + 1)

\* There is room in half a ring for the delay of m ticks, an insertion's included.
Slack(m) == m \in Nat /\ MaxLate <= m /\ \A t \in Timer : InitTick[t] + m <= Half

\* The timers of l, which expire at the ticks out, are in order at the tick k:
\* none is on l twice, and each is from low ticks, after being m ticks late, to its
\* whole time ahead.
InOrder(l, out, k, m, low) ==
    /\ l \in Seq(Timer) /\ Distinct(l)
    /\ Ordered(l, [y \in Timer |-> Ahead(out[y], k, m)])
    /\ \A y \in Elements(l) : Ahead(out[y], k, m) \in low..(InitTick[y] + m)

-----------------------------------------------------------------------------
(* The ring of ticks *)

\* A number less than a turn outside the ring is brought back by one turn.
LEMMA OneTurn ==
    ASSUME NEW n \in Nat \ {0}, NEW x \in (-n)..(2 * n - 1)
    PROVE  x % n = IF x < 0 THEN x + n ELSE IF x < n THEN x ELSE x - n
<1>1. CASE 0 <= x /\ x < n
  BY <1>1
<1>2. CASE x >= n
  <2>1. x = n * 1 + (x - n) /\ x - n \in 0..(n - 1)
    BY <1>2
  <2> QED
    BY <1>2, <2>1
<1>3. CASE x < 0
  <2>1. x = n * (-1) + (x + n) /\ x + n \in 0..(n - 1)
    BY <1>3
  <2> QED
    BY <1>3, <2>1
<1> QED
  BY <1>1, <1>2, <1>3

\* Half a ring is at most half of it.
LEMMA HalfOfTicks == TickMax \in Nat /\ Half \in Nat /\ 2 * Half <= TickMax
  BY TimerAssumption DEF Half

\* The sum and the difference of two ticks, and the distance, without remainder.
LEMMA PlusIs ==
    ASSUME NEW a \in Ticks, NEW b \in Ticks
    PROVE  Plus(a, b) = IF a + b <= TickMax THEN a + b ELSE a + b - (TickMax + 1)
<1> DEFINE n == TickMax + 1
           x == a + b
<1>1. n \in Nat \ {0} /\ x \in (-n)..(2 * n - 1)
  BY HalfOfTicks DEF Ticks
<1>2. Plus(a, b) = x % n
  BY DEF Plus
<1>3. x % n = IF x < 0 THEN x + n ELSE IF x < n THEN x ELSE x - n
  <2> HIDE DEF n, x
  <2> QED
    BY <1>1, OneTurn
<1>4. Plus(a, b) = IF x < 0 THEN x + n ELSE IF x < n THEN x ELSE x - n
  BY <1>2, <1>3
<1> QED
  BY <1>4, HalfOfTicks DEF Ticks

LEMMA MinusIs ==
    ASSUME NEW a \in Ticks, NEW b \in Ticks
    PROVE  Minus(a, b) = IF b <= a THEN a - b ELSE a - b + (TickMax + 1)
<1> DEFINE n == TickMax + 1
           x == a - b
<1>1. n \in Nat \ {0} /\ x \in (-n)..(2 * n - 1)
  BY HalfOfTicks DEF Ticks
<1>2. Minus(a, b) = x % n
  BY DEF Minus
<1>3. x % n = IF x < 0 THEN x + n ELSE IF x < n THEN x ELSE x - n
  <2> HIDE DEF n, x
  <2> QED
    BY <1>1, OneTurn
<1>4. Minus(a, b) = IF x < 0 THEN x + n ELSE IF x < n THEN x ELSE x - n
  BY <1>2, <1>3
<1> QED
  BY <1>4, HalfOfTicks DEF Ticks

LEMMA AheadIs ==
    ASSUME NEW d \in Ticks, NEW k \in Ticks, NEW m \in Ticks
    PROVE  Ahead(d, k, m) = IF d + m - k < 0 THEN d + m - k + (TickMax + 1)
                            ELSE IF d + m - k <= TickMax THEN d + m - k
                            ELSE d + m - k - (TickMax + 1)
<1> DEFINE n == TickMax + 1
           x == d + m - k
<1>1. n \in Nat \ {0} /\ x \in (-n)..(2 * n - 1)
  BY HalfOfTicks DEF Ticks
<1>2. Ahead(d, k, m) = x % n
  BY DEF Ahead
<1>3. x % n = IF x < 0 THEN x + n ELSE IF x < n THEN x ELSE x - n
  <2> HIDE DEF n, x
  <2> QED
    BY <1>1, OneTurn
<1>4. Ahead(d, k, m) = IF x < 0 THEN x + n ELSE IF x < n THEN x ELSE x - n
  BY <1>2, <1>3
<1> QED
  BY <1>4, HalfOfTicks DEF Ticks

\* Results are ticks.
LEMMA TickTypes ==
    ASSUME NEW a \in Ticks, NEW b \in Ticks
    PROVE  /\ Plus(a, b) \in Ticks
           /\ Minus(a, b) \in Ticks
           /\ \A m \in Ticks : Ahead(a, b, m) \in Ticks
<1>1. Plus(a, b) \in Ticks
  BY PlusIs, HalfOfTicks DEF Ticks
<1>2. Minus(a, b) \in Ticks
  BY MinusIs, HalfOfTicks DEF Ticks
<1>3. \A m \in Ticks : Ahead(a, b, m) \in Ticks
  BY AheadIs, HalfOfTicks DEF Ticks
<1> QED
  BY <1>1, <1>2, <1>3

\* The tick itself is m ticks ahead.
LEMMA NowAhead == \A k, m \in Ticks : Ahead(k, k, m) = m
  BY AheadIs, HalfOfTicks DEF Ticks

\* Within half a ring, the comparisons of the code are those of the distances.
LEMMA RingOrder ==
    ASSUME NEW d \in Ticks, NEW e \in Ticks, NEW k \in Ticks, NEW m \in Ticks,
           Ahead(d, k, m) <= Half, Ahead(e, k, m) <= Half,
           Ahead(e, k, m) < Ahead(d, k, m) + Half
    PROVE  /\ Minus(e, d) < Half <=> Ahead(d, k, m) <= Ahead(e, k, m)
           /\ Minus(e, d) < Half => Minus(e, d) = Ahead(e, k, m) - Ahead(d, k, m)
           /\ Minus(e, d) \in 1..(Half - 1) <=> Ahead(d, k, m) < Ahead(e, k, m)
<1> DEFINE a == Ahead(d, k, m)
           b == Ahead(e, k, m)
           c == Minus(e, d)
<1>1. c = IF d <= e THEN e - d ELSE e - d + (TickMax + 1)
  BY MinusIs
<1>2. a = IF d + m - k < 0 THEN d + m - k + (TickMax + 1)
          ELSE IF d + m - k <= TickMax THEN d + m - k ELSE d + m - k - (TickMax + 1)
  BY AheadIs
<1>3. b = IF e + m - k < 0 THEN e + m - k + (TickMax + 1)
          ELSE IF e + m - k <= TickMax THEN e + m - k ELSE e + m - k - (TickMax + 1)
  BY AheadIs
<1>4. a <= Half /\ b <= Half /\ b < a + Half
  OBVIOUS
<1>5. d \in 0..TickMax /\ e \in 0..TickMax /\ k \in 0..TickMax /\ m \in 0..TickMax
  BY DEF Ticks
<1> HIDE DEF a, b, c
<1>6. c < Half <=> a <= b
  BY <1>1, <1>2, <1>3, <1>4, <1>5, HalfOfTicks
<1>7. c < Half => c = b - a
  BY <1>1, <1>2, <1>3, <1>4, <1>5, HalfOfTicks
<1>8. c \in 1..(Half - 1) <=> a < b
  BY <1>1, <1>2, <1>3, <1>4, <1>5, HalfOfTicks
<1> QED
  BY <1>6, <1>7, <1>8 DEF a, b, c

\* A tick brings a timer one tick nearer.
LEMMA TickAhead ==
    ASSUME NEW d \in Ticks, NEW k \in Ticks, NEW m \in Ticks, Ahead(d, k, m) >= 1
    PROVE  /\ Plus(k, 1) \in Ticks
           /\ Ahead(d, Plus(k, 1), m) = Ahead(d, k, m) - 1
<1> DEFINE a == Ahead(d, k, m)
           l == Plus(k, 1)
           b == Ahead(d, l, m)
<1>1. a = IF d + m - k < 0 THEN d + m - k + (TickMax + 1)
          ELSE IF d + m - k <= TickMax THEN d + m - k ELSE d + m - k - (TickMax + 1)
  BY AheadIs
<1>2. d \in 0..TickMax /\ k \in 0..TickMax /\ m \in 0..TickMax /\ a >= 1
  BY DEF Ticks
<1>3. 1 \in Ticks
  <2> HIDE DEF a
  <2> QED
    BY <1>1, <1>2, HalfOfTicks DEF Ticks
<1>4. l = IF k + 1 <= TickMax THEN k + 1 ELSE k + 1 - (TickMax + 1)
  BY <1>3, PlusIs
<1>5. l \in Ticks
  BY <1>3, TickTypes
<1> HIDE DEF l
<1>6. b = IF d + m - l < 0 THEN d + m - l + (TickMax + 1)
          ELSE IF d + m - l <= TickMax THEN d + m - l ELSE d + m - l - (TickMax + 1)
  BY <1>5, AheadIs
<1> HIDE DEF a, b
<1>7. b = a - 1
  BY <1>1, <1>2, <1>4, <1>6, HalfOfTicks
<1> QED
  BY <1>5, <1>7 DEF a, b, l

\* A timer that is started now is its whole time ahead.
LEMMA StartAhead ==
    ASSUME NEW k \in Ticks, NEW i \in Ticks, NEW m \in Ticks, i + m <= Half
    PROVE  /\ Plus(k, i) \in Ticks
           /\ Ahead(Plus(k, i), k, m) = i + m
<1> DEFINE l == Plus(k, i)
           a == Ahead(l, k, m)
<1>1. l = IF k + i <= TickMax THEN k + i ELSE k + i - (TickMax + 1)
  BY PlusIs
<1>2. l \in Ticks
  BY TickTypes
<1> HIDE DEF l
<1>3. a = IF l + m - k < 0 THEN l + m - k + (TickMax + 1)
          ELSE IF l + m - k <= TickMax THEN l + m - k ELSE l + m - k - (TickMax + 1)
  BY <1>2, AheadIs
<1>4. k \in 0..TickMax /\ i \in 0..TickMax /\ m \in 0..TickMax
  BY DEF Ticks
<1> HIDE DEF a
<1>5. a = i + m
  BY <1>1, <1>3, <1>4, HalfOfTicks
<1> QED
  BY <1>2, <1>5 DEF a, l

\* What has passed of its time since then.
LEMMA LateAhead ==
    ASSUME NEW d \in Ticks, NEW k \in Ticks, NEW i \in Ticks, NEW m \in Ticks, i + m <= Half,
           Ahead(d, k, m) \in i..(i + m)
    PROVE  Minus(Plus(k, i), d) = i + m - Ahead(d, k, m)
<1> DEFINE l == Plus(k, i)
           a == Ahead(d, k, m)
           c == Minus(l, d)
<1>1. l = IF k + i <= TickMax THEN k + i ELSE k + i - (TickMax + 1)
  BY PlusIs
<1>2. l \in Ticks
  BY TickTypes
<1> HIDE DEF l
<1>3. c = IF d <= l THEN l - d ELSE l - d + (TickMax + 1)
  BY <1>2, MinusIs
<1>4. a = IF d + m - k < 0 THEN d + m - k + (TickMax + 1)
          ELSE IF d + m - k <= TickMax THEN d + m - k ELSE d + m - k - (TickMax + 1)
  BY AheadIs
<1>5. d \in 0..TickMax /\ k \in 0..TickMax /\ i \in 0..TickMax /\ m \in 0..TickMax
  BY DEF Ticks
<1>6. a \in i..(i + m)
  OBVIOUS
<1> HIDE DEF a, c
<1>7. c = i + m - a
  BY <1>1, <1>3, <1>4, <1>5, <1>6, HalfOfTicks
<1> QED
  BY <1>7 DEF a, c, l

-----------------------------------------------------------------------------
(* The list *)

LEMMA SlackOf ==
    ASSUME NEW m, Slack(m), NEW t \in Timer
    PROVE  /\ m \in Ticks /\ m < Half /\ MaxLate \in Ticks /\ MaxLate <= m
           /\ InitTick[t] \in Ticks /\ InitTick[t] >= 1 /\ InitTick[t] + m <= Half
  BY TimerAssumption, HalfOfTicks DEF Slack, Ticks

LEMMA LateSlack == Slack(MaxLate)
  BY TimerAssumption, HalfOfTicks DEF Slack

\* A list in order is in order if less is asked of it.
LEMMA InOrderOf ==
    ASSUME NEW l, NEW out, NEW k, NEW m, NEW low, InOrder(l, out, k, m, low)
    PROVE  /\ l \in Seq(Timer) /\ Distinct(l)
           /\ \A i \in 1..Len(l) : l[i] \in Elements(l)
           /\ \A y \in Elements(l) : y \in Timer /\ Ahead(out[y], k, m) \in low..(InitTick[y] + m)
           /\ l = <<>> <=> Elements(l) = {}
<1>1. l \in Seq(Timer)
  BY DEF InOrder
<1>2. Elements(l) \subseteq Timer /\ (l = <<>> <=> Elements(l) = {})
  BY <1>1, HeadElement
<1> QED
  BY <1>1, <1>2 DEF InOrder, Elements

LEMMA Within ==
    ASSUME NEW l, NEW out \in [Timer -> Ticks], NEW k \in Ticks, NEW m, Slack(m),
           NEW low \in Nat, InOrder(l, out, k, m, low), NEW y \in Elements(l)
    PROVE  /\ y \in Timer /\ out[y] \in Ticks /\ Ahead(out[y], k, m) \in Ticks
           /\ low <= Ahead(out[y], k, m) /\ Ahead(out[y], k, m) <= InitTick[y] + m
           /\ Ahead(out[y], k, m) <= Half
<1>1. y \in Timer /\ Ahead(out[y], k, m) \in low..(InitTick[y] + m)
  BY InOrderOf
<1>2. InitTick[y] + m <= Half /\ m \in Ticks /\ InitTick[y] \in Ticks
  BY <1>1, SlackOf
<1>3. out[y] \in Ticks /\ Ahead(out[y], k, m) \in Ticks
  BY <1>1, <1>2, TickTypes
<1> QED
  BY <1>1, <1>2, <1>3, HalfOfTicks DEF Ticks

\* Taking timers off the list leaves it in order.
LEMMA WithoutInOrder ==
    ASSUME NEW l, NEW out, NEW k, NEW m, NEW low, InOrder(l, out, k, m, low), NEW t
    PROVE  /\ InOrder(Without(l, t), out, k, m, low)
           /\ Elements(Without(l, t)) = Elements(l) \ {t}
  BY WithoutElements, WithoutDistinct, WithoutOrdered DEF InOrder

\* Of a list in order the first timer is the first to expire, and the rest is in
\* order.
LEMMA TailInOrder ==
    ASSUME NEW l, NEW out \in [Timer -> Ticks], NEW k \in Ticks, NEW m, Slack(m), NEW low,
           InOrder(l, out, k, m, low), l # <<>>
    PROVE  /\ InOrder(Tail(l), out, k, m, low)
           /\ Head(l) \in Timer /\ Head(l) \in Elements(l)
           /\ Elements(Tail(l)) = Elements(l) \ {Head(l)}
           /\ \A y \in Elements(l) : Ahead(out[Head(l)], k, m) <= Ahead(out[y], k, m)
<1> DEFINE f == [y \in Timer |-> Ahead(out[y], k, m)]
<1>1. \A y \in Timer : f[y] \in Ticks
  BY SlackOf, TickTypes
<1>2. l \in Seq(Timer) /\ Distinct(l) /\ Ordered(l, f)
  BY DEF InOrder
<1>3. \A y \in Timer : f[y] \in Int
  BY <1>1, HalfOfTicks DEF Ticks
<1>4. Ordered(Tail(l), f) /\ \A y \in Elements(l) : f[Head(l)] <= f[y]
  <2> HIDE DEF f
  <2> QED
    BY <1>2, <1>3, TailOrdered
<1>5. /\ Head(l) \in Timer /\ Head(l) \in Elements(l) /\ Elements(l) \subseteq Timer
      /\ Tail(l) \in Seq(Timer) /\ Distinct(Tail(l))
      /\ Elements(Tail(l)) = Elements(l) \ {Head(l)}
  BY <1>2, HeadElement, TailDistinct
<1> QED
  BY <1>2, <1>4, <1>5 DEF InOrder

\* rt_timer_start puts a timer that expires within half a ring at its place.
LEMMA WithTimerInOrder ==
    ASSUME timeout \in [Timer -> Ticks], tick \in Ticks, NEW m, Slack(m), NEW low \in Nat,
           InOrder(list, timeout, tick, m, low),
           NEW t \in Timer, NEW out \in Ticks,
           Ahead(out, tick, m) \in low..(InitTick[t] + m), 1 <= Ahead(out, tick, m)
    PROVE  /\ InOrder(WithTimer(t, out), [timeout EXCEPT ![t] = out], tick, m, low)
           /\ Elements(WithTimer(t, out)) = Elements(list) \cup {t}
<1> DEFINE o == [timeout EXCEPT ![t] = out]
           l == Without(list, t)
           f == [y \in Timer |-> Ahead(o[y], tick, m)]
           w == WithTimer(t, out)
<1>1. InOrder(l, timeout, tick, m, low) /\ Elements(l) = Elements(list) \ {t}
  BY WithoutInOrder
<1>2. /\ l \in Seq(Timer) /\ Distinct(l) /\ Len(l) \in Nat
      /\ \A i \in 1..Len(l) : l[i] \in Timer /\ l[i] # t /\ l[i] \in Elements(l)
  <2> HIDE DEF l
  <2> QED
    BY <1>1, InOrderOf, LenProperties
<1>3. \A y \in Elements(l) : y \in Timer /\ o[y] = timeout[y]
  BY <1>1, InOrderOf
<1>4. f[t] = Ahead(out, tick, m) /\ \A y \in Elements(l) : f[y] = Ahead(timeout[y], tick, m)
  BY <1>3
<1>5. Ordered(l, f)
  <2>1. Ordered(l, [y \in Timer |-> Ahead(timeout[y], tick, m)])
    BY <1>1 DEF InOrder
  <2> QED
    BY <2>1, <1>2, <1>4 DEF Ordered
<1>6. /\ f[t] \in Ticks /\ 1 <= f[t] /\ f[t] <= Half
      /\ \A y \in Elements(l) : f[y] \in Ticks /\ f[y] <= Half
  <2>1. m \in Ticks /\ InitTick[t] \in Ticks /\ InitTick[t] + m <= Half
    BY SlackOf
  <2>2. Ahead(out, tick, m) \in Ticks
    BY <2>1, TickTypes
  <2>3. Ahead(out, tick, m) <= Half
    BY <2>1, <2>2, HalfOfTicks DEF Ticks
  <2>4. \A y \in Elements(l) : Ahead(timeout[y], tick, m) \in Ticks /\ Ahead(timeout[y], tick, m) <= Half
    BY <1>1, Within
  <2> QED
    BY <1>4, <2>2, <2>3, <2>4
<1>7. \A i \in 1..Len(l) : i \in Later(out, t) <=> f[t] < f[l[i]]
  <2> SUFFICES ASSUME NEW i \in 1..Len(l)
               PROVE  Minus(timeout[l[i]], out) \in 1..(Half - 1) <=> f[t] < f[l[i]]
    BY DEF Later
  <2>1. /\ timeout[l[i]] \in Ticks /\ m \in Ticks
        /\ f[l[i]] = Ahead(timeout[l[i]], tick, m) /\ f[t] = Ahead(out, tick, m)
        /\ f[l[i]] <= Half /\ f[t] <= Half /\ f[l[i]] \in Ticks /\ f[t] \in Ticks /\ 1 <= f[t]
    BY <1>2, <1>4, <1>6, SlackOf
  <2> HIDE DEF f, l
  <2>2. f[l[i]] < f[t] + Half
    BY <2>1, HalfOfTicks DEF Ticks
  <2> QED
    BY <2>1, <2>2, RingOrder
<1>8. Later(out, t) \subseteq 1..Len(l)
  BY DEF Later
<1> HIDE DEF f
<1>9. Ordered(w, f) /\ w \in Seq(Timer) /\ Distinct(w) /\ Elements(w) = Elements(l) \cup {t}
  <2>1. CASE Later(out, t) = {}
    <3>1. w = Append(l, t)
      BY <2>1 DEF WithTimer
    <3>2. \A y \in Elements(l) : f[y] <= f[t]
      BY <1>6, <1>7, <2>1, HalfOfTicks DEF Elements, Ticks
    <3> HIDE DEF l, w
    <3> QED
      BY <1>1, <1>2, <1>5, <3>1, <3>2, AppendElements, AppendOrdered
  <2>2. CASE Later(out, t) # {}
    <3> DEFINE i == CHOOSE i \in Later(out, t) : \A j \in Later(out, t) : i <= j
    <3>1. \E p \in Later(out, t) : \A r \in Later(out, t) : p <= r
      <4>1. Later(out, t) \in SUBSET (0..Len(l))
        BY <1>2, <1>8
      <4> HIDE DEF l
      <4> QED
        BY <1>2, <2>2, <4>1, LeastElement
    <3>2. i \in Later(out, t) /\ \A j \in Later(out, t) : i <= j
      BY <3>1
    <3>3. w = InsertedAt(l, i, t)
      BY <2>2 DEF WithTimer
    <3> HIDE DEF l, w, i
    <3>4. i \in 1..Len(l) /\ f[t] < f[l[i]]
      BY <1>7, <1>8, <3>2
    <3>5. ASSUME NEW j \in 1..(i - 1) PROVE f[l[j]] <= f[t]
      <4>1. j \in 1..Len(l) /\ ~ (i <= j)
        BY <1>2, <3>4
      <4>2. ~ (f[t] < f[l[j]])
        BY <1>7, <3>2, <4>1
      <4>3. f[t] \in Ticks /\ f[l[j]] \in Ticks
        BY <1>2, <1>6, <4>1
      <4> QED
        BY <4>2, <4>3, HalfOfTicks DEF Ticks
    <3>6. ASSUME NEW j \in i..Len(l) PROVE f[t] <= f[l[j]]
      <4>1. j \in 1..Len(l) /\ (i = j \/ i < j)
        BY <1>2, <3>4
      <4>2. i < j => f[l[i]] <= f[l[j]]
        BY <1>5, <3>4, <4>1 DEF Ordered
      <4>3. f[t] \in Ticks /\ f[l[j]] \in Ticks /\ f[l[i]] \in Ticks
        BY <1>2, <1>6, <3>4, <4>1
      <4> QED
        BY <3>4, <4>1, <4>2, <4>3, HalfOfTicks DEF Ticks
    <3>7. Ordered(w, f)
      BY <1>2, <1>5, <3>3, <3>4, <3>5, <3>6, InsertedOrdered
    <3> QED
      BY <1>1, <1>2, <3>3, <3>4, <3>7, InsertedElements
  <2> QED
    BY <2>1, <2>2
<1>10. \A y \in Elements(w) : Ahead(o[y], tick, m) \in low..(InitTick[y] + m)
  <2>1. \A y \in Elements(l) : Ahead(timeout[y], tick, m) \in low..(InitTick[y] + m)
    BY <1>1, InOrderOf
  <2> QED
    BY <1>3, <1>9, <2>1
<1>11. Elements(w) = Elements(list) \cup {t}
  BY <1>1, <1>9
<1> HIDE DEF l, w
<1>12. InOrder(w, o, tick, m, low)
  BY <1>9, <1>10 DEF InOrder, f
<1> QED
  BY <1>11, <1>12 DEF w

-----------------------------------------------------------------------------
(* The calls of the threads, which are those of both kinds of timers *)

\* No two threads start and stop the same timer, and no callback starts one of a
\* thread's: rt_timer_start is not one protected section.
Apart ==
    /\ \A a, b \in Thread : a # b => Managed[a] \cap Managed[b] = {}
    /\ \A th \in Thread : \A t \in Managed[th], x \in Timer : <<x, t>> \notin Starts

Types ==
    /\ tick \in Ticks
    /\ timeout \in [Timer -> Ticks]
    /\ active \in [Timer -> BOOLEAN]
    /\ check \in [at : {"no", "loop", "callback", "after"}, timer : Timer \cup {NoTimer}]
    /\ pc \in [Thread -> [op : {"run", "compute", "insert", "unlink", "clear", "resume"},
                          timer : Timer \cup {NoTimer}]]

\* The timer of a call that took it off the list is left alone until the call
\* puts it back; an insertion is late by the ticks that are gone.
CallHolds(th, m) ==
    LET t == pc[th].timer
        op == pc[th].op
    IN  /\ op \in {"run", "resume"} => t = NoTimer
        /\ op \notin {"run", "resume"} => t \in Managed[th]
        /\ op \in {"compute", "insert", "clear"} => ~ Linked(t) /\ check.timer # t
        /\ op = "insert" =>
             Ahead(timeout[t], tick, m) \in (InitTick[t] + m - MaxLate)..(InitTick[t] + m)

\* So is the timer whose callback is made.
CheckHolds ==
    /\ check.at \in {"no", "loop"} => check.timer = NoTimer
    /\ check.at \in {"callback", "after"} => check.timer \in Timer
    /\ check.at = "callback" => ~ Linked(check.timer)

Kept(m) == Types /\ (\A th \in Thread : CallHolds(th, m)) /\ CheckHolds

\* The flag agrees with the list, except for the timer whose callback is made and
\* one that a thread has just stopped.
FlagAgrees(t) ==
    \/ check.timer = t
    \/ \E th \in Thread : pc[th].op = "clear" /\ pc[th].timer = t
    \/ active[t] <=> Linked(t)

Flagged == \A t \in Timer : FlagAgrees(t)

LEMMA KeptInit ==
    ASSUME NEW m, NEW low, Init
    PROVE  Kept(m) /\ InOrder(list, timeout, tick, m, low) /\ Flagged
<1>1. Types
  BY HalfOfTicks DEF Init, Types, NoCheck, Running, Ticks
<1>2. list \in Seq(Timer) /\ Len(list) = 0 /\ Elements(list) = {}
  BY DEF Init, Elements
<1>3. InOrder(list, timeout, tick, m, low)
  BY <1>2 DEF InOrder, Distinct, Ordered
<1>4. (\A th \in Thread : CallHolds(th, m)) /\ CheckHolds
  BY DEF Init, CallHolds, Running, CheckHolds, NoCheck
<1>5. Flagged
  BY <1>2 DEF Init, Flagged, FlagAgrees, Linked
<1> QED
  BY <1>1, <1>3, <1>4, <1>5 DEF Kept

\* The timer of a call is a timer, and no other call's.
LEMMA CallsApart ==
    ASSUME Apart, NEW m, Kept(m), NEW th \in Thread, pc[th].op \notin {"run", "resume"}
    PROVE  /\ pc[th].timer \in Managed[th] /\ pc[th].timer \in Timer
           /\ pc[th].timer # NoTimer
           /\ \A r \in Thread : r # th => pc[r].timer # pc[th].timer
  BY TimerAssumption DEF Apart, Kept, CallHolds

LEMMA StartUnlinkKeeps ==
    ASSUME NEW m, NEW low, Kept(m), InOrder(list, timeout, tick, m, low),
           NEW th \in Thread, NEW t \in Managed[th], StartUnlink(th, t)
    PROVE  /\ Kept(m)' /\ InOrder(list', timeout', tick', m, low)
           /\ Flagged => Flagged'
<1>1. /\ check.at = "no" /\ pc[th].op = "run" /\ t \in Timer /\ t # NoTimer
      /\ list' = Without(list, t) /\ active' = [active EXCEPT ![t] = FALSE]
      /\ pc' = [pc EXCEPT ![th] = [op |-> "compute", timer |-> t]]
      /\ tick' = tick /\ timeout' = timeout /\ check' = check /\ check.timer = NoTimer
  BY TimerAssumption DEF StartUnlink, Calls, Goto, Kept, CheckHolds
<1>2. /\ InOrder(list', timeout', tick', m, low)
      /\ Elements(list') = Elements(list) \ {t}
  BY <1>1, WithoutInOrder
<1>3. Types'
  BY <1>1 DEF Kept, Types
<1>4. ASSUME NEW r \in Thread PROVE CallHolds(r, m)'
  <2>1. CASE r = th
    BY <1>1, <1>2, <2>1 DEF Kept, Types, CallHolds, Linked
  <2>2. CASE r # th
    BY <1>1, <1>2, <2>2 DEF Kept, Types, CallHolds, Linked
  <2> QED
    BY <2>1, <2>2
<1>5. CheckHolds'
  BY <1>1 DEF Kept, CheckHolds
<1>6. Flagged => Flagged'
  BY <1>1, <1>2 DEF Kept, Types, Flagged, FlagAgrees, Linked
<1> QED
  BY <1>2, <1>3, <1>4, <1>5, <1>6 DEF Kept

LEMMA StartComputeKeeps ==
    ASSUME Apart, NEW m, Slack(m), NEW low, Kept(m), InOrder(list, timeout, tick, m, low),
           NEW th \in Thread, StartCompute(th)
    PROVE  /\ Kept(m)' /\ InOrder(list', timeout', tick', m, low)
           /\ Flagged => Flagged'
<1> DEFINE t == pc[th].timer
           out == Plus(tick, InitTick[t])
<1>1. /\ check.at = "no" /\ pc[th].op = "compute"
      /\ timeout' = [timeout EXCEPT ![t] = out]
      /\ pc' = [pc EXCEPT ![th] = [op |-> "insert", timer |-> t]]
      /\ tick' = tick /\ list' = list /\ active' = active /\ check' = check
      /\ check.timer = NoTimer
  BY DEF StartCompute, Calls, Goto, Kept, CheckHolds
<1>2. /\ t \in Managed[th] /\ t \in Timer /\ t # NoTimer /\ ~ Linked(t)
      /\ \A r \in Thread : r # th => pc[r].timer # t
  BY <1>1, CallsApart DEF Kept, CallHolds
<1> HIDE DEF t
<1>3. out \in Ticks /\ Ahead(out, tick, m) = InitTick[t] + m
  BY <1>2, SlackOf, StartAhead DEF Kept, Types
<1> HIDE DEF out
<1>4. Types'
  BY <1>1, <1>2, <1>3 DEF Kept, Types
<1>5. InOrder(list, timeout', tick, m, low)
  <2>1. /\ \A i \in 1..Len(list) : list[i] \in Elements(list)
        /\ \A y \in Elements(list) : y \in Timer /\ timeout'[y] = timeout[y]
    BY <1>1, <1>2, InOrderOf DEF Linked, Kept, Types
  <2> QED
    BY <2>1 DEF InOrder, Ordered
<1>6. ASSUME NEW r \in Thread PROVE CallHolds(r, m)'
  <2>1. CASE r = th
    <3>1. pc'[r] = [op |-> "insert", timer |-> t] /\ timeout'[t] = out
      BY <1>1, <1>2, <2>1 DEF Kept, Types
    <3>2. InitTick[t] + m \in (InitTick[t] + m - MaxLate)..(InitTick[t] + m)
      BY <1>2, SlackOf, HalfOfTicks DEF Ticks
    <3> QED
      BY <1>1, <1>2, <1>3, <2>1, <3>1, <3>2 DEF CallHolds, Linked
  <2>2. CASE r # th
    <3>1. pc'[r] = pc[r] /\ pc[r].timer # t
      BY <1>1, <1>2, <2>2 DEF Kept, Types
    <3>2. pc[r].op = "insert" => timeout'[pc[r].timer] = timeout[pc[r].timer]
      BY <1>1, <3>1, CallsApart DEF Kept, Types
    <3> QED
      BY <1>1, <3>1, <3>2 DEF Kept, CallHolds, Linked
  <2> QED
    BY <2>1, <2>2
<1>7. CheckHolds'
  BY <1>1 DEF Kept, CheckHolds
<1>8. Flagged => Flagged'
  BY <1>1, <1>2 DEF Kept, Types, Flagged, FlagAgrees, Linked
<1> QED
  BY <1>1, <1>4, <1>5, <1>6, <1>7, <1>8 DEF Kept

\* A timer is inserted before the next thing happens to its thread, whatever that
\* is.
LEMMA InsertKeeps ==
    ASSUME Apart, NEW m, Slack(m), NEW low \in Nat, low + MaxLate <= m + 1, Kept(m),
           InOrder(list, timeout, tick, m, low),
           NEW th \in Thread, Calls(th, "insert"),
           list' = WithTimer(pc[th].timer, timeout[pc[th].timer]),
           active' = [active EXCEPT ![pc[th].timer] = TRUE],
           NEW op \in {"run", "resume"},
           pc' = [pc EXCEPT ![th] = [op |-> op, timer |-> NoTimer]],
           UNCHANGED <<tick, timeout, check>>
    PROVE  /\ Kept(m)' /\ InOrder(list', timeout', tick', m, low)
           /\ Elements(list') = Elements(list) \cup {pc[th].timer}
           /\ Flagged => Flagged'
<1> DEFINE t == pc[th].timer
<1>1. /\ check.at = "no" /\ pc[th].op = "insert"
      /\ list' = WithTimer(t, timeout[t]) /\ active' = [active EXCEPT ![t] = TRUE]
      /\ tick' = tick /\ timeout' = timeout /\ check' = check /\ check.timer = NoTimer
  BY DEF Calls, Kept, CheckHolds
<1>2. /\ t \in Managed[th] /\ t \in Timer /\ timeout[t] \in Ticks /\ t # NoTimer
      /\ \A r \in Thread : r # th => pc[r].timer # t
      /\ Ahead(timeout[t], tick, m) \in (InitTick[t] + m - MaxLate)..(InitTick[t] + m)
  BY <1>1, CallsApart DEF Kept, CallHolds, Types
<1> HIDE DEF t
<1>3. /\ Ahead(timeout[t], tick, m) \in low..(InitTick[t] + m)
      /\ 1 <= Ahead(timeout[t], tick, m)
  BY <1>2, SlackOf, HalfOfTicks DEF Ticks
<1>4. /\ InOrder(list', timeout', tick', m, low)
      /\ Elements(list') = Elements(list) \cup {t}
  <2>1. timeout = [timeout EXCEPT ![t] = timeout[t]]
    BY DEF Kept, Types
  <2> QED
    BY <1>1, <1>2, <1>3, <2>1, WithTimerInOrder DEF Kept, Types
<1>5. Types'
  BY <1>1, <1>2 DEF Kept, Types
<1>6. ASSUME NEW r \in Thread PROVE CallHolds(r, m)'
  <2>1. CASE r = th
    BY <1>1, <2>1 DEF Kept, Types, CallHolds
  <2>2. CASE r # th
    <3>1. pc'[r] = pc[r] /\ pc[r].timer # t
      BY <1>1, <1>2, <2>2 DEF Kept, Types
    <3> QED
      BY <1>1, <1>4, <3>1 DEF Kept, CallHolds, Linked
  <2> QED
    BY <2>1, <2>2
<1>7. CheckHolds'
  BY <1>1 DEF Kept, CheckHolds
<1>8. Flagged => Flagged'
  BY <1>1, <1>2, <1>4 DEF Kept, Types, Flagged, FlagAgrees, Linked
<1> QED
  BY <1>4, <1>5, <1>6, <1>7, <1>8 DEF Kept, t

LEMMA StopTestKeeps ==
    ASSUME NEW m, NEW low, Kept(m), InOrder(list, timeout, tick, m, low),
           NEW th \in Thread, NEW t \in Managed[th], StopTest(th, t)
    PROVE  /\ Kept(m)' /\ InOrder(list', timeout', tick', m, low)
           /\ Flagged => Flagged'
<1>1. /\ check.at = "no" /\ pc[th].op = "run" /\ t \in Timer /\ t # NoTimer
      /\ pc' = [pc EXCEPT ![th] = [op |-> "unlink", timer |-> t]]
      /\ tick' = tick /\ list' = list /\ timeout' = timeout /\ active' = active
      /\ check' = check
  BY TimerAssumption DEF StopTest, Calls, Goto
<1>2. Types'
  BY <1>1 DEF Kept, Types
<1>3. \A r \in Thread : CallHolds(r, m)'
  BY <1>1 DEF Kept, Types, CallHolds, Linked
<1>4. CheckHolds'
  BY <1>1 DEF Kept, CheckHolds, Linked
<1>5. Flagged => Flagged'
  BY <1>1 DEF Kept, Types, Flagged, FlagAgrees, Linked
<1> QED
  BY <1>1, <1>2, <1>3, <1>4, <1>5 DEF Kept

LEMMA StopUnlinkKeeps ==
    ASSUME Apart, NEW m, NEW low, Kept(m), InOrder(list, timeout, tick, m, low),
           NEW th \in Thread, StopUnlink(th)
    PROVE  /\ Kept(m)' /\ InOrder(list', timeout', tick', m, low)
           /\ Flagged => Flagged'
<1> DEFINE t == pc[th].timer
<1>1. /\ check.at = "no" /\ pc[th].op = "unlink"
      /\ list' = Without(list, t)
      /\ pc' = [pc EXCEPT ![th] = [op |-> "clear", timer |-> t]]
      /\ tick' = tick /\ timeout' = timeout /\ active' = active /\ check' = check
      /\ check.timer = NoTimer
  BY DEF StopUnlink, Calls, Goto, Kept, CheckHolds
<1>2. t \in Managed[th] /\ t \in Timer /\ t # NoTimer
  BY <1>1, CallsApart
<1> HIDE DEF t
<1>3. /\ InOrder(list', timeout', tick', m, low)
      /\ Elements(list') = Elements(list) \ {t}
  BY <1>1, WithoutInOrder
<1>4. Types'
  BY <1>1, <1>2 DEF Kept, Types
<1>5. \A r \in Thread : CallHolds(r, m)'
  BY <1>1, <1>2, <1>3 DEF Kept, Types, CallHolds, Linked
<1>6. CheckHolds'
  BY <1>1 DEF Kept, CheckHolds
<1>7. Flagged => Flagged'
  BY <1>1, <1>2, <1>3 DEF Kept, Types, Flagged, FlagAgrees, Linked
<1> QED
  BY <1>3, <1>4, <1>5, <1>6, <1>7 DEF Kept

LEMMA StopClearKeeps ==
    ASSUME NEW m, NEW low, Kept(m), InOrder(list, timeout, tick, m, low),
           NEW th \in Thread, StopClear(th)
    PROVE  /\ Kept(m)' /\ InOrder(list', timeout', tick', m, low)
           /\ Flagged => Flagged'
<1>1. /\ check.at = "no" /\ pc[th].op = "clear" /\ ~ Linked(pc[th].timer)
      /\ pc' = [pc EXCEPT ![th] = [op |-> "run", timer |-> NoTimer]]
      /\ active' = [active EXCEPT ![pc[th].timer] = FALSE]
      /\ tick' = tick /\ list' = list /\ timeout' = timeout /\ check' = check
  BY DEF StopClear, Calls, Return, Running, Kept, CallHolds
<1>2. Types'
  BY <1>1 DEF Kept, Types
<1>3. \A r \in Thread : CallHolds(r, m)'
  BY <1>1 DEF Kept, Types, CallHolds, Linked
<1>4. CheckHolds'
  BY <1>1 DEF Kept, CheckHolds, Linked
<1>5. Flagged => Flagged'
  BY <1>1 DEF Kept, Types, Flagged, FlagAgrees, Linked
<1> QED
  BY <1>1, <1>2, <1>3, <1>4, <1>5 DEF Kept

-----------------------------------------------------------------------------
(* What expires, and the ticks *)

\* The calls a callback makes.
LEMMA StartNowInOrder ==
    ASSUME Types, NEW m, Slack(m), NEW low \in Nat, low + MaxLate <= m + 1,
           InOrder(list, timeout, tick, m, low), NEW t \in Timer, StartNow(t)
    PROVE  /\ timeout' \in [Timer -> Ticks]
           /\ \A y \in Timer : y # t => timeout'[y] = timeout[y]
           /\ active' = [active EXCEPT ![t] = TRUE]
           /\ InOrder(list', timeout', tick, m, low)
           /\ Elements(list') = Elements(list) \cup {t}
<1> DEFINE out == Plus(tick, InitTick[t])
           w == WithTimer(t, out)
           o == [timeout EXCEPT ![t] = out]
<1>1. timeout' = o /\ list' = w /\ active' = [active EXCEPT ![t] = TRUE]
  BY DEF StartNow
<1>2. out \in Ticks /\ Ahead(out, tick, m) = InitTick[t] + m
  BY SlackOf, StartAhead DEF Types
<1> HIDE DEF out
<1>3. Ahead(out, tick, m) \in low..(InitTick[t] + m) /\ 1 <= Ahead(out, tick, m)
  BY <1>2, SlackOf, HalfOfTicks DEF Ticks
<1>4. timeout \in [Timer -> Ticks] /\ tick \in Ticks
  BY DEF Types
<1>5. /\ InOrder(w, o, tick, m, low)
      /\ Elements(w) = Elements(list) \cup {t}
  <2>1. \A r \in Timer, q \in Ticks :
          Ahead(q, tick, m) \in low..(InitTick[r] + m) /\ 1 <= Ahead(q, tick, m) =>
            /\ InOrder(WithTimer(r, q), [timeout EXCEPT ![r] = q], tick, m, low)
            /\ Elements(WithTimer(r, q)) = Elements(list) \cup {r}
    BY <1>4, WithTimerInOrder
  <2> QED
    BY <1>2, <1>3, <2>1
<1>6. o \in [Timer -> Ticks] /\ \A y \in Timer : y # t => o[y] = timeout[y]
  BY <1>2, <1>4
<1> HIDE DEF w, o
<1> QED
  BY <1>1, <1>5, <1>6

LEMMA StopNowInOrder ==
    ASSUME NEW m, NEW low, InOrder(list, timeout, tick, m, low), NEW t, StopNow(t)
    PROVE  /\ timeout' = timeout
           /\ active' = [active EXCEPT ![t] = FALSE]
           /\ InOrder(list', timeout', tick, m, low)
           /\ Elements(list') = IF active[t] THEN Elements(list) \ {t} ELSE Elements(list)
<1>1. CASE active[t]
  BY <1>1, WithoutInOrder DEF StopNow
<1>2. CASE ~ active[t]
  BY <1>2 DEF StopNow
<1> QED
  BY <1>1, <1>2

\* No call is going to put t back.
Free(t) == \A th \in Thread : pc[th].op \in {"compute", "insert", "clear"} => pc[th].timer # t

LEMMA LinkedFree ==
    ASSUME NEW m, Kept(m), NEW t, Linked(t)
    PROVE  Free(t)
  BY DEF Kept, CallHolds, Free

\* A timer h is taken off the list for its callback.
LEMMA ExpireKeeps ==
    ASSUME NEW m, Kept(m), NEW h \in Timer, Free(h), check.at \in {"no", "loop"},
           Elements(list') = Elements(list) \ {h},
           check' = [at |-> "callback", timer |-> h],
           UNCHANGED <<tick, timeout, active, pc>>
    PROVE  Kept(m)' /\ (Flagged => Flagged')
<1>1. check.timer = NoTimer
  BY DEF Kept, CheckHolds
<1>2. Types'
  BY DEF Kept, Types
<1>3. \A th \in Thread : CallHolds(th, m)'
  BY DEF Kept, CallHolds, Linked, Free
<1>4. CheckHolds'
  BY DEF CheckHolds, Linked
<1>5. Flagged => Flagged'
  BY <1>1, TimerAssumption DEF Flagged, FlagAgrees, Linked
<1> QED
  BY <1>2, <1>3, <1>4, <1>5 DEF Kept

\* No callback of a one-shot timer starts the timer itself: rt_timer_check would
\* mark it as stopped (the run timer_restart).
StartsOthers == \A t \in Timer \ Periodic : <<t, t>> \notin Starts

\* No callback stops another timer.
StopsSelf == \A t, x \in Timer : <<t, x>> \in Stops => t = x

\* After its callback a timer is on the list only if the next start moves it.
AfterHolds ==
    check.at = "after" /\ Linked(check.timer) => check.timer \in Periodic /\ active[check.timer]

LEMMA CallbackKeeps ==
    ASSUME Apart, NEW m, Slack(m), NEW low \in Nat, low + MaxLate <= m + 1, Kept(m),
           InOrder(list, timeout, tick, m, low), Callback
    PROVE  /\ Kept(m)' /\ InOrder(list', timeout', tick', m, low)
           /\ StartsOthers /\ Flagged => Flagged' /\ AfterHolds'
           /\ StopsSelf => Elements(list) \subseteq Elements(list')
<1> DEFINE Goal == /\ Kept(m)' /\ InOrder(list', timeout', tick', m, low)
                   /\ StartsOthers /\ Flagged => Flagged' /\ AfterHolds'
                   /\ StopsSelf => Elements(list) \subseteq Elements(list')
<1>1. /\ check.at = "callback" /\ check' = [check EXCEPT !.at = "after"]
      /\ tick' = tick /\ pc' = pc /\ Types /\ check.timer \in Timer
      /\ ~ Linked(check.timer)
  BY DEF Callback, Kept, CheckHolds
<1>2. /\ check'.at = "after" /\ check'.timer = check.timer
      /\ check' \in [at : {"no", "loop", "callback", "after"}, timer : Timer \cup {NoTimer}]
  BY <1>1 DEF Types
<1>3. CheckHolds'
  BY <1>1, <1>2 DEF CheckHolds
<1>4. CASE UNCHANGED <<list, timeout, active>>
  <2>1. Types' /\ \A th \in Thread : CallHolds(th, m)'
    BY <1>1, <1>2, <1>4 DEF Kept, Types, CallHolds, Linked
  <2>2. Flagged => Flagged' /\ AfterHolds'
    BY <1>1, <1>2, <1>4 DEF Flagged, FlagAgrees, AfterHolds, Linked
  <2> QED
    BY <1>1, <1>3, <1>4, <2>1, <2>2 DEF Kept
<1>5. ASSUME NEW x \in Timer, <<check.timer, x>> \in Starts, StartNow(x) PROVE Goal
  <2>1. /\ timeout' \in [Timer -> Ticks]
        /\ \A y \in Timer : y # x => timeout'[y] = timeout[y]
        /\ active' = [active EXCEPT ![x] = TRUE]
        /\ InOrder(list', timeout', tick', m, low)
        /\ Elements(list') = Elements(list) \cup {x}
    BY <1>1, <1>5, StartNowInOrder
  <2>2. Types'
    BY <1>1, <1>2, <2>1 DEF Types
  <2>3. ASSUME NEW th \in Thread PROVE CallHolds(th, m)'
    <3>1. \A t \in Managed[th] : t # x /\ t \in Timer
      BY <1>1, <1>5, TimerAssumption DEF Apart
    <3> QED
      BY <1>1, <1>2, <2>1, <3>1 DEF Kept, CallHolds, Linked
  <2>4. Flagged => Flagged'
    BY <1>1, <1>2, <2>1 DEF Flagged, FlagAgrees, Linked, Types
  <2>5. StartsOthers => AfterHolds'
    BY <1>1, <1>2, <1>5, <2>1 DEF StartsOthers, AfterHolds, Linked, Types
  <2> QED
    BY <1>3, <2>1, <2>2, <2>3, <2>4, <2>5 DEF Kept
<1>6. ASSUME NEW x \in Timer, <<check.timer, x>> \in Stops, StopNow(x) PROVE Goal
  <2>1. /\ timeout' = timeout /\ active' = [active EXCEPT ![x] = FALSE]
        /\ InOrder(list', timeout', tick', m, low)
        /\ Elements(list') = IF active[x] THEN Elements(list) \ {x} ELSE Elements(list)
    BY <1>1, <1>6, StopNowInOrder
  <2>2. Types'
    BY <1>1, <1>2, <2>1 DEF Types
  <2>3. \A th \in Thread : CallHolds(th, m)'
    BY <1>1, <1>2, <2>1 DEF Kept, CallHolds, Linked
  <2>4. Flagged => Flagged'
    BY <1>1, <1>2, <2>1 DEF Flagged, FlagAgrees, Linked, Types
  <2>5. AfterHolds'
    BY <1>1, <1>2, <2>1 DEF AfterHolds, Linked
  <2>6. StopsSelf => Elements(list) \subseteq Elements(list')
    BY <1>1, <1>6, <2>1 DEF StopsSelf, Linked
  <2> QED
    BY <1>3, <2>1, <2>2, <2>3, <2>4, <2>5, <2>6 DEF Kept
<1> QED
  BY <1>4, <1>5, <1>6 DEF Callback

\* A periodic timer is started again, any other one marked as stopped.
LEMMA RestartKeeps ==
    ASSUME NEW m, Slack(m), NEW low \in Nat, low + MaxLate <= m + 1, Kept(m),
           InOrder(list, timeout, tick, m, low),
           check.at = "after",
           IF check.timer \in Periodic /\ active[check.timer]
             THEN StartNow(check.timer)
             ELSE /\ active' = [active EXCEPT ![check.timer] = FALSE]
                  /\ UNCHANGED <<list, timeout>>,
           NEW at \in {"no", "loop"}, check' = [at |-> at, timer |-> NoTimer],
           UNCHANGED <<tick, pc>>
    PROVE  /\ Kept(m)' /\ InOrder(list', timeout', tick', m, low)
           /\ Flagged /\ AfterHolds => Flagged'
           /\ Elements(list) \subseteq Elements(list')
<1> DEFINE t == check.timer
<1>1. /\ tick' = tick /\ pc' = pc /\ Types /\ t \in Timer
      /\ check'.at = at /\ check'.timer = NoTimer
  BY DEF Kept, CheckHolds
<1>2. \A th \in Thread : pc[th].op \in {"compute", "insert", "clear"} => pc[th].timer # t
  BY DEF Kept, CallHolds
<1>3. \A th \in Thread : pc[th].op \notin {"run", "resume"} =>
                           pc[th].timer \in Timer /\ pc[th].timer # NoTimer
  BY TimerAssumption DEF Kept, CallHolds
<1>4. CheckHolds'
  BY <1>1 DEF CheckHolds
<1>5. CASE StartNow(t)
  <2>1. /\ timeout' \in [Timer -> Ticks]
        /\ \A y \in Timer : y # t => timeout'[y] = timeout[y]
        /\ active' = [active EXCEPT ![t] = TRUE]
        /\ InOrder(list', timeout', tick', m, low)
        /\ Elements(list') = Elements(list) \cup {t}
    <3> HIDE DEF t
    <3> QED
      BY <1>1, <1>5, StartNowInOrder
  <2>2. Types'
    BY <1>1, <2>1 DEF Types
  <2>3. \A th \in Thread : CallHolds(th, m)'
    BY <1>1, <1>2, <1>3, <2>1 DEF Kept, CallHolds, Linked
  <2>4. Flagged => Flagged'
    BY <1>1, <2>1 DEF Flagged, FlagAgrees, Linked, Types
  <2> QED
    BY <1>4, <2>1, <2>2, <2>3, <2>4 DEF Kept
<1>6. CASE /\ ~ (t \in Periodic /\ active[t]) /\ list' = list /\ timeout' = timeout
           /\ active' = [active EXCEPT ![t] = FALSE]
  <2>1. Types'
    BY <1>1, <1>6 DEF Types
  <2>2. \A th \in Thread : CallHolds(th, m)'
    BY <1>1, <1>3, <1>6 DEF Kept, CallHolds, Linked
  <2>3. AfterHolds => ~ Linked(t)
    BY <1>6 DEF AfterHolds
  <2>4. Flagged /\ AfterHolds => Flagged'
    BY <1>1, <1>6, <2>3 DEF Flagged, FlagAgrees, Linked, Types
  <2> QED
    BY <1>1, <1>4, <1>6, <2>1, <2>2, <2>4 DEF Kept
<1> QED
  BY <1>5, <1>6

\* The tick, which comes one nearer.
LEMMA NextTick ==
    ASSUME Types
    PROVE  Plus(tick, 1) \in Ticks
<1>1. CASE 1 \in Ticks
  BY <1>1, TickTypes DEF Types
<1>2. CASE 1 \notin Ticks
  <2>1. tick = 0 /\ TickMax = 0
    BY <1>2, HalfOfTicks DEF Ticks, Types
  <2> QED
    BY <2>1 DEF Plus, Ticks
<1> QED
  BY <1>1, <1>2

LEMMA TickInOrder ==
    ASSUME Types, NEW m, Slack(m), NEW low \in Nat, 1 <= low,
           InOrder(list, timeout, tick, m, low)
    PROVE  InOrder(list, timeout, Plus(tick, 1), m, low - 1)
<1> DEFINE k == Plus(tick, 1)
<1>1. ASSUME NEW y \in Elements(list)
      PROVE  /\ y \in Timer /\ Ahead(timeout[y], tick, m) \in Ticks
             /\ Ahead(timeout[y], k, m) = Ahead(timeout[y], tick, m) - 1
             /\ Ahead(timeout[y], tick, m) \in low..(InitTick[y] + m)
  <2>1. /\ y \in Timer /\ timeout[y] \in Ticks /\ tick \in Ticks
        /\ Ahead(timeout[y], tick, m) \in Ticks /\ low <= Ahead(timeout[y], tick, m)
        /\ Ahead(timeout[y], tick, m) \in low..(InitTick[y] + m)
    BY Within, InOrderOf DEF Types
  <2>2. Ahead(timeout[y], tick, m) >= 1 /\ m \in Ticks
    BY <2>1, SlackOf, HalfOfTicks DEF Ticks
  <2> QED
    BY <2>1, <2>2, TickAhead
<1> HIDE DEF k
<1>2. \A i \in 1..Len(list) : list[i] \in Elements(list)
  BY DEF Elements
<1>3. \A y \in Elements(list) : Ahead(timeout[y], k, m) \in (low - 1)..(InitTick[y] + m)
  <2> SUFFICES ASSUME NEW y \in Elements(list)
               PROVE  Ahead(timeout[y], k, m) \in (low - 1)..(InitTick[y] + m)
    OBVIOUS
  <2>1. InitTick[y] \in Ticks /\ m \in Ticks
    BY <1>1, SlackOf
  <2> QED
    BY <1>1, <2>1, HalfOfTicks DEF Ticks
<1>4. ASSUME NEW i \in 1..Len(list), NEW j \in 1..Len(list), i < j
      PROVE  Ahead(timeout[list[i]], k, m) <= Ahead(timeout[list[j]], k, m)
  <2>1. list[i] \in Timer /\ list[j] \in Timer
    BY <1>1, <1>2
  <2>2. Ahead(timeout[list[i]], tick, m) <= Ahead(timeout[list[j]], tick, m)
    BY <1>4, <2>1 DEF InOrder, Ordered
  <2>3. /\ Ahead(timeout[list[i]], k, m) = Ahead(timeout[list[i]], tick, m) - 1
        /\ Ahead(timeout[list[j]], k, m) = Ahead(timeout[list[j]], tick, m) - 1
        /\ Ahead(timeout[list[i]], tick, m) \in Ticks
        /\ Ahead(timeout[list[j]], tick, m) \in Ticks
    BY <1>1, <1>2
  <2> QED
    BY <2>2, <2>3, HalfOfTicks DEF Ticks
<1>5. Ordered(list, [y \in Timer |-> Ahead(timeout[y], k, m)])
  <2>1. \A i \in 1..Len(list) : list[i] \in Timer
    BY <1>1, <1>2
  <2> QED
    BY <1>4, <2>1 DEF Ordered
<1>6. InOrder(list, timeout, k, m, low - 1)
  BY <1>3, <1>5 DEF InOrder
<1> QED
  BY <1>6 DEF k

\* rt_tick_increase, which waits for an insertion that is as late as it can be.
LEMMA TickKeeps ==
    ASSUME NEW m, Slack(m), Kept(m),
           \A th \in Thread : pc[th].op = "insert" => Lateness(th) < MaxLate,
           tick' = Plus(tick, 1), UNCHANGED <<list, timeout, active, pc>>,
           check' = check \/ (check.at = "no" /\ check' = [at |-> "loop", timer |-> NoTimer])
    PROVE  Kept(m)' /\ (Flagged => Flagged')
<1>1. check'.timer = check.timer /\ (check'.at = check.at \/ check'.at \in {"no", "loop"})
  BY DEF Kept, CheckHolds
<1>2. Types'
  BY NextTick DEF Kept, Types
<1>3. ASSUME NEW th \in Thread PROVE CallHolds(th, m)'
  <2> DEFINE t == pc[th].timer
  <2>1. CASE pc[th].op # "insert"
    BY <1>1, <2>1 DEF Kept, CallHolds, Linked
  <2>2. CASE pc[th].op = "insert"
    <3>1. /\ t \in Timer /\ t # NoTimer /\ ~ Linked(t) /\ t \in Managed[th] /\ check.timer # t
          /\ Ahead(timeout[t], tick, m) \in (InitTick[t] + m - MaxLate)..(InitTick[t] + m)
      BY <2>2, TimerAssumption DEF Kept, CallHolds
    <3>2. Minus(Plus(tick, InitTick[t]), timeout[t]) < MaxLate
      BY <2>2 DEF Lateness
    <3> HIDE DEF t
    <3>3. /\ m \in Ticks /\ MaxLate \in Ticks /\ MaxLate <= m
          /\ InitTick[t] \in Ticks /\ InitTick[t] >= 1 /\ InitTick[t] + m <= Half
          /\ timeout[t] \in Ticks /\ tick \in Ticks
      BY <3>1, SlackOf DEF Kept, Types
    <3>4. Minus(Plus(tick, InitTick[t]), timeout[t])
            = InitTick[t] + m - Ahead(timeout[t], tick, m)
      <4>1. Ahead(timeout[t], tick, m) \in InitTick[t]..(InitTick[t] + m)
        BY <3>1, <3>3, HalfOfTicks DEF Ticks
      <4> QED
        BY <3>3, <4>1, LateAhead
    <3>5. Ahead(timeout[t], tick, m) \in (InitTick[t] + m - MaxLate + 1)..(InitTick[t] + m)
      BY <3>1, <3>2, <3>3, <3>4, HalfOfTicks DEF Ticks
    <3>6. Ahead(timeout[t], tick', m) \in (InitTick[t] + m - MaxLate)..(InitTick[t] + m)
      <4>1. Ahead(timeout[t], tick, m) >= 1
        BY <3>3, <3>5, HalfOfTicks DEF Ticks
      <4>2. Ahead(timeout[t], tick', m) = Ahead(timeout[t], tick, m) - 1
        BY <3>3, <4>1, TickAhead
      <4> QED
        BY <3>3, <3>5, <4>2, HalfOfTicks DEF Ticks
    <3> QED
      BY <1>1, <2>2, <3>1, <3>6 DEF t, CallHolds, Linked
  <2> QED
    BY <2>1, <2>2
<1>4. CheckHolds'
  BY <1>1 DEF Kept, CheckHolds, Linked
<1>5. Flagged => Flagged'
  BY <1>1 DEF Flagged, FlagAgrees, Linked
<1> QED
  BY <1>2, <1>3, <1>4, <1>5 DEF Kept

-----------------------------------------------------------------------------
(* The hard timers *)

\* rt_timer_check leaves no timer that is due, and takes none that is not.
TimerInv ==
    /\ Kept(MaxLate)
    /\ InOrder(list, timeout, tick, MaxLate, IF check.at = "no" THEN 1 ELSE 0)
    /\ check.at = "callback" => Ahead(timeout[check.timer], tick, MaxLate) <= MaxLate

FlagInv == Flagged /\ AfterHolds

LEMMA TimerInvInit == Init => TimerInv /\ FlagInv
<1> SUFFICES ASSUME Init PROVE TimerInv /\ FlagInv
  OBVIOUS
<1>1. Kept(MaxLate) /\ InOrder(list, timeout, tick, MaxLate, 1) /\ Flagged
  BY KeptInit
<1>2. check.at = "no"
  BY DEF Init, NoCheck
<1> QED
  BY <1>1, <1>2 DEF TimerInv, FlagInv, AfterHolds

\* The calls of the threads.
LEMMA ThreadStep ==
    ASSUME Apart, TimerInv, NEW th \in Thread,
           \/ Continue(th)
           \/ \E t \in Managed[th] : StartUnlink(th, t) \/ StopTest(th, t)
    PROVE  TimerInv' /\ (FlagInv => FlagInv')
<1>1. check.at = "no" /\ check' = check
  BY DEF Continue, StartCompute, StartInsert, StopUnlink, StopClear, StartUnlink, StopTest,
         Calls
<1>2. Kept(MaxLate) /\ InOrder(list, timeout, tick, MaxLate, 1) /\ Slack(MaxLate)
  BY <1>1, LateSlack DEF TimerInv
<1>3. /\ Kept(MaxLate)' /\ InOrder(list', timeout', tick', MaxLate, 1)
      /\ Flagged => Flagged'
  <2>1. CASE StartCompute(th)
    BY <1>2, <2>1, StartComputeKeeps
  <2>2. CASE StartInsert(th)
    <3>1. /\ Calls(th, "insert")
          /\ list' = WithTimer(pc[th].timer, timeout[pc[th].timer])
          /\ active' = [active EXCEPT ![pc[th].timer] = TRUE]
          /\ pc' = [pc EXCEPT ![th] = [op |-> "run", timer |-> NoTimer]]
          /\ UNCHANGED <<tick, timeout, check>>
      BY <2>2 DEF StartInsert, Return, Running
    <3>2. 1 \in Nat /\ 1 + MaxLate <= MaxLate + 1
      BY TimerAssumption
    <3> QED
      BY <1>2, <3>1, <3>2, InsertKeeps
  <2>3. CASE StopUnlink(th)
    BY <1>2, <2>3, StopUnlinkKeeps
  <2>4. CASE StopClear(th)
    BY <1>2, <2>4, StopClearKeeps
  <2>5. ASSUME NEW t \in Managed[th], StartUnlink(th, t) \/ StopTest(th, t)
        PROVE  /\ Kept(MaxLate)' /\ InOrder(list', timeout', tick', MaxLate, 1)
               /\ Flagged => Flagged'
    BY <1>2, <2>5, StartUnlinkKeeps, StopTestKeeps
  <2> QED
    BY <2>1, <2>2, <2>3, <2>4, <2>5 DEF Continue
<1> QED
  BY <1>1, <1>3 DEF TimerInv, FlagInv, AfterHolds

\* The tick interrupt.
LEMMA TickStep ==
    ASSUME TimerInv, Tick
    PROVE  TimerInv' /\ (FlagInv => FlagInv')
<1>1. /\ check.at = "no" /\ tick' = Plus(tick, 1)
      /\ check' = [at |-> "loop", timer |-> NoTimer]
      /\ UNCHANGED <<list, timeout, active, pc>>
      /\ \A th \in Thread : pc[th].op = "insert" => Lateness(th) < MaxLate
  BY DEF Tick, NoCheck
<1>2. Kept(MaxLate) /\ InOrder(list, timeout, tick, MaxLate, 1) /\ Slack(MaxLate)
  BY <1>1, LateSlack DEF TimerInv
<1>3. Kept(MaxLate)' /\ (Flagged => Flagged')
  BY <1>1, <1>2, TickKeeps
<1>4. InOrder(list, timeout, Plus(tick, 1), MaxLate, 1 - 1)
  BY <1>2, TickInOrder DEF Kept
<1> QED
  BY <1>1, <1>3, <1>4 DEF TimerInv, FlagInv, AfterHolds

\* The first timer is due if it is not ahead, and no other is if it is not.
LEMMA FirstDue ==
    ASSUME Types, NEW m, Slack(m), InOrder(list, timeout, tick, m, 0), list # <<>>
    PROVE  /\ Due(Head(list)) <=> Ahead(timeout[Head(list)], tick, m) <= m
           /\ ~ Due(Head(list)) => InOrder(list, timeout, tick, m, m + 1)
<1> DEFINE h == Head(list)
<1>1. /\ h \in Timer /\ h \in Elements(list)
      /\ \A y \in Elements(list) : Ahead(timeout[h], tick, m) <= Ahead(timeout[y], tick, m)
  BY TailInOrder DEF Types
<1> HIDE DEF h
<1>2. /\ m \in Ticks /\ m < Half /\ timeout[h] \in Ticks /\ tick \in Ticks
      /\ Ahead(timeout[h], tick, m) \in Ticks /\ Ahead(timeout[h], tick, m) <= Half
      /\ Ahead(tick, tick, m) = m
  BY <1>1, SlackOf, Within, NowAhead DEF Types
<1>3. m < Ahead(timeout[h], tick, m) + Half /\ m <= Half
  BY <1>2, HalfOfTicks DEF Ticks
<1>4. Due(h) <=> Ahead(timeout[h], tick, m) <= m
  BY <1>2, <1>3, RingOrder DEF Due
<1>5. ASSUME ~ Due(h), NEW y \in Elements(list)
      PROVE  Ahead(timeout[y], tick, m) \in (m + 1)..(InitTick[y] + m)
  <2>1. /\ Ahead(timeout[y], tick, m) \in Ticks /\ y \in Timer
        /\ Ahead(timeout[y], tick, m) <= InitTick[y] + m
        /\ Ahead(timeout[h], tick, m) <= Ahead(timeout[y], tick, m)
    BY <1>1, Within DEF Types
  <2>2. InitTick[y] \in Ticks
    BY <2>1, SlackOf
  <2> QED
    BY <1>2, <1>4, <1>5, <2>1, <2>2, HalfOfTicks DEF Ticks
<1> QED
  BY <1>4, <1>5 DEF h, InOrder

\* rt_timer_check.
LEMMA CheckStep ==
    ASSUME Apart, TimerInv, Check
    PROVE  TimerInv' /\ (StartsOthers /\ FlagInv => FlagInv')
<1>1. /\ check.at # "no" /\ Kept(MaxLate) /\ InOrder(list, timeout, tick, MaxLate, 0)
      /\ Slack(MaxLate) /\ Types /\ 0 \in Nat /\ 0 + MaxLate <= MaxLate + 1
  BY LateSlack, TimerAssumption
  DEF Check, CheckExpire, Callback, CheckRestart, CheckEnd, TimerInv, Kept
<1>2. CASE CheckExpire
  <2> DEFINE h == Head(list)
  <2>1. /\ check.at = "loop" /\ list # <<>> /\ Due(h)
        /\ list' = Tail(list) /\ check' = [at |-> "callback", timer |-> h]
        /\ UNCHANGED <<tick, timeout, active, pc>>
    BY <1>2 DEF CheckExpire, FirstIsDue
  <2>2. /\ h \in Timer /\ Linked(h) /\ Ahead(timeout[h], tick, MaxLate) <= MaxLate
        /\ InOrder(Tail(list), timeout, tick, MaxLate, 0)
        /\ Elements(Tail(list)) = Elements(list) \ {h}
    BY <1>1, <2>1, FirstDue, TailInOrder DEF Types, Linked
  <2> HIDE DEF h
  <2>3. Kept(MaxLate)' /\ (Flagged => Flagged')
    BY <1>1, <2>1, <2>2, LinkedFree, ExpireKeeps
  <2> QED
    BY <2>1, <2>2, <2>3 DEF TimerInv, FlagInv, AfterHolds
<1>3. CASE Callback
  <2>1. check'.at = "after"
    BY <1>1, <1>3 DEF Callback, Types
  <2>2. /\ Kept(MaxLate)' /\ InOrder(list', timeout', tick', MaxLate, 0)
        /\ StartsOthers /\ Flagged => Flagged' /\ AfterHolds'
    BY <1>1, <1>3, CallbackKeeps
  <2> QED
    BY <2>1, <2>2 DEF TimerInv, FlagInv
<1>4. CASE CheckRestart
  <2>1. /\ check.at = "after" /\ check' = [at |-> "loop", timer |-> NoTimer]
        /\ UNCHANGED <<tick, pc>>
        /\ IF check.timer \in Periodic /\ active[check.timer]
             THEN StartNow(check.timer)
             ELSE /\ active' = [active EXCEPT ![check.timer] = FALSE]
                  /\ UNCHANGED <<list, timeout>>
    BY <1>4 DEF CheckRestart, NoCheck
  <2>2. /\ Kept(MaxLate)' /\ InOrder(list', timeout', tick', MaxLate, 0)
        /\ Flagged /\ AfterHolds => Flagged'
    BY <1>1, <2>1, RestartKeeps
  <2> QED
    BY <2>1, <2>2 DEF TimerInv, FlagInv, AfterHolds
<1>5. CASE CheckEnd
  <2>1. /\ check.at = "loop" /\ check' = [at |-> "no", timer |-> NoTimer]
        /\ ~ FirstIsDue /\ UNCHANGED <<tick, list, timeout, active, pc>>
        /\ check.timer = NoTimer
    BY <1>1, <1>5 DEF CheckEnd, NoCheck, Kept, CheckHolds
  <2>2. InOrder(list, timeout, tick, MaxLate, 1)
    <3>1. CASE list = <<>>
      BY <1>1, <3>1, InOrderOf DEF InOrder
    <3>2. CASE list # <<>>
      <4>1. InOrder(list, timeout, tick, MaxLate, MaxLate + 1)
        BY <1>1, <2>1, <3>2, FirstDue DEF FirstIsDue
      <4>2. \A y \in Elements(list) :
              Ahead(timeout[y], tick, MaxLate) \in 1..(InitTick[y] + MaxLate)
        <5> SUFFICES ASSUME NEW y \in Elements(list)
                     PROVE  Ahead(timeout[y], tick, MaxLate) \in 1..(InitTick[y] + MaxLate)
          OBVIOUS
        <5>1. Ahead(timeout[y], tick, MaxLate) \in (MaxLate + 1)..(InitTick[y] + MaxLate)
          BY <4>1, InOrderOf
        <5> QED
          BY <5>1, TimerAssumption
      <4> QED
        BY <4>1, <4>2 DEF InOrder
    <3> QED
      BY <3>1, <3>2
  <2>3. Types' /\ CheckHolds'
    BY <1>1, <2>1 DEF Types, CheckHolds
  <2>4. \A th \in Thread : CallHolds(th, MaxLate)'
    BY <1>1, <2>1 DEF Kept, CallHolds, Linked
  <2>5. Flagged => Flagged'
    BY <2>1 DEF Flagged, FlagAgrees, Linked
  <2> QED
    BY <2>1, <2>2, <2>3, <2>4, <2>5 DEF TimerInv, Kept, FlagInv, AfterHolds
<1> QED
  BY <1>2, <1>3, <1>4, <1>5 DEF Check

LEMMA TimerInvNext ==
    ASSUME Apart, TimerInv, [Next]_vars
    PROVE  TimerInv' /\ (StartsOthers /\ FlagInv => FlagInv')
<1>1. CASE UNCHANGED vars
  BY <1>1 DEF vars, TimerInv, Kept, Types, CallHolds, CheckHolds, FlagInv, Flagged, FlagAgrees,
              AfterHolds, Linked
<1> QED
  BY <1>1, ThreadStep, TickStep, CheckStep DEF Next

LEMMA TimerInvHolds == Apart /\ Spec => []TimerInv
<1>1. Apart => (Init /\ [][Next]_vars => []TimerInv)
  <2> SUFFICES ASSUME Apart PROVE Init /\ [][Next]_vars => []TimerInv
    OBVIOUS
  <2>1. Init => TimerInv
    BY TimerInvInit
  <2>2. TimerInv /\ [Next]_vars => TimerInv'
    BY TimerInvNext
  <2> QED
    BY <2>1, <2>2, PTL
<1> QED
  BY <1>1, PTL DEF Spec

\* A list in which the distances ascend is sorted by the comparison of the code.
LEMMA InOrderSorted == TimerInv => Sorted
<1> SUFFICES ASSUME TimerInv, NEW i \in 1..Len(list), NEW j \in 1..Len(list), i < j
             PROVE  /\ Minus(timeout[list[j]], timeout[list[i]]) < Half
                    /\ list[i] # list[j]
  BY DEF Sorted
<1> DEFINE low == IF check.at = "no" THEN 1 ELSE 0
           a == Ahead(timeout[list[i]], tick, MaxLate)
           b == Ahead(timeout[list[j]], tick, MaxLate)
<1>1. InOrder(list, timeout, tick, MaxLate, low) /\ Types /\ low \in Nat
  BY DEF TimerInv, Kept
<1> HIDE DEF low
<1>2. list[i] \in Elements(list) /\ list[j] \in Elements(list)
  BY DEF Elements
<1>3. /\ list[i] \in Timer /\ list[j] \in Timer
      /\ timeout[list[i]] \in Ticks /\ timeout[list[j]] \in Ticks /\ tick \in Ticks
      /\ a \in Ticks /\ b \in Ticks /\ a <= Half /\ b <= InitTick[list[j]] + MaxLate
  BY <1>1, <1>2, LateSlack, Within DEF Types
<1>4. b < Half
  <2>1. InitTick[list[j]] + MaxLate < Half /\ InitTick[list[j]] \in Nat /\ MaxLate \in Nat
    BY <1>3, TimerAssumption
  <2> QED
    BY <1>3, <2>1, HalfOfTicks DEF Ticks
<1>5. a <= b /\ list[i] # list[j]
  <2>1. /\ Distinct(list) /\ Len(list) \in Nat
        /\ Ordered(list, [y \in Timer |-> Ahead(timeout[y], tick, MaxLate)])
    BY <1>1, LenProperties DEF InOrder
  <2>2. a <= b
    BY <1>3, <2>1 DEF Ordered
  <2>3. list[i] # list[j]
    BY <2>1 DEF Distinct
  <2> QED
    BY <2>2, <2>3
<1>6. b < a + Half /\ b <= Half
  BY <1>3, <1>4, HalfOfTicks DEF Ticks
<1>7. MaxLate \in Ticks
  BY <1>3, SlackOf, LateSlack
<1> QED
  BY <1>3, <1>5, <1>6, <1>7, RingOrder

\* The list is sorted in the order of expiry, at every tick and through its wraps.
THEOREM SortedHolds == Apart /\ Spec => []Sorted
  BY InOrderSorted, TimerInvHolds, PTL

\* A timer expires when its time has come, and no later than the insertion let it.
THEOREM OnTimeHolds == Apart /\ Spec => []OnTime
<1>1. TimerInv => OnTime
  <2> SUFFICES ASSUME TimerInv, check.at = "callback"
               PROVE  Minus(tick, timeout[check.timer]) <= MaxLate
    BY DEF OnTime
  <2> DEFINE d == timeout[check.timer]
  <2>1. /\ d \in Ticks /\ tick \in Ticks /\ MaxLate \in Ticks /\ MaxLate < Half
        /\ Ahead(d, tick, MaxLate) <= MaxLate
    BY SlackOf, LateSlack DEF TimerInv, Kept, CheckHolds, Types
  <2> HIDE DEF d
  <2>2. Ahead(d, tick, MaxLate) \in Ticks /\ Ahead(tick, tick, MaxLate) = MaxLate
    BY <2>1, TickTypes, NowAhead
  <2>3. /\ Ahead(d, tick, MaxLate) <= Half /\ MaxLate <= Half
        /\ MaxLate < Ahead(d, tick, MaxLate) + Half
    BY <2>1, <2>2, HalfOfTicks DEF Ticks
  <2>4. Minus(tick, d) = MaxLate - Ahead(d, tick, MaxLate)
    BY <2>1, <2>2, <2>3, RingOrder
  <2> QED
    BY <2>1, <2>2, <2>4, HalfOfTicks DEF d, Ticks
<1> QED
  BY <1>1, TimerInvHolds, PTL

\* The flag tells whether a timer is on the list.
THEOREM ActiveIffLinkedHolds == Apart /\ StartsOthers /\ Spec => []ActiveIffLinked
<1> DEFINE Inv == TimerInv /\ FlagInv
<1>1. Apart /\ StartsOthers => (Init /\ [][Next]_vars => []Inv)
  <2> SUFFICES ASSUME Apart, StartsOthers PROVE Init /\ [][Next]_vars => []Inv
    OBVIOUS
  <2>1. Init => Inv
    BY TimerInvInit
  <2>2. Inv /\ [Next]_vars => Inv'
    BY TimerInvNext
  <2> QED
    BY <2>1, <2>2, PTL
<1>2. Inv => ActiveIffLinked
  BY DEF FlagInv, Flagged, FlagAgrees, ActiveIffLinked, Settled
<1>3. Apart /\ StartsOthers /\ Spec => []Inv
  BY <1>1, PTL DEF Spec
<1> QED
  BY <1>2, <1>3, PTL

-----------------------------------------------------------------------------
(* The soft timers *)

\* No caller executes while the timer thread is awake: it has a higher priority
\* than the threads that call rt_timer_start and rt_timer_stop, and no interrupt
\* handler calls them.
NoneAbove == Above = {}

\* A timer is overdue when the timer thread is resumed, and for the ticks that it is
\* awake then.
Slip == Overdue + MaxBusy

\* A thread that inserted a timer has not resumed the timer thread yet.
Pending == \E th \in Thread : pc[th].op = "resume"

SoftTypes ==
    /\ busy \in 0..MaxBusy
    /\ server \in {"look", "empty", "suspended", "plan", "sleep", "delay", "check", "loop", "callback", "after"}
    /\ current \in Ticks
    /\ check.at = IF server \in {"callback", "after"} THEN server ELSE "no"

\* How far the tick is ahead that the timer thread goes by.
Sight == Ahead(current, tick, Slip)

\* It suspends itself for an empty list only, and does not sleep longer than until
\* the first timer expires, and the ticks it was awake after it read the tick.
Sleeps ==
    /\ server = "empty" => list = <<>>
    /\ server = "suspended" => list = <<>> \/ Pending
    /\ server = "plan" => list # <<>> /\ current = timeout[Head(list)]
    /\ server = "sleep" =>
         /\ Timer # {} /\ current + Slip <= Half
         /\ \A y \in Elements(list) : current + Slip <= Ahead(timeout[y], tick, Slip) + busy
    /\ server = "delay" =>
         /\ Timer # {} /\ Slip <= Sight /\ Sight <= Half
         /\ \/ Pending
            \/ \A y \in Elements(list) : Sight <= Ahead(timeout[y], tick, Slip) + MaxBusy

\* It goes through the list by a tick that is not older than it has been awake.
Serves ==
    /\ server \in {"loop", "after"} /\ successor # NoTimer => Slip - busy <= Sight /\ Sight <= Slip
    /\ server \in {"loop", "callback", "after"} /\ successor # NoTimer =>
         successor \in Timer /\ Free(successor)

SoftInv ==
    /\ Kept(Slip) /\ SoftTypes
    /\ InOrder(list, timeout, tick, Slip, MaxBusy - busy)
    /\ Sleeps /\ Serves

LEMMA SlipSlack ==
    /\ Slack(Slip) /\ Slip \in Nat /\ MaxBusy \in Nat /\ MaxLate \in Nat
    /\ MaxBusy + MaxBusy < Slip /\ MaxLate + MaxBusy <= Slip
<1>0. /\ Overdue \in Nat /\ MaxBusy < Overdue /\ MaxLate <= Overdue
      /\ MaxBusy \in Nat /\ MaxLate \in Nat
  BY TimerAssumption, SoftTimerAssumption DEF Overdue
<1>1. ASSUME NEW t \in Timer PROVE InitTick[t] + Slip <= Half
  <2>1. InitTick[t] \in Nat /\ InitTick[t] + Overdue + MaxBusy <= Half
    BY TimerAssumption, SoftTimerAssumption
  <2> QED
    BY <1>0, <2>1, HalfOfTicks DEF Slip
<1> QED
  BY <1>0, <1>1 DEF Slip, Slack

\* What nothing but the timer thread's own variables depends on.
LEMMA KeptSame ==
    ASSUME NEW m, Kept(m), UNCHANGED vars
    PROVE  Kept(m)' /\ (Flagged => Flagged')
  BY DEF vars, Kept, Types, CallHolds, CheckHolds, Flagged, FlagAgrees, Linked

\* A list that is in order for less is so for more if its timers are.
LEMMA RaiseInOrder ==
    ASSUME Types, NEW m, Slack(m), NEW low \in Nat, InOrder(list, timeout, tick, m, low),
           NEW more \in Nat, \A y \in Elements(list) : more <= Ahead(timeout[y], tick, m)
    PROVE  InOrder(list, timeout, tick, m, more)
<1>1. ASSUME NEW y \in Elements(list)
      PROVE  Ahead(timeout[y], tick, m) \in more..(InitTick[y] + m)
  <2>1. /\ y \in Timer /\ Ahead(timeout[y], tick, m) \in Ticks
        /\ Ahead(timeout[y], tick, m) <= InitTick[y] + m
    BY Within DEF Types
  <2>2. InitTick[y] \in Ticks /\ m \in Ticks
    BY <2>1, SlackOf
  <2> QED
    BY <2>1, <2>2, HalfOfTicks DEF Ticks
<1> QED
  BY <1>1 DEF InOrder

LEMMA SoftBasics ==
    ASSUME SoftInv
    PROVE  /\ Slack(Slip) /\ Kept(Slip) /\ Types
           /\ MaxBusy - busy \in Nat /\ (MaxBusy - busy) + MaxLate <= Slip + 1
           /\ InOrder(list, timeout, tick, Slip, MaxBusy - busy)
           /\ Timer # {} => Slip \in Ticks /\ Slip < Half
  BY SlipSlack, SlackOf DEF SoftInv, SoftTypes, Kept

LEMMA SoftInvInit == SoftInit => SoftInv /\ FlagInv
<1> SUFFICES ASSUME SoftInit PROVE SoftInv /\ FlagInv
  OBVIOUS
<1>1. Kept(Slip) /\ InOrder(list, timeout, tick, Slip, MaxBusy - 0) /\ Flagged
  BY KeptInit DEF SoftInit
<1>2. /\ server = "look" /\ current = 0 /\ busy = 0 /\ check.at = "no"
  BY DEF SoftInit, Init, NoCheck
<1>3. SoftTypes
  BY <1>2, SlipSlack, HalfOfTicks DEF SoftTypes, Ticks
<1> QED
  BY <1>1, <1>2, <1>3 DEF SoftInv, Sleeps, Serves, FlagInv, AfterHolds

\* A call other than an insertion only takes timers off the list.
LEMMA CallShrinks ==
    ASSUME Apart, NEW m, Slack(m), NEW low, Kept(m), InOrder(list, timeout, tick, m, low),
           NEW th \in Thread,
           \/ StartCompute(th) \/ StopUnlink(th) \/ StopClear(th)
           \/ \E t \in Managed[th] : StartUnlink(th, t) \/ StopTest(th, t)
    PROVE  /\ Kept(m)' /\ InOrder(list', timeout', tick', m, low)
           /\ Flagged => Flagged'
           /\ tick' = tick /\ check' = check
           /\ list = <<>> => list' = <<>>
           /\ \A y \in Elements(list') : y \in Elements(list) /\ timeout'[y] = timeout[y]
           /\ Pending => Pending'
<1>1. /\ Kept(m)' /\ InOrder(list', timeout', tick', m, low)
      /\ Flagged => Flagged'
  BY StartComputeKeeps, StopUnlinkKeeps, StopClearKeeps, StartUnlinkKeeps, StopTestKeeps
<1>2. tick' = tick /\ check' = check /\ check.at = "no" /\ pc[th].op # "resume"
  BY DEF StartCompute, StopUnlink, StopClear, StartUnlink, StopTest, Calls
<1>3. Pending => Pending'
  <2>1. \A r \in Thread : r # th => pc'[r] = pc[r]
    BY DEF StartCompute, StopUnlink, StopClear, StartUnlink, StopTest, Goto, Return, Kept, Types
  <2> QED
    BY <1>2, <2>1 DEF Pending
<1>4. \A y \in Elements(list') : y \in Elements(list) /\ timeout'[y] = timeout[y]
  <2>1. ASSUME NEW t, list' = Without(list, t), timeout' = timeout
        PROVE  \A y \in Elements(list') : y \in Elements(list) /\ timeout'[y] = timeout[y]
    BY <2>1, WithoutInOrder
  <2>2. CASE StartCompute(th)
    <3>1. /\ list' = list
          /\ timeout' = [timeout EXCEPT ![pc[th].timer] = Plus(tick, InitTick[pc[th].timer])]
          /\ ~ Linked(pc[th].timer)
      BY <2>2 DEF StartCompute, Calls, Kept, CallHolds
    <3>2. \A y \in Elements(list) : y \in Timer
      BY InOrderOf
    <3> QED
      BY <3>1, <3>2 DEF Kept, Types, Linked
  <2>3. CASE UNCHANGED <<list, timeout>>
    BY <2>3
  <2> QED
    BY <2>1, <2>2, <2>3 DEF StopUnlink, StopClear, StartUnlink, StopTest
<1>5. list = <<>> => list' = <<>>
  <2>1. list = <<>> => Elements(list) = {}
    BY InOrderOf
  <2>2. Elements(list') = {} => list' = <<>>
    BY <1>1, InOrderOf
  <2> QED
    BY <1>4, <2>1, <2>2
<1> QED
  BY <1>1, <1>2, <1>3, <1>4, <1>5

LEMMA SoftCallKeeps ==
    ASSUME Apart, NoneAbove, SoftInv, NEW th \in Thread, SoftCall(th)
    PROVE  SoftInv' /\ (FlagInv => FlagInv')
<1>1. /\ ServerWaits /\ UNCHANGED <<server, current, successor, busy>>
      /\ Kept(Slip)' /\ InOrder(list', timeout', tick', Slip, MaxBusy - busy)
      /\ Flagged => Flagged'
      /\ tick' = tick /\ check' = check
      /\ list = <<>> => list' = <<>>
      /\ \A y \in Elements(list') : y \in Elements(list) /\ timeout'[y] = timeout[y]
      /\ Pending => Pending'
  BY SoftBasics, CallShrinks DEF SoftCall, MayAct, NoneAbove
<1>2. SoftTypes'
  BY <1>1 DEF SoftInv, SoftTypes
<1>3. Sleeps' /\ Serves'
  BY <1>1 DEF SoftInv, Sleeps, Serves, ServerWaits, Sight
<1>4. FlagInv => FlagInv'
  BY <1>1 DEF SoftInv, SoftTypes, ServerWaits, FlagInv, AfterHolds
<1> QED
  BY <1>1, <1>2, <1>3, <1>4 DEF SoftInv

LEMMA SoftInsertKeeps ==
    ASSUME Apart, NoneAbove, SoftInv, NEW th \in Thread, SoftInsert(th)
    PROVE  SoftInv' /\ (FlagInv => FlagInv')
<1>1. /\ ServerWaits /\ UNCHANGED <<server, current, successor, busy>>
      /\ Calls(th, "insert")
      /\ list' = WithTimer(pc[th].timer, timeout[pc[th].timer])
      /\ active' = [active EXCEPT ![pc[th].timer] = TRUE]
      /\ pc' = [pc EXCEPT ![th] = [op |-> "resume", timer |-> NoTimer]]
      /\ UNCHANGED <<tick, timeout, check>>
  BY DEF SoftInsert, Goto, MayAct, NoneAbove
<1>2. /\ Kept(Slip)' /\ InOrder(list', timeout', tick', Slip, MaxBusy - busy)
      /\ Flagged => Flagged'
  BY <1>1, SoftBasics, InsertKeeps
<1>3. Pending'
  BY <1>1 DEF Pending, SoftInv, Kept, Types
<1>4. SoftTypes'
  BY <1>1 DEF SoftInv, SoftTypes
<1>5. Sleeps' /\ Serves'
  BY <1>1, <1>3 DEF SoftInv, Sleeps, Serves, ServerWaits, Sight
<1>6. FlagInv => FlagInv'
  BY <1>1, <1>2 DEF SoftInv, SoftTypes, ServerWaits, FlagInv, AfterHolds
<1> QED
  BY <1>1, <1>2, <1>4, <1>5, <1>6 DEF SoftInv

LEMMA SoftResumeKeeps ==
    ASSUME NoneAbove, SoftInv, NEW th \in Thread, SoftResume(th)
    PROVE  SoftInv' /\ (FlagInv => FlagInv')
<1>1. /\ ServerWaits /\ server' = "check" /\ UNCHANGED <<current, successor, busy>>
      /\ pc' = [pc EXCEPT ![th] = [op |-> "run", timer |-> NoTimer]]
      /\ pc[th].op = "resume" /\ check.at = "no"
      /\ UNCHANGED <<tick, list, timeout, active, check>>
  BY DEF SoftResume, Calls, Return, Running, MayAct, NoneAbove
<1>2. Types'
  BY <1>1 DEF SoftInv, Kept, Types
<1>3. \A r \in Thread : CallHolds(r, Slip)'
  BY <1>1 DEF SoftInv, Kept, Types, CallHolds, Linked
<1>4. CheckHolds'
  BY <1>1 DEF SoftInv, Kept, CheckHolds, Linked
<1>5. FlagInv => FlagInv'
  BY <1>1 DEF SoftInv, Kept, Types, FlagInv, Flagged, FlagAgrees, AfterHolds, Linked
<1>6. SoftTypes'
  BY <1>1 DEF SoftInv, SoftTypes
<1>7. Sleeps' /\ Serves'
  BY <1>1 DEF Sleeps, Serves
<1> QED
  BY <1>1, <1>2, <1>3, <1>4, <1>5, <1>6, <1>7 DEF SoftInv, Kept

\* The first timer, as the timer thread sees it.
LEMMA FirstOf ==
    ASSUME SoftInv, list # <<>>
    PROVE  /\ Head(list) \in Timer /\ Linked(Head(list))
           /\ timeout[Head(list)] \in Ticks
           /\ Ahead(timeout[Head(list)], tick, Slip) \in Ticks
           /\ Ahead(timeout[Head(list)], tick, Slip) <= Half
           /\ \A y \in Elements(list) :
                Ahead(timeout[Head(list)], tick, Slip) <= Ahead(timeout[y], tick, Slip)
           /\ Slip \in Ticks /\ Slip < Half /\ tick \in Ticks /\ Ahead(tick, tick, Slip) = Slip
<1> DEFINE low == MaxBusy - busy
<1>1. Types /\ Slack(Slip) /\ low \in Nat /\ InOrder(list, timeout, tick, Slip, low)
  BY SoftBasics
<1> HIDE DEF low
<1>2. timeout \in [Timer -> Ticks] /\ tick \in Ticks
  BY <1>1 DEF Types
<1>3. /\ Head(list) \in Timer /\ Head(list) \in Elements(list)
      /\ \A y \in Elements(list) :
           Ahead(timeout[Head(list)], tick, Slip) <= Ahead(timeout[y], tick, Slip)
  BY <1>1, <1>2, TailInOrder
<1>4. Slip \in Ticks /\ Slip < Half
  BY <1>1, <1>3, SlackOf
<1>5. Ahead(tick, tick, Slip) = Slip
  BY <1>2, <1>4, NowAhead
<1> QED
  BY <1>1, <1>2, <1>3, <1>4, <1>5, Within DEF Linked

LEMMA SoftLookKeeps ==
    ASSUME SoftInv, SoftLook
    PROVE  SoftInv' /\ (FlagInv => FlagInv')
<1>1. /\ server = "look" /\ UNCHANGED vars
      /\ busy' = busy
      /\ \/ list = <<>> /\ server' = "empty" /\ current' = current
         \/ list # <<>> /\ server' = "plan" /\ current' = timeout[Head(list)]
  BY DEF SoftLook
<1>2. Kept(Slip)' /\ (Flagged => Flagged')
  BY <1>1, KeptSame DEF SoftInv
<1>3. list' = list /\ timeout' = timeout /\ tick' = tick /\ check' = check /\ active' = active
  BY <1>1 DEF vars
<1>4. check.at = "no"
  BY <1>1 DEF SoftInv, SoftTypes
<1>5. current' \in Ticks
  BY <1>1, FirstOf DEF SoftInv, SoftTypes
<1>6. SoftTypes'
  BY <1>1, <1>3, <1>4, <1>5, SlipSlack DEF SoftInv, SoftTypes
<1>7. InOrder(list', timeout', tick', Slip, MaxBusy - busy')
  BY <1>1, <1>3 DEF SoftInv
<1>8. Sleeps' /\ Serves'
  BY <1>1, <1>3 DEF Sleeps, Serves
<1>9. FlagInv => FlagInv'
  BY <1>2, <1>3, <1>4 DEF FlagInv, AfterHolds
<1> QED
  BY <1>2, <1>6, <1>7, <1>8, <1>9 DEF SoftInv

LEMMA SoftSuspendKeeps ==
    ASSUME SoftInv, SoftSuspend
    PROVE  SoftInv' /\ (FlagInv => FlagInv')
<1>1. /\ server = "empty" /\ server' = "suspended" /\ UNCHANGED vars
      /\ busy' = 0 /\ current' = current
  BY DEF SoftSuspend
<1>2. Kept(Slip)' /\ (Flagged => Flagged')
  BY <1>1, KeptSame DEF SoftInv
<1>3. /\ list' = list /\ timeout' = timeout /\ tick' = tick /\ check' = check
      /\ check.at = "no" /\ list = <<>>
  BY <1>1 DEF vars, SoftInv, SoftTypes, Sleeps
<1>4. SoftTypes'
  BY <1>1, <1>3, SlipSlack DEF SoftInv, SoftTypes
<1>5. InOrder(list', timeout', tick', Slip, MaxBusy - busy')
  BY <1>3, InOrderOf DEF SoftInv, InOrder
<1>6. Sleeps' /\ Serves'
  BY <1>1, <1>3 DEF Sleeps, Serves
<1>7. FlagInv => FlagInv'
  BY <1>2, <1>3 DEF FlagInv, AfterHolds
<1> QED
  BY <1>2, <1>4, <1>5, <1>6, <1>7 DEF SoftInv

LEMMA SoftPlanKeeps ==
    ASSUME SoftInv, SoftPlan
    PROVE  SoftInv' /\ (FlagInv => FlagInv')
<1>1. /\ server = "plan" /\ UNCHANGED vars /\ busy' = busy
      /\ \/ Minus(current, tick) < Half /\ server' = "sleep" /\ current' = Minus(current, tick)
         \/ server' = "check" /\ current' = current
  BY DEF SoftPlan
<1>2. Kept(Slip)' /\ (Flagged => Flagged')
  BY <1>1, KeptSame DEF SoftInv
<1>3. /\ list' = list /\ timeout' = timeout /\ tick' = tick /\ check' = check
      /\ active' = active /\ pc' = pc
  BY <1>1 DEF vars
<1>4. check.at = "no" /\ list # <<>> /\ current = timeout[Head(list)]
  BY <1>1 DEF SoftInv, SoftTypes, Sleeps
<1>5. /\ Sight <= Half /\ Sight \in Ticks /\ current \in Ticks /\ tick \in Ticks
      /\ Slip \in Ticks /\ Slip < Half /\ Ahead(tick, tick, Slip) = Slip
      /\ \A y \in Elements(list) : Sight <= Ahead(timeout[y], tick, Slip)
      /\ Timer # {}
  BY <1>4, FirstOf DEF Sight
<1>6. SoftTypes'
  BY <1>1, <1>3, <1>4, <1>5, TickTypes DEF SoftInv, SoftTypes
<1>7. Minus(current, tick) < Half => Minus(current, tick) = Sight - Slip
  <2>1. Sight < Slip + Half /\ Slip <= Half
    BY <1>5, SlipSlack, HalfOfTicks DEF Ticks
  <2> QED
    BY <1>5, <2>1, RingOrder DEF Sight
<1>8. InOrder(list', timeout', tick', Slip, MaxBusy - busy')
  BY <1>1, <1>3 DEF SoftInv
<1>9. Sleeps' /\ Serves'
  <2>1. CASE server' = "sleep"
    <3>1. current' + Slip = Sight
      BY <1>1, <1>5, <1>7, <2>1, HalfOfTicks DEF Ticks
    <3>2. ASSUME NEW y \in Elements(list)
          PROVE  Sight <= Ahead(timeout[y], tick, Slip) + busy
      <4>1. /\ Sight <= Ahead(timeout[y], tick, Slip) /\ Ahead(timeout[y], tick, Slip) \in Ticks
            /\ busy \in Nat
        BY <1>5, SoftBasics, Within DEF Types, SoftInv, SoftTypes
      <4> QED
        BY <1>5, <4>1, HalfOfTicks DEF Ticks
    <3> QED
      BY <1>1, <1>3, <1>5, <2>1, <3>1, <3>2 DEF Sleeps, Serves
  <2>2. CASE server' = "check"
    BY <2>2 DEF Sleeps, Serves
  <2> QED
    BY <1>1, <2>1, <2>2
<1>10. FlagInv => FlagInv'
  BY <1>2, <1>3, <1>4 DEF FlagInv, AfterHolds
<1> QED
  BY <1>2, <1>6, <1>8, <1>9, <1>10 DEF SoftInv

LEMMA SoftSleepKeeps ==
    ASSUME SoftInv, SoftSleep
    PROVE  SoftInv' /\ (FlagInv => FlagInv')
<1>1. /\ server = "sleep" /\ server' = "delay" /\ UNCHANGED vars
      /\ current' = Plus(tick, current) /\ busy' = 0
  BY DEF SoftSleep
<1>2. Kept(Slip)' /\ (Flagged => Flagged')
  BY <1>1, KeptSame DEF SoftInv
<1>3. /\ list' = list /\ timeout' = timeout /\ tick' = tick /\ check' = check
      /\ active' = active /\ pc' = pc
  BY <1>1 DEF vars
<1>4. /\ check.at = "no" /\ busy \in 0..MaxBusy /\ current \in Ticks /\ tick \in Ticks
      /\ Timer # {} /\ current + Slip <= Half
      /\ \A y \in Elements(list) : current + Slip <= Ahead(timeout[y], tick, Slip) + busy
  BY <1>1 DEF SoftInv, SoftTypes, Sleeps, Kept, Types
<1>5. /\ Types /\ Slack(Slip) /\ MaxBusy - busy \in Nat /\ MaxBusy \in Nat
      /\ InOrder(list, timeout, tick, Slip, MaxBusy - busy)
      /\ Slip \in Ticks /\ Slip \in Nat /\ MaxBusy + MaxBusy < Slip
  BY <1>4, SoftBasics, SlipSlack
<1>6. current' \in Ticks /\ Sight' = current + Slip
  BY <1>1, <1>3, <1>4, <1>5, StartAhead DEF Sight
<1>7. SoftTypes'
  BY <1>1, <1>3, <1>4, <1>5, <1>6 DEF SoftInv, SoftTypes
<1>8. \A y \in Elements(list) :
        /\ Sight' <= Ahead(timeout[y], tick, Slip) + MaxBusy
        /\ MaxBusy <= Ahead(timeout[y], tick, Slip)
  <2> SUFFICES ASSUME NEW y \in Elements(list)
               PROVE  /\ current + Slip <= Ahead(timeout[y], tick, Slip) + MaxBusy
                      /\ MaxBusy <= Ahead(timeout[y], tick, Slip)
    BY <1>6
  <2>1. Ahead(timeout[y], tick, Slip) \in Nat /\ current \in Nat
    BY <1>4, <1>5, Within DEF Types, Ticks
  <2> QED
    BY <1>4, <1>5, <2>1
<1>9. InOrder(list', timeout', tick', Slip, MaxBusy - busy')
  <2>1. InOrder(list, timeout, tick, Slip, MaxBusy)
    BY <1>5, <1>8, RaiseInOrder
  <2>2. MaxBusy - busy' = MaxBusy
    BY <1>1, <1>5
  <2> QED
    BY <1>3, <2>1, <2>2
<1>10. Sleeps' /\ Serves'
  <2>1. Slip <= Sight' /\ Sight' <= Half
    BY <1>4, <1>5, <1>6 DEF Ticks
  <2> QED
    BY <1>1, <1>3, <1>4, <1>8, <2>1 DEF Sleeps, Serves
<1>11. FlagInv => FlagInv'
  BY <1>2, <1>3, <1>4 DEF FlagInv, AfterHolds
<1> QED
  BY <1>2, <1>7, <1>9, <1>10, <1>11 DEF SoftInv

\* The timers the timer thread has still to look at are on the list.
NextLinked ==
    server \in {"loop", "callback", "after"} /\ successor # NoTimer => Linked(successor)

LEMMA SoftCheckKeeps ==
    ASSUME SoftInv, SoftCheck
    PROVE  SoftInv' /\ (FlagInv => FlagInv') /\ NextLinked'
<1>1. /\ server = "check" /\ server' = "loop" /\ UNCHANGED vars /\ busy' = busy
      /\ current' = tick /\ successor' = First
  BY DEF SoftCheck
<1>2. Kept(Slip)' /\ (Flagged => Flagged')
  BY <1>1, KeptSame DEF SoftInv
<1>3. /\ list' = list /\ timeout' = timeout /\ tick' = tick /\ check' = check
      /\ active' = active /\ pc' = pc
  BY <1>1 DEF vars
<1>4. check.at = "no" /\ busy \in 0..MaxBusy /\ tick \in Ticks
  BY <1>1 DEF SoftInv, SoftTypes, Kept, Types
<1>5. SoftTypes'
  BY <1>1, <1>3, <1>4 DEF SoftInv, SoftTypes
<1>6. successor' # NoTimer =>
        successor' \in Timer /\ Linked(successor') /\ Free(successor') /\ Sight' = Slip
  <2>1. CASE list # <<>>
    <3>1. successor' = Head(list) /\ Linked(Head(list)) /\ Head(list) \in Timer
          /\ Ahead(tick, tick, Slip) = Slip
      BY <1>1, <2>1, FirstOf DEF First
    <3>2. Free(Head(list))
      BY <3>1, LinkedFree DEF SoftInv
    <3> QED
      BY <1>1, <1>3, <3>1, <3>2 DEF Sight
  <2>2. CASE list = <<>>
    BY <1>1, <2>2 DEF First
  <2> QED
    BY <2>1, <2>2
<1>7. Sleeps' /\ NextLinked'
  BY <1>1, <1>3, <1>6 DEF Sleeps, NextLinked, Linked
<1>8. Serves'
  BY <1>1, <1>3, <1>4, <1>6, SlipSlack DEF Serves, Free
<1>9. FlagInv => FlagInv'
  BY <1>2, <1>3, <1>4 DEF FlagInv, AfterHolds
<1> QED
  BY <1>1, <1>2, <1>3, <1>5, <1>7, <1>8, <1>9 DEF SoftInv

LEMMA SoftExpireKeeps ==
    ASSUME SoftInv, SoftExpire
    PROVE  SoftInv' /\ (FlagInv => FlagInv') /\ (NextLinked => NextLinked')
<1> DEFINE h == successor
<1>1. /\ server = "loop" /\ h # NoTimer /\ server' = "callback"
      /\ list' = Without(list, h) /\ successor' = NextOf(h)
      /\ check' = [at |-> "callback", timer |-> h]
      /\ tick' = tick /\ timeout' = timeout /\ active' = active /\ pc' = pc
      /\ current' = current /\ busy' = busy
  BY DEF SoftExpire
<1>2. h \in Timer /\ Free(h) /\ check.at = "no"
  BY <1>1 DEF SoftInv, Serves, SoftTypes
<1>3. /\ InOrder(list, timeout, tick, Slip, MaxBusy - busy)
      /\ list \in Seq(Timer) /\ Distinct(list) /\ Len(list) \in Nat
      /\ \A i \in 1..Len(list) : list[i] \in Elements(list) /\ list[i] \in Timer
  BY InOrderOf, LenProperties DEF SoftInv
<1> HIDE DEF h
<1>4. /\ InOrder(list', timeout', tick', Slip, MaxBusy - busy)
      /\ Elements(list') = Elements(list) \ {h}
  BY <1>1, <1>3, WithoutInOrder
<1>5. Kept(Slip)' /\ (Flagged => Flagged')
  BY <1>1, <1>2, <1>4, ExpireKeeps DEF SoftInv
<1>6. /\ Linked(h) /\ successor' # NoTimer =>
           successor' \in Timer /\ successor' # h /\ Linked(successor')
      /\ ~ Linked(h) => successor' = h
  <2>1. CASE ~ Linked(h)
    BY <1>1, <2>1 DEF NextOf
  <2>2. CASE Linked(h)
    <3> DEFINE i == CHOOSE i \in 1..Len(list) : list[i] = h
    <3>1. successor' = IF i = Len(list) THEN NoTimer ELSE list[i + 1]
      BY <1>1, <2>2 DEF NextOf
    <3>2. i \in 1..Len(list) /\ list[i] = h
      BY <2>2 DEF Linked, Elements
    <3> HIDE DEF i
    <3>3. i # Len(list) => i + 1 \in 1..Len(list)
      BY <1>3, <3>2
    <3>4. i # Len(list) => list[i + 1] # h
      BY <1>3, <3>2, <3>3 DEF Distinct
    <3> QED
      BY <1>3, <2>2, <3>1, <3>3, <3>4 DEF Linked
  <2> QED
    BY <2>1, <2>2
<1>7. successor' # NoTimer => successor' \in Timer /\ Free(successor')
  BY <1>2, <1>6, LinkedFree DEF SoftInv
<1>8. SoftTypes'
  BY <1>1, <1>2 DEF SoftInv, SoftTypes
<1>9. Sleeps' /\ Serves'
  BY <1>1, <1>7 DEF Sleeps, Serves, Free
<1>10. NextLinked => NextLinked'
  BY <1>1, <1>4, <1>6 DEF NextLinked, Linked, h
<1>11. FlagInv => FlagInv'
  BY <1>1, <1>5 DEF FlagInv, AfterHolds
<1> QED
  BY <1>1, <1>4, <1>5, <1>8, <1>9, <1>10, <1>11 DEF SoftInv

LEMMA SoftEndKeeps ==
    ASSUME SoftInv, SoftEnd
    PROVE  SoftInv' /\ (FlagInv => FlagInv') /\ NextLinked'
<1>1. /\ server = "loop" /\ server' = "look" /\ UNCHANGED vars
      /\ current' = current /\ successor' = successor /\ busy' = busy
  BY DEF SoftEnd
<1>2. Kept(Slip)' /\ (Flagged => Flagged')
  BY <1>1, KeptSame DEF SoftInv
<1>3. list' = list /\ timeout' = timeout /\ tick' = tick /\ check' = check /\ check.at = "no"
  BY <1>1 DEF vars, SoftInv, SoftTypes
<1>4. SoftTypes'
  BY <1>1, <1>3 DEF SoftInv, SoftTypes
<1> QED
  BY <1>1, <1>2, <1>3, <1>4 DEF SoftInv, Sleeps, Serves, FlagInv, AfterHolds, NextLinked

LEMMA SoftCallbackKeeps ==
    ASSUME Apart, SoftInv, SoftCallback
    PROVE  /\ SoftInv'
           /\ StartsOthers /\ FlagInv => FlagInv'
           /\ StopsSelf /\ NextLinked => NextLinked'
<1>1. /\ server = "callback" /\ Callback /\ server' = "after" /\ current' = tick
      /\ successor' = successor /\ busy' = busy /\ tick' = tick /\ pc' = pc
      /\ check.at = "callback" /\ check' = [check EXCEPT !.at = "after"]
  BY DEF SoftCallback, Callback
<1>2. /\ Kept(Slip)' /\ InOrder(list', timeout', tick', Slip, MaxBusy - busy)
      /\ StartsOthers /\ Flagged => Flagged' /\ AfterHolds'
      /\ StopsSelf => Elements(list) \subseteq Elements(list')
  BY <1>1, SoftBasics, CallbackKeeps
<1>3. check'.at = "after" /\ tick \in Ticks /\ busy \in 0..MaxBusy /\ check.timer \in Timer
  BY <1>1 DEF SoftInv, Kept, Types, CheckHolds, SoftTypes
<1>4. SoftTypes'
  BY <1>1, <1>3 DEF SoftInv, SoftTypes
<1>5. Sight' = Slip
  BY <1>1, <1>3, SoftBasics, NowAhead DEF Sight
<1>6. Sleeps' /\ Serves'
  BY <1>1, <1>3, <1>5, SlipSlack DEF SoftInv, Sleeps, Serves, Free
<1>7. StopsSelf /\ NextLinked => NextLinked'
  BY <1>1, <1>2 DEF NextLinked, Linked
<1> QED
  BY <1>1, <1>2, <1>4, <1>6, <1>7 DEF SoftInv, FlagInv

LEMMA SoftRestartKeeps ==
    ASSUME SoftInv, SoftRestart
    PROVE  SoftInv' /\ (FlagInv => FlagInv') /\ (NextLinked => NextLinked')
<1>1. /\ server = "after" /\ check.at = "after" /\ server' = "loop"
      /\ check' = [at |-> "no", timer |-> NoTimer]
      /\ IF check.timer \in Periodic /\ active[check.timer]
           THEN StartNow(check.timer)
           ELSE /\ active' = [active EXCEPT ![check.timer] = FALSE]
                /\ UNCHANGED <<list, timeout>>
      /\ tick' = tick /\ pc' = pc
      /\ current' = current /\ successor' = successor /\ busy' = busy
  BY DEF SoftRestart, NoCheck, SoftInv, SoftTypes
<1>2. /\ Kept(Slip)' /\ InOrder(list', timeout', tick', Slip, MaxBusy - busy)
      /\ Flagged /\ AfterHolds => Flagged'
      /\ Elements(list) \subseteq Elements(list')
  BY <1>1, SoftBasics, RestartKeeps
<1>3. SoftTypes'
  BY <1>1 DEF SoftInv, SoftTypes
<1>4. Sight' = Sight
  BY <1>1 DEF Sight
<1>5. Sleeps' /\ Serves'
  BY <1>1, <1>4 DEF SoftInv, Sleeps, Serves, Free
<1>6. NextLinked => NextLinked'
  BY <1>1, <1>2 DEF NextLinked, Linked
<1> QED
  BY <1>1, <1>2, <1>3, <1>5, <1>6 DEF SoftInv, FlagInv, AfterHolds

LEMMA SoftTickKeeps ==
    ASSUME SoftInv, SoftTick
    PROVE  SoftInv' /\ (FlagInv => FlagInv') /\ (NextLinked => NextLinked')
<1> DEFINE counts == ~ ServerWaits \/ Pending
<1>1. /\ \A th \in Thread : pc[th].op = "insert" => Lateness(th) < MaxLate
      /\ tick' = Plus(tick, 1)
      /\ server' = IF server = "delay" /\ Minus(tick', current) < Half THEN "check" ELSE server
      /\ counts => busy < MaxBusy
      /\ busy' = IF counts THEN busy + 1 ELSE 0
      /\ list' = list /\ timeout' = timeout /\ active' = active /\ check' = check /\ pc' = pc
      /\ current' = current /\ successor' = successor
  BY DEF SoftTick, Pending
<1>2. /\ Slack(Slip) /\ Kept(Slip) /\ Types /\ MaxBusy - busy \in Nat
      /\ InOrder(list, timeout, tick, Slip, MaxBusy - busy)
      /\ busy \in 0..MaxBusy /\ MaxBusy \in Nat /\ tick \in Ticks /\ current \in Ticks
  BY SoftBasics, SlipSlack DEF Types, SoftInv, SoftTypes
<1>3. Kept(Slip)' /\ (Flagged => Flagged')
  BY <1>1, <1>2, TickKeeps
<1>4. tick' \in Ticks
  BY <1>1, <1>2, NextTick
<1>5. SoftTypes'
  BY <1>1, <1>2 DEF SoftInv, SoftTypes
<1>6. \A d \in Ticks : Slip \in Ticks /\ Ahead(d, tick, Slip) >= 1 =>
                         Ahead(d, tick', Slip) = Ahead(d, tick, Slip) - 1
  BY <1>1, <1>2, TickAhead
<1>7. \A y \in Elements(list) :
        /\ y \in Timer /\ timeout[y] \in Ticks /\ Slip \in Ticks /\ Slip < Half
        /\ Ahead(timeout[y], tick, Slip) \in Ticks
        /\ MaxBusy - busy <= Ahead(timeout[y], tick, Slip)
  BY <1>2, Within, SlackOf DEF Types
<1>8. ASSUME server = "delay", ~ Pending
      PROVE  \A y \in Elements(list) : MaxBusy + 1 <= Ahead(timeout[y], tick, Slip)
  <2> SUFFICES ASSUME NEW y \in Elements(list)
               PROVE  MaxBusy + 1 <= Ahead(timeout[y], tick, Slip)
    OBVIOUS
  <2>1. Slip <= Sight /\ Sight <= Ahead(timeout[y], tick, Slip) + MaxBusy
    BY <1>8 DEF SoftInv, Sleeps
  <2>2. /\ Sight \in Nat /\ Slip \in Nat /\ Ahead(timeout[y], tick, Slip) \in Nat
        /\ MaxBusy + MaxBusy < Slip
    BY <1>2, <1>7, TickTypes, SlipSlack DEF Sight, Ticks
  <2> QED
    BY <1>2, <2>1, <2>2
<1>9. InOrder(list', timeout', tick', Slip, MaxBusy - busy')
  <2>1. CASE counts
    <3> DEFINE left == MaxBusy - busy
    <3>1. left \in Nat /\ 1 <= left /\ MaxBusy - busy' = left - 1
      BY <1>1, <1>2, <2>1
    <3>2. InOrder(list, timeout, tick, Slip, left)
      BY <1>2
    <3> HIDE DEF left, counts
    <3>3. InOrder(list, timeout, Plus(tick, 1), Slip, left - 1)
      BY <1>2, <3>1, <3>2, TickInOrder
    <3>4. InOrder(list, timeout, Plus(tick, 1), Slip, MaxBusy - busy')
      BY <3>1, <3>3
    <3>5. list' = list /\ timeout' = timeout /\ tick' = Plus(tick, 1)
      BY <1>1
    <3> QED
      BY <3>4, <3>5
  <2>2. CASE ~ counts /\ list = <<>>
    <3>1. list' = list /\ list \in Seq(Timer) /\ Distinct(list) /\ Elements(list) = {}
      BY <1>1, <1>2, <2>2 DEF InOrder, Elements
    <3>2. \A f : Ordered(list, f)
      BY <2>2 DEF Ordered
    <3> QED
      BY <3>1, <3>2 DEF InOrder
  <2>3. CASE ~ counts /\ list # <<>>
    <3>1. server = "delay" /\ ~ Pending /\ busy' = 0
      BY <1>1, <2>3 DEF ServerWaits, SoftInv, Sleeps
    <3>2. InOrder(list, timeout, tick, Slip, MaxBusy + 1)
      BY <1>2, <1>8, <3>1, RaiseInOrder
    <3>3. InOrder(list, timeout, tick', Slip, (MaxBusy + 1) - 1)
      BY <1>1, <1>2, <3>2, TickInOrder
    <3>4. MaxBusy - busy' = (MaxBusy + 1) - 1
      BY <1>2, <3>1
    <3> QED
      BY <1>1, <3>3, <3>4
  <2> QED
    BY <2>1, <2>2, <2>3
<1>10. Pending' <=> Pending
  BY <1>1 DEF Pending
<1>11. ASSUME server' = "delay"
       PROVE  /\ Timer # {} /\ Slip <= Sight' /\ Sight' <= Half
              /\ \/ Pending
                 \/ \A y \in Elements(list) : Sight' <= Ahead(timeout[y], tick', Slip) + MaxBusy
  <2>1. /\ server = "delay" /\ ~ (Minus(tick', current) < Half)
        /\ Slip <= Sight /\ Sight <= Half /\ Timer # {}
        /\ \/ Pending
           \/ \A y \in Elements(list) : Sight <= Ahead(timeout[y], tick, Slip) + MaxBusy
    BY <1>1, <1>11 DEF SoftInv, Sleeps
  <2>2. /\ Slip \in Ticks /\ Slip < Half /\ Slip \in Nat /\ 1 <= Slip
        /\ Ahead(tick', tick', Slip) = Slip
    BY <1>2, <1>4, <2>1, SlackOf, SlipSlack, NowAhead
  <2>3. Sight \in Ticks /\ Sight >= 1
    BY <1>2, <2>1, <2>2, TickTypes, HalfOfTicks DEF Sight, Ticks
  <2>4. Sight' = Sight - 1 /\ Sight' = Ahead(current, tick', Slip)
    BY <1>1, <1>2, <1>6, <2>2, <2>3 DEF Sight
  <2>5. Sight' <= Half /\ Slip <= Half /\ Slip < Sight' + Half
    BY <2>1, <2>2, <2>3, <2>4, HalfOfTicks DEF Ticks
  <2>6. ~ (Sight' <= Slip)
    BY <1>2, <1>4, <2>1, <2>2, <2>4, <2>5, RingOrder
  <2>7. Slip <= Sight'
    BY <2>2, <2>3, <2>4, <2>6, HalfOfTicks DEF Ticks
  <2>8. ASSUME ~ Pending, NEW y \in Elements(list)
        PROVE  Sight' <= Ahead(timeout[y], tick', Slip) + MaxBusy
    <3>1. /\ timeout[y] \in Ticks /\ Ahead(timeout[y], tick, Slip) \in Ticks
          /\ Sight <= Ahead(timeout[y], tick, Slip) + MaxBusy
          /\ MaxBusy + 1 <= Ahead(timeout[y], tick, Slip)
      BY <1>7, <1>8, <2>1, <2>8
    <3>2. Ahead(timeout[y], tick, Slip) >= 1
      BY <1>2, <3>1, HalfOfTicks DEF Ticks
    <3>3. Ahead(timeout[y], tick', Slip) = Ahead(timeout[y], tick, Slip) - 1
      BY <1>6, <2>2, <3>1, <3>2
    <3> QED
      BY <1>2, <2>3, <2>4, <3>1, <3>3, HalfOfTicks DEF Ticks
  <2> QED
    BY <2>1, <2>5, <2>7, <2>8
<1>12. Sleeps'
  <2>1. ASSUME server = "sleep", NEW y \in Elements(list)
        PROVE  current + Slip <= Ahead(timeout[y], tick', Slip) + busy'
    <3>1. /\ current + Slip <= Ahead(timeout[y], tick, Slip) + busy
          /\ busy < MaxBusy /\ busy' = busy + 1
      BY <1>1, <2>1 DEF SoftInv, Sleeps, ServerWaits
    <3>2. /\ timeout[y] \in Ticks /\ Slip \in Ticks /\ Ahead(timeout[y], tick, Slip) \in Ticks
          /\ Ahead(timeout[y], tick, Slip) >= 1
      BY <1>2, <1>7, <3>1, HalfOfTicks DEF Ticks
    <3>3. Ahead(timeout[y], tick', Slip) = Ahead(timeout[y], tick, Slip) - 1
      BY <1>6, <3>2
    <3> QED
      BY <1>2, <3>1, <3>2, <3>3, HalfOfTicks DEF Ticks
  <2> QED
    BY <1>1, <1>10, <1>11, <2>1 DEF SoftInv, Sleeps
<1>13. ASSUME server \in {"loop", "after"}, successor # NoTimer
       PROVE  Slip - busy' <= Sight' /\ Sight' <= Slip
  <2>1. /\ Slip - busy <= Sight /\ Sight <= Slip /\ successor \in Timer
        /\ busy < MaxBusy /\ busy' = busy + 1
    BY <1>1, <1>13 DEF SoftInv, Serves, ServerWaits
  <2>2. Slip \in Ticks /\ Slip \in Nat /\ MaxBusy + MaxBusy < Slip
    BY <1>2, <2>1, SlackOf, SlipSlack
  <2>3. Sight \in Ticks /\ Sight >= 1
    BY <1>2, <2>1, <2>2, TickTypes, HalfOfTicks DEF Sight, Ticks
  <2>4. Sight' = Sight - 1
    BY <1>1, <1>2, <1>6, <2>2, <2>3 DEF Sight
  <2> QED
    BY <1>2, <2>1, <2>2, <2>3, <2>4, HalfOfTicks DEF Ticks
<1>14. Serves'
  BY <1>1, <1>13 DEF SoftInv, Serves, Free
<1>15. NextLinked => NextLinked'
  BY <1>1 DEF NextLinked, Linked
<1>16. SoftInv'
  BY <1>3, <1>5, <1>9, <1>12, <1>14 DEF SoftInv
<1>17. AfterHolds => AfterHolds'
  BY <1>1 DEF AfterHolds, Linked
<1> HIDE DEF counts
<1> QED
  BY <1>3, <1>15, <1>16, <1>17 DEF FlagInv

LEMMA SoftInvNext ==
    ASSUME Apart, NoneAbove, SoftInv, [SoftNext]_softVars
    PROVE  /\ SoftInv'
           /\ StartsOthers /\ FlagInv => FlagInv'
           /\ StopsSelf /\ NextLinked => NextLinked'
<1>1. CASE UNCHANGED softVars
  BY <1>1 DEF softVars, vars, SoftInv, Kept, Types, CallHolds, CheckHolds, FlagInv, Flagged,
              FlagAgrees, AfterHolds, NextLinked, Linked, SoftTypes, Sleeps, Serves, Sight,
              Pending, Free
<1>2. ASSUME NEW th \in Thread, SoftCall(th) \/ SoftInsert(th) \/ SoftResume(th)
      PROVE  NextLinked'
  BY <1>2 DEF SoftCall, SoftInsert, SoftResume, MayAct, NoneAbove, ServerWaits, NextLinked
<1>3. CASE SoftLook \/ SoftSuspend \/ SoftPlan \/ SoftSleep
  BY <1>3, SoftLookKeeps, SoftSuspendKeeps, SoftPlanKeeps, SoftSleepKeeps
     DEF SoftLook, SoftSuspend, SoftPlan, SoftSleep, NextLinked
<1> QED
  BY <1>1, <1>2, <1>3, SoftCallKeeps, SoftInsertKeeps, SoftResumeKeeps, SoftCheckKeeps,
     SoftExpireKeeps, SoftEndKeeps, SoftCallbackKeeps, SoftRestartKeeps, SoftTickKeeps
  DEF SoftNext, Serve

LEMMA SoftInvHolds == Apart /\ NoneAbove /\ SoftSpec => []SoftInv
<1>1. Apart /\ NoneAbove => (SoftInit /\ [][SoftNext]_softVars => []SoftInv)
  <2> SUFFICES ASSUME Apart, NoneAbove PROVE SoftInit /\ [][SoftNext]_softVars => []SoftInv
    OBVIOUS
  <2>1. SoftInit => SoftInv
    BY SoftInvInit
  <2>2. SoftInv /\ [SoftNext]_softVars => SoftInv'
    BY SoftInvNext
  <2> QED
    BY <2>1, <2>2, PTL
<1> QED
  BY <1>1, PTL DEF SoftSpec

\* The timer thread sleeps without end only if there is no timer, and past the first
\* one by no more than the ticks between its two readings of the tick.
THEOREM NoOversleepHolds == Apart /\ NoneAbove /\ SoftSpec => []NoOversleep
<1>1. SoftInv => NoOversleep
  <2> SUFFICES ASSUME SoftInv, ServerWaits, list # <<>>, ~ Pending
               PROVE  /\ server = "delay"
                      /\ \/ Minus(timeout[Head(list)], current) < Half
                         \/ Minus(current, timeout[Head(list)]) <= MaxBusy
    BY DEF NoOversleep, Pending
  <2> DEFINE d == timeout[Head(list)]
             b == Ahead(d, tick, Slip)
  <2>1. /\ server = "delay" /\ Slip <= Sight /\ Sight <= Half
        /\ \A y \in Elements(list) : Sight <= Ahead(timeout[y], tick, Slip) + MaxBusy
    BY DEF ServerWaits, SoftInv, Sleeps
  <2>2. /\ Linked(Head(list)) /\ d \in Ticks /\ b \in Ticks /\ b <= Half
        /\ Slip \in Ticks /\ tick \in Ticks /\ current \in Ticks
    BY FirstOf DEF SoftInv, SoftTypes
  <2>3. Sight <= b + MaxBusy /\ Sight \in Ticks
    BY <2>1, <2>2, TickTypes DEF Linked, Sight
  <2>4. /\ b < Sight + Half /\ b \in Nat /\ Sight \in Nat
        /\ MaxBusy \in Nat /\ MaxBusy + MaxBusy < Slip /\ Slip \in Nat
    BY <2>1, <2>2, <2>3, SlipSlack, HalfOfTicks DEF Ticks
  <2> HIDE DEF d
  <2>5. Minus(d, current) < Half <=> Sight <= b
    BY <2>1, <2>2, <2>3, <2>4, RingOrder DEF Sight
  <2>6. Sight < b + Half
    BY <2>1, <2>2, <2>3, <2>4, HalfOfTicks
  <2>7. /\ Minus(current, d) < Half <=> b <= Sight
        /\ Minus(current, d) < Half => Minus(current, d) = Sight - b
    BY <2>1, <2>2, <2>3, <2>6, RingOrder DEF Sight
  <2>8. Minus(d, current) < Half \/ Minus(current, d) <= MaxBusy
    BY <2>3, <2>4, <2>5, <2>7
  <2> QED
    BY <2>1, <2>8 DEF d
<1> QED
  BY <1>1, SoftInvHolds, PTL

\* A callback is made for a timer that is on the list, when its time has come, and at
\* most Overdue + MaxBusy ticks later.
THEOREM FiresLinkedHolds ==
    Apart /\ NoneAbove /\ StartsOthers /\ StopsSelf /\ SoftSpec => FiresLinked
<1> DEFINE Inv == SoftInv /\ FlagInv /\ NextLinked
           Fires == server = "loop" /\ server' = "callback" =>
                      /\ Linked(successor) /\ active[successor]
                      /\ Minus(tick, timeout[successor]) <= Overdue + MaxBusy
<1>1. Inv /\ [SoftNext]_softVars => Fires
  <2> SUFFICES ASSUME Inv, [SoftNext]_softVars, server = "loop", server' = "callback"
               PROVE  /\ Linked(successor) /\ active[successor]
                      /\ Minus(tick, timeout[successor]) <= Overdue + MaxBusy
    OBVIOUS
  <2>1. SoftExpire
    BY DEF softVars, SoftNext, Serve, SoftCall, SoftInsert, SoftResume, SoftLook, SoftSuspend,
           SoftPlan, SoftSleep, SoftCheck, SoftEnd, SoftCallback, SoftRestart, SoftTick, ServerWaits
  <2>2. /\ successor # NoTimer /\ successor \in Timer /\ Linked(successor)
        /\ Minus(current, timeout[successor]) < Half
        /\ Sight <= Slip /\ Slip - busy <= Sight
    BY <2>1 DEF SoftExpire, SoftDue, NextLinked, SoftInv, Serves
  <2>3. active[successor]
    <3>1. check.timer = NoTimer /\ FlagAgrees(successor)
      BY <2>2 DEF SoftInv, SoftTypes, Kept, CheckHolds, FlagInv, Flagged
    <3> QED
      BY <2>2, <3>1 DEF FlagAgrees, SoftInv, Kept, CallHolds
  <2> DEFINE d == timeout[successor]
             a == Ahead(d, tick, Slip)
  <2>4. /\ d \in Ticks /\ a \in Ticks /\ a <= Half /\ tick \in Ticks /\ current \in Ticks
        /\ Slip \in Ticks /\ Slip < Half /\ Ahead(tick, tick, Slip) = Slip
    BY <2>2, SoftBasics, Within, SlackOf, NowAhead DEF Linked, Types, SoftInv, SoftTypes
  <2>5. Sight \in Ticks
    BY <2>4, TickTypes DEF Sight
  <2>6. /\ Sight <= Half /\ Sight < a + Half /\ Slip <= Half /\ Slip < a + Half
    BY <2>2, <2>4, <2>5, HalfOfTicks DEF Ticks
  <2> HIDE DEF d
  <2>7. a <= Sight
    BY <2>2, <2>4, <2>6, RingOrder DEF Sight, d
  <2>8. a <= Slip
    BY <2>2, <2>4, <2>5, <2>7, HalfOfTicks DEF Ticks
  <2>9. Minus(tick, d) = Slip - a
    BY <2>4, <2>6, <2>8, RingOrder
  <2>10. Minus(tick, d) <= Overdue + MaxBusy
    BY <2>4, <2>9, SlipSlack, HalfOfTicks DEF Ticks, Slip
  <2> QED
    BY <2>2, <2>3, <2>10 DEF d
<1>2. Apart /\ NoneAbove /\ StartsOthers /\ StopsSelf =>
        (SoftInit /\ [][SoftNext]_softVars => [][Fires]_softVars)
  <2> SUFFICES ASSUME Apart, NoneAbove, StartsOthers, StopsSelf
               PROVE  SoftInit /\ [][SoftNext]_softVars => [][Fires]_softVars
    OBVIOUS
  <2>1. SoftInit => Inv
    BY SoftInvInit DEF SoftInit, NextLinked
  <2>2. Inv /\ [SoftNext]_softVars => Inv'
    BY SoftInvNext
  <2> QED
    BY <1>1, <2>1, <2>2, PTL
<1> QED
  BY <1>2, PTL DEF SoftSpec, FiresLinked
=============================================================================
