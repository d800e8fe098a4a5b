------------------------- MODULE PositionWalk_proofs -------------------------
(***************************************************************************)
(* Proofs about PositionWalk and PositionScore.  First what the operators  *)
(* of ExitRules do: days and windows (the bars of a window do not overlap, *)
(* none is missing and none is in it twice), the exit that a bar meets,    *)
(* and what one walk over a sequence of bars leaves behind (WalkOK, bar by *)
(* bar from WalkBegins by WalkGoesOn).  Then the invariant WalkInv of the  *)
(* position: the bars walked so far are apart and behind the cursor, the   *)
(* exit and the peak are those of one walk over all of them, and so are    *)
(* the excursions unless a check died.  OneWalk and OverdueCloses follow   *)
(* from it, and EveryBarIsJudged from it and from the window of one check. *)
(* Last the score: the close has a price and an instant (Priced), what is  *)
(* booked before a day is known from the days on which the trade was held  *)
(* and was left (BookOK, day by day from NothingBooked by DayBooks), and   *)
(* TradeIsBookedOnce is BookOK at the end of the grid.                     *)
(***************************************************************************)
EXTENDS PositionScore, SequenceTheorems, FiniteSetTheorems, WellFoundedInduction, TLAPS

-----------------------------------------------------------------------------
(* Numbers.                                                                 *)

LEMMA TimesIsMonotone ==
  ASSUME NEW a \in Nat, NEW b \in Nat, NEW c \in Nat, a <= b
  PROVE  a * c <= b * c
<1>1. PICK d \in Nat : b = a + d
  <2> WITNESS b - a \in Nat
  <2> QED
    OBVIOUS
<1>2. b * c = a * c + d * c /\ d * c \in Nat
  BY <1>1
<1> QED
  BY <1>2

LEMMA DivMod ==
  ASSUME NEW a \in Nat, NEW n \in Nat \ {0}
  PROVE  a \div n \in Nat /\ a % n \in 0 .. n - 1 /\ a = (a \div n) * n + (a % n)
  OBVIOUS

LEMMA DivUnique ==
  ASSUME NEW n \in Nat \ {0}, NEW q \in Nat, NEW r \in 0 .. n - 1
  PROVE  (q * n + r) \div n = q /\ (q * n + r) % n = r
<1> DEFINE a == q * n + r
<1>1. a \in Nat
  OBVIOUS
<1> HIDE DEF a
<1>2. PICK d \in Nat, e \in 0 .. n - 1 : d = a \div n /\ e = a % n /\ a = d * n + e
  BY <1>1, DivMod
<1>3. d * n + e = q * n + r
  BY <1>2 DEF a
<1>4. CASE d >= q + 1
  <2>1. d * n >= (q + 1) * n
    BY <1>4, TimesIsMonotone
  <2>2. (q + 1) * n = q * n + n /\ q * n \in Nat /\ d * n \in Nat
    OBVIOUS
  <2> QED
    BY <2>1, <2>2, <1>3
<1>5. CASE q >= d + 1
  <2>1. q * n >= (d + 1) * n
    BY <1>5, TimesIsMonotone
  <2>2. (d + 1) * n = d * n + n /\ q * n \in Nat /\ d * n \in Nat
    OBVIOUS
  <2> QED
    BY <2>1, <2>2, <1>3
<1>6. CASE d = q
  <2>1. d * n = q * n /\ q * n \in Nat
    BY <1>6
  <2>2. e = r
    BY <1>3, <2>1
  <2> QED
    BY <1>2, <1>6, <2>2 DEF a
<1> QED
  BY <1>2, <1>4, <1>5, <1>6

LEMMA LeastNatural ==
  ASSUME NEW T, T \subseteq Nat, T # {}
  PROVE  Min(T) \in T /\ \A y \in T : Min(T) <= y
<1> DEFINE less == {ss \in Nat \X Nat : ss[1] < ss[2]}
<1>1. IsWellFoundedOn(less, Nat)
  BY NatLessThanWellFounded DEF OpToRel
<1>2. \E x \in T : \A y \in T : ~ (<<y, x>> \in less)
  <2> HIDE DEF less
  <2> QED
    BY <1>1, WFMin
<1>3. PICK x \in T : \A y \in T : ~ (<<y, x>> \in less)
  BY <1>2
<1>4. ASSUME NEW y \in T, y < x PROVE FALSE
  <2>1. <<y, x>> \in less
    BY <1>4
  <2> QED
    BY <2>1, <1>3
<1>5. \E z \in T : \A y \in T : z <= y
  BY <1>4
<1> QED
  BY <1>5 DEF Min

\* By the least subset that would have none.
LEMMA GreatestOfFinite ==
  ASSUME NEW S, IsFiniteSet(S), S \subseteq Int, S # {}
  PROVE  Max(S) \in S /\ \A y \in S : Max(S) >= y
<1> DEFINE has(T) == T = {} \/ \E x \in T : \A y \in T : x >= y
           bad == {T \in SUBSET S : ~has(T)}
           smaller == StrictSubsetOrdering(S)
<1>1. ASSUME bad # {} PROVE FALSE
  <2>1. PICK T \in bad : \A U \in bad : ~ (<<U, T>> \in smaller)
    <3>1. IsWellFoundedOn(smaller, SUBSET S) /\ bad \subseteq SUBSET S
      BY FS_StrictSubsetOrderingWellFounded, FS_FiniteSubsetsOfFinite
    <3> HIDE DEF smaller, bad
    <3> QED
      BY <1>1, <3>1, WFMin
  <2>2. PICK t \in T : TRUE
    OBVIOUS
  <2>3. <<T \ {t}, T>> \in smaller
    BY <2>2 DEF StrictSubsetOrdering
  <2>4. has(T \ {t})
    BY <2>1, <2>3
  <2> QED
    BY <2>2, <2>4
<1>2. \E x \in S : \A y \in S : x >= y
  BY <1>1
<1> QED
  BY <1>2 DEF Max

-----------------------------------------------------------------------------
(* Bars in the order of their opening.                                      *)

\* By the least number of bars that would have no such order.
LEMMA OrderExists ==
  ASSUME NEW B, IsFiniteSet(B), \A b \in B : b.open \in Nat,
         \A a, b \in B : a.open = b.open => a = b
  PROVE  \E q \in [1 .. Cardinality(B) -> B] : \A i, j \in DOMAIN q : i < j => q[i].open < q[j].open
<1> DEFINE sorted(T) == \E q \in [1 .. Cardinality(T) -> T] : \A i, j \in DOMAIN q : i < j => q[i].open < q[j].open
           bad == {T \in SUBSET B : ~sorted(T)}
           smaller == StrictSubsetOrdering(B)
<1>1. ASSUME bad # {} PROVE FALSE
  <2>1. PICK T \in bad : \A U \in bad : ~ (<<U, T>> \in smaller)
    <3>1. IsWellFoundedOn(smaller, SUBSET B) /\ bad \subseteq SUBSET B
      BY FS_StrictSubsetOrderingWellFounded, FS_FiniteSubsetsOfFinite
    <3> HIDE DEF smaller, bad
    <3> QED
      BY <1>1, <3>1, WFMin
  <2>2. IsFiniteSet(T) /\ T \subseteq B
    BY <2>1, FS_Subset
  <2>3. CASE T = {}
    <3>1. Cardinality(T) = 0
      BY <2>3, FS_EmptySet
    <3>2. PICK q \in [1 .. Cardinality(T) -> T] : TRUE
      <4>1. [i \in 1 .. 0 |-> i] \in [1 .. Cardinality(T) -> T]
        BY <3>1
      <4> QED
        BY <4>1
    <3>3. DOMAIN q = {}
      BY <3>1, <3>2
    <3>4. \A i, j \in DOMAIN q : i < j => q[i].open < q[j].open
      BY <3>3
    <3>5. sorted(T)
      BY <3>2, <3>4
    <3> QED
      BY <2>1, <3>5
  <2>4. CASE T # {}
    <3> DEFINE opens == {b.open : b \in T}
    <3>1. opens \subseteq Nat /\ opens # {}
      BY <2>2, <2>4
    <3>2. Min(opens) \in opens /\ \A y \in opens : Min(opens) <= y
      <4> HIDE DEF opens
      <4> QED
        BY <3>1, LeastNatural
    <3>3. PICK first \in T : \A b \in T : first.open <= b.open
      <4>1. PICK first \in T : first.open = Min(opens)
        BY <3>2
      <4>2. \A b \in T : first.open <= b.open
        BY <3>2, <4>1
      <4> QED
        BY <4>1, <4>2
    <3> DEFINE U == T \ {first}
               n == Cardinality(U)
    <3>4. n \in Nat /\ Cardinality(T) = n + 1
      <4>1. IsFiniteSet(U) /\ n = Cardinality(T) - 1
        BY <2>2, <3>3, FS_RemoveElement
      <4>2. n \in Nat /\ Cardinality(T) \in Nat
        BY <2>2, <4>1, FS_CardinalityType
      <4> QED
        BY <4>1, <4>2
    <3>5. sorted(U)
      <4>1. <<U, T>> \in smaller
        BY <2>2, <3>3 DEF StrictSubsetOrdering
      <4> QED
        BY <2>1, <2>2, <4>1
    <3>6. PICK r \in [1 .. n -> U] : \A i, j \in DOMAIN r : i < j => r[i].open < r[j].open
      BY <3>5
    <3> HIDE DEF n
    <3> DEFINE q == [i \in 1 .. n + 1 |-> IF i = 1 THEN first ELSE r[i - 1]]
    <3>7. q \in [1 .. n + 1 -> T]
      BY <3>3, <3>4, <3>6
    <3>8. ASSUME NEW i \in 1 .. n + 1, NEW j \in 1 .. n + 1, i < j PROVE q[i].open < q[j].open
      <4>1. q[j] = r[j - 1] /\ j - 1 \in 1 .. n /\ r[j - 1] \in U
        BY <3>4, <3>6, <3>8
      <4>2. CASE i = 1
        <5>1. q[i] = first /\ first \in B /\ q[j] \in B /\ q[j] # first
          BY <2>2, <3>3, <4>1, <4>2
        <5>2. first.open <= q[j].open /\ first.open # q[j].open
          BY <3>3, <4>1, <5>1
        <5> QED
          BY <5>1, <5>2
      <4>3. CASE i # 1
        <5>1. q[i] = r[i - 1] /\ i - 1 \in 1 .. n /\ i - 1 < j - 1
          BY <3>4, <3>6, <3>8, <4>3
        <5> QED
          BY <3>6, <4>1, <5>1
      <4> QED
        BY <4>2, <4>3
    <3>9. sorted(T)
      <4> HIDE DEF q
      <4>1. \A i, j \in DOMAIN q : i < j => q[i].open < q[j].open
        BY <3>7, <3>8
      <4> QED
        BY <3>4, <3>7, <4>1
    <3> QED
      BY <2>1, <3>9
  <2> QED
    BY <2>3, <2>4
<1>2. sorted(B)
  BY <1>1
<1> QED
  BY <1>2

\* InOrder has every bar once.
LEMMA Ordered ==
  ASSUME NEW B, IsFiniteSet(B), \A b \in B : b.open \in Nat,
         \A a, b \in B : a.open = b.open => a = b
  PROVE  /\ InOrder(B) \in Seq(B)
         /\ \A i, j \in 1 .. Len(InOrder(B)) : i < j => InOrder(B)[i].open < InOrder(B)[j].open
         /\ \A b \in B : \E i \in 1 .. Len(InOrder(B)) : InOrder(B)[i] = b
<1> DEFINE q == InOrder(B)
           n == Cardinality(B)
<1>1. n \in Nat
  BY FS_CardinalityType
<1>2. q \in [1 .. n -> B] /\ \A i, j \in DOMAIN q : i < j => q[i].open < q[j].open
  BY OrderExists DEF InOrder
<1> HIDE DEF q
<1>3. q \in Seq(B) /\ Len(q) = n
  BY <1>1, <1>2, SeqDef
<1>4. q \in Injection(1 .. n, B)
  <2>1. ASSUME NEW i \in 1 .. n, NEW j \in 1 .. n, i # j PROVE q[i] # q[j]
    <3>1. i < j \/ j < i
      BY <1>1, <2>1
    <3>2. q[i].open \in Nat /\ q[j].open \in Nat /\ (q[i].open < q[j].open \/ q[j].open < q[i].open)
      BY <1>2, <3>1
    <3> QED
      BY <3>2
  <2> QED
    BY <1>2, <2>1 DEF Injection, IsInjective
<1>5. q \in Surjection(1 .. n, B)
  <2>1. Cardinality(1 .. n) = n
    BY <1>1, FS_Interval
  <2> QED
    BY <1>4, <2>1, FS_Injection
<1>6. \A b \in B : \E i \in 1 .. n : q[i] = b
  BY <1>5 DEF Surjection
<1> QED
  BY <1>2, <1>3, <1>6 DEF q

-----------------------------------------------------------------------------
(* Days, and the window of bars.                                            *)

IsRows(rows) == DOMAIN rows \subseteq Nat /\ IsFiniteSet(DOMAIN rows) /\ \A k \in DOMAIN rows : rows[k] \in ShapeType
Bar == [kind : {"intraday", "daily"}, open : Nat, end : Nat, shape : ShapeType]

LEMMA DayStart ==
  ASSUME NEW d \in Nat
  PROVE  d * DayLen \in Nat /\ (d + 1) * DayLen = d * DayLen + DayLen /\ DayLen \in Nat \ {0}
  BY ExitAssumption

LEMMA DaySplit ==
  ASSUME NEW t \in Nat
  PROVE  /\ t \div DayLen \in Nat /\ t % DayLen \in 0 .. DayLen - 1
         /\ t = (t \div DayLen) * DayLen + (t % DayLen)
<1>1. DayLen \in Nat \ {0}
  BY ExitAssumption
<1> QED
  BY <1>1, DivMod

LEMMA DayIs ==
  ASSUME NEW t \in Nat, NEW d \in Nat
  PROVE  DayOf(t) \in Nat /\ (d <= DayOf(t) <=> d * DayLen <= t)
<1> DEFINE e == t \div DayLen
<1>0. e \in Nat /\ t % DayLen \in 0 .. DayLen - 1 /\ t = e * DayLen + (t % DayLen)
  BY DaySplit
<1> HIDE DEF e
<1>1. /\ e \in Nat /\ t % DayLen \in 0 .. DayLen - 1 /\ DayLen \in Nat \ {0}
      /\ t = e * DayLen + (t % DayLen) /\ e * DayLen \in Nat /\ d * DayLen \in Nat
  BY <1>0, DayStart
<1>2. ASSUME d <= e PROVE d * DayLen <= t
  <2>1. d * DayLen <= e * DayLen
    BY <1>1, <1>2, TimesIsMonotone
  <2> QED
    BY <1>1, <2>1
<1>3. ASSUME e < d PROVE t < d * DayLen
  <2>1. (e + 1) * DayLen <= d * DayLen
    BY <1>1, <1>3, TimesIsMonotone
  <2>2. (e + 1) * DayLen = e * DayLen + DayLen
    BY <1>1
  <2> QED
    BY <1>1, <2>1, <2>2
<1> QED
  BY <1>1, <1>2, <1>3 DEF DayOf, e

LEMMA FirstFullDayIs ==
  ASSUME NEW t \in Nat, NEW d \in Nat
  PROVE  FirstFullDay(t) <= d <=> t <= d * DayLen
<1> DEFINE e == DayOf(t)
           r == t % DayLen
<1>0. e \in Nat /\ r \in 0 .. DayLen - 1 /\ t = e * DayLen + r
  BY DaySplit DEF DayOf
<1>2. FirstFullDay(t) = IF r = 0 THEN e ELSE e + 1
  BY DEF FirstFullDay
<1> HIDE DEF e, r
<1>1. /\ e \in Nat /\ r \in 0 .. DayLen - 1 /\ DayLen \in Nat \ {0}
      /\ t = e * DayLen + r /\ e * DayLen \in Nat /\ d * DayLen \in Nat
  BY <1>0, DayStart
<1>3. e <= d => e * DayLen <= d * DayLen
  BY <1>1, TimesIsMonotone
<1>4. e + 1 <= d => e * DayLen + DayLen <= d * DayLen
  <2>1. (e + 1) * DayLen = e * DayLen + DayLen
    BY <1>1
  <2> QED
    BY <1>1, <2>1, TimesIsMonotone
<1>5. d + 1 <= e => d * DayLen + DayLen <= e * DayLen
  <2>1. (d + 1) * DayLen = d * DayLen + DayLen
    BY <1>1
  <2> QED
    BY <1>1, <2>1, TimesIsMonotone
<1>6. d = e => d * DayLen = e * DayLen
  OBVIOUS
<1>7. CASE r = 0
  BY <1>1, <1>2, <1>3, <1>5, <1>7
<1>8. CASE r # 0
  BY <1>1, <1>2, <1>4, <1>5, <1>6, <1>8
<1> QED
  BY <1>7, <1>8

\* What the window is made of.
KeptRows(intra, anchor, asOf) == OldestRows(IntradayRows(intra, anchor, asOf))
KeptDays(intra, days, anchor, asOf) ==
  {day \in DailyRows(days, anchor, asOf) :
     /\ \A u \in KeptRows(intra, anchor, asOf) : DayOf(u) # day
     /\ Cardinality(IntradayRows(intra, anchor, asOf)) > RowCap =>
          \E u \in KeptRows(intra, anchor, asOf) : day <= DayOf(u)}

LEMMA WindowIs ==
  ASSUME NEW intra, NEW days, NEW anchor, NEW asOf
  PROVE  /\ WindowBars(intra, days, anchor, asOf) =
              {IntradayBar(u, intra[u]) : u \in KeptRows(intra, anchor, asOf)}
                \cup {DailyBar(d, days[d]) : d \in KeptDays(intra, days, anchor, asOf)}
         /\ KeptRows(intra, anchor, asOf) \subseteq {u \in DOMAIN intra : anchor <= u /\ u + 1 <= asOf}
         /\ KeptDays(intra, days, anchor, asOf) \subseteq
              {d \in DOMAIN days : FirstFullDay(anchor) <= d /\ d < DayOf(asOf)}
         /\ \A d \in KeptDays(intra, days, anchor, asOf) :
              \A u \in KeptRows(intra, anchor, asOf) : DayOf(u) # d
<1>1. WindowBars(intra, days, anchor, asOf) =
              {IntradayBar(u, intra[u]) : u \in KeptRows(intra, anchor, asOf)}
                \cup {DailyBar(d, days[d]) : d \in KeptDays(intra, days, anchor, asOf)}
  BY DEF WindowBars, KeptRows, KeptDays
<1>2. KeptRows(intra, anchor, asOf) \subseteq {u \in DOMAIN intra : anchor <= u /\ u + 1 <= asOf}
  BY DEF KeptRows, OldestRows, IntradayRows
<1>3. /\ KeptDays(intra, days, anchor, asOf) \subseteq
              {d \in DOMAIN days : FirstFullDay(anchor) <= d /\ d < DayOf(asOf)}
      /\ \A d \in KeptDays(intra, days, anchor, asOf) :
              \A u \in KeptRows(intra, anchor, asOf) : DayOf(u) # d
  BY DEF KeptDays, DailyRows
<1> QED
  BY <1>1, <1>2, <1>3

LEMMA ImageIsFinite ==
  ASSUME NEW S, IsFiniteSet(S), NEW f, DOMAIN f = S
  PROVE  IsFiniteSet({f[x] : x \in S})
<1> DEFINE T == {f[x] : x \in S}
           g == [x \in S |-> f[x]]
<1>1. g \in Surjection(S, T)
  BY DEF Surjection
<1> HIDE DEF T, g
<1> QED
  BY <1>1, FS_Surjection DEF T

LEMMA WindowIsFinite ==
  ASSUME NEW intra, NEW days, IsRows(intra), IsRows(days), NEW anchor, NEW asOf
  PROVE  IsFiniteSet(WindowBars(intra, days, anchor, asOf))
<1> DEFINE K == KeptRows(intra, anchor, asOf)
           D == KeptDays(intra, days, anchor, asOf)
<1>1. WindowBars(intra, days, anchor, asOf) =
        {IntradayBar(u, intra[u]) : u \in K} \cup {DailyBar(d, days[d]) : d \in D}
      /\ K \subseteq DOMAIN intra /\ D \subseteq DOMAIN days
  BY WindowIs
<1> HIDE DEF K, D
<1>2. IsFiniteSet(K) /\ IsFiniteSet(D)
  BY <1>1, FS_Subset DEF IsRows
<1>3. IsFiniteSet({IntradayBar(u, intra[u]) : u \in K})
  <2> DEFINE f == [u \in K |-> IntradayBar(u, intra[u])]
  <2>1. DOMAIN f = K /\ {f[u] : u \in K} = {IntradayBar(u, intra[u]) : u \in K}
    OBVIOUS
  <2> HIDE DEF f
  <2> QED
    BY <1>2, <2>1, ImageIsFinite
<1>4. IsFiniteSet({DailyBar(d, days[d]) : d \in D})
  <2> DEFINE f == [d \in D |-> DailyBar(d, days[d])]
  <2>1. DOMAIN f = D /\ {f[d] : d \in D} = {DailyBar(d, days[d]) : d \in D}
    OBVIOUS
  <2> HIDE DEF f
  <2> QED
    BY <1>2, <2>1, ImageIsFinite
<1> QED
  BY <1>1, <1>3, <1>4, FS_Union

\* An intraday bar and the daily bar of a day that shows none do not overlap.
LEMMA SlotAndDay ==
  ASSUME NEW u \in Nat, NEW d \in Nat, DayOf(u) # d
  PROVE  u + 1 <= d * DayLen \/ (d + 1) * DayLen <= u
<1>1. DayOf(u) \in Nat /\ (d <= DayOf(u) <=> d * DayLen <= u) /\ (d + 1 <= DayOf(u) <=> (d + 1) * DayLen <= u)
  BY DayIs
<1>2. d * DayLen \in Nat
  BY DayStart
<1> QED
  BY <1>1, <1>2

LEMMA TwoDays ==
  ASSUME NEW d \in Nat, NEW e \in Nat, d < e
  PROVE  (d + 1) * DayLen <= e * DayLen
<1>1. DayLen \in Nat /\ d + 1 \in Nat /\ d + 1 <= e
  BY DayStart
<1> QED
  BY <1>1, TimesIsMonotone

\* Bars of one window do not overlap.
LEMMA WindowApart ==
  ASSUME NEW intra, NEW days, IsRows(intra), IsRows(days), NEW anchor \in Nat, NEW asOf,
         NEW a \in WindowBars(intra, days, anchor, asOf), NEW b \in WindowBars(intra, days, anchor, asOf), a # b
  PROVE  a.end <= b.open \/ b.end <= a.open
<1> DEFINE K == KeptRows(intra, anchor, asOf)
           D == KeptDays(intra, days, anchor, asOf)
<1>1. /\ WindowBars(intra, days, anchor, asOf) =
           {IntradayBar(u, intra[u]) : u \in K} \cup {DailyBar(d, days[d]) : d \in D}
      /\ K \subseteq Nat /\ D \subseteq Nat /\ \A d \in D, u \in K : DayOf(u) # d
  BY WindowIs DEF IsRows
<1> HIDE DEF K, D
<1>2. ASSUME NEW u \in K, NEW v \in K, a = IntradayBar(u, intra[u]), b = IntradayBar(v, intra[v])
      PROVE  a.end <= b.open \/ b.end <= a.open
  <2>1. u # v /\ u \in Nat /\ v \in Nat
    BY <1>1, <1>2
  <2>2. a.open = u /\ a.end = u + 1 /\ b.open = v /\ b.end = v + 1
    BY <1>2 DEF IntradayBar
  <2> QED
    BY <2>1, <2>2
<1>3. ASSUME NEW x, NEW y, NEW u \in K, NEW d \in D, x = IntradayBar(u, intra[u]), y = DailyBar(d, days[d])
      PROVE  x.end <= y.open \/ y.end <= x.open
  <2>1. x.open = u /\ x.end = u + 1 /\ y.open = d * DayLen /\ y.end = (d + 1) * DayLen
    BY <1>3 DEF IntradayBar, DailyBar
  <2>2. u \in Nat /\ d \in Nat /\ DayOf(u) # d
    BY <1>1
  <2> QED
    BY <2>1, <2>2, SlotAndDay
<1>4. ASSUME NEW d \in D, NEW e \in D, a = DailyBar(d, days[d]), b = DailyBar(e, days[e])
      PROVE  a.end <= b.open \/ b.end <= a.open
  <2>1. d # e /\ d \in Nat /\ e \in Nat
    BY <1>1, <1>4
  <2>2. d < e \/ e < d
    BY <2>1
  <2>3. /\ a.open = d * DayLen /\ a.end = (d + 1) * DayLen
        /\ b.open = e * DayLen /\ b.end = (e + 1) * DayLen
    BY <1>4 DEF DailyBar
  <2> QED
    BY <2>1, <2>2, <2>3, TwoDays
<1>5. (\E u \in K : a = IntradayBar(u, intra[u])) \/ (\E d \in D : a = DailyBar(d, days[d]))
  BY <1>1
<1>6. (\E u \in K : b = IntradayBar(u, intra[u])) \/ (\E d \in D : b = DailyBar(d, days[d]))
  BY <1>1
<1> QED
  BY <1>2, <1>3, <1>4, <1>5, <1>6

LEMMA WindowTypes ==
  ASSUME NEW intra, NEW days, IsRows(intra), IsRows(days), NEW anchor \in Nat, NEW asOf,
         NEW b \in WindowBars(intra, days, anchor, asOf)
  PROVE  b \in Bar /\ anchor <= b.open /\ b.open < b.end /\ (asOf \in Nat => b.end <= asOf)
<1> DEFINE K == KeptRows(intra, anchor, asOf)
           D == KeptDays(intra, days, anchor, asOf)
<1>1. /\ WindowBars(intra, days, anchor, asOf) =
           {IntradayBar(u, intra[u]) : u \in K} \cup {DailyBar(d, days[d]) : d \in D}
      /\ K \subseteq {u \in DOMAIN intra : anchor <= u /\ u + 1 <= asOf}
      /\ D \subseteq {d \in DOMAIN days : FirstFullDay(anchor) <= d /\ d < DayOf(asOf)}
  BY WindowIs
<1> HIDE DEF K, D
<1>2. CASE \E u \in K : b = IntradayBar(u, intra[u])
  <2>1. PICK u \in K : b = IntradayBar(u, intra[u])
    BY <1>2
  <2>2. u \in Nat /\ intra[u] \in ShapeType /\ anchor <= u /\ u + 1 <= asOf
    BY <1>1 DEF IsRows
  <2>3. b = [kind |-> "intraday", open |-> u, end |-> u + 1, shape |-> intra[u]]
    BY <2>1 DEF IntradayBar
  <2> QED
    BY <2>2, <2>3 DEF Bar
<1>3. CASE \E d \in D : b = DailyBar(d, days[d])
  <2>1. PICK d \in D : b = DailyBar(d, days[d])
    BY <1>3
  <2>2. d \in Nat /\ days[d] \in ShapeType /\ FirstFullDay(anchor) <= d /\ d < DayOf(asOf)
    BY <1>1 DEF IsRows
  <2>3. b = [kind |-> "daily", open |-> d * DayLen, end |-> (d + 1) * DayLen, shape |-> days[d]]
    BY <2>1 DEF DailyBar
  <2>4. d * DayLen \in Nat /\ (d + 1) * DayLen = d * DayLen + DayLen /\ DayLen \in Nat \ {0}
    BY <2>2, DayStart
  <2>5. anchor <= d * DayLen
    BY <2>2, FirstFullDayIs
  <2>6. asOf \in Nat => (d + 1) * DayLen <= asOf
    BY <2>2, DayIs
  <2>7. b \in Bar
    BY <2>2, <2>3, <2>4 DEF Bar
  <2> QED
    BY <2>3, <2>4, <2>5, <2>6, <2>7
<1> QED
  BY <1>1, <1>2, <1>3

LEMMA WindowIsInOrder ==
  ASSUME NEW intra, NEW days, IsRows(intra), IsRows(days), NEW anchor \in Nat, NEW asOf
  PROVE  LET q == BarSequence(intra, days, anchor, asOf)
         IN /\ q \in Seq(Bar)
            /\ \A i \in 1 .. Len(q) : q[i] \in WindowBars(intra, days, anchor, asOf)
            /\ \A b \in WindowBars(intra, days, anchor, asOf) : \E i \in 1 .. Len(q) : q[i] = b
            /\ \A i, j \in 1 .. Len(q) : i < j => q[i].end <= q[j].open
<1> DEFINE B == WindowBars(intra, days, anchor, asOf)
           q == BarSequence(intra, days, anchor, asOf)
<1>1. IsFiniteSet(B) /\ B \subseteq Bar /\ \A b \in B : b.open \in Nat /\ b.end \in Nat /\ b.open < b.end
  BY WindowIsFinite, WindowTypes DEF Bar
<1>2. \A a, b \in B : a # b => a.end <= b.open \/ b.end <= a.open
  BY WindowApart
<1> HIDE DEF B
<1>3. \A a, b \in B : a.open = b.open => a = b
  BY <1>1, <1>2
<1>4. q = InOrder(B)
  BY DEF BarSequence, B
<1> HIDE DEF q
<1>5. /\ q \in Seq(B)
      /\ \A i, j \in 1 .. Len(q) : i < j => q[i].open < q[j].open
      /\ \A b \in B : \E i \in 1 .. Len(q) : q[i] = b
  BY <1>1, <1>3, <1>4, Ordered
<1>6. q \in Seq(Bar) /\ \A i \in 1 .. Len(q) : q[i] \in B
  BY <1>1, <1>5, SeqMonotonic, ElementOfSeq
<1>7. ASSUME NEW i \in 1 .. Len(q), NEW j \in 1 .. Len(q), i < j PROVE q[i].end <= q[j].open
  <2>1. q[i] \in B /\ q[j] \in B /\ q[i].open < q[j].open
    BY <1>5, <1>6, <1>7
  <2> QED
    BY <1>1, <1>2, <2>1
<1> QED
  BY <1>5, <1>6, <1>7 DEF q, B

-----------------------------------------------------------------------------
(* The stop and the exit.                                                   *)

Knobs == [breakEven : Nat, activation : Nat, distance : Nat, removesTarget : BOOLEAN]
IsTrail(trail) ==
  /\ trail.on \in BOOLEAN /\ {trail.breakEven, trail.activation, trail.distance} \subseteq Nat
  /\ ~trail.on => trail.breakEven = 0 /\ trail.distance = 0

LEMMA TrailIs == \A k \in Knobs : IsTrail(Trailing(k))
<1> TAKE k \in Knobs
<1>1. k.breakEven \in Nat /\ k.activation \in Nat /\ k.distance \in Nat /\ k.removesTarget \in BOOLEAN
  BY DEF Knobs
<1> DEFINE trails == k.activation > 0 /\ k.distance > 0
           trail == Trailing(k)
<1>2. /\ trail.on = (trails \/ k.breakEven > 0)
      /\ trail.breakEven = k.breakEven
      /\ trail.activation = IF trails THEN k.activation ELSE 0
      /\ trail.distance = IF trails THEN k.distance ELSE 0
  BY DEF Trailing
<1> HIDE DEF trail
<1>3. trail.on \in BOOLEAN /\ {trail.breakEven, trail.activation, trail.distance} \subseteq Nat
  <2>1. {trail.breakEven, trail.activation, trail.distance} \subseteq Nat
    <3> HIDE DEF trails
    <3> QED
      BY <1>1, <1>2
  <2>2. trail.on \in BOOLEAN
    BY <1>2, Zenon
  <2> QED
    BY <2>1, <2>2
<1>4. ASSUME ~trail.on PROVE trail.breakEven = 0 /\ trail.distance = 0
  <2>1. ~trails /\ ~(k.breakEven > 0)
    <3> HIDE DEF trails
    <3> QED
      BY <1>2, <1>4, Zenon
  <2>2. trail.distance = 0
    <3> HIDE DEF trails
    <3> QED
      BY <1>2, <2>1
  <2> QED
    BY <1>1, <1>2, <2>1, <2>2
<1> QED
  BY <1>3, <1>4 DEF IsTrail, trail

LEMMA Returns ==
  ASSUME NEW dir, NEW x \in Int
  PROVE  Gross(dir, x) \in Int /\ AtReturn(dir, x) \in Int
  BY DEF Gross, AtReturn, Entry

\* A peak of 0 is the entry, and without a trail no peak matters.
LEMMA RuleForgets ==
  ASSUME NEW dir, NEW trail, IsTrail(trail), NEW p, NEW q
  PROVE  /\ RatchetedStop(dir, 0, trail) = RatchetedStop(dir, Entry, trail)
         /\ ~trail.on => RatchetedStop(dir, p, trail) = RatchetedStop(dir, q, trail)
<1>1. RatchetedStop(dir, 0, trail) = RatchetedStop(dir, Entry, trail)
  BY DEF RatchetedStop, Entry
<1>2. ASSUME ~trail.on PROVE RatchetedStop(dir, p, trail) = RatchetedStop(dir, q, trail)
  <2>1. trail.breakEven = 0 /\ trail.distance = 0
    BY <1>2 DEF IsTrail
  <2>2. ~(trail.breakEven > 0) /\ ~(trail.distance > 0)
    BY <2>1
  <2> QED
    BY <2>2 DEF RatchetedStop
<1> QED
  BY <1>1, <1>2

StopReasons == {"stop_loss", "breakeven_stop", "trailing_stop"}

LEMMA RuleIs ==
  ASSUME NEW dir, NEW trail, IsTrail(trail), NEW peak \in Int
  PROVE  LET rule == RatchetedStop(dir, peak, trail) IN rule.level \in Int /\ rule.reason \in StopReasons
<1> DEFINE best == IF peak = 0 THEN Entry ELSE peak
           gap == trail.distance * StopPct
           initial == [level |-> AtReturn(dir, -StopPct), reason |-> "stop_loss"]
           even == [level |-> AtReturn(dir, RoundTrip), reason |-> "breakeven_stop"]
           behind == [level |-> (best * AtReturn(dir, -gap)) \div 100, reason |-> "trailing_stop"]
           IsRule(r) == r.level \in Int /\ r.reason \in StopReasons
<1>1. {StopPct, RoundTrip} \subseteq Nat /\ -StopPct \in Int
  BY ExitAssumption
<1>2. best \in Int /\ gap \in Int /\ -gap \in Int
  BY <1>1 DEF Entry, IsTrail
<1>3. best * AtReturn(dir, -gap) \in Int
  <2>1. AtReturn(dir, -gap) \in Int
    BY <1>2, Returns
  <2> HIDE DEF best, gap
  <2> QED
    BY <1>2, <2>1
<1>4. IsRule(initial) /\ IsRule(even)
  BY <1>1, Returns DEF StopReasons
<1>5. IsRule(behind)
  <2> DEFINE product == best * AtReturn(dir, -gap)
  <2>1. product \in Int
    BY <1>3
  <2>2. behind = [level |-> product \div 100, reason |-> "trailing_stop"]
    OBVIOUS
  <2> HIDE DEF product, behind
  <2>3. product \div 100 \in Int
    BY <2>1
  <2> QED
    BY <2>2, <2>3 DEF StopReasons
<1> DEFINE rule == RatchetedStop(dir, peak, trail)
<1>6. rule \in {initial, even, behind}
  <2> HIDE DEF initial, even, behind, gap
  <2>1. \A r, s : MoreProtective(dir, r, s) \in {r, s}
    BY DEF MoreProtective
  <2> DEFINE afterEven == IF trail.breakEven > 0 /\ Gross(dir, best) >= trail.breakEven * StopPct
                          THEN MoreProtective(dir, even, initial) ELSE initial
  <2>2. afterEven \in {initial, even}
    BY <2>1
  <2>3. rule = IF trail.distance > 0 /\ Gross(dir, best) >= trail.activation * StopPct
               THEN MoreProtective(dir, behind, afterEven) ELSE afterEven
    BY DEF RatchetedStop, initial, even, behind, gap
  <2> HIDE DEF afterEven, rule
  <2> QED
    BY <2>1, <2>2, <2>3
<1> HIDE DEF initial, even, behind, gap
<1> QED
  BY <1>4, <1>5, <1>6

LEMMA ExitIs ==
  ASSUME NEW dir, NEW trail, IsTrail(trail), NEW peak \in Int, NEW bar \in Bar
  PROVE  LET rule == RatchetedStop(dir, peak, trail)
             exit == ExitAtBar(dir, bar, rule, TargetLevel(dir, rule, trail))
         IN exit = NoExit \/ (exit.reason \in PriceReasons /\ exit # NoExit /\ exit.price \in Int)
<1> DEFINE rule == RatchetedStop(dir, peak, trail)
           target == TargetLevel(dir, rule, trail)
           exit == ExitAtBar(dir, bar, rule, target)
<1>1. rule.level \in Int /\ rule.reason \in StopReasons
  BY RuleIs
<1>2. target \in Int
  <2>1. TakePct \in Int
    BY ExitAssumption
  <2> QED
    BY <2>1, Returns DEF TargetLevel
<1>3. bar.shape.open \in Int
  BY DEF Bar, ShapeType, Prices
<1> HIDE DEF rule, target
<1>4. \/ exit = [reason |-> rule.reason, price |-> WorstOf(dir, bar.shape.open, rule.level), at |-> bar.end]
      \/ exit = [reason |-> "take_profit", price |-> BestOf(dir, bar.shape.open, target), at |-> bar.end]
      \/ exit = NoExit
  BY DEF ExitAtBar
<1>5. WorstOf(dir, bar.shape.open, rule.level) \in Int /\ BestOf(dir, bar.shape.open, target) \in Int
  BY <1>1, <1>2, <1>3 DEF WorstOf, BestOf
<1>6. NoExit.reason = "none"
  BY DEF NoExit
<1> HIDE DEF exit
<1>7. exit = NoExit \/ (exit.reason \in PriceReasons /\ exit # NoExit /\ exit.price \in Int)
  BY <1>1, <1>4, <1>5, <1>6 DEF PriceReasons, StopReasons
<1> QED
  BY <1>7 DEF exit, target, rule

-----------------------------------------------------------------------------
(* One walk over a sequence of bars: what OneWalk says of the walked bars,  *)
(* for any sequence.                                                        *)

ValidIn(s, i) == {j \in 1 .. i : IsFinite(s[j].shape)}
GainOf(dir, bar) == Gross(dir, Favorable(dir, bar.shape))
GainsIn(dir, s, i) == {0} \cup {GainOf(dir, s[j]) : j \in ValidIn(s, i)}
BestIn(dir, s, i) == AtReturn(dir, Max(GainsIn(dir, s, i)))
RuleIn(dir, trail, s, i) == RatchetedStop(dir, BestIn(dir, s, i - 1), trail)
ExitIn(dir, trail, s, i) ==
  ExitAtBar(dir, s[i], RuleIn(dir, trail, s, i), TargetLevel(dir, RuleIn(dir, trail, s, i), trail))
HitsIn(dir, trail, s) == {i \in ValidIn(s, Len(s)) : ExitIn(dir, trail, s, i) # NoExit}

\* What a bar adds to the excursions, when it ends the position with this exit.
BarExcursion(dir, bar, exit) ==
  [mae |-> Gross(dir, IF exit.reason \in {"none", "take_profit"} THEN Adverse(dir, bar.shape) ELSE exit.price),
   mfe |-> Gross(dir, IF exit.reason = "take_profit" THEN exit.price ELSE Favorable(dir, bar.shape))]
ExcursionIn(dir, trail, s, exit, i) ==
  BarExcursion(dir, s[i], IF i \in HitsIn(dir, trail, s) THEN exit ELSE NoExit)
AdverseIn(dir, trail, s, exit) == {0} \cup {ExcursionIn(dir, trail, s, exit, i).mae : i \in ValidIn(s, Len(s))}
FavorableIn(dir, trail, s, exit) == {0} \cup {ExcursionIn(dir, trail, s, exit, i).mfe : i \in ValidIn(s, Len(s))}
LeastOf(m, S) == m \in S /\ \A x \in S : m <= x
GreatestOf(m, S) == m \in S /\ \A x \in S : x <= m

HitsMatch(dir, trail, s, exit) ==
  IF exit = NoExit THEN HitsIn(dir, trail, s) = {}
  ELSE /\ exit.reason \in PriceReasons
       /\ HitsIn(dir, trail, s) = {Len(s)} /\ ExitIn(dir, trail, s, Len(s)) = exit
PeakOK(dir, trail, s, peak) ==
  trail.on => peak = IF ValidIn(s, Len(s)) = {} THEN 0 ELSE BestIn(dir, s, Len(s))

LEMMA BarPrices ==
  ASSUME NEW bar \in Bar, NEW dir
  PROVE  /\ Adverse(dir, bar.shape) \in Nat \ {0} /\ Favorable(dir, bar.shape) \in Nat \ {0}
         /\ Adverse(dir, bar.shape) \in Int /\ Favorable(dir, bar.shape) \in Int
         /\ GainOf(dir, bar) \in Int
<1>1. bar.shape.high \in Nat \ {0} /\ bar.shape.low \in Nat \ {0}
  BY DEF Bar, ShapeType, Prices
<1>2. Adverse(dir, bar.shape) \in Nat \ {0} /\ Favorable(dir, bar.shape) \in Nat \ {0}
  BY <1>1 DEF Adverse, Favorable
<1>3. GainOf(dir, bar) \in Int
  BY <1>2, Returns DEF GainOf
<1> QED
  BY <1>2, <1>3

LEMMA SamePrefix ==
  ASSUME NEW dir, NEW trail, NEW s, NEW t, NEW n \in Nat, \A j \in 1 .. n : s[j] = t[j]
  PROVE  /\ \A i \in 0 .. n : ValidIn(s, i) = ValidIn(t, i) /\ BestIn(dir, s, i) = BestIn(dir, t, i)
         /\ \A i \in 1 .. n : ExitIn(dir, trail, s, i) = ExitIn(dir, trail, t, i)
<1>1. ASSUME NEW i \in 0 .. n PROVE ValidIn(s, i) = ValidIn(t, i) /\ BestIn(dir, s, i) = BestIn(dir, t, i)
  <2>1. \A j \in 1 .. i : s[j] = t[j]
    OBVIOUS
  <2>2. ValidIn(s, i) = ValidIn(t, i)
    BY <2>1 DEF ValidIn
  <2>3. ValidIn(t, i) \subseteq 1 .. i
    BY DEF ValidIn
  <2>4. GainsIn(dir, s, i) = GainsIn(dir, t, i)
    BY <2>1, <2>2, <2>3 DEF GainsIn
  <2> QED
    BY <2>2, <2>4 DEF BestIn
<1>2. ASSUME NEW i \in 1 .. n PROVE ExitIn(dir, trail, s, i) = ExitIn(dir, trail, t, i)
  <2>1. i - 1 \in 0 .. n
    OBVIOUS
  <2>2. RuleIn(dir, trail, s, i) = RuleIn(dir, trail, t, i)
    BY <1>1, <2>1 DEF RuleIn
  <2> QED
    BY <2>2 DEF ExitIn
<1> QED
  BY <1>1, <1>2

LEMMA GainIs ==
  ASSUME NEW dir, NEW s \in Seq(Bar), NEW i \in 0 .. Len(s)
  PROVE  /\ Max(GainsIn(dir, s, i)) \in GainsIn(dir, s, i) /\ Max(GainsIn(dir, s, i)) \in Nat
         /\ \A x \in GainsIn(dir, s, i) : x \in Int /\ x <= Max(GainsIn(dir, s, i))
<1> DEFINE G == GainsIn(dir, s, i)
           V == ValidIn(s, i)
           f == [j \in V |-> GainOf(dir, s[j])]
<1>1. V \subseteq 1 .. i /\ IsFiniteSet(1 .. i)
  BY FS_Interval DEF ValidIn
<1>2. IsFiniteSet(V) /\ \A j \in V : s[j] \in Bar
  BY <1>1, FS_Subset, ElementOfSeq
<1> HIDE DEF V
<1>3. IsFiniteSet({f[j] : j \in V})
  <2>1. DOMAIN f = V
    OBVIOUS
  <2> HIDE DEF f
  <2> QED
    BY <1>2, <2>1, ImageIsFinite
<1>4. G = {f[j] : j \in V} \cup {0}
  BY DEF GainsIn, V
<1>5. G \subseteq Int /\ 0 \in G
  BY <1>2, <1>4, BarPrices
<1>6. IsFiniteSet(G)
  <2> HIDE DEF f, G
  <2> QED
    BY <1>3, <1>4, FS_AddElement
<1> HIDE DEF G, f
<1>7. Max(G) \in G /\ \A y \in G : Max(G) >= y
  BY <1>5, <1>6, GreatestOfFinite
<1>8. Max(G) \in Int /\ Max(G) >= 0
  BY <1>5, <1>7
<1> QED
  BY <1>5, <1>7, <1>8 DEF G

\* A price is above zero, so the best one can be told from none.
LEMMA BestIsPrice ==
  ASSUME NEW dir, NEW s \in Seq(Bar), NEW i \in 0 .. Len(s)
  PROVE  BestIn(dir, s, i) \in Nat \ {0}
<1> DEFINE g == Max(GainsIn(dir, s, i))
<1>1. g \in GainsIn(dir, s, i) /\ g \in Nat
  BY GainIs
<1>2. BestIn(dir, s, i) = AtReturn(dir, g)
  BY DEF BestIn
<1> HIDE DEF g
<1>3. CASE g = 0
  BY <1>2, <1>3 DEF AtReturn, Entry
<1>4. CASE \E j \in ValidIn(s, i) : g = GainOf(dir, s[j])
  <2>1. PICK j \in ValidIn(s, i) : g = GainOf(dir, s[j])
    BY <1>4
  <2>2. s[j] \in Bar
    BY ElementOfSeq DEF ValidIn
  <2>3. Favorable(dir, s[j].shape) \in Nat \ {0}
    BY <2>2, BarPrices
  <2> QED
    BY <1>1, <1>2, <2>1, <2>3 DEF GainOf, Gross, AtReturn, Entry
<1> QED
  BY <1>1, <1>3, <1>4 DEF GainsIn

LEMMA NoBarNoGain ==
  ASSUME NEW dir, NEW s, NEW i, ValidIn(s, i) = {}
  PROVE  BestIn(dir, s, i) = Entry
<1>1. GainsIn(dir, s, i) = {0}
  BY DEF GainsIn
<1>2. Max({0}) = 0
  BY DEF Max
<1> QED
  BY <1>1, <1>2 DEF BestIn, AtReturn, Entry

LEMMA RuleByPeak ==
  ASSUME NEW dir, NEW trail, IsTrail(trail), NEW s, NEW peak, PeakOK(dir, trail, s, peak)
  PROVE  RatchetedStop(dir, peak, trail) = RatchetedStop(dir, BestIn(dir, s, Len(s)), trail)
<1>1. CASE ~trail.on
  BY <1>1, RuleForgets
<1>2. CASE trail.on /\ ValidIn(s, Len(s)) # {}
  BY <1>2 DEF PeakOK
<1>3. CASE trail.on /\ ValidIn(s, Len(s)) = {}
  BY <1>3, NoBarNoGain, RuleForgets DEF PeakOK
<1> QED
  BY <1>1, <1>2, <1>3 DEF IsTrail

\* A bar more.
LEMMA OneMore ==
  ASSUME NEW s \in Seq(Bar), NEW b \in Bar
  PROVE  LET t == Append(s, b)
         IN /\ t \in Seq(Bar) /\ Len(t) = Len(s) + 1 /\ Len(s) \in Nat /\ t[Len(t)] = b
            /\ \A j \in 1 .. Len(s) : s[j] = t[j]
            /\ ValidIn(t, Len(t)) = ValidIn(s, Len(s)) \cup (IF IsFinite(b.shape) THEN {Len(t)} ELSE {})
            /\ ValidIn(s, Len(s)) \subseteq 1 .. Len(s)
<1> DEFINE t == Append(s, b)
           n == Len(s)
<1>1. /\ t \in Seq(Bar) /\ Len(t) = n + 1 /\ n \in Nat /\ t[n + 1] = b
      /\ \A j \in 1 .. n : t[j] = s[j]
  BY AppendProperties, LenProperties
<1> HIDE DEF t, n
<1>2. 1 .. n + 1 = (1 .. n) \cup {n + 1}
  BY <1>1
<1>3. ValidIn(t, n + 1) = ValidIn(t, n) \cup (IF IsFinite(b.shape) THEN {n + 1} ELSE {})
  BY <1>1, <1>2 DEF ValidIn
<1>4. ValidIn(t, n) = ValidIn(s, n)
  BY <1>1 DEF ValidIn
<1>5. ValidIn(s, n) \subseteq 1 .. n
  BY DEF ValidIn
<1> QED
  BY <1>1, <1>3, <1>4, <1>5 DEF t, n

LEMMA BestAfter ==
  ASSUME NEW dir, NEW s \in Seq(Bar), NEW b \in Bar, IsFinite(b.shape)
  PROVE  BestIn(dir, Append(s, b), Len(s) + 1) =
           BestOf(dir, BestIn(dir, s, Len(s)), BestOf(dir, Favorable(dir, b.shape), Entry))
<1> DEFINE t == Append(s, b)
           n == Len(s)
           g == Max(GainsIn(dir, s, n))
           h == Max(GainsIn(dir, t, n + 1))
           f == Favorable(dir, b.shape)
<1>1. /\ t \in Seq(Bar) /\ Len(t) = n + 1 /\ n \in Nat /\ t[n + 1] = b
      /\ \A j \in 1 .. n : s[j] = t[j]
      /\ ValidIn(t, n + 1) = ValidIn(s, n) \cup {n + 1} /\ ValidIn(s, n) \subseteq 1 .. n
  BY OneMore
<1>2. GainsIn(dir, t, n + 1) = GainsIn(dir, s, n) \cup {GainOf(dir, b)}
  <2> HIDE DEF t, n
  <2> QED
    BY <1>1 DEF GainsIn
<1>3. g \in GainsIn(dir, s, n) /\ g \in Nat /\ \A x \in GainsIn(dir, s, n) : x \in Int /\ x <= g
  BY <1>1, GainIs
<1>4. h \in GainsIn(dir, t, n + 1) /\ h \in Nat /\ \A x \in GainsIn(dir, t, n + 1) : x \in Int /\ x <= h
  <2> HIDE DEF t, n
  <2>1. n + 1 \in 0 .. Len(t)
    BY <1>1
  <2> QED
    BY <1>1, <2>1, GainIs
<1>5. f \in Int /\ GainOf(dir, b) \in Int /\ GainOf(dir, b) = Gross(dir, f)
  BY BarPrices DEF GainOf
<1>6. BestIn(dir, s, n) = AtReturn(dir, g) /\ BestIn(dir, t, n + 1) = AtReturn(dir, h)
  BY DEF BestIn
<1> HIDE DEF t, n, g, h, f
<1>7. h = IF GainOf(dir, b) > g THEN GainOf(dir, b) ELSE g
  BY <1>2, <1>3, <1>4, <1>5
<1>8. AtReturn(dir, h) = BestOf(dir, AtReturn(dir, g), BestOf(dir, f, Entry))
  <2>1. CASE dir = "long"
    BY <1>3, <1>5, <1>7, <2>1 DEF AtReturn, BestOf, Better, Gross, Entry
  <2>2. CASE dir # "long"
    BY <1>3, <1>5, <1>7, <2>2 DEF AtReturn, BestOf, Better, Gross, Entry
  <2> QED
    BY <2>1, <2>2
<1> QED
  BY <1>6, <1>8 DEF t, n, f

LEMMA HitsAfter ==
  ASSUME NEW dir, NEW trail, NEW s \in Seq(Bar), NEW b \in Bar
  PROVE  LET t == Append(s, b)
         IN /\ HitsIn(dir, trail, t) = HitsIn(dir, trail, s) \cup
                 (IF IsFinite(b.shape) /\ ExitIn(dir, trail, t, Len(t)) # NoExit THEN {Len(t)} ELSE {})
            /\ RuleIn(dir, trail, t, Len(t)) = RatchetedStop(dir, BestIn(dir, s, Len(s)), trail)
<1> DEFINE t == Append(s, b)
           n == Len(s)
<1>1. /\ t \in Seq(Bar) /\ Len(t) = n + 1 /\ n \in Nat /\ t[n + 1] = b
      /\ \A j \in 1 .. n : s[j] = t[j]
      /\ ValidIn(t, n + 1) = ValidIn(s, n) \cup (IF IsFinite(b.shape) THEN {n + 1} ELSE {})
      /\ ValidIn(s, n) \subseteq 1 .. n
  BY OneMore
<1> HIDE DEF t, n
<1>2. /\ BestIn(dir, s, n) = BestIn(dir, t, n)
      /\ \A i \in 1 .. n : ExitIn(dir, trail, s, i) = ExitIn(dir, trail, t, i)
  <2>1. n \in Nat /\ n \in 0 .. n /\ \A j \in 1 .. n : s[j] = t[j]
    BY <1>1
  <2> QED
    BY <2>1, SamePrefix
<1>3. RuleIn(dir, trail, t, n + 1) = RatchetedStop(dir, BestIn(dir, s, n), trail)
  <2>1. (n + 1) - 1 = n
    BY <1>1
  <2>2. BestIn(dir, t, (n + 1) - 1) = BestIn(dir, s, n)
    BY <1>2, <2>1
  <2> QED
    BY <2>2 DEF RuleIn
<1>4. HitsIn(dir, trail, t) = {i \in ValidIn(t, n + 1) : ExitIn(dir, trail, t, i) # NoExit}
      /\ HitsIn(dir, trail, s) = {i \in ValidIn(s, n) : ExitIn(dir, trail, s, i) # NoExit}
  BY <1>1 DEF HitsIn, n
<1>5. HitsIn(dir, trail, t) = HitsIn(dir, trail, s) \cup
                 (IF IsFinite(b.shape) /\ ExitIn(dir, trail, t, n + 1) # NoExit THEN {n + 1} ELSE {})
  BY <1>1, <1>2, <1>4
<1> QED
  BY <1>1, <1>3, <1>5 DEF t, n

LEMMA ExcursionIs ==
  ASSUME NEW dir, NEW bar \in Bar, NEW exit, exit = NoExit \/ exit.price \in Int
  PROVE  BarExcursion(dir, bar, exit).mae \in Int /\ BarExcursion(dir, bar, exit).mfe \in Int
<1>1. Adverse(dir, bar.shape) \in Int /\ Favorable(dir, bar.shape) \in Int
  BY BarPrices
<1>2. NoExit.price \in Int
  BY DEF NoExit
<1> QED
  BY <1>1, <1>2, Returns DEF BarExcursion

\* The excursions after a bar more, when no bar before it ended the position.
LEMMA ExcursionsAfter ==
  ASSUME NEW dir, NEW trail, NEW s \in Seq(Bar), NEW b \in Bar, HitsIn(dir, trail, s) = {}, NEW exit,
         HitsIn(dir, trail, Append(s, b)) = IF exit = NoExit THEN {} ELSE {Len(Append(s, b))}
  PROVE  LET t == Append(s, b)
             e == BarExcursion(dir, b, exit)
         IN IF IsFinite(b.shape)
            THEN /\ AdverseIn(dir, trail, t, exit) = AdverseIn(dir, trail, s, NoExit) \cup {e.mae}
                 /\ FavorableIn(dir, trail, t, exit) = FavorableIn(dir, trail, s, NoExit) \cup {e.mfe}
            ELSE exit = NoExit => /\ AdverseIn(dir, trail, t, exit) = AdverseIn(dir, trail, s, NoExit)
                                  /\ FavorableIn(dir, trail, t, exit) = FavorableIn(dir, trail, s, NoExit)
<1> DEFINE t == Append(s, b)
           n == Len(s)
           e == BarExcursion(dir, b, exit)
<1>1. /\ t \in Seq(Bar) /\ Len(t) = n + 1 /\ n \in Nat /\ t[n + 1] = b
      /\ \A j \in 1 .. n : s[j] = t[j]
      /\ ValidIn(t, n + 1) = ValidIn(s, n) \cup (IF IsFinite(b.shape) THEN {n + 1} ELSE {})
      /\ ValidIn(s, n) \subseteq 1 .. n
  BY OneMore
<1>2. HitsIn(dir, trail, t) = IF exit = NoExit THEN {} ELSE {n + 1}
  BY <1>1
<1> HIDE DEF t, n
<1>3. \A i \in ValidIn(s, n) : ExcursionIn(dir, trail, t, exit, i) = ExcursionIn(dir, trail, s, NoExit, i)
  <2> TAKE i \in ValidIn(s, n)
  <2>1. i # n + 1 /\ s[i] = t[i]
    BY <1>1
  <2>2. i \notin HitsIn(dir, trail, t)
    BY <1>2, <2>1
  <2> QED
    BY <2>1, <2>2 DEF ExcursionIn
<1>4. ExcursionIn(dir, trail, t, exit, n + 1) = e
  BY <1>1, <1>2 DEF ExcursionIn
<1> HIDE DEF e
<1>5. CASE IsFinite(b.shape)
  <2>1. ValidIn(t, Len(t)) = ValidIn(s, n) \cup {n + 1}
    BY <1>1, <1>5
  <2>2. AdverseIn(dir, trail, t, exit) = AdverseIn(dir, trail, s, NoExit) \cup {e.mae}
    BY <1>3, <1>4, <2>1 DEF AdverseIn, n
  <2>3. FavorableIn(dir, trail, t, exit) = FavorableIn(dir, trail, s, NoExit) \cup {e.mfe}
    BY <1>3, <1>4, <2>1 DEF FavorableIn, n
  <2> QED
    BY <1>5, <2>2, <2>3 DEF t, e
<1>6. CASE ~IsFinite(b.shape)
  <2>1. ValidIn(t, Len(t)) = ValidIn(s, n)
    BY <1>1, <1>6
  <2>2. AdverseIn(dir, trail, t, exit) = AdverseIn(dir, trail, s, NoExit)
    BY <1>3, <2>1 DEF AdverseIn, n
  <2>3. FavorableIn(dir, trail, t, exit) = FavorableIn(dir, trail, s, NoExit)
    BY <1>3, <2>1 DEF FavorableIn, n
  <2> QED
    BY <1>6, <2>2, <2>3 DEF t
<1> QED
  BY <1>5, <1>6

LEMMA LeastAfter ==
  ASSUME NEW S, S \subseteq Int, NEW m \in Int, NEW x \in Int
  PROVE  /\ LeastOf(m, S) => LeastOf(AtWorst(m, x), S \cup {x})
         /\ GreatestOf(m, S) => GreatestOf(AtBest(m, x), S \cup {x})
  BY DEF LeastOf, GreatestOf, AtWorst, AtBest

LEMMA ExcursionsAreInt ==
  ASSUME NEW dir, NEW trail, NEW s \in Seq(Bar)
  PROVE  AdverseIn(dir, trail, s, NoExit) \subseteq Int /\ FavorableIn(dir, trail, s, NoExit) \subseteq Int
<1>1. \A i \in ValidIn(s, Len(s)) : s[i] \in Bar
  BY ElementOfSeq DEF ValidIn
<1>2. \A i \in ValidIn(s, Len(s)) : /\ ExcursionIn(dir, trail, s, NoExit, i).mae \in Int
                                    /\ ExcursionIn(dir, trail, s, NoExit, i).mfe \in Int
  BY <1>1, ExcursionIs DEF ExcursionIn
<1> QED
  BY <1>2 DEF AdverseIn, FavorableIn

\* A bar that has no valid prices changes nothing.
LEMMA PassInvalid ==
  ASSUME NEW dir, NEW trail, NEW s \in Seq(Bar), NEW b \in Bar, HitsIn(dir, trail, s) = {}, ~IsFinite(b.shape),
         NEW peak, PeakOK(dir, trail, s, peak)
  PROVE  LET t == Append(s, b)
         IN /\ HitsMatch(dir, trail, t, NoExit) /\ PeakOK(dir, trail, t, peak)
            /\ AdverseIn(dir, trail, t, NoExit) = AdverseIn(dir, trail, s, NoExit)
            /\ FavorableIn(dir, trail, t, NoExit) = FavorableIn(dir, trail, s, NoExit)
<1> DEFINE t == Append(s, b)
           n == Len(s)
<1>1. /\ t \in Seq(Bar) /\ Len(t) = n + 1 /\ n \in Nat
      /\ \A j \in 1 .. n : s[j] = t[j]
      /\ ValidIn(t, n + 1) = ValidIn(s, n)
  BY OneMore
<1>2. HitsIn(dir, trail, t) = {}
  BY HitsAfter
<1>3. HitsMatch(dir, trail, t, NoExit)
  BY <1>2 DEF HitsMatch
<1>4. /\ AdverseIn(dir, trail, t, NoExit) = AdverseIn(dir, trail, s, NoExit)
      /\ FavorableIn(dir, trail, t, NoExit) = FavorableIn(dir, trail, s, NoExit)
  BY <1>2, ExcursionsAfter
<1>5. GainsIn(dir, t, n + 1) = GainsIn(dir, s, n)
  <2> HIDE DEF t, n
  <2>1. ValidIn(s, n) \subseteq 1 .. n
    BY DEF ValidIn
  <2> QED
    BY <1>1, <2>1 DEF GainsIn
<1>6. BestIn(dir, t, Len(t)) = BestIn(dir, s, n)
  BY <1>1, <1>5 DEF BestIn
<1>7. PeakOK(dir, trail, t, peak)
  BY <1>1, <1>6 DEF PeakOK
<1> QED
  BY <1>3, <1>4, <1>7

PeakAfter(dir, trail, peak, bar) ==
  LET reached == BestOf(dir, Favorable(dir, bar.shape), Entry)
  IN IF ~trail.on THEN peak ELSE IF peak = 0 THEN reached ELSE BestOf(dir, peak, reached)
ExitByPeak(dir, trail, peak, bar) ==
  LET rule == RatchetedStop(dir, peak, trail)
  IN ExitAtBar(dir, bar, rule, TargetLevel(dir, rule, trail))

\* A valid bar is judged against the peak of the bars before it, and then counts itself.
LEMMA JudgeBar ==
  ASSUME NEW dir, NEW trail, IsTrail(trail), NEW s \in Seq(Bar), NEW b \in Bar,
         HitsIn(dir, trail, s) = {}, IsFinite(b.shape), NEW peak, PeakOK(dir, trail, s, peak)
  PROVE  LET t == Append(s, b)
             exit == ExitByPeak(dir, trail, peak, b)
             e == BarExcursion(dir, b, exit)
         IN /\ HitsMatch(dir, trail, t, exit) /\ PeakOK(dir, trail, t, PeakAfter(dir, trail, peak, b))
            /\ e.mae \in Int /\ e.mfe \in Int
            /\ \A m \in Int : LeastOf(m, AdverseIn(dir, trail, s, NoExit)) =>
                                LeastOf(AtWorst(m, e.mae), AdverseIn(dir, trail, t, exit))
            /\ \A m \in Int : GreatestOf(m, FavorableIn(dir, trail, s, NoExit)) =>
                                GreatestOf(AtBest(m, e.mfe), FavorableIn(dir, trail, t, exit))
<1> DEFINE t == Append(s, b)
           n == Len(s)
           best == BestIn(dir, s, n)
           exit == ExitByPeak(dir, trail, peak, b)
           e == BarExcursion(dir, b, exit)
<1>1. /\ t \in Seq(Bar) /\ Len(t) = n + 1 /\ n \in Nat /\ t[n + 1] = b
      /\ ValidIn(t, n + 1) = ValidIn(s, n) \cup {n + 1}
  BY OneMore
<1>2. RatchetedStop(dir, peak, trail) = RatchetedStop(dir, best, trail)
  BY RuleByPeak
<1>3. best \in Nat \ {0}
  BY <1>1, BestIsPrice
<1>4. RuleIn(dir, trail, t, n + 1) = RatchetedStop(dir, best, trail)
  BY <1>1, HitsAfter
<1>5. ExitIn(dir, trail, t, n + 1) = exit
  <2> HIDE DEF t, n, best
  <2> QED
    BY <1>1, <1>2, <1>4 DEF ExitIn, ExitByPeak
<1>6. exit = NoExit \/ (exit.reason \in PriceReasons /\ exit # NoExit /\ exit.price \in Int)
  <2>1. best \in Int
    BY <1>3
  <2> HIDE DEF best
  <2> QED
    BY <1>2, <2>1, ExitIs DEF ExitByPeak
<1>7. HitsIn(dir, trail, t) = IF exit = NoExit THEN {} ELSE {n + 1}
  BY <1>1, <1>5, HitsAfter
<1>8. HitsMatch(dir, trail, t, exit)
  BY <1>1, <1>5, <1>6, <1>7 DEF HitsMatch
<1>9. e.mae \in Int /\ e.mfe \in Int
  BY <1>6, ExcursionIs
<1>10. /\ AdverseIn(dir, trail, t, exit) = AdverseIn(dir, trail, s, NoExit) \cup {e.mae}
       /\ FavorableIn(dir, trail, t, exit) = FavorableIn(dir, trail, s, NoExit) \cup {e.mfe}
  BY <1>1, <1>7, ExcursionsAfter
<1>11. /\ \A m \in Int : LeastOf(m, AdverseIn(dir, trail, s, NoExit)) =>
                                LeastOf(AtWorst(m, e.mae), AdverseIn(dir, trail, t, exit))
       /\ \A m \in Int : GreatestOf(m, FavorableIn(dir, trail, s, NoExit)) =>
                                GreatestOf(AtBest(m, e.mfe), FavorableIn(dir, trail, t, exit))
  <2> HIDE DEF t, e, exit
  <2>1. AdverseIn(dir, trail, s, NoExit) \subseteq Int /\ FavorableIn(dir, trail, s, NoExit) \subseteq Int
    BY ExcursionsAreInt
  <2>2. \A m \in Int : LeastOf(m, AdverseIn(dir, trail, s, NoExit)) =>
                         LeastOf(AtWorst(m, e.mae), AdverseIn(dir, trail, s, NoExit) \cup {e.mae})
    BY <1>9, <2>1, LeastAfter
  <2>3. \A m \in Int : GreatestOf(m, FavorableIn(dir, trail, s, NoExit)) =>
                         GreatestOf(AtBest(m, e.mfe), FavorableIn(dir, trail, s, NoExit) \cup {e.mfe})
    BY <1>9, <2>1, LeastAfter
  <2> QED
    BY <1>10, <2>2, <2>3
<1>12. PeakOK(dir, trail, t, PeakAfter(dir, trail, peak, b))
  <2>1. SUFFICES ASSUME trail.on
                 PROVE  PeakAfter(dir, trail, peak, b) = BestIn(dir, t, n + 1)
    BY <1>1 DEF PeakOK
  <2> DEFINE reached == BestOf(dir, Favorable(dir, b.shape), Entry)
  <2>2. BestIn(dir, t, n + 1) = BestOf(dir, best, reached)
    BY BestAfter
  <2>3. PeakAfter(dir, trail, peak, b) = IF peak = 0 THEN reached ELSE BestOf(dir, peak, reached)
    BY <2>1 DEF PeakAfter
  <2>4. CASE ValidIn(s, n) = {}
    <3>1. peak = 0 /\ best = Entry
      BY <2>1, <2>4, NoBarNoGain DEF PeakOK
    <3>2. reached = BestOf(dir, Entry, reached)
      BY BarPrices DEF BestOf, Better, Entry
    <3> QED
      BY <2>2, <2>3, <3>1, <3>2
  <2>5. CASE ValidIn(s, n) # {}
    <3>1. peak = best /\ peak # 0
      BY <1>3, <2>1, <2>5 DEF PeakOK
    <3> QED
      BY <2>2, <2>3, <3>1
  <2> QED
    BY <2>4, <2>5
<1> QED
  BY <1>8, <1>9, <1>11, <1>12

-----------------------------------------------------------------------------
(* The walk over a window, bar by bar.                                      *)

WalkFields == {"bars", "exit", "mae", "mfe", "mark", "peak", "split"}

IsWalkRecord(walk) == DOMAIN walk = WalkFields /\ walk = [f \in WalkFields |-> walk[f]]

\* From a walk to the walk over a bar more.
IsNextWalk(dir, trail, walk, bar, w) ==
  LET exit == ExitByPeak(dir, trail, walk.peak, bar)
      e == BarExcursion(dir, bar, exit)
  IN /\ IsWalkRecord(w)
     /\ walk.exit # NoExit \/ walk.split => w = walk
     /\ walk.exit = NoExit /\ ~walk.split /\ ~IsFinite(bar.shape) =>
          /\ w.bars = Append(walk.bars, bar) /\ w.exit = walk.exit /\ w.split = walk.split
          /\ w.mae = walk.mae /\ w.mfe = walk.mfe /\ w.peak = walk.peak
     /\ walk.exit = NoExit /\ ~walk.split /\ IsFinite(bar.shape) =>
          \/ /\ w.split = TRUE /\ w.bars = walk.bars /\ w.exit = walk.exit
             /\ w.mae = walk.mae /\ w.mfe = walk.mfe /\ w.peak = walk.peak
          \/ /\ w.bars = Append(walk.bars, bar) /\ w.exit = exit /\ w.split = walk.split
             /\ w.mae = AtWorst(walk.mae, e.mae) /\ w.mfe = AtBest(walk.mfe, e.mfe)
             /\ w.peak = PeakAfter(dir, trail, walk.peak, bar)

LEMMA WalkBarIs ==
  ASSUME NEW dir, NEW trail, NEW walk, IsWalkRecord(walk), NEW bar
  PROVE  IsNextWalk(dir, trail, walk, bar, WalkBar(dir, trail, walk, bar))
<1> DEFINE w == WalkBar(dir, trail, walk, bar)
           exit == ExitByPeak(dir, trail, walk.peak, bar)
           e == BarExcursion(dir, bar, exit)
<1>0. DOMAIN walk = WalkFields /\ walk = [f \in WalkFields |-> walk[f]]
  BY DEF IsWalkRecord
<1>1. CASE walk.exit # NoExit \/ walk.split
  <2>1. w = walk
    BY <1>1 DEF WalkBar
  <2> HIDE DEF w, IsNextWalk
  <2> QED
    BY <1>1, <2>1 DEF w, IsNextWalk
<1>2. CASE walk.exit = NoExit /\ ~walk.split /\ ~IsFinite(bar.shape)
  <2>1. w = [walk EXCEPT !.bars = Append(@, bar)]
    BY <1>2 DEF WalkBar
  <2> HIDE DEF w, IsNextWalk
  <2>2. /\ DOMAIN w = WalkFields /\ w = [f \in WalkFields |-> w[f]]
        /\ w.bars = Append(walk.bars, bar) /\ w.exit = walk.exit /\ w.split = walk.split
        /\ w.mae = walk.mae /\ w.mfe = walk.mfe /\ w.peak = walk.peak
    BY <1>0, <2>1 DEF WalkFields
  <2> QED
    BY <1>2, <2>2 DEF w, IsNextWalk, IsWalkRecord
<1>3. CASE walk.exit = NoExit /\ ~walk.split /\ IsFinite(bar.shape) /\ (IsSplit(bar.shape.open) \/ IsSplit(bar.shape.close))
  <2>1. w = [walk EXCEPT !.split = TRUE]
    BY <1>3 DEF WalkBar
  <2> HIDE DEF w, IsNextWalk
  <2>2. /\ DOMAIN w = WalkFields /\ w = [f \in WalkFields |-> w[f]]
        /\ w.split = TRUE /\ w.bars = walk.bars /\ w.exit = walk.exit
        /\ w.mae = walk.mae /\ w.mfe = walk.mfe /\ w.peak = walk.peak
    BY <1>0, <2>1 DEF WalkFields
  <2> QED
    BY <1>3, <2>2 DEF w, IsNextWalk, IsWalkRecord
<1>4. CASE walk.exit = NoExit /\ ~walk.split /\ IsFinite(bar.shape) /\ ~(IsSplit(bar.shape.open) \/ IsSplit(bar.shape.close))
  <2> DEFINE counted == WithExcursion(walk, dir, bar.shape, exit)
             reached == BestOf(dir, Favorable(dir, bar.shape), Entry)
  <2>1. w = [counted EXCEPT
             !.bars = Append(@, bar), !.mark = bar.shape.close, !.exit = exit,
             !.peak = IF ~trail.on THEN @ ELSE IF @ = 0 THEN reached ELSE BestOf(dir, @, reached)]
    BY <1>4 DEF WalkBar, ExitByPeak
  <2>2. counted = [walk EXCEPT !.mae = AtWorst(@, e.mae), !.mfe = AtBest(@, e.mfe)]
    BY DEF WithExcursion, BarExcursion
  <2> HIDE DEF w, counted, reached, exit, e
  <2>3. /\ DOMAIN counted = WalkFields /\ counted.bars = walk.bars /\ counted.split = walk.split
        /\ counted.peak = walk.peak
        /\ counted.mae = AtWorst(walk.mae, e.mae) /\ counted.mfe = AtBest(walk.mfe, e.mfe)
    BY <1>0, <2>2 DEF WalkFields
  <2>4. /\ DOMAIN w = WalkFields /\ w = [f \in WalkFields |-> w[f]]
        /\ w.bars = Append(walk.bars, bar) /\ w.exit = exit /\ w.split = walk.split
        /\ w.mae = AtWorst(walk.mae, e.mae) /\ w.mfe = AtBest(walk.mfe, e.mfe)
        /\ w.peak = IF ~trail.on THEN walk.peak ELSE IF walk.peak = 0 THEN reached ELSE BestOf(dir, walk.peak, reached)
    BY <2>1, <2>3 DEF WalkFields
  <2>5. w.peak = PeakAfter(dir, trail, walk.peak, bar)
    BY <2>4 DEF PeakAfter, reached
  <2> QED
    BY <1>4, <2>4, <2>5 DEF w, exit, e, IsNextWalk, IsWalkRecord
<1> QED
  BY <1>1, <1>2, <1>3, <1>4

IsWalk(g, dir, trail, base, bars, n) ==
  g = [i \in 0 .. n |-> IF i = 0 THEN base ELSE WalkBar(dir, trail, g[i - 1], bars[i])]

\* By the least length of a window that would have no walk.
LEMMA WalkExists ==
  ASSUME NEW dir, NEW trail, NEW base, NEW bars, NEW n \in Nat
  PROVE  \E g : IsWalk(g, dir, trail, base, bars, n)
<1> DEFINE has(m) == \E g : g = [i \in 0 .. m |-> IF i = 0 THEN base ELSE WalkBar(dir, trail, g[i - 1], bars[i])]
           bad == {m \in Nat : ~has(m)}
<1>1. ASSUME bad # {} PROVE FALSE
  <2>1. Min(bad) \in bad /\ \A y \in bad : Min(bad) <= y
    <3> HIDE DEF has
    <3>1. bad \subseteq Nat
      OBVIOUS
    <3> HIDE DEF bad
    <3> QED
      BY <1>1, <3>1, LeastNatural
  <2> DEFINE m == Min(bad)
  <2>2. m \in Nat /\ ~has(m) /\ (m # 0 => has(m - 1))
    <3> HIDE DEF has
    <3>1. m \in Nat /\ ~has(m)
      BY <2>1
    <3>2. ASSUME m # 0 PROVE has(m - 1)
      <4>1. m - 1 \in Nat /\ ~(m <= m - 1)
        BY <3>1, <3>2
      <4> QED
        BY <2>1, <4>1
    <3> QED
      BY <3>1, <3>2
  <2> HIDE DEF m, bad
  <2>3. CASE m = 0
    <3> DEFINE g == [i \in 0 .. 0 |-> base]
    <3>1. g = [i \in 0 .. 0 |-> IF i = 0 THEN base ELSE WalkBar(dir, trail, g[i - 1], bars[i])]
      OBVIOUS
    <3>2. has(0)
      <4> HIDE DEF g
      <4> QED
        BY <3>1
    <3> QED
      BY <2>2, <2>3, <3>2
  <2>4. CASE m # 0
    <3>1. PICK g : g = [i \in 0 .. m - 1 |-> IF i = 0 THEN base ELSE WalkBar(dir, trail, g[i - 1], bars[i])]
      BY <2>2, <2>4
    <3> DEFINE h == [i \in 0 .. m |-> IF i < m THEN g[i] ELSE WalkBar(dir, trail, g[m - 1], bars[m])]
    <3>2. ASSUME NEW i \in 0 .. m
          PROVE  h[i] = IF i = 0 THEN base ELSE WalkBar(dir, trail, h[i - 1], bars[i])
      <4>1. CASE i = 0
        BY <2>2, <2>4, <3>1, <4>1
      <4>2. CASE i # 0 /\ i < m
        <5>1. i \in 0 .. m - 1 /\ i - 1 \in 0 .. m /\ i - 1 < m
          BY <2>2, <4>2
        <5>2. h[i] = g[i] /\ h[i - 1] = g[i - 1]
          BY <4>2, <5>1
        <5>3. g[i] = WalkBar(dir, trail, g[i - 1], bars[i])
          BY <3>1, <4>2, <5>1
        <5> QED
          BY <4>2, <5>2, <5>3
      <4>3. CASE i = m
        <5>1. h[i] = WalkBar(dir, trail, g[m - 1], bars[m]) /\ h[m - 1] = g[m - 1]
          BY <2>2, <2>4, <4>3
        <5> QED
          BY <2>4, <4>3, <5>1
      <4> QED
        BY <2>2, <4>1, <4>2, <4>3
    <3>3. h = [i \in 0 .. m |-> h[i]]
      OBVIOUS
    <3> HIDE DEF h
    <3>4. h = [i \in 0 .. m |-> IF i = 0 THEN base ELSE WalkBar(dir, trail, h[i - 1], bars[i])]
      BY <3>2, <3>3
    <3>5. has(m)
      BY <3>4
    <3> QED
      BY <2>2, <3>5
  <2> QED
    BY <2>3, <2>4
<1>2. has(n)
  BY <1>1
<1> QED
  BY <1>2 DEF IsWalk

LEMMA WalkIs ==
  ASSUME NEW dir, NEW trail, NEW peak, NEW bars, Len(bars) \in Nat
  PROVE  \E g : /\ g[0] = Unwalked(IF trail.on THEN peak ELSE 0)
                /\ \A i \in 1 .. Len(bars) : g[i] = WalkBar(dir, trail, g[i - 1], bars[i])
                /\ WalkBars(dir, trail, peak, bars) = g[Len(bars)]
<1> DEFINE n == Len(bars)
           base == Unwalked(IF trail.on THEN peak ELSE 0)
           Sol(g) == g = [i \in 0 .. Len(bars) |->
                            IF i = 0 THEN Unwalked(IF trail.on THEN peak ELSE 0)
                            ELSE WalkBar(dir, trail, g[i - 1], bars[i])]
           f == CHOOSE g : Sol(g)
<1>1. \E g : Sol(g)
  <2> HIDE DEF base
  <2>1. \E g : IsWalk(g, dir, trail, base, bars, Len(bars))
    BY WalkExists
  <2> QED
    BY <2>1 DEF base, IsWalk
<1>2. Sol(f)
  <2> HIDE DEF Sol
  <2> QED
    BY <1>1
<1>3. WalkBars(dir, trail, peak, bars) = f[n]
  BY DEF WalkBars
<1> HIDE DEF f
<1>4. f[0] = base /\ \A i \in 1 .. n : f[i] = WalkBar(dir, trail, f[i - 1], bars[i])
  BY <1>2
<1> QED
  BY <1>3, <1>4

\* What a walk over the first i bars of a window knows, when the bars of s were walked before.
WalkOK(dir, trail, s, window, walk, i) ==
  LET all == s \o walk.bars
  IN /\ IsWalkRecord(walk)
     /\ walk.bars \in Seq(Bar) /\ walk.mae \in Int /\ walk.mfe \in Int
     /\ Len(walk.bars) <= i /\ \A k \in 1 .. Len(walk.bars) : walk.bars[k] = window[k]
     /\ walk.exit = NoExit /\ ~walk.split => Len(walk.bars) = i
     /\ walk.exit # NoExit => Len(walk.bars) > 0
     /\ HitsMatch(dir, trail, all, walk.exit) /\ PeakOK(dir, trail, all, walk.peak)
     /\ \A m \in Int : LeastOf(m, AdverseIn(dir, trail, s, NoExit)) =>
                         LeastOf(AtWorst(m, walk.mae), AdverseIn(dir, trail, all, walk.exit))
     /\ \A m \in Int : GreatestOf(m, FavorableIn(dir, trail, s, NoExit)) =>
                         GreatestOf(AtBest(m, walk.mfe), FavorableIn(dir, trail, all, walk.exit))

LEMMA WalkBegins ==
  ASSUME NEW dir, NEW trail, NEW s \in Seq(Bar), NEW window, HitsIn(dir, trail, s) = {},
         NEW peak, PeakOK(dir, trail, s, peak)
  PROVE  WalkOK(dir, trail, s, window, Unwalked(IF trail.on THEN peak ELSE 0), 0)
<1> DEFINE walk == Unwalked(IF trail.on THEN peak ELSE 0)
<1>1. /\ walk.bars = <<>> /\ walk.exit = NoExit /\ walk.mae = 0 /\ walk.mfe = 0 /\ ~walk.split
      /\ walk.peak = (IF trail.on THEN peak ELSE 0)
      /\ IsWalkRecord(walk)
  BY DEF Unwalked, WalkFields, IsWalkRecord
<1> HIDE DEF walk
<1>2. walk.bars \in Seq(Bar) /\ Len(walk.bars) = 0 /\ s \o walk.bars = s
  BY <1>1, EmptySeq, ConcatEmptySeq
<1>3. HitsMatch(dir, trail, s, walk.exit)
  BY <1>1 DEF HitsMatch
<1>4. PeakOK(dir, trail, s, walk.peak)
  BY <1>1 DEF PeakOK
<1>5. ASSUME NEW m \in Int, LeastOf(m, AdverseIn(dir, trail, s, NoExit))
      PROVE  LeastOf(AtWorst(m, walk.mae), AdverseIn(dir, trail, s, walk.exit))
  <2>1. m <= 0
    BY <1>5 DEF LeastOf, AdverseIn
  <2>2. AtWorst(m, 0) = m
    BY <2>1 DEF AtWorst
  <2> QED
    BY <1>1, <1>5, <2>2
<1>6. ASSUME NEW m \in Int, GreatestOf(m, FavorableIn(dir, trail, s, NoExit))
      PROVE  GreatestOf(AtBest(m, walk.mfe), FavorableIn(dir, trail, s, walk.exit))
  <2>1. 0 <= m
    BY <1>6 DEF GreatestOf, FavorableIn
  <2>2. AtBest(m, 0) = m
    BY <2>1 DEF AtBest
  <2> QED
    BY <1>1, <1>6, <2>2
<1>7. Len(walk.bars) <= 0 /\ \A k \in 1 .. Len(walk.bars) : walk.bars[k] = window[k]
  BY <1>2
<1>8. walk.exit = NoExit /\ walk.mae \in Int /\ walk.mfe \in Int
  BY <1>1
<1>9. WalkOK(dir, trail, s, window, walk, 0)
  BY <1>1, <1>2, <1>3, <1>4, <1>5, <1>6, <1>7, <1>8 DEF WalkOK
<1> QED
  BY <1>9 DEF walk

LEMMA ConcatAppend ==
  ASSUME NEW S, NEW s \in Seq(S), NEW t \in Seq(S), NEW b \in S
  PROVE  s \o Append(t, b) = Append(s \o t, b)
<1> DEFINE one == <<b>>
<1>1. one \in Seq(S) /\ s \o t \in Seq(S)
  BY ConcatProperties
<1>2. Append(t, b) = t \o one /\ Append(s \o t, b) = (s \o t) \o one
  BY <1>1, AppendIsConcat
<1> HIDE DEF one
<1>3. (s \o t) \o one = s \o (t \o one)
  BY <1>1, ConcatAssociative
<1> QED
  BY <1>2, <1>3

LEMMA WalkGoesOn ==
  ASSUME NEW dir, NEW trail, IsTrail(trail), NEW s \in Seq(Bar), NEW window \in Seq(Bar),
         NEW i \in 1 .. Len(window), NEW walk, WalkOK(dir, trail, s, window, walk, i - 1)
  PROVE  WalkOK(dir, trail, s, window, WalkBar(dir, trail, walk, window[i]), i)
<1> DEFINE b == window[i]
           w == WalkBar(dir, trail, walk, b)
           exit == ExitByPeak(dir, trail, walk.peak, b)
           e == BarExcursion(dir, b, exit)
           all == s \o walk.bars
<1>1. /\ IsWalkRecord(walk)
      /\ walk.bars \in Seq(Bar) /\ walk.mae \in Int /\ walk.mfe \in Int
      /\ Len(walk.bars) <= i - 1 /\ \A k \in 1 .. Len(walk.bars) : walk.bars[k] = window[k]
      /\ walk.exit = NoExit /\ ~walk.split => Len(walk.bars) = i - 1
      /\ walk.exit # NoExit => Len(walk.bars) > 0
      /\ HitsMatch(dir, trail, all, walk.exit) /\ PeakOK(dir, trail, all, walk.peak)
  BY DEF WalkOK
<1>2. /\ \A m \in Int : LeastOf(m, AdverseIn(dir, trail, s, NoExit)) =>
                          LeastOf(AtWorst(m, walk.mae), AdverseIn(dir, trail, all, walk.exit))
      /\ \A m \in Int : GreatestOf(m, FavorableIn(dir, trail, s, NoExit)) =>
                          GreatestOf(AtBest(m, walk.mfe), FavorableIn(dir, trail, all, walk.exit))
  BY DEF WalkOK
<1>3. b \in Bar /\ i \in Nat /\ i - 1 \in Nat /\ Len(walk.bars) \in Nat /\ all \in Seq(Bar)
  BY <1>1, ElementOfSeq, LenProperties, ConcatProperties
<1>40. IsWalkRecord(walk)
  BY <1>1
<1>4. /\ IsWalkRecord(w)
      /\ walk.exit # NoExit \/ walk.split => w = walk
      /\ walk.exit = NoExit /\ ~walk.split /\ ~IsFinite(b.shape) =>
                 /\ w.bars = Append(walk.bars, b) /\ w.exit = walk.exit /\ w.split = walk.split
                 /\ w.mae = walk.mae /\ w.mfe = walk.mfe /\ w.peak = walk.peak
      /\ walk.exit = NoExit /\ ~walk.split /\ IsFinite(b.shape) =>
                 \/ /\ w.split = TRUE /\ w.bars = walk.bars /\ w.exit = walk.exit
                    /\ w.mae = walk.mae /\ w.mfe = walk.mfe /\ w.peak = walk.peak
                 \/ /\ w.bars = Append(walk.bars, b) /\ w.exit = exit /\ w.split = walk.split
                    /\ w.mae = AtWorst(walk.mae, e.mae) /\ w.mfe = AtBest(walk.mfe, e.mfe)
                    /\ w.peak = PeakAfter(dir, trail, walk.peak, b)
  <2>1. IsNextWalk(dir, trail, walk, b, w)
    BY <1>40, WalkBarIs
  <2> HIDE DEF w, b
  <2> QED
    BY <2>1 DEF IsNextWalk
<1> HIDE DEF w, b
<1>5. /\ Append(walk.bars, b) \in Seq(Bar) /\ Len(Append(walk.bars, b)) = Len(walk.bars) + 1
      /\ s \o Append(walk.bars, b) = Append(all, b)
      /\ Len(walk.bars) = i - 1 => \A k \in 1 .. i : Append(walk.bars, b)[k] = window[k]
  <2>1. /\ Append(walk.bars, b) \in Seq(Bar) /\ Len(Append(walk.bars, b)) = Len(walk.bars) + 1
        /\ \A k \in 1 .. Len(walk.bars) : Append(walk.bars, b)[k] = walk.bars[k]
        /\ Append(walk.bars, b)[Len(walk.bars) + 1] = b
    BY <1>1, <1>3, AppendProperties
  <2>2. walk.bars \in Seq(Bar) /\ b \in Bar
    BY <1>1, <1>3
  <2>5. s \o Append(walk.bars, b) = Append(all, b)
    BY <2>2, ConcatAppend
  <2>6. ASSUME Len(walk.bars) = i - 1, NEW k \in 1 .. i PROVE Append(walk.bars, b)[k] = window[k]
    <3>1. CASE k = i
      BY <1>3, <2>1, <2>6, <3>1 DEF b
    <3>2. CASE k # i
      <4>1. k \in 1 .. Len(walk.bars)
        BY <1>3, <2>6, <3>2
      <4> QED
        BY <1>1, <2>1, <4>1
    <3> QED
      BY <3>1, <3>2
  <2> QED
    BY <2>1, <2>5, <2>6
<1>6. CASE walk.exit # NoExit \/ walk.split
  <2>1. w = walk
    BY <1>4, <1>6
  <2>2. Len(walk.bars) <= i
    BY <1>1, <1>3
  <2>3. WalkOK(dir, trail, s, window, walk, i)
    BY <1>1, <1>2, <1>6, <2>2 DEF WalkOK
  <2> QED
    BY <2>1, <2>3 DEF w, b
<1>7. CASE walk.exit = NoExit /\ ~walk.split /\ ~IsFinite(b.shape)
  <2>1. /\ w.bars = Append(walk.bars, b) /\ w.exit = NoExit /\ w.split = walk.split
        /\ w.mae = walk.mae /\ w.mfe = walk.mfe /\ w.peak = walk.peak
    BY <1>4, <1>7
  <2>2. HitsIn(dir, trail, all) = {}
    BY <1>1, <1>7 DEF HitsMatch
  <2> DEFINE t == Append(all, b)
  <2>3. /\ HitsMatch(dir, trail, t, NoExit) /\ PeakOK(dir, trail, t, walk.peak)
        /\ AdverseIn(dir, trail, t, NoExit) = AdverseIn(dir, trail, all, NoExit)
        /\ FavorableIn(dir, trail, t, NoExit) = FavorableIn(dir, trail, all, NoExit)
    <3>1. all \in Seq(Bar) /\ b \in Bar /\ ~IsFinite(b.shape) /\ PeakOK(dir, trail, all, walk.peak)
      BY <1>1, <1>3, <1>7
    <3> HIDE DEF all
    <3> QED
      BY <2>2, <3>1, PassInvalid
  <2>4. s \o w.bars = t /\ Len(w.bars) = i /\ w.bars \in Seq(Bar) /\ \A k \in 1 .. i : w.bars[k] = window[k]
    <3>1. w.bars = Append(walk.bars, b) /\ Len(walk.bars) = i - 1
      BY <1>1, <1>7, <2>1
    <3> HIDE DEF all
    <3>2. s \o w.bars = t
      BY <1>5, <3>1
    <3> HIDE DEF t
    <3>3. Len(w.bars) = i /\ w.bars \in Seq(Bar)
      BY <1>3, <1>5, <3>1
    <3>4. \A k \in 1 .. i : w.bars[k] = window[k]
      BY <1>5, <3>1
    <3> QED
      BY <3>2, <3>3, <3>4
  <2> HIDE DEF t, all
  <2>5. /\ \A m \in Int : LeastOf(m, AdverseIn(dir, trail, s, NoExit)) =>
                          LeastOf(AtWorst(m, w.mae), AdverseIn(dir, trail, t, w.exit))
        /\ \A m \in Int : GreatestOf(m, FavorableIn(dir, trail, s, NoExit)) =>
                          GreatestOf(AtBest(m, w.mfe), FavorableIn(dir, trail, t, w.exit))
    BY <1>2, <1>7, <2>1, <2>3
  <2>6. HitsMatch(dir, trail, t, w.exit) /\ PeakOK(dir, trail, t, w.peak)
    BY <2>1, <2>3
  <2>7. w.mae \in Int /\ w.mfe \in Int /\ w.exit = NoExit /\ Len(w.bars) <= i
    BY <1>1, <1>3, <2>1, <2>4
  <2>8. WalkOK(dir, trail, s, window, w, i)
    BY <1>4, <2>4, <2>5, <2>6, <2>7 DEF WalkOK
  <2> QED
    BY <2>8 DEF w, b
<1>8. CASE /\ walk.exit = NoExit /\ ~walk.split
           /\ w.split = TRUE /\ w.bars = walk.bars /\ w.exit = walk.exit
           /\ w.mae = walk.mae /\ w.mfe = walk.mfe /\ w.peak = walk.peak
  <2>1. Len(walk.bars) <= i
    BY <1>1, <1>3
  <2>2. WalkOK(dir, trail, s, window, w, i)
    BY <1>1, <1>2, <1>4, <1>8, <2>1 DEF WalkOK
  <2> QED
    BY <2>2 DEF w, b
<1>9. CASE /\ walk.exit = NoExit /\ ~walk.split /\ IsFinite(b.shape)
           /\ w.bars = Append(walk.bars, b) /\ w.exit = exit /\ w.split = walk.split
           /\ w.mae = AtWorst(walk.mae, e.mae) /\ w.mfe = AtBest(walk.mfe, e.mfe)
           /\ w.peak = PeakAfter(dir, trail, walk.peak, b)
  <2>1. HitsIn(dir, trail, all) = {}
    BY <1>1, <1>9 DEF HitsMatch
  <2> DEFINE t == Append(all, b)
  <2>2. /\ HitsMatch(dir, trail, t, exit) /\ PeakOK(dir, trail, t, PeakAfter(dir, trail, walk.peak, b))
        /\ e.mae \in Int /\ e.mfe \in Int
        /\ \A m \in Int : LeastOf(m, AdverseIn(dir, trail, all, NoExit)) =>
                            LeastOf(AtWorst(m, e.mae), AdverseIn(dir, trail, t, exit))
        /\ \A m \in Int : GreatestOf(m, FavorableIn(dir, trail, all, NoExit)) =>
                            GreatestOf(AtBest(m, e.mfe), FavorableIn(dir, trail, t, exit))
    <3>1. all \in Seq(Bar) /\ b \in Bar /\ IsFinite(b.shape) /\ PeakOK(dir, trail, all, walk.peak)
      BY <1>1, <1>3, <1>9
    <3> HIDE DEF all
    <3> QED
      BY <2>1, <3>1, JudgeBar
  <2>3. s \o w.bars = t /\ Len(w.bars) = i /\ w.bars \in Seq(Bar) /\ \A k \in 1 .. i : w.bars[k] = window[k]
    <3>1. w.bars = Append(walk.bars, b) /\ Len(walk.bars) = i - 1
      BY <1>1, <1>9
    <3> HIDE DEF all
    <3>2. s \o w.bars = t
      BY <1>5, <3>1
    <3> HIDE DEF t
    <3>3. Len(w.bars) = i /\ w.bars \in Seq(Bar)
      BY <1>3, <1>5, <3>1
    <3>4. \A k \in 1 .. i : w.bars[k] = window[k]
      BY <1>5, <3>1
    <3> QED
      BY <3>2, <3>3, <3>4
  <2> HIDE DEF t, all, e, exit
  <2>4. ASSUME NEW m \in Int, LeastOf(m, AdverseIn(dir, trail, s, NoExit))
        PROVE  LeastOf(AtWorst(m, w.mae), AdverseIn(dir, trail, t, w.exit))
    <3>1. LeastOf(AtWorst(m, walk.mae), AdverseIn(dir, trail, all, NoExit))
      BY <1>2, <1>9, <2>4
    <3>2. AtWorst(m, walk.mae) \in Int /\ AtWorst(m, AtWorst(walk.mae, e.mae)) = AtWorst(AtWorst(m, walk.mae), e.mae)
      BY <1>1, <2>2 DEF AtWorst
    <3>3. LeastOf(AtWorst(AtWorst(m, walk.mae), e.mae), AdverseIn(dir, trail, t, exit))
      BY <2>2, <3>1, <3>2
    <3> QED
      BY <1>9, <3>2, <3>3
  <2>5. ASSUME NEW m \in Int, GreatestOf(m, FavorableIn(dir, trail, s, NoExit))
        PROVE  GreatestOf(AtBest(m, w.mfe), FavorableIn(dir, trail, t, w.exit))
    <3>1. GreatestOf(AtBest(m, walk.mfe), FavorableIn(dir, trail, all, NoExit))
      BY <1>2, <1>9, <2>5
    <3>2. AtBest(m, walk.mfe) \in Int /\ AtBest(m, AtBest(walk.mfe, e.mfe)) = AtBest(AtBest(m, walk.mfe), e.mfe)
      BY <1>1, <2>2 DEF AtBest
    <3>3. GreatestOf(AtBest(AtBest(m, walk.mfe), e.mfe), FavorableIn(dir, trail, t, exit))
      BY <2>2, <3>1, <3>2
    <3> QED
      BY <1>9, <3>2, <3>3
  <2>6. HitsMatch(dir, trail, t, w.exit) /\ PeakOK(dir, trail, t, w.peak)
    BY <1>9, <2>2
  <2>7. w.mae \in Int /\ w.mfe \in Int /\ Len(w.bars) <= i /\ Len(w.bars) > 0
    BY <1>1, <1>3, <1>9, <2>2, <2>3 DEF AtWorst, AtBest
  <2>8. WalkOK(dir, trail, s, window, w, i)
    BY <1>4, <2>3, <2>4, <2>5, <2>6, <2>7 DEF WalkOK
  <2> QED
    BY <2>8 DEF w, b
<1> QED
  BY <1>4, <1>6, <1>7, <1>8, <1>9

\* By the first bar after which a walk would not be as it should.
LEMMA WalkSummary ==
  ASSUME NEW dir, NEW trail, IsTrail(trail), NEW s \in Seq(Bar), NEW window \in Seq(Bar),
         HitsIn(dir, trail, s) = {}, NEW peak, PeakOK(dir, trail, s, peak)
  PROVE  WalkOK(dir, trail, s, window, WalkBars(dir, trail, peak, window), Len(window))
<1> DEFINE n == Len(window)
<1>1. n \in Nat
  BY LenProperties
<1>2. PICK g : /\ g[0] = Unwalked(IF trail.on THEN peak ELSE 0)
               /\ \A i \in 1 .. n : g[i] = WalkBar(dir, trail, g[i - 1], window[i])
               /\ WalkBars(dir, trail, peak, window) = g[n]
  BY <1>1, WalkIs
<1> DEFINE OK(i) == WalkOK(dir, trail, s, window, g[i], i)
           bad == {i \in 0 .. n : ~OK(i)}
<1>3. OK(0)
  BY <1>2, WalkBegins
<1>4. ASSUME NEW i \in 1 .. n, OK(i - 1) PROVE OK(i)
  BY <1>2, <1>4, WalkGoesOn
<1>5. ASSUME bad # {} PROVE FALSE
  <2> HIDE DEF OK
  <2>1. bad \subseteq Nat
    OBVIOUS
  <2>2. Min(bad) \in bad /\ \A y \in bad : Min(bad) <= y
    <3> HIDE DEF bad
    <3> QED
      BY <1>5, <2>1, LeastNatural
  <2> DEFINE m == Min(bad)
  <2>3. m \in 0 .. n /\ ~OK(m) /\ m # 0
    BY <1>3, <2>2
  <2>4. m \in 1 .. n /\ m - 1 \in 0 .. n /\ ~(m <= m - 1)
    BY <1>1, <2>3
  <2>5. OK(m - 1)
    BY <2>2, <2>4
  <2> QED
    BY <1>4, <2>3, <2>4, <2>5
<1>6. n \in 0 .. n
  BY <1>1
<1> QED
  BY <1>2, <1>5, <1>6


-----------------------------------------------------------------------------
(* The position.                                                            *)

PositionFields == {"direction", "openedAt", "trailKnobs", "cursor", "peak", "mark", "mae", "mfe",
                   "reason", "price", "closedAt"}
\* The exit that the position met, if a bar ended it.
ExitOf(pos) ==
  IF pos.reason \in PriceReasons
  THEN [reason |-> pos.reason, price |-> pos.price, at |-> pos.closedAt] ELSE NoExit
ApartIn(s) == \A i, j \in 1 .. Len(s) : i < j => s[i].end <= s[j].open

Typed ==
  /\ clock \in Nat /\ deaths \in Nat
  /\ IsRows(intraday) /\ IsRows(daily)
  /\ DOMAIN position = PositionFields
  /\ position.direction \in Directions /\ position.openedAt \in Nat /\ position.trailKnobs \in Knobs
  /\ IsOpen => position.cursor \in Nat
  /\ walked \in Seq(Bar)
Passed ==
  /\ ApartIn(walked)
  /\ IsOpen => \A i \in 1 .. Len(walked) : walked[i].end <= position.cursor
Decided ==
  /\ HitsMatch(Dir, TrailOf(position), walked, ExitOf(position))
  /\ IsOpen => PeakOK(Dir, TrailOf(position), walked, position.peak)
Sampled ==
  deaths = 0 /\ position.reason # "flipped" =>
    /\ position.mae \in Int /\ position.mfe \in Int
    /\ LeastOf(position.mae, AdverseIn(Dir, TrailOf(position), walked, ExitOf(position)))
    /\ GreatestOf(position.mfe, FavorableIn(Dir, TrailOf(position), walked, ExitOf(position)))
WalkInv == Typed /\ Passed /\ Decided /\ Sampled

LEMMA NothingWalked ==
  ASSUME NEW dir, NEW trail
  PROVE  /\ ValidIn(<<>>, Len(<<>>)) = {} /\ HitsIn(dir, trail, <<>>) = {}
         /\ PeakOK(dir, trail, <<>>, 0)
         /\ LeastOf(0, AdverseIn(dir, trail, <<>>, NoExit)) /\ GreatestOf(0, FavorableIn(dir, trail, <<>>, NoExit))
<1> DEFINE none == <<>>
<1>1. Len(none) = 0
  OBVIOUS
<1> HIDE DEF none
<1>2. ValidIn(none, Len(none)) = {}
  BY <1>1 DEF ValidIn
<1>3. HitsIn(dir, trail, none) = {} /\ AdverseIn(dir, trail, none, NoExit) = {0}
      /\ FavorableIn(dir, trail, none, NoExit) = {0}
  BY <1>2 DEF HitsIn, AdverseIn, FavorableIn
<1>4. LeastOf(0, {0}) /\ GreatestOf(0, {0})
  BY DEF LeastOf, GreatestOf
<1>5. PeakOK(dir, trail, none, 0)
  BY <1>2 DEF PeakOK
<1> QED
  BY <1>2, <1>3, <1>4, <1>5 DEF none

LEMMA KnobsAtOpening == Effective(NoRows) \in Knobs
<1>1. DOMAIN NoRows = {}
  BY DEF NoRows
<1>2. DefaultKnobs \in Knobs
  BY WalkAssumption DEF Knobs
<1>3. Effective(NoRows) = [k \in DOMAIN DefaultKnobs |-> DefaultKnobs[k]]
  BY <1>1 DEF Effective, Over
<1>4. [k \in DOMAIN DefaultKnobs |-> DefaultKnobs[k]] = DefaultKnobs
  BY <1>2 DEF Knobs
<1> QED
  BY <1>2, <1>3, <1>4

LEMMA OpenExit == \A pos : pos.reason \notin PriceReasons => ExitOf(pos) = NoExit
  BY DEF ExitOf

LEMMA InitWalkInv == Init => WalkInv
<1> SUFFICES ASSUME Init PROVE WalkInv
  OBVIOUS
<1>1. PICK direction \in Directions : \E openedAt \in OpenTimes[direction] :
        clock = openedAt /\ position = Opened(direction, openedAt, Effective(NoRows))
  BY DEF Init
<1>2. PICK openedAt \in OpenTimes[direction] :
        clock = openedAt /\ position = Opened(direction, openedAt, Effective(NoRows))
  BY <1>1
<1>3. openedAt \in Nat
  BY WalkAssumption
<1>4. intraday = NoRows /\ daily = NoRows /\ walked = <<>> /\ deaths = 0
  BY DEF Init
<1>5. IsRows(NoRows)
  BY FS_EmptySet DEF IsRows, NoRows
<1>6. /\ DOMAIN position = PositionFields /\ position.direction = direction /\ position.openedAt = openedAt
      /\ position.trailKnobs = Effective(NoRows) /\ position.cursor = openedAt /\ position.peak = 0
      /\ position.mae = 0 /\ position.mfe = 0 /\ position.reason = "open"
  BY <1>2 DEF Opened, PositionFields
<1>7. ExitOf(position) = NoExit
  BY <1>6 DEF ExitOf, PriceReasons
<1>8. Len(walked) = 0 /\ walked \in Seq(Bar)
  BY <1>4
<1>9. Typed
  BY <1>1, <1>2, <1>3, <1>4, <1>5, <1>6, <1>8, KnobsAtOpening DEF Typed
<1>10. Passed
  BY <1>8 DEF Passed, ApartIn
<1>11. Decided /\ Sampled
  BY <1>4, <1>6, <1>7, NothingWalked DEF Decided, Sampled, HitsMatch
<1> QED
  BY <1>9, <1>10, <1>11 DEF WalkInv

\* Bars that come after all of s, and apart from each other.
LEMMA ApartAfter ==
  ASSUME NEW s \in Seq(Bar), NEW t \in Seq(Bar), ApartIn(s), ApartIn(t),
         NEW c \in Nat, \A i \in 1 .. Len(s) : s[i].end <= c, \A i \in 1 .. Len(t) : c <= t[i].open
  PROVE  s \o t \in Seq(Bar) /\ ApartIn(s \o t)
<1> DEFINE m == Len(s)
           n == Len(t)
           all == s \o t
<1>1. /\ all \in Seq(Bar) /\ Len(all) = m + n /\ m \in Nat /\ n \in Nat
      /\ \A i \in 1 .. m + n : all[i] = IF i <= m THEN s[i] ELSE t[i - m]
  BY ConcatProperties, LenProperties
<1> HIDE DEF all
<1>2. ASSUME NEW i \in 1 .. m + n, NEW j \in 1 .. m + n, i < j PROVE all[i].end <= all[j].open
  <2>1. CASE j <= m
    <3>1. i \in 1 .. m /\ j \in 1 .. m
      BY <1>1, <1>2, <2>1
    <3> QED
      BY <1>1, <1>2, <3>1 DEF ApartIn
  <2>2. CASE i > m
    <3>1. i - m \in 1 .. n /\ j - m \in 1 .. n /\ i - m < j - m /\ m + (i - m) = i /\ m + (j - m) = j
      <4>1. m \in Nat /\ n \in Nat
        BY <1>1
      <4> HIDE DEF m, n
      <4> QED
        BY <1>2, <2>2, <4>1
    <3>2. ~(i <= m) /\ ~(j <= m)
      BY <1>1, <1>2, <2>2
    <3>3. all[i] = t[i - m] /\ all[j] = t[j - m]
      BY <1>1, <3>2
    <3> QED
      BY <3>1, <3>3 DEF ApartIn
  <2>3. CASE i <= m /\ j > m
    <3>1. i \in 1 .. m /\ j - m \in 1 .. n /\ m + (j - m) = j
      BY <1>1, <1>2, <2>3
    <3>2. all[i] = s[i] /\ all[j] = t[j - m]
      BY <1>1, <3>1
    <3>3. s[i].end <= c /\ c <= t[j - m].open
      BY <3>1
    <3>4. s[i] \in Bar /\ t[j - m] \in Bar
      BY <3>1, ElementOfSeq
    <3>5. s[i].end \in Nat /\ t[j - m].open \in Nat
      BY <3>4 DEF Bar
    <3> QED
      BY <3>2, <3>3, <3>5
  <2> QED
    BY <1>1, <2>1, <2>2, <2>3
<1> QED
  BY <1>1, <1>2 DEF ApartIn, all

\* The window of a check, and the part of it that the check walks.
LEMMA WindowOfCheck ==
  ASSUME WalkInv, IsOpen, NEW asOf
  PROVE  LET window == Window(asOf)
             bars == WindowBars(intraday, daily, position.cursor, WalkEnd(asOf))
         IN /\ window \in Seq(Bar)
            /\ \A i \in 1 .. Len(window) : /\ window[i] \in bars /\ position.cursor <= window[i].open
                                           /\ window[i].open < window[i].end
            /\ \A b \in bars : \E i \in 1 .. Len(window) : window[i] = b
            /\ ApartIn(window)
<1>1. position.cursor \in Nat /\ IsRows(intraday) /\ IsRows(daily)
  BY DEF WalkInv, Typed
<1> DEFINE bars == WindowBars(intraday, daily, position.cursor, WalkEnd(asOf))
           window == Window(asOf)
<1>2. /\ window \in Seq(Bar)
      /\ \A i \in 1 .. Len(window) : window[i] \in bars
      /\ \A b \in bars : \E i \in 1 .. Len(window) : window[i] = b
      /\ \A i, j \in 1 .. Len(window) : i < j => window[i].end <= window[j].open
  BY <1>1, WindowIsInOrder DEF Window
<1>3. \A b \in bars : position.cursor <= b.open /\ b.open < b.end
  BY <1>1, WindowTypes
<1> HIDE DEF bars, window
<1>4. ApartIn(window)
  BY <1>2 DEF ApartIn
<1> QED
  BY <1>2, <1>3, <1>4 DEF bars, window

LEMMA WalkOfCheck ==
  ASSUME WalkInv, IsOpen, NEW asOf
  PROVE  LET walk == WalkOf(asOf)
         IN /\ WalkOK(Dir, TrailOf(position), walked, Window(asOf), walk, Len(Window(asOf)))
            /\ walk.bars \in Seq(Bar) /\ walked \o walk.bars \in Seq(Bar)
            /\ ApartIn(walked \o walk.bars) /\ ApartIn(walk.bars)
            /\ \A i \in 1 .. Len(walk.bars) : /\ position.cursor <= walk.bars[i].open
                                              /\ walk.bars[i].open < walk.bars[i].end
<1> DEFINE walk == WalkOf(asOf)
           window == Window(asOf)
           trail == TrailOf(position)
<1>1. /\ window \in Seq(Bar) /\ ApartIn(window)
      /\ \A i \in 1 .. Len(window) : position.cursor <= window[i].open /\ window[i].open < window[i].end
  BY WindowOfCheck
<1>2. IsTrail(trail)
  BY TrailIs DEF WalkInv, Typed, TrailOf
<1>3. walked \in Seq(Bar) /\ position.cursor \in Nat
  BY DEF WalkInv, Typed
<1>4. HitsIn(Dir, trail, walked) = {} /\ PeakOK(Dir, trail, walked, position.peak)
  BY DEF WalkInv, Decided, HitsMatch, ExitOf, IsOpen, PriceReasons
<1>5. walk = WalkBars(Dir, trail, position.peak, window)
  BY DEF WalkOf, Dir
<1> HIDE DEF walk, window, trail
<1>6. WalkOK(Dir, trail, walked, window, walk, Len(window))
  BY <1>1, <1>2, <1>3, <1>4, <1>5, WalkSummary
<1>7. /\ walk.bars \in Seq(Bar) /\ Len(walk.bars) <= Len(window)
      /\ \A k \in 1 .. Len(walk.bars) : walk.bars[k] = window[k]
  BY <1>6 DEF WalkOK
<1>8. \A k \in 1 .. Len(walk.bars) : k \in 1 .. Len(window)
  BY <1>1, <1>7, LenProperties
<1>9. ApartIn(walk.bars)
  BY <1>1, <1>7, <1>8 DEF ApartIn
<1>10. \A i \in 1 .. Len(walk.bars) : /\ position.cursor <= walk.bars[i].open
                                      /\ walk.bars[i].open < walk.bars[i].end
  BY <1>1, <1>7, <1>8
<1>11. walked \o walk.bars \in Seq(Bar) /\ ApartIn(walked \o walk.bars)
  <2>1. ApartIn(walked) /\ \A i \in 1 .. Len(walked) : walked[i].end <= position.cursor
    BY DEF WalkInv, Passed
  <2>2. \A i \in 1 .. Len(walk.bars) : position.cursor <= walk.bars[i].open
    BY <1>10
  <2> QED
    BY <1>3, <1>7, <1>9, <2>1, <2>2, ApartAfter
<1> QED
  BY <1>6, <1>7, <1>9, <1>10, <1>11 DEF walk, window, trail

LEMMA GainsGrow ==
  ASSUME NEW dir, NEW s \in Seq(Bar), NEW t \in Seq(Bar)
  PROVE  LET all == s \o t
         IN /\ ValidIn(s, Len(s)) \subseteq ValidIn(all, Len(all))
            /\ GainsIn(dir, s, Len(s)) \subseteq GainsIn(dir, all, Len(all))
<1> DEFINE all == s \o t
<1>1. /\ all \in Seq(Bar) /\ Len(all) = Len(s) + Len(t) /\ Len(s) \in Nat /\ Len(t) \in Nat
      /\ \A i \in 1 .. Len(s) : all[i] = s[i]
  BY ConcatProperties, LenProperties
<1> HIDE DEF all
<1>2. ValidIn(s, Len(s)) \subseteq ValidIn(all, Len(all)) /\ ValidIn(s, Len(s)) \subseteq 1 .. Len(s)
  BY <1>1 DEF ValidIn
<1>3. GainsIn(dir, s, Len(s)) \subseteq GainsIn(dir, all, Len(all))
  BY <1>1, <1>2 DEF GainsIn
<1> QED
  BY <1>2, <1>3 DEF all

\* The peak that the position keeps is the better of its own and the walk's: the walk's.
LEMMA PeakKept ==
  ASSUME NEW dir, NEW trail, NEW s \in Seq(Bar), NEW t \in Seq(Bar),
         NEW peak, PeakOK(dir, trail, s, peak), NEW later, PeakOK(dir, trail, s \o t, later)
  PROVE  PeakOK(dir, trail, s \o t,
                IF later = 0 THEN peak ELSE IF peak = 0 THEN later ELSE BestOf(dir, peak, later))
<1> DEFINE all == s \o t
<1>1. all \in Seq(Bar) /\ Len(s) \in 0 .. Len(s) /\ Len(all) \in 0 .. Len(all)
  BY ConcatProperties, LenProperties
<1>2. /\ ValidIn(s, Len(s)) \subseteq ValidIn(all, Len(all))
      /\ GainsIn(dir, s, Len(s)) \subseteq GainsIn(dir, all, Len(all))
  BY GainsGrow
<1>3. PeakOK(dir, trail, all, later)
  OBVIOUS
<1> DEFINE kept == IF later = 0 THEN peak ELSE IF peak = 0 THEN later ELSE BestOf(dir, peak, later)
           g == Max(GainsIn(dir, s, Len(s)))
           h == Max(GainsIn(dir, all, Len(all)))
<1> HIDE DEF all
<1>4. /\ g \in GainsIn(dir, s, Len(s)) /\ g \in Nat /\ h \in Nat
      /\ \A x \in GainsIn(dir, all, Len(all)) : x \in Int /\ x <= h
  BY <1>1, GainIs
<1>5. g <= h
  BY <1>2, <1>4
<1>6. BestIn(dir, s, Len(s)) = AtReturn(dir, g) /\ BestIn(dir, all, Len(all)) = AtReturn(dir, h)
  BY DEF BestIn
<1> HIDE DEF g, h
<1>7. BestOf(dir, AtReturn(dir, g), AtReturn(dir, h)) = AtReturn(dir, h)
  <2>1. CASE dir = "long"
    BY <1>4, <1>5, <2>1 DEF AtReturn, BestOf, Better, Entry
  <2>2. CASE dir # "long"
    BY <1>4, <1>5, <2>2 DEF AtReturn, BestOf, Better, Entry
  <2> QED
    BY <2>1, <2>2
<1>8. BestIn(dir, all, Len(all)) # 0 /\ BestIn(dir, s, Len(s)) # 0
  BY <1>1, BestIsPrice
<1>9. ASSUME trail.on
      PROVE  kept = IF ValidIn(all, Len(all)) = {} THEN 0 ELSE BestIn(dir, all, Len(all))
  <2>1. /\ peak = IF ValidIn(s, Len(s)) = {} THEN 0 ELSE BestIn(dir, s, Len(s))
        /\ later = IF ValidIn(all, Len(all)) = {} THEN 0 ELSE BestIn(dir, all, Len(all))
    BY <1>3, <1>9 DEF PeakOK
  <2>2. CASE ValidIn(all, Len(all)) = {}
    BY <1>2, <2>1, <2>2
  <2>3. CASE ValidIn(all, Len(all)) # {} /\ ValidIn(s, Len(s)) = {}
    BY <1>8, <2>1, <2>3
  <2>4. CASE ValidIn(all, Len(all)) # {} /\ ValidIn(s, Len(s)) # {}
    BY <1>6, <1>7, <1>8, <2>1, <2>4
  <2> QED
    BY <2>2, <2>3, <2>4
<1>10. PeakOK(dir, trail, all, kept)
  BY <1>9 DEF PeakOK
<1> QED
  BY <1>10 DEF all, kept

LEMMA RecordedIs ==
  ASSUME NEW pos, DOMAIN pos = PositionFields, NEW walk
  PROVE  LET p == RecordedExcursion(pos, walk)
         IN /\ DOMAIN p = PositionFields
            /\ p.mae = AtWorst(pos.mae, walk.mae) /\ p.mfe = AtBest(pos.mfe, walk.mfe)
            /\ p.direction = pos.direction /\ p.openedAt = pos.openedAt /\ p.trailKnobs = pos.trailKnobs
            /\ p.cursor = pos.cursor /\ p.peak = pos.peak /\ p.reason = pos.reason
<1> DEFINE p == RecordedExcursion(pos, walk)
<1>1. p = [pos EXCEPT !.mae = AtWorst(@, walk.mae), !.mfe = AtBest(@, walk.mfe)]
  BY DEF RecordedExcursion
<1> HIDE DEF p
<1> QED
  BY <1>1 DEF PositionFields, p

LEMMA ClosedIs ==
  ASSUME NEW pos, DOMAIN pos = PositionFields, NEW reason, NEW price, NEW at
  PROVE  LET p == Closed(pos, reason, price, at)
         IN /\ DOMAIN p = PositionFields
            /\ p.mae = pos.mae /\ p.mfe = pos.mfe
            /\ p.direction = pos.direction /\ p.openedAt = pos.openedAt /\ p.trailKnobs = pos.trailKnobs
            /\ p.reason = reason /\ p.price = price /\ p.closedAt = at
<1> DEFINE p == Closed(pos, reason, price, at)
<1>1. p = [pos EXCEPT !.reason = reason, !.price = price, !.closedAt = at]
  BY DEF Closed
<1> HIDE DEF p
<1> QED
  BY <1>1 DEF PositionFields, p

LEMMA AdvancedIs ==
  ASSUME NEW pos, DOMAIN pos = PositionFields, NEW walk
  PROVE  LET p == Advanced(pos, walk)
         IN /\ DOMAIN p = PositionFields
            /\ p.mae = pos.mae /\ p.mfe = pos.mfe
            /\ p.direction = pos.direction /\ p.openedAt = pos.openedAt /\ p.trailKnobs = pos.trailKnobs
            /\ p.reason = pos.reason
            /\ ~(walk.bars = <<>> \/ Last(walk.bars).end <= pos.cursor) =>
                 /\ p.cursor = Last(walk.bars).end
                 /\ p.peak = IF walk.peak = 0 THEN pos.peak
                             ELSE IF pos.peak = 0 THEN walk.peak ELSE BestOf(pos.direction, pos.peak, walk.peak)
<1> DEFINE p == Advanced(pos, walk)
           stays == walk.bars = <<>> \/ Last(walk.bars).end <= pos.cursor
<1>1. CASE stays
  <2>1. p = pos
    BY <1>1 DEF Advanced
  <2> HIDE DEF p, stays
  <2>2. /\ DOMAIN p = PositionFields
        /\ p.mae = pos.mae /\ p.mfe = pos.mfe
        /\ p.direction = pos.direction /\ p.openedAt = pos.openedAt /\ p.trailKnobs = pos.trailKnobs
        /\ p.reason = pos.reason
    BY <2>1
  <2> QED
    BY <1>1, <2>2 DEF p, stays
<1>2. CASE ~stays
  <2>1. p = [pos EXCEPT !.cursor = Last(walk.bars).end,
                   !.mark = IF walk.mark = 0 THEN @ ELSE walk.mark,
                   !.peak = IF walk.peak = 0 THEN @
                            ELSE IF @ = 0 THEN walk.peak ELSE BestOf(pos.direction, @, walk.peak)]
    BY <1>2 DEF Advanced
  <2> HIDE DEF p, stays
  <2> QED
    BY <2>1 DEF PositionFields, p
<1> QED
  BY <1>1, <1>2

LEMMA ExitRecord ==
  ASSUME NEW dir, NEW trail, NEW s, NEW i
  PROVE  LET e == ExitIn(dir, trail, s, i) IN e = [reason |-> e.reason, price |-> e.price, at |-> e.at]
<1> DEFINE e == ExitIn(dir, trail, s, i)
           rule == RuleIn(dir, trail, s, i)
           target == TargetLevel(dir, rule, trail)
<1>1. e = ExitAtBar(dir, s[i], rule, target)
  BY DEF ExitIn
<1> HIDE DEF e, rule, target
<1>2. \/ e = [reason |-> rule.reason, price |-> WorstOf(dir, s[i].shape.open, rule.level), at |-> s[i].end]
      \/ e = [reason |-> "take_profit", price |-> BestOf(dir, s[i].shape.open, target), at |-> s[i].end]
      \/ e = NoExit
  BY <1>1 DEF ExitAtBar
<1>3. e = [reason |-> e.reason, price |-> e.price, at |-> e.at]
  BY <1>2 DEF NoExit
<1> QED
  BY <1>3 DEF e

\* The excursions that the position has after a check that ends in the bars all with this exit.
LEMMA SampledAfter ==
  ASSUME WalkInv, IsOpen, NEW asOf
  PROVE  LET walk == WalkOf(asOf)
             all == walked \o walk.bars
         IN deaths = 0 =>
              /\ AtWorst(position.mae, walk.mae) \in Int /\ AtBest(position.mfe, walk.mfe) \in Int
              /\ LeastOf(AtWorst(position.mae, walk.mae), AdverseIn(Dir, TrailOf(position), all, walk.exit))
              /\ GreatestOf(AtBest(position.mfe, walk.mfe), FavorableIn(Dir, TrailOf(position), all, walk.exit))
<1> DEFINE walk == WalkOf(asOf)
           trail == TrailOf(position)
           all == walked \o walk.bars
<1>1. SUFFICES ASSUME deaths = 0
               PROVE  /\ AtWorst(position.mae, walk.mae) \in Int /\ AtBest(position.mfe, walk.mfe) \in Int
                      /\ LeastOf(AtWorst(position.mae, walk.mae), AdverseIn(Dir, trail, all, walk.exit))
                      /\ GreatestOf(AtBest(position.mfe, walk.mfe), FavorableIn(Dir, trail, all, walk.exit))
  OBVIOUS
<1>2. position.reason # "flipped" /\ ExitOf(position) = NoExit
  BY DEF IsOpen, ExitOf, PriceReasons
<1>3. /\ position.mae \in Int /\ position.mfe \in Int
      /\ LeastOf(position.mae, AdverseIn(Dir, trail, walked, NoExit))
      /\ GreatestOf(position.mfe, FavorableIn(Dir, trail, walked, NoExit))
  BY <1>1, <1>2 DEF WalkInv, Sampled
<1>4. WalkOK(Dir, trail, walked, Window(asOf), walk, Len(Window(asOf)))
  BY WalkOfCheck
<1> HIDE DEF walk, trail
<1>5. /\ walk.mae \in Int /\ walk.mfe \in Int
      /\ \A m \in Int : LeastOf(m, AdverseIn(Dir, trail, walked, NoExit)) =>
                          LeastOf(AtWorst(m, walk.mae), AdverseIn(Dir, trail, all, walk.exit))
      /\ \A m \in Int : GreatestOf(m, FavorableIn(Dir, trail, walked, NoExit)) =>
                          GreatestOf(AtBest(m, walk.mfe), FavorableIn(Dir, trail, all, walk.exit))
  BY <1>4 DEF WalkOK
<1>6. AtWorst(position.mae, walk.mae) \in Int /\ AtBest(position.mfe, walk.mfe) \in Int
  BY <1>3, <1>5 DEF AtWorst, AtBest
<1> QED
  BY <1>3, <1>5, <1>6

\* A check closes the position: by a bar, or by the clock.
LEMMA PriceExitKeeps ==
  ASSUME WalkInv, NEW asOf, PriceExit(asOf)
  PROVE  WalkInv'
<1> DEFINE walk == WalkOf(asOf)
           trail == TrailOf(position)
           all == walked \o walk.bars
<1>1. /\ IsOpen /\ walk.exit # NoExit /\ walked' = all
      /\ position' = Closed(RecordedExcursion(position, walk), walk.exit.reason, walk.exit.price, walk.exit.at)
      /\ clock' = clock /\ intraday' = intraday /\ daily' = daily /\ deaths' = deaths
  BY DEF PriceExit, Checks, Keeps
<1>2. /\ WalkOK(Dir, trail, walked, Window(asOf), walk, Len(Window(asOf)))
      /\ all \in Seq(Bar) /\ ApartIn(all)
  BY <1>1, WalkOfCheck
<1>3. deaths = 0 =>
        /\ AtWorst(position.mae, walk.mae) \in Int /\ AtBest(position.mfe, walk.mfe) \in Int
        /\ LeastOf(AtWorst(position.mae, walk.mae), AdverseIn(Dir, trail, all, walk.exit))
        /\ GreatestOf(AtBest(position.mfe, walk.mfe), FavorableIn(Dir, trail, all, walk.exit))
  BY <1>1, SampledAfter
<1>4. HitsMatch(Dir, trail, all, walk.exit)
  BY <1>2 DEF WalkOK
<1> HIDE DEF walk
<1>5. walk.exit.reason \in PriceReasons /\ ExitIn(Dir, trail, all, Len(all)) = walk.exit
  BY <1>1, <1>4 DEF HitsMatch
<1>6. walk.exit = [reason |-> walk.exit.reason, price |-> walk.exit.price, at |-> walk.exit.at]
  <2> DEFINE e == ExitIn(Dir, trail, all, Len(all))
  <2>1. e = [reason |-> e.reason, price |-> e.price, at |-> e.at]
    BY ExitRecord
  <2> HIDE DEF e
  <2>2. walk.exit = e
    BY <1>5 DEF e
  <2> QED
    BY <2>1, <2>2
<1>7. /\ DOMAIN position' = PositionFields
      /\ position'.mae = AtWorst(position.mae, walk.mae) /\ position'.mfe = AtBest(position.mfe, walk.mfe)
      /\ position'.direction = position.direction /\ position'.openedAt = position.openedAt
      /\ position'.trailKnobs = position.trailKnobs
      /\ position'.reason = walk.exit.reason /\ position'.price = walk.exit.price
      /\ position'.closedAt = walk.exit.at
  <2> DEFINE p == RecordedExcursion(position, walk)
  <2>1. /\ DOMAIN p = PositionFields
        /\ p.mae = AtWorst(position.mae, walk.mae) /\ p.mfe = AtBest(position.mfe, walk.mfe)
        /\ p.direction = position.direction /\ p.openedAt = position.openedAt
        /\ p.trailKnobs = position.trailKnobs
    BY RecordedIs DEF WalkInv, Typed
  <2> HIDE DEF p
  <2>2. position' = Closed(p, walk.exit.reason, walk.exit.price, walk.exit.at)
    BY <1>1 DEF p
  <2> QED
    BY <2>1, <2>2, ClosedIs
<1>8. ExitOf(position)' = walk.exit /\ ~IsOpen' /\ Dir' = Dir /\ TrailOf(position)' = trail
  BY <1>5, <1>6, <1>7 DEF ExitOf, IsOpen, PriceReasons, Dir, TrailOf
<1> HIDE DEF trail, all
<1>9. Typed'
  BY <1>1, <1>2, <1>7, <1>8 DEF WalkInv, Typed
<1>10. Passed'
  BY <1>1, <1>2, <1>8 DEF Passed
<1>11. Decided'
  BY <1>1, <1>4, <1>8 DEF Decided
<1>12. Sampled'
  BY <1>1, <1>3, <1>7, <1>8 DEF Sampled
<1> QED
  BY <1>9, <1>10, <1>11, <1>12 DEF WalkInv

LEMMA TimeExitKeeps ==
  ASSUME WalkInv, NEW asOf, TimeExit(asOf)
  PROVE  WalkInv'
<1> DEFINE walk == WalkOf(asOf)
           trail == TrailOf(position)
           all == walked \o walk.bars
<1>1. PICK fill \in FillsWhenDue(walk, asOf) :
        Keeps(Closed(RecordedExcursion(position, walk), "time_based", fill.price, fill.at), walk)
  BY DEF TimeExit
<1>2. /\ IsOpen /\ walk.exit = NoExit /\ walked' = all
      /\ position' = Closed(RecordedExcursion(position, walk), "time_based", fill.price, fill.at)
      /\ clock' = clock /\ intraday' = intraday /\ daily' = daily /\ deaths' = deaths
  BY <1>1 DEF TimeExit, Checks, Keeps
<1>3. /\ WalkOK(Dir, trail, walked, Window(asOf), walk, Len(Window(asOf)))
      /\ all \in Seq(Bar) /\ ApartIn(all)
  BY <1>2, WalkOfCheck
<1>4. deaths = 0 =>
        /\ AtWorst(position.mae, walk.mae) \in Int /\ AtBest(position.mfe, walk.mfe) \in Int
        /\ LeastOf(AtWorst(position.mae, walk.mae), AdverseIn(Dir, trail, all, walk.exit))
        /\ GreatestOf(AtBest(position.mfe, walk.mfe), FavorableIn(Dir, trail, all, walk.exit))
  BY <1>2, SampledAfter
<1>5. HitsMatch(Dir, trail, all, walk.exit)
  BY <1>3 DEF WalkOK
<1> HIDE DEF walk
<1>6. /\ DOMAIN position' = PositionFields
      /\ position'.mae = AtWorst(position.mae, walk.mae) /\ position'.mfe = AtBest(position.mfe, walk.mfe)
      /\ position'.direction = position.direction /\ position'.openedAt = position.openedAt
      /\ position'.trailKnobs = position.trailKnobs /\ position'.reason = "time_based"
  <2> DEFINE p == RecordedExcursion(position, walk)
  <2>1. /\ DOMAIN p = PositionFields
        /\ p.mae = AtWorst(position.mae, walk.mae) /\ p.mfe = AtBest(position.mfe, walk.mfe)
        /\ p.direction = position.direction /\ p.openedAt = position.openedAt
        /\ p.trailKnobs = position.trailKnobs
    BY RecordedIs DEF WalkInv, Typed
  <2> HIDE DEF p
  <2>2. position' = Closed(p, "time_based", fill.price, fill.at)
    BY <1>2 DEF p
  <2> QED
    BY <2>1, <2>2, ClosedIs
<1>7. ExitOf(position)' = walk.exit /\ ~IsOpen' /\ Dir' = Dir /\ TrailOf(position)' = trail
  BY <1>2, <1>6 DEF ExitOf, IsOpen, PriceReasons, Dir, TrailOf
<1> HIDE DEF trail, all
<1>8. Typed'
  BY <1>2, <1>3, <1>6, <1>7 DEF WalkInv, Typed
<1>9. Passed'
  BY <1>2, <1>3, <1>7 DEF Passed
<1>10. Decided'
  BY <1>2, <1>5, <1>7 DEF Decided
<1>11. Sampled'
  BY <1>2, <1>4, <1>6, <1>7 DEF Sampled
<1> QED
  BY <1>8, <1>9, <1>10, <1>11 DEF WalkInv

\* The last bar of a walk ends no earlier than the others, and after the cursor.
LEMMA LastBar ==
  ASSUME NEW c \in Nat, NEW t \in Seq(Bar), t # <<>>, ApartIn(t),
         \A i \in 1 .. Len(t) : c <= t[i].open /\ t[i].open < t[i].end
  PROVE  Last(t).end \in Nat /\ c < Last(t).end /\ \A i \in 1 .. Len(t) : t[i].end <= Last(t).end
<1> DEFINE n == Len(t)
<1>1. n \in Nat /\ n # 0 /\ n \in 1 .. n
  BY LenProperties, EmptySeq
<1>2. Last(t) = t[n] /\ t[n] \in Bar
  BY <1>1, ElementOfSeq DEF Last
<1>3. t[n].end \in Nat /\ t[n].open \in Nat /\ t[n].open < t[n].end /\ c <= t[n].open
  BY <1>1, <1>2 DEF Bar
<1>4. ASSUME NEW i \in 1 .. n PROVE t[i].end <= t[n].end
  <2>1. t[i] \in Bar
    BY ElementOfSeq
  <2>2. t[i].end \in Nat
    BY <2>1 DEF Bar
  <2>3. CASE i = n
    BY <1>3, <2>3
  <2>4. CASE i # n
    <3>1. i < n
      BY <1>1, <2>4
    <3>2. t[i].end <= t[n].open
      BY <1>1, <3>1 DEF ApartIn
    <3> QED
      BY <1>3, <2>2, <3>2
  <2> QED
    BY <2>3, <2>4
<1> QED
  BY <1>2, <1>3, <1>4

LEMMA MoveOnKeeps ==
  ASSUME WalkInv, NEW asOf, MoveOn(asOf)
  PROVE  WalkInv'
<1> DEFINE walk == WalkOf(asOf)
           trail == TrailOf(position)
           all == walked \o walk.bars
<1>1. /\ IsOpen /\ walk.exit = NoExit /\ walk.bars # <<>> /\ walked' = all
      /\ position' = Advanced(RecordedExcursion(position, walk), walk)
      /\ clock' = clock /\ intraday' = intraday /\ daily' = daily /\ deaths' = deaths
  BY DEF MoveOn, LetsLive, Checks, Keeps
<1>2. /\ WalkOK(Dir, trail, walked, Window(asOf), walk, Len(Window(asOf)))
      /\ walk.bars \in Seq(Bar) /\ ApartIn(walk.bars)
      /\ \A i \in 1 .. Len(walk.bars) : /\ position.cursor <= walk.bars[i].open
                                        /\ walk.bars[i].open < walk.bars[i].end
      /\ all \in Seq(Bar) /\ ApartIn(all)
  BY <1>1, WalkOfCheck
<1>3. deaths = 0 =>
        /\ AtWorst(position.mae, walk.mae) \in Int /\ AtBest(position.mfe, walk.mfe) \in Int
        /\ LeastOf(AtWorst(position.mae, walk.mae), AdverseIn(Dir, trail, all, walk.exit))
        /\ GreatestOf(AtBest(position.mfe, walk.mfe), FavorableIn(Dir, trail, all, walk.exit))
  BY <1>1, SampledAfter
<1>4. HitsMatch(Dir, trail, all, walk.exit) /\ PeakOK(Dir, trail, all, walk.peak)
  BY <1>2 DEF WalkOK
<1> HIDE DEF walk
<1>5. /\ Last(walk.bars).end \in Nat /\ position.cursor \in Nat /\ position.cursor < Last(walk.bars).end
      /\ \A i \in 1 .. Len(walk.bars) : walk.bars[i].end <= Last(walk.bars).end
  <2>1. position.cursor \in Nat
    BY <1>1 DEF WalkInv, Typed
  <2> QED
    BY <1>1, <1>2, <2>1, LastBar
<1>6. /\ DOMAIN position' = PositionFields
      /\ position'.mae = AtWorst(position.mae, walk.mae) /\ position'.mfe = AtBest(position.mfe, walk.mfe)
      /\ position'.direction = position.direction /\ position'.openedAt = position.openedAt
      /\ position'.trailKnobs = position.trailKnobs /\ position'.reason = "open"
      /\ position'.cursor = Last(walk.bars).end
      /\ position'.peak = IF walk.peak = 0 THEN position.peak
                          ELSE IF position.peak = 0 THEN walk.peak ELSE BestOf(Dir, position.peak, walk.peak)
  <2> DEFINE p == RecordedExcursion(position, walk)
  <2>1. /\ DOMAIN p = PositionFields
        /\ p.mae = AtWorst(position.mae, walk.mae) /\ p.mfe = AtBest(position.mfe, walk.mfe)
        /\ p.direction = position.direction /\ p.openedAt = position.openedAt
        /\ p.trailKnobs = position.trailKnobs /\ p.cursor = position.cursor /\ p.peak = position.peak
        /\ p.reason = "open"
    BY <1>1, RecordedIs DEF WalkInv, Typed, IsOpen
  <2> HIDE DEF p
  <2>2. position' = Advanced(p, walk)
    BY <1>1 DEF p
  <2>3. ~(walk.bars = <<>> \/ Last(walk.bars).end <= p.cursor)
    BY <1>1, <1>5, <2>1
  <2> DEFINE a == Advanced(p, walk)
  <2>4. /\ DOMAIN a = PositionFields /\ a.mae = p.mae /\ a.mfe = p.mfe
        /\ a.direction = p.direction /\ a.openedAt = p.openedAt /\ a.trailKnobs = p.trailKnobs
        /\ a.reason = p.reason
    BY <2>1, AdvancedIs
  <2>5. /\ a.cursor = Last(walk.bars).end
        /\ a.peak = IF walk.peak = 0 THEN p.peak
                    ELSE IF p.peak = 0 THEN walk.peak ELSE BestOf(p.direction, p.peak, walk.peak)
    BY <2>1, <2>3, AdvancedIs
  <2> HIDE DEF a
  <2>6. position' = a
    BY <2>2 DEF a
  <2> QED
    BY <2>1, <2>4, <2>5, <2>6 DEF Dir
<1>7. ExitOf(position)' = walk.exit /\ IsOpen' /\ Dir' = Dir /\ TrailOf(position)' = trail
  BY <1>1, <1>6 DEF ExitOf, IsOpen, PriceReasons, Dir, TrailOf
<1>8. walked \in Seq(Bar) /\ PeakOK(Dir, trail, walked, position.peak)
      /\ \A i \in 1 .. Len(walked) : walked[i].end <= position.cursor
  BY <1>1 DEF WalkInv, Typed, Decided, Passed
<1>9. PeakOK(Dir, trail, all, position'.peak)
  <2> HIDE DEF trail
  <2> QED
    BY <1>2, <1>4, <1>6, <1>8, PeakKept
<1>10. \A i \in 1 .. Len(all) : all[i].end <= Last(walk.bars).end
  <2> TAKE i \in 1 .. Len(all)
  <2>1. /\ Len(all) = Len(walked) + Len(walk.bars) /\ Len(walked) \in Nat /\ Len(walk.bars) \in Nat
        /\ all[i] = IF i <= Len(walked) THEN walked[i] ELSE walk.bars[i - Len(walked)]
    BY <1>2, <1>8, ConcatProperties, LenProperties
  <2>2. CASE i <= Len(walked)
    <3>1. i \in 1 .. Len(walked) /\ walked[i] \in Bar
      BY <1>8, <2>1, <2>2, ElementOfSeq
    <3>2. walked[i].end \in Nat /\ walked[i].end <= position.cursor
      BY <1>8, <3>1 DEF Bar
    <3> HIDE DEF all
    <3> QED
      BY <1>5, <2>1, <2>2, <3>2
  <2>3. CASE ~(i <= Len(walked))
    <3> HIDE DEF all
    <3>1. i - Len(walked) \in 1 .. Len(walk.bars)
      BY <2>1, <2>3
    <3> QED
      BY <1>5, <2>1, <2>3, <3>1
  <2> QED
    BY <2>2, <2>3
<1> HIDE DEF trail, all
<1>11. Typed'
  BY <1>1, <1>2, <1>5, <1>6, <1>7 DEF WalkInv, Typed
<1>12. Passed'
  BY <1>1, <1>2, <1>6, <1>7, <1>10 DEF Passed
<1>13. Decided'
  BY <1>1, <1>4, <1>7, <1>9 DEF Decided
<1>14. Sampled'
  BY <1>1, <1>3, <1>6, <1>7 DEF Sampled
<1> QED
  BY <1>11, <1>12, <1>13, <1>14 DEF WalkInv

LEMMA DieKeeps ==
  ASSUME WalkInv, NEW asOf, DieAfterExcursion(asOf)
  PROVE  WalkInv'
<1> DEFINE walk == WalkOf(asOf)
           p == RecordedExcursion(position, walk)
<1>1. /\ IsOpen /\ walked' = walked /\ position' = p
      /\ clock' = clock /\ intraday' = intraday /\ daily' = daily /\ deaths' = deaths + 1
  BY DEF DieAfterExcursion, Checks
<1>2. /\ DOMAIN p = PositionFields
      /\ p.direction = position.direction /\ p.openedAt = position.openedAt
      /\ p.trailKnobs = position.trailKnobs /\ p.cursor = position.cursor /\ p.peak = position.peak
      /\ p.reason = position.reason
  BY RecordedIs DEF WalkInv, Typed
<1> HIDE DEF p
<1>3. /\ ExitOf(position) = NoExit /\ ExitOf(position)' = NoExit
      /\ IsOpen' /\ Dir' = Dir /\ TrailOf(position)' = TrailOf(position)
  BY <1>1, <1>2 DEF ExitOf, IsOpen, PriceReasons, Dir, TrailOf
<1>4. Typed'
  BY <1>1, <1>2, <1>3 DEF WalkInv, Typed
<1>5. Passed'
  BY <1>1, <1>2, <1>3 DEF WalkInv, Passed
<1>6. Decided'
  BY <1>1, <1>2, <1>3 DEF WalkInv, Decided
<1>7. deaths' # 0
  BY <1>1 DEF WalkInv, Typed
<1>8. Sampled'
  BY <1>7 DEF Sampled
<1> QED
  BY <1>4, <1>5, <1>6, <1>8 DEF WalkInv

LEMMA FlipKeeps ==
  ASSUME WalkInv, NEW asOf, Flip(asOf)
  PROVE  WalkInv'
<1> DEFINE walk == WalkOf(asOf)
           trail == TrailOf(position)
           all == walked \o walk.bars
           again == WalkBars(position.direction, Trailing(NoTrail), 0,
                             BarSequence(intraday, daily, position.cursor, asOf))
           price == CurrentPrice(intraday, daily, asOf)
           atFill == IF IsSplit(price) THEN 0 ELSE Gross(position.direction, price)
           more == [again EXCEPT !.mae = AtWorst(@, atFill), !.mfe = AtBest(@, atFill)]
           counted == RecordedExcursion(RecordedExcursion(Advanced(position, walk), walk), more)
<1>1. /\ IsOpen /\ walk.exit = NoExit /\ walked' = all
      /\ position' = Closed(counted, "flipped", price, asOf)
      /\ clock' = clock /\ intraday' = intraday /\ daily' = daily /\ deaths' = deaths
  BY DEF Flip, LetsLive, Checks, Keeps
<1>2. /\ WalkOK(Dir, trail, walked, Window(asOf), walk, Len(Window(asOf)))
      /\ all \in Seq(Bar) /\ ApartIn(all)
  BY <1>1, WalkOfCheck
<1>3. HitsMatch(Dir, trail, all, walk.exit)
  BY <1>2 DEF WalkOK
<1> HIDE DEF walk, more, price
<1>4. /\ DOMAIN position' = PositionFields
      /\ position'.direction = position.direction /\ position'.openedAt = position.openedAt
      /\ position'.trailKnobs = position.trailKnobs /\ position'.reason = "flipped"
  <2> DEFINE p == Advanced(position, walk)
             q == RecordedExcursion(p, walk)
             r == RecordedExcursion(q, more)
  <2>1. /\ DOMAIN p = PositionFields /\ p.direction = position.direction
        /\ p.openedAt = position.openedAt /\ p.trailKnobs = position.trailKnobs
    BY AdvancedIs DEF WalkInv, Typed
  <2> HIDE DEF p
  <2>2. /\ DOMAIN q = PositionFields /\ q.direction = p.direction
        /\ q.openedAt = p.openedAt /\ q.trailKnobs = p.trailKnobs
    BY <2>1, RecordedIs
  <2> HIDE DEF q
  <2>3. /\ DOMAIN r = PositionFields /\ r.direction = q.direction
        /\ r.openedAt = q.openedAt /\ r.trailKnobs = q.trailKnobs
    BY <2>2, RecordedIs
  <2> HIDE DEF r
  <2>4. position' = Closed(r, "flipped", price, asOf)
    BY <1>1 DEF p, q, r
  <2> QED
    BY <2>1, <2>2, <2>3, <2>4, ClosedIs
<1>5. ExitOf(position)' = walk.exit /\ ~IsOpen' /\ Dir' = Dir /\ TrailOf(position)' = trail
  BY <1>1, <1>4 DEF ExitOf, IsOpen, PriceReasons, Dir, TrailOf
<1> HIDE DEF trail, all
<1>6. Typed'
  BY <1>1, <1>2, <1>4, <1>5 DEF WalkInv, Typed
<1>7. Passed'
  BY <1>1, <1>2, <1>5 DEF Passed
<1>8. Decided'
  BY <1>1, <1>3, <1>5 DEF Decided
<1>9. Sampled'
  BY <1>4 DEF Sampled
<1> QED
  BY <1>6, <1>7, <1>8, <1>9 DEF WalkInv

LEMMA WithRows ==
  ASSUME NEW rows, IsRows(rows), NEW key \in Nat, NEW shape \in ShapeType
  PROVE  IsRows(With(rows, key, shape))
<1> DEFINE w == With(rows, key, shape)
           one == [k \in {key} |-> shape]
<1>1. DOMAIN one = {key} /\ one[key] = shape
  OBVIOUS
<1>2. w = [k \in {key} \cup DOMAIN rows |-> IF k \in {key} THEN one[k] ELSE rows[k]]
  BY <1>1 DEF With, Over
<1> HIDE DEF one, w
<1>3. DOMAIN w = {key} \cup DOMAIN rows /\ \A k \in DOMAIN w : w[k] = shape \/ (k \in DOMAIN rows /\ w[k] = rows[k])
  BY <1>1, <1>2
<1>4. IsFiniteSet({key} \cup DOMAIN rows)
  BY FS_AddElement DEF IsRows
<1>5. IsRows(w)
  BY <1>3, <1>4 DEF IsRows
<1> QED
  BY <1>5 DEF w

LEMMA NextWalkInv == WalkInv /\ [Next]_vars => WalkInv'
<1> SUFFICES ASSUME WalkInv, [Next]_vars PROVE WalkInv'
  OBVIOUS
<1>0. clock \in Nat /\ IsRows(intraday) /\ IsRows(daily) /\ position.direction \in Directions
  BY DEF WalkInv, Typed
<1>1. ASSUME clock' \in Nat, IsRows(intraday'), IsRows(daily'), UNCHANGED <<position, walked, deaths>>
      PROVE  WalkInv'
  <2>1. Typed'
    BY <1>1 DEF WalkInv, Typed, IsOpen
  <2>2. Passed'
    BY <1>1 DEF WalkInv, Passed, IsOpen
  <2>3. Decided'
    BY <1>1 DEF WalkInv, Decided, IsOpen, Dir, TrailOf
  <2>4. Sampled'
    BY <1>1 DEF WalkInv, Sampled, Dir, TrailOf
  <2> QED
    BY <2>1, <2>2, <2>3, <2>4 DEF WalkInv
<1>2. CASE Tick
  BY <1>0, <1>1, <1>2 DEF Tick
<1>3. CASE StoreIntraday
  <2>1. PICK u \in 0 .. clock - 1, shape \in Shapes[position.direction].intraday :
          intraday' = With(intraday, u, shape)
    BY <1>3 DEF StoreIntraday
  <2>2. u \in Nat /\ shape \in ShapeType
    BY <1>0, WalkAssumption
  <2>3. IsRows(intraday')
    BY <1>0, <2>1, <2>2, WithRows
  <2> QED
    BY <1>0, <1>1, <1>3, <2>3 DEF StoreIntraday
<1>4. CASE StoreDaily
  <2>1. PICK day \in 0 .. DayOf(clock) - 1, shape \in Shapes[position.direction].daily :
          daily' = With(daily, day, shape)
    BY <1>4 DEF StoreDaily
  <2>2. DayOf(clock) \in Nat
    BY <1>0, DayIs
  <2>3. day \in Nat /\ shape \in ShapeType
    BY <1>0, <2>2, WalkAssumption
  <2>4. IsRows(daily')
    BY <1>0, <2>1, <2>3, WithRows
  <2> QED
    BY <1>0, <1>1, <1>4, <2>4 DEF StoreDaily
<1>5. CASE SetKnobs \/ ClearKnobs
  BY <1>0, <1>1, <1>5 DEF SetKnobs, ClearKnobs
<1>6. ASSUME NEW asOf, PriceExit(asOf) \/ TimeExit(asOf) \/ MoveOn(asOf) \/ DieAfterExcursion(asOf) \/ Flip(asOf)
      PROVE  WalkInv'
  BY <1>6, PriceExitKeeps, TimeExitKeeps, MoveOnKeeps, DieKeeps, FlipKeeps
<1>7. CASE UNCHANGED vars
  BY <1>0, <1>1, <1>7 DEF vars
<1> QED
  BY <1>2, <1>3, <1>4, <1>5, <1>6, <1>7 DEF Next

LEMMA LeastIsMin ==
  ASSUME NEW S, NEW m \in Int, S \subseteq Int
  PROVE  (LeastOf(m, S) => m = Min(S)) /\ (GreatestOf(m, S) => m = Max(S))
<1>1. ASSUME LeastOf(m, S) PROVE m = Min(S)
  <2>1. m \in S /\ \A y \in S : m <= y
    BY <1>1 DEF LeastOf
  <2>2. Min(S) \in S /\ \A y \in S : Min(S) <= y
    BY <2>1 DEF Min
  <2>3. m <= Min(S) /\ Min(S) <= m /\ Min(S) \in Int
    BY <2>1, <2>2
  <2> QED
    BY <2>3
<1>2. ASSUME GreatestOf(m, S) PROVE m = Max(S)
  <2>1. m \in S /\ \A y \in S : m >= y
    BY <1>2 DEF GreatestOf
  <2>2. Max(S) \in S /\ \A y \in S : Max(S) >= y
    BY <2>1 DEF Max
  <2>3. m <= Max(S) /\ Max(S) <= m /\ Max(S) \in Int
    BY <2>1, <2>2
  <2> QED
    BY <2>3
<1> QED
  BY <1>1, <1>2

\* What OneWalk calls by its own names is what the lemmas say of any sequence of bars.
LEMMA Bridge ==
  ASSUME NEW i
  PROVE  /\ ValidThrough(i) = ValidIn(walked, i)
         /\ BestThrough(i) = BestIn(Dir, walked, i)
         /\ ExitAt(i) = ExitIn(Dir, TrailOf(position), walked, i)
<1>1. \A k : ValidThrough(k) = ValidIn(walked, k)
  BY DEF ValidThrough, ValidIn
<1>2. \A k : BestThrough(k) = BestIn(Dir, walked, k)
  BY <1>1 DEF BestThrough, BestIn, GainsIn, GainOf
<1>3. RuleAt(i) = RuleIn(Dir, TrailOf(position), walked, i)
  BY <1>2 DEF RuleAt, RuleIn
<1>4. ExitAt(i) = ExitIn(Dir, TrailOf(position), walked, i)
  BY <1>3 DEF ExitAt, ExitIn
<1> QED
  BY <1>1, <1>2, <1>4

LEMMA HitsAre == Hits = HitsIn(Dir, TrailOf(position), walked)
<1>1. ValidThrough(Len(walked)) = ValidIn(walked, Len(walked))
  BY Bridge
<1>2. \A i : ExitAt(i) = ExitIn(Dir, TrailOf(position), walked, i)
  BY Bridge
<1> QED
  BY <1>1, <1>2 DEF Hits, HitsIn

LEMMA ExcursionsAre ==
  ASSUME HitsMatch(Dir, TrailOf(position), walked, ExitOf(position))
  PROVE  \A i : ExcursionOf(i) = ExcursionIn(Dir, TrailOf(position), walked, ExitOf(position), i)
<1> TAKE i
<1> DEFINE hits == HitsIn(Dir, TrailOf(position), walked)
           exit == ExitOf(position)
<1>1. Hits = hits
  BY HitsAre
<1>2. NoExit.reason = "none"
  BY DEF NoExit
<1>3. ASSUME i \in hits PROVE position.reason \in PriceReasons
  <2>1. hits # {}
    BY <1>3
  <2>2. exit # NoExit
    BY <2>1 DEF HitsMatch
  <2> QED
    BY <2>2 DEF ExitOf
<1> HIDE DEF hits
<1>4. CASE i \in hits
  <2>1. exit.reason = position.reason /\ exit.price = position.price /\ position.reason \in PriceReasons
    BY <1>3, <1>4 DEF ExitOf
  <2> HIDE DEF exit
  <2>2. ExcursionIn(Dir, TrailOf(position), walked, exit, i) = BarExcursion(Dir, walked[i], exit)
    BY <1>4 DEF ExcursionIn, hits
  <2>3. position.reason # "none"
    BY <2>1 DEF PriceReasons
  <2>4. CASE position.reason = "take_profit"
    BY <1>1, <1>4, <2>1, <2>2, <2>4 DEF ExcursionOf, BarExcursion, exit
  <2>5. CASE position.reason # "take_profit"
    BY <1>1, <1>4, <2>1, <2>2, <2>3, <2>5 DEF ExcursionOf, BarExcursion, exit
  <2> QED
    BY <2>4, <2>5
<1>5. CASE i \notin hits
  <2>1. ExcursionIn(Dir, TrailOf(position), walked, exit, i) = BarExcursion(Dir, walked[i], NoExit)
    BY <1>5 DEF ExcursionIn, hits
  <2> QED
    BY <1>1, <1>2, <1>5, <2>1 DEF ExcursionOf, BarExcursion
<1> QED
  BY <1>4, <1>5

LEMMA ExcursionsTyped ==
  ASSUME NEW dir, NEW trail, IsTrail(trail), NEW s \in Seq(Bar), NEW exit, HitsMatch(dir, trail, s, exit)
  PROVE  AdverseIn(dir, trail, s, exit) \subseteq Int /\ FavorableIn(dir, trail, s, exit) \subseteq Int
<1>1. \A i \in ValidIn(s, Len(s)) : s[i] \in Bar
  BY ElementOfSeq DEF ValidIn
<1>2. exit = NoExit \/ exit.price \in Int
  <2>1. SUFFICES ASSUME exit # NoExit PROVE exit.price \in Int
    OBVIOUS
  <2>2. HitsIn(dir, trail, s) = {Len(s)} /\ ExitIn(dir, trail, s, Len(s)) = exit
    BY <2>1 DEF HitsMatch
  <2>3. Len(s) \in 1 .. Len(s) /\ Len(s) \in Nat
    BY <2>2, LenProperties DEF HitsIn, ValidIn
  <2>4. Len(s) - 1 \in 0 .. Len(s) /\ s[Len(s)] \in Bar
    BY <2>3, ElementOfSeq
  <2>5. BestIn(dir, s, Len(s) - 1) \in Int
    BY <2>4, BestIsPrice
  <2>6. exit = NoExit \/ exit.price \in Int
    BY <2>2, <2>4, <2>5, ExitIs DEF ExitIn, RuleIn
  <2> QED
    BY <2>1, <2>6
<1>3. NoExit.price \in Int
  BY DEF NoExit
<1>4. \A i \in ValidIn(s, Len(s)) : /\ ExcursionIn(dir, trail, s, exit, i).mae \in Int
                                    /\ ExcursionIn(dir, trail, s, exit, i).mfe \in Int
  BY <1>1, <1>2, ExcursionIs DEF ExcursionIn
<1> QED
  BY <1>4 DEF AdverseIn, FavorableIn

LEMMA InvOneWalk == WalkInv => OneWalk
<1> SUFFICES ASSUME WalkInv PROVE OneWalk
  OBVIOUS
<1> DEFINE trail == TrailOf(position)
           exit == ExitOf(position)
<1>1. walked \in Seq(Bar) /\ DOMAIN walked = 1 .. Len(walked)
  BY LenProperties DEF WalkInv, Typed
<1>2. HitsMatch(Dir, trail, walked, exit) /\ IsTrail(trail)
  BY TrailIs DEF WalkInv, Decided, Typed, TrailOf
<1>3. \A i, j \in DOMAIN walked : i < j => walked[i].end <= walked[j].open
  BY <1>1 DEF WalkInv, Passed, ApartIn
<1>4. IF position.reason \in PriceReasons
      THEN /\ Hits = {Len(walked)}
           /\ ExitAt(Len(walked)) =
                [reason |-> position.reason, price |-> position.price, at |-> position.closedAt]
      ELSE Hits = {}
  <2>1. CASE position.reason \in PriceReasons
    <3>1. exit = [reason |-> position.reason, price |-> position.price, at |-> position.closedAt]
      BY <2>1 DEF ExitOf
    <3>2. exit # NoExit
      BY <2>1, <3>1 DEF NoExit, PriceReasons
    <3>3. HitsIn(Dir, trail, walked) = {Len(walked)} /\ ExitIn(Dir, trail, walked, Len(walked)) = exit
      <4> HIDE DEF exit
      <4> QED
        BY <1>2, <3>2 DEF HitsMatch
    <3>4. ExitAt(Len(walked)) = exit
      BY <3>3, Bridge
    <3> QED
      BY <2>1, <3>1, <3>3, <3>4, HitsAre
  <2>2. CASE position.reason \notin PriceReasons
    <3>1. exit = NoExit
      BY <2>2 DEF ExitOf
    <3> QED
      BY <1>2, <2>2, <3>1, HitsAre DEF HitsMatch
  <2> QED
    BY <2>1, <2>2
<1>5. IsOpen /\ trail.on /\ ValidThrough(Len(walked)) # {} => position.peak = BestThrough(Len(walked))
  <2>1. ValidThrough(Len(walked)) = ValidIn(walked, Len(walked))
        /\ BestThrough(Len(walked)) = BestIn(Dir, walked, Len(walked))
    BY Bridge
  <2>2. IsOpen => PeakOK(Dir, trail, walked, position.peak)
    BY DEF WalkInv, Decided
  <2> QED
    BY <2>1, <2>2 DEF PeakOK
<1>6. ASSUME deaths = 0, position.reason # "flipped"
      PROVE  /\ position.mae = Min({0} \cup {e.mae : e \in SampledExcursions})
             /\ position.mfe = Max({0} \cup {e.mfe : e \in SampledExcursions})
  <2>1. /\ position.mae \in Int /\ position.mfe \in Int
        /\ LeastOf(position.mae, AdverseIn(Dir, trail, walked, exit))
        /\ GreatestOf(position.mfe, FavorableIn(Dir, trail, walked, exit))
    BY <1>6 DEF WalkInv, Sampled
  <2>2. /\ AdverseIn(Dir, trail, walked, exit) \subseteq Int
        /\ FavorableIn(Dir, trail, walked, exit) \subseteq Int
    <3> HIDE DEF trail, exit
    <3> QED
      BY <1>1, <1>2, ExcursionsTyped
  <2>3. \A i : ExcursionOf(i) = ExcursionIn(Dir, trail, walked, exit, i)
    BY <1>2, ExcursionsAre
  <2>4. ValidThrough(Len(walked)) = ValidIn(walked, Len(walked))
    BY Bridge
  <2> HIDE DEF trail, exit
  <2>5. SampledExcursions = {ExcursionIn(Dir, trail, walked, exit, i) : i \in ValidIn(walked, Len(walked))}
    BY <2>3, <2>4 DEF SampledExcursions
  <2>6. /\ {0} \cup {e.mae : e \in SampledExcursions} = AdverseIn(Dir, trail, walked, exit)
        /\ {0} \cup {e.mfe : e \in SampledExcursions} = FavorableIn(Dir, trail, walked, exit)
    BY <2>5 DEF AdverseIn, FavorableIn
  <2>7. /\ position.mae = Min(AdverseIn(Dir, trail, walked, exit))
        /\ position.mfe = Max(FavorableIn(Dir, trail, walked, exit))
    BY <2>1, <2>2, LeastIsMin
  <2> QED
    BY <2>6, <2>7
<1> QED
  BY <1>3, <1>4, <1>5, <1>6 DEF OneWalk

\* However the bars were cut into windows, whichever checks died and whatever was stored or set
\* in between, the position is what one uninterrupted walk over its bars makes of it
\* (graph/exit_check.js, agents/risk_mgmt/exit_bars.js).
THEOREM OneWalkHolds == Spec => []OneWalk
<1>1. Spec => []WalkInv
  BY InitWalkInv, NextWalkInv, PTL DEF Spec
<1> QED
  BY <1>1, InvOneWalk, PTL

-----------------------------------------------------------------------------
(* The end of the hold.                                                     *)

HoldDaysIn(from, to) == {day \in DayOf(from) + 1 .. DayOf(to) : day \notin Weekend}

LEMMA HoldDaysAre ==
  ASSUME NEW from \in Nat, NEW to \in Nat
  PROVE  /\ TradingDaysBetween(from, to) = Cardinality(HoldDaysIn(from, to))
         /\ IsFiniteSet(HoldDaysIn(from, to)) /\ TradingDaysBetween(from, to) \in Nat
<1> DEFINE H == HoldDaysIn(from, to)
<1>1. TradingDaysBetween(from, to) = Cardinality(H)
  BY DEF TradingDaysBetween, CountsAsHoldDay, HoldDaysIn
<1>2. DayOf(from) \in Nat /\ DayOf(to) \in Nat
  BY DayIs
<1>3. IsFiniteSet(DayOf(from) + 1 .. DayOf(to)) /\ H \subseteq DayOf(from) + 1 .. DayOf(to)
  <2>1. DayOf(from) + 1 \in Int /\ DayOf(to) \in Int
    BY <1>2
  <2>2. IsFiniteSet(DayOf(from) + 1 .. DayOf(to))
    BY <2>1, FS_Interval
  <2>3. H \subseteq DayOf(from) + 1 .. DayOf(to)
    BY DEF HoldDaysIn
  <2> QED
    BY <2>2, <2>3
<1> HIDE DEF H
<1>4. IsFiniteSet(H)
  BY <1>3, FS_Subset
<1>5. Cardinality(H) \in Nat
  BY <1>4, FS_CardinalityType
<1> QED
  BY <1>1, <1>4, <1>5 DEF H

LEMMA HoldGrows ==
  ASSUME NEW from \in Nat, NEW s \in Nat, NEW t \in Nat, s <= t
  PROVE  TradingDaysBetween(from, s) <= TradingDaysBetween(from, t)
<1>1. /\ TradingDaysBetween(from, s) = Cardinality(HoldDaysIn(from, s))
      /\ TradingDaysBetween(from, t) = Cardinality(HoldDaysIn(from, t))
      /\ IsFiniteSet(HoldDaysIn(from, t))
  BY HoldDaysAre
<1>2. DayOf(from) \in Nat /\ DayOf(s) \in Nat /\ DayOf(t) \in Nat
  BY DayIs
<1>3. DayOf(s) <= DayOf(t)
  <2>1. DayOf(s) * DayLen <= s /\ DayOf(s) * DayLen \in Nat
    BY <1>2, DayIs, DayStart
  <2>2. DayOf(s) * DayLen <= t
    BY <2>1
  <2> QED
    BY <1>2, <2>2, DayIs
<1>4. HoldDaysIn(from, s) \subseteq HoldDaysIn(from, t)
  BY <1>2, <1>3 DEF HoldDaysIn
<1> QED
  BY <1>1, <1>4, FS_Subset

\* The hold is over some day: the days of the weekend are finitely many.
LEMMA DueIs ==
  ASSUME NEW from \in Nat
  PROVE  TimeExitDueAt(from) \in Nat /\ TradingDaysBetween(from, TimeExitDueAt(from)) >= HoldDays
<1> DEFINE d == DayOf(from)
           w == Cardinality(Weekend)
           h == HoldDays + w
           midnights == {day * DayLen : day \in d + 1 .. d + h}
           over == {t \in midnights : TradingDaysBetween(from, t) >= HoldDays}
           last == (d + h) * DayLen
<1>1. TimeExitDueAt(from) = Min(over)
  BY DEF TimeExitDueAt
<1>2. d \in Nat /\ w \in Nat /\ HoldDays \in Nat \ {0} /\ IsFiniteSet(Weekend) /\ DayLen \in Nat \ {0}
  BY DayIs, ExitAssumption, FS_CardinalityType
<1> HIDE DEF d, w
<1>3. h \in Nat \ {0} /\ d + h \in Nat /\ d + h \in d + 1 .. d + h
  BY <1>2
<1>4. over \subseteq Nat
  <2>1. \A day \in d + 1 .. d + h : day * DayLen \in Nat
    BY <1>2, <1>3, DayStart
  <2> QED
    BY <2>1
<1>5. last \in Nat /\ DayOf(last) = d + h
  <2> DEFINE q == d + h
  <2>1. q \in Nat /\ 0 \in 0 .. DayLen - 1 /\ q * DayLen \in Nat
    BY <1>2, <1>3, DayStart
  <2> HIDE DEF q
  <2>2. (q * DayLen + 0) \div DayLen = q
    BY <1>2, <2>1, DivUnique
  <2>3. q * DayLen + 0 = q * DayLen
    BY <2>1
  <2>4. DayOf(q * DayLen) = q
    BY <2>2, <2>3 DEF DayOf
  <2> QED
    BY <2>1, <2>4 DEF q
<1>6. TradingDaysBetween(from, last) >= HoldDays
  <2> DEFINE days == d + 1 .. d + h
  <2>1. IsFiniteSet(days) /\ Cardinality(days) = h
    <3>1. Cardinality(d + 1 .. d + h) = (d + h) - (d + 1) + 1 /\ IsFiniteSet(d + 1 .. d + h)
      BY <1>2, <1>3, FS_Interval
    <3> QED
      BY <1>2, <1>3, <3>1
  <2>2. HoldDaysIn(from, last) = days \ Weekend
    <3> HIDE DEF last, h
    <3> QED
      BY <1>5 DEF HoldDaysIn, d
  <2> HIDE DEF days, h
  <2>3. Cardinality(days \ Weekend) = Cardinality(days) - Cardinality(days \cap Weekend)
    BY <1>2, <2>1, FS_Difference
  <2>4. /\ Cardinality(days \cap Weekend) <= w /\ Cardinality(days \cap Weekend) \in Nat
    <3>1. days \cap Weekend \subseteq Weekend
      OBVIOUS
    <3>2. IsFiniteSet(days \cap Weekend) /\ Cardinality(days \cap Weekend) <= Cardinality(Weekend)
      BY <1>2, <3>1, FS_Subset
    <3> QED
      BY <3>2, FS_CardinalityType DEF w
  <2>5. Cardinality(days \ Weekend) >= HoldDays
    BY <1>2, <2>1, <2>3, <2>4 DEF h
  <2> QED
    BY <1>5, <2>2, <2>5, HoldDaysAre
<1>7. last \in over
  BY <1>3, <1>6
<1> HIDE DEF over, last
<1>8. Min(over) \in over
  BY <1>4, <1>7, LeastNatural
<1>9. \A t \in over : TradingDaysBetween(from, t) >= HoldDays
  BY DEF over
<1> QED
  BY <1>1, <1>4, <1>8, <1>9

LEMMA InvOverdueCloses == WalkInv => OverdueCloses
<1> SUFFICES ASSUME WalkInv, IsOpen, clock - TimeExitDueAt(position.openedAt) > Expiry
             PROVE  ~LetsLive(WalkOf(clock), clock)
  BY DEF OverdueCloses
<1> DEFINE due == TimeExitDueAt(position.openedAt)
           walk == WalkOf(clock)
<1>1. clock \in Nat /\ position.openedAt \in Nat /\ Expiry \in Nat
  BY ExitAssumption DEF WalkInv, Typed
<1>2. due \in Nat /\ TradingDaysBetween(position.openedAt, due) >= HoldDays
  BY <1>1, DueIs
<1>3. clock - due > Expiry
  OBVIOUS
<1> HIDE DEF due, walk
<1>4. due <= clock /\ ~(clock - due <= Expiry)
  BY <1>1, <1>2, <1>3
<1>5. TimeDue(clock)
  <2>1. TradingDaysBetween(position.openedAt, due) <= TradingDaysBetween(position.openedAt, clock)
    BY <1>1, <1>2, <1>4, HoldGrows
  <2>2. /\ TradingDaysBetween(position.openedAt, due) \in Nat
        /\ TradingDaysBetween(position.openedAt, clock) \in Nat /\ HoldDays \in Nat
    BY <1>1, <1>2, HoldDaysAre, ExitAssumption
  <2> QED
    BY <1>2, <2>1, <2>2 DEF TimeDue
<1>6. FillsWhenDue(walk, clock) # {}
  <2>1. CASE walk.split
    BY <1>5, <2>1 DEF FillsWhenDue
  <2>2. CASE ~walk.split
    <3>1. FillsWhenDue(walk, clock) = TimeExitFill(intraday, daily, due, clock)
      BY <1>5, <2>2 DEF FillsWhenDue, due
    <3>2. TimeExitFill(intraday, daily, due, clock) # {}
      BY <1>4 DEF TimeExitFill
    <3> QED
      BY <3>1, <3>2
  <2> QED
    BY <2>1, <2>2
<1> QED
  BY <1>6 DEF LetsLive, walk

\* Without a bar to fill at, a hold that is over ends when the wait for one is over
\* (graph/exit_check.js resolveTimeExitFill).
THEOREM OverdueClosesHolds == Spec => []OverdueCloses
<1>1. Spec => []WalkInv
  BY InitWalkInv, NextWalkInv, PTL DEF Spec
<1> QED
  BY <1>1, InvOverdueCloses, PTL

-----------------------------------------------------------------------------
(* No bar is passed over.                                                   *)

\* The cap keeps the oldest rows.
LEMMA CapKeepsOldest ==
  ASSUME NEW rows, IsFiniteSet(rows), rows \subseteq Nat, NEW u \in rows
  PROVE  /\ \A v \in OldestRows(rows) : u <= v => u \in OldestRows(rows)
         /\ Cardinality(rows) <= RowCap => u \in OldestRows(rows)
<1> DEFINE before(x) == {v \in rows : v < x}
<1>1. RowCap \in Nat
  BY ExitAssumption
<1>2. \A x : IsFiniteSet(before(x)) /\ Cardinality(before(x)) \in Nat
  <2> TAKE x
  <2>1. before(x) \subseteq rows
    OBVIOUS
  <2> HIDE DEF before
  <2> QED
    BY <2>1, FS_Subset, FS_CardinalityType
<1>3. ASSUME NEW v \in OldestRows(rows), u <= v PROVE u \in OldestRows(rows)
  <2>1. v \in rows /\ Cardinality(before(v)) < RowCap
    BY <1>3 DEF OldestRows
  <2>2. before(u) \subseteq before(v)
    <3>1. u \in Nat /\ v \in Nat /\ \A w \in rows : w \in Nat
      BY <2>1
    <3>2. \A w \in rows : w < u => w < v
      BY <1>3, <3>1
    <3> QED
      BY <3>2
  <2>3. Cardinality(before(u)) <= Cardinality(before(v))
    <3> HIDE DEF before
    <3> QED
      BY <1>2, <2>2, FS_Subset
  <2>4. Cardinality(before(u)) < RowCap
    <3> HIDE DEF before
    <3> QED
      BY <1>1, <1>2, <2>1, <2>3
  <2> QED
    BY <2>4 DEF OldestRows
<1>4. ASSUME Cardinality(rows) <= RowCap PROVE u \in OldestRows(rows)
  <2>1. before(u) \subseteq rows \ {u}
    OBVIOUS
  <2>2. IsFiniteSet(rows \ {u}) /\ Cardinality(rows \ {u}) = Cardinality(rows) - 1 /\ Cardinality(rows) \in Nat
    BY FS_RemoveElement, FS_CardinalityType
  <2>3. Cardinality(before(u)) <= Cardinality(rows \ {u})
    <3> HIDE DEF before
    <3> QED
      BY <2>1, <2>2, FS_Subset
  <2>4. Cardinality(before(u)) < RowCap
    <3> HIDE DEF before
    <3> QED
      BY <1>1, <1>2, <1>4, <2>2, <2>3
  <2> QED
    BY <2>4 DEF OldestRows
<1> QED
  BY <1>3, <1>4

\* Does the cap leave the window whole, as far as this instant?
WholeUntil(anchor, asOf, time) ==
  \/ Cardinality(IntradayRows(intraday, anchor, asOf)) <= RowCap
  \/ \E v \in KeptRows(intraday, anchor, asOf) : time <= v + 1

\* As far as the window is whole it has every bar.
LEMMA WholeWindow ==
  ASSUME IsRows(intraday), IsRows(daily), NEW anchor \in Nat, NEW asOf \in Nat,
         NEW time \in Nat, time <= asOf, WholeUntil(anchor, asOf, time)
  PROVE  /\ \A u \in DOMAIN intraday : anchor <= u /\ u + 1 <= time =>
              IntradayBar(u, intraday[u]) \in WindowBars(intraday, daily, anchor, asOf)
         /\ \A day \in DOMAIN daily :
              /\ anchor <= day * DayLen /\ (day + 1) * DayLen <= time
              /\ \A u \in DOMAIN intraday : DayOf(u) # day
              => DailyBar(day, daily[day]) \in WindowBars(intraday, daily, anchor, asOf)
<1> DEFINE rows == IntradayRows(intraday, anchor, asOf)
           kept == KeptRows(intraday, anchor, asOf)
           days == KeptDays(intraday, daily, anchor, asOf)
<1>1. WindowBars(intraday, daily, anchor, asOf) =
        {IntradayBar(u, intraday[u]) : u \in kept} \cup {DailyBar(d, daily[d]) : d \in days}
      /\ kept \subseteq DOMAIN intraday
  BY WindowIs
<1>2. rows \subseteq DOMAIN intraday /\ kept = OldestRows(rows) /\ DOMAIN intraday \subseteq Nat
  BY DEF IntradayRows, KeptRows, IsRows
<1>3. IsFiniteSet(rows) /\ rows \subseteq Nat
  BY <1>2, FS_Subset DEF IsRows
<1>4. Cardinality(rows) \in Nat /\ RowCap \in Nat
  BY <1>3, FS_CardinalityType, ExitAssumption
<1>5. Cardinality(rows) <= RowCap \/ \E v \in kept : time <= v + 1
  BY DEF WholeUntil
<1>6. ASSUME NEW u \in DOMAIN intraday, anchor <= u, u + 1 <= time PROVE u \in kept
  <2>1. u \in Nat /\ u + 1 <= asOf
    BY <1>2, <1>6
  <2>2. u \in rows
    BY <1>6, <2>1 DEF IntradayRows
  <2>3. CASE Cardinality(rows) <= RowCap
    <3> HIDE DEF rows, kept
    <3> QED
      BY <1>2, <1>3, <2>2, <2>3, CapKeepsOldest
  <2>4. CASE \E v \in kept : time <= v + 1
    <3>1. PICK v \in kept : time <= v + 1
      BY <2>4
    <3>2. v \in Nat
      BY <1>1, <1>2
    <3>3. u <= v
      BY <1>6, <2>1, <3>1, <3>2
    <3> HIDE DEF rows, kept
    <3> QED
      BY <1>2, <1>3, <2>2, <3>1, <3>3, CapKeepsOldest
  <2> QED
    BY <1>5, <2>3, <2>4
<1>7. ASSUME NEW day \in DOMAIN daily, anchor <= day * DayLen, (day + 1) * DayLen <= time,
             \A u \in DOMAIN intraday : DayOf(u) # day
      PROVE  day \in days
  <2>1. day \in Nat /\ day + 1 \in Nat
    BY DEF IsRows
  <2>2. /\ day * DayLen \in Nat /\ (day + 1) * DayLen = day * DayLen + DayLen /\ DayLen \in Nat \ {0}
    BY <2>1, DayStart
  <2>3. FirstFullDay(anchor) <= day
    BY <1>7, <2>1, FirstFullDayIs
  <2>4. (day + 1) * DayLen <= asOf
    BY <1>7, <2>2
  <2>5. day + 1 <= DayOf(asOf) /\ DayOf(asOf) \in Nat
    BY <2>1, <2>4, DayIs
  <2>6. day \in DailyRows(daily, anchor, asOf)
    BY <2>1, <2>3, <2>5 DEF DailyRows
  <2>7. \A u \in kept : DayOf(u) # day
    BY <1>1, <1>7
  <2>8. ASSUME Cardinality(rows) > RowCap PROVE \E u \in kept : day <= DayOf(u)
    <3>1. ~(Cardinality(rows) <= RowCap)
      <4> HIDE DEF rows
      <4> QED
        BY <1>4, <2>8
    <3>2. PICK v \in kept : time <= v + 1
      BY <1>5, <3>1
    <3>3. v \in Nat
      BY <1>1, <1>2
    <3>4. day * DayLen <= v
      BY <1>7, <2>2, <3>2, <3>3
    <3>5. day <= DayOf(v)
      BY <2>1, <3>3, <3>4, DayIs
    <3> QED
      BY <3>2, <3>5
  <2> QED
    BY <2>6, <2>7, <2>8 DEF KeptDays
<1> HIDE DEF kept, days
<1> QED
  BY <1>1, <1>6, <1>7

\* The window of a walk that ends with this bar is whole as far as the bar's end.
LEMMA WholeUntilLast ==
  ASSUME IsRows(intraday), IsRows(daily), NEW anchor \in Nat, NEW asOf \in Nat,
         NEW b \in WindowBars(intraday, daily, anchor, asOf)
  PROVE  b.end \in Nat /\ b.end <= asOf /\ WholeUntil(anchor, asOf, b.end)
<1> DEFINE rows == IntradayRows(intraday, anchor, asOf)
           kept == KeptRows(intraday, anchor, asOf)
           days == KeptDays(intraday, daily, anchor, asOf)
<1>1. /\ WindowBars(intraday, daily, anchor, asOf) =
           {IntradayBar(u, intraday[u]) : u \in kept} \cup {DailyBar(d, daily[d]) : d \in days}
      /\ kept \subseteq DOMAIN intraday /\ days \subseteq DOMAIN daily
      /\ \A d \in days : \A u \in kept : DayOf(u) # d
  BY WindowIs
<1>2. b \in Bar /\ b.end <= asOf
  BY WindowTypes
<1>3. b.end \in Nat
  BY <1>2 DEF Bar
<1>4. CASE \E u \in kept : b = IntradayBar(u, intraday[u])
  <2>1. PICK u \in kept : b = IntradayBar(u, intraday[u])
    BY <1>4
  <2>2. b.end = u + 1
    BY <2>1 DEF IntradayBar
  <2>3. b.end <= u + 1
    BY <1>3, <2>2
  <2> QED
    BY <1>2, <1>3, <2>1, <2>3 DEF WholeUntil
<1>5. CASE \E d \in days : b = DailyBar(d, daily[d])
  <2>1. PICK d \in days : b = DailyBar(d, daily[d])
    BY <1>5
  <2>2. d \in Nat /\ d + 1 \in Nat /\ b.end = (d + 1) * DayLen
    BY <1>1, <2>1 DEF DailyBar, IsRows
  <2>3. CASE Cardinality(rows) <= RowCap
    BY <1>2, <1>3, <2>3 DEF WholeUntil
  <2>4. CASE ~(Cardinality(rows) <= RowCap)
    <3>1. Cardinality(rows) \in Nat /\ RowCap \in Nat
      <4>1. rows \subseteq DOMAIN intraday
        BY DEF IntradayRows
      <4> HIDE DEF rows
      <4>2. IsFiniteSet(rows)
        BY <4>1, FS_Subset DEF IsRows
      <4> QED
        BY <4>2, FS_CardinalityType, ExitAssumption
    <3>2. Cardinality(rows) > RowCap
      <4> HIDE DEF rows
      <4> QED
        BY <2>4, <3>1
    <3>3. PICK u \in kept : d <= DayOf(u)
      BY <3>2 DEF KeptDays
    <3>4. u \in Nat /\ DayOf(u) # d
      BY <1>1, <2>1 DEF IsRows
    <3>5. DayOf(u) \in Nat
      BY <3>4, DayIs
    <3>6. d + 1 <= DayOf(u)
      BY <2>2, <3>3, <3>4, <3>5
    <3>7. (d + 1) * DayLen <= u
      BY <2>2, <3>4, <3>6, DayIs
    <3>8. b.end <= u + 1
      BY <1>3, <2>2, <3>4, <3>7
    <3> QED
      BY <1>2, <1>3, <3>3, <3>8 DEF WholeUntil
  <2> QED
    BY <2>3, <2>4
<1> QED
  BY <1>1, <1>4, <1>5

LEMMA WalkEndIs ==
  ASSUME WalkInv, NEW asOf \in 0 .. clock
  PROVE  /\ asOf \in Nat /\ WalkEnd(asOf) \in Nat
         /\ TimeDue(asOf) => TimeDue(clock) /\ WalkOf(asOf) = WalkOf(clock)
<1>1. clock \in Nat /\ position.openedAt \in Nat
  BY DEF WalkInv, Typed
<1>2. asOf \in Nat /\ asOf <= clock
  BY <1>1
<1>3. TimeExitDueAt(position.openedAt) \in Nat
  BY <1>1, DueIs
<1>4. WalkEnd(asOf) \in Nat
  BY <1>2, <1>3 DEF WalkEnd
<1>5. ASSUME TimeDue(asOf) PROVE TimeDue(clock) /\ WalkOf(asOf) = WalkOf(clock)
  <2>1. TradingDaysBetween(position.openedAt, asOf) <= TradingDaysBetween(position.openedAt, clock)
    BY <1>1, <1>2, HoldGrows
  <2>2. /\ TradingDaysBetween(position.openedAt, asOf) \in Nat
        /\ TradingDaysBetween(position.openedAt, clock) \in Nat /\ HoldDays \in Nat
    BY <1>1, <1>2, HoldDaysAre, ExitAssumption
  <2>3. TimeDue(clock)
    BY <1>5, <2>1, <2>2 DEF TimeDue
  <2>4. WalkEnd(asOf) = WalkEnd(clock)
    BY <1>5, <2>3 DEF WalkEnd
  <2>5. Window(asOf) = Window(clock)
    BY <2>4 DEF Window
  <2> QED
    BY <2>3, <2>5 DEF WalkOf
<1> QED
  BY <1>2, <1>4, <1>5

\* A check that walked all bars of its window that end by some time judged all bars up to it.
LEMMA JudgedUntil ==
  ASSUME WalkInv, IsOpen, NEW asOf, WalkEnd(asOf) \in Nat, walked' = walked \o WalkOf(asOf).bars,
         NEW time \in Nat, time <= WalkEnd(asOf), WholeUntil(position.cursor, WalkEnd(asOf), time),
         \A i \in 1 .. Len(Window(asOf)) :
           Window(asOf)[i].end <= time => i <= Len(WalkOf(asOf).bars)
  PROVE  /\ \A u \in DOMAIN intraday : position.cursor <= u /\ u + 1 <= time => Judged("intraday", u)
         /\ \A day \in DOMAIN daily :
              position.cursor <= day * DayLen /\ (day + 1) * DayLen <= time =>
                \/ Judged("daily", day * DayLen)
                \/ \E u \in DOMAIN intraday : DayOf(u) = day
<1> DEFINE walk == WalkOf(asOf)
           window == Window(asOf)
           bars == WindowBars(intraday, daily, position.cursor, WalkEnd(asOf))
           all == walked \o walk.bars
<1>1. /\ position.cursor \in Nat /\ IsRows(intraday) /\ IsRows(daily) /\ walked \in Seq(Bar)
  BY DEF WalkInv, Typed
<1>2. /\ \A u \in DOMAIN intraday : position.cursor <= u /\ u + 1 <= time => IntradayBar(u, intraday[u]) \in bars
      /\ \A day \in DOMAIN daily :
              /\ position.cursor <= day * DayLen /\ (day + 1) * DayLen <= time
              /\ \A u \in DOMAIN intraday : DayOf(u) # day
              => DailyBar(day, daily[day]) \in bars
  BY <1>1, WholeWindow
<1>3. /\ window \in Seq(Bar) /\ \A b \in bars : \E i \in 1 .. Len(window) : window[i] = b
  BY WindowOfCheck
<1>4. /\ WalkOK(Dir, TrailOf(position), walked, window, walk, Len(window))
      /\ walk.bars \in Seq(Bar) /\ all \in Seq(Bar)
  BY WalkOfCheck
<1>5. \A i \in 1 .. Len(window) : window[i].end <= time => i <= Len(walk.bars)
  OBVIOUS
<1>6. \A k \in 1 .. Len(walk.bars) : walk.bars[k] = window[k]
  <2> HIDE DEF walk, window
  <2> QED
    BY <1>4 DEF WalkOK
<1>7. walked' = all
  OBVIOUS
<1> HIDE DEF walk, window, bars
<1>8. ASSUME NEW b \in bars, b.end <= time PROVE b \in ToSet(walked')
  <2>1. PICK i \in 1 .. Len(window) : window[i] = b
    BY <1>3
  <2>2. i \in 1 .. Len(walk.bars) /\ walk.bars[i] = b
    <3>1. i <= Len(walk.bars) /\ i \in 1 .. Len(walk.bars)
      BY <1>3, <1>4, <1>5, <1>8, <2>1, LenProperties
    <3> QED
      BY <1>6, <2>1, <3>1
  <2> DEFINE k == Len(walked) + i
  <2>3. /\ k \in 1 .. Len(walked) + Len(walk.bars) /\ ~(k <= Len(walked)) /\ k - Len(walked) = i
        /\ Len(walked) \in Nat /\ Len(walk.bars) \in Nat
    BY <1>1, <1>4, <2>2, LenProperties
  <2> HIDE DEF k
  <2>4. all[k] = b /\ k \in 1 .. Len(all)
    BY <1>1, <1>4, <2>2, <2>3, ConcatProperties
  <2>5. k \in DOMAIN all
    BY <1>4, <2>4, LenProperties
  <2> HIDE DEF all
  <2> QED
    BY <1>7, <2>4, <2>5 DEF ToSet
<1>9. ASSUME NEW u \in DOMAIN intraday, position.cursor <= u, u + 1 <= time PROVE Judged("intraday", u)
  <2> DEFINE b == IntradayBar(u, intraday[u])
  <2>1. b \in bars
    BY <1>2, <1>9
  <2>2. b.kind = "intraday" /\ b.open = u /\ b.end = u + 1
    BY DEF IntradayBar
  <2> HIDE DEF b
  <2>3. b \in ToSet(walked')
    BY <1>8, <1>9, <2>1, <2>2
  <2> QED
    BY <2>2, <2>3 DEF Judged
<1>10. ASSUME NEW day \in DOMAIN daily, position.cursor <= day * DayLen, (day + 1) * DayLen <= time,
              \A u \in DOMAIN intraday : DayOf(u) # day
       PROVE  Judged("daily", day * DayLen)
  <2> DEFINE b == DailyBar(day, daily[day])
  <2>1. b \in bars
    BY <1>2, <1>10
  <2>2. b.kind = "daily" /\ b.open = day * DayLen /\ b.end = (day + 1) * DayLen
    BY DEF DailyBar
  <2> HIDE DEF b
  <2>3. b \in ToSet(walked')
    BY <1>8, <1>10, <2>1, <2>2
  <2> QED
    BY <2>2, <2>3 DEF Judged
<1> QED
  BY <1>9, <1>10

\* A walk that is not over judged every bar that ends no later than its last one.
LEMMA JudgedUntilLast ==
  ASSUME WalkInv, IsOpen, NEW asOf \in 0 .. clock, walked' = walked \o WalkOf(asOf).bars, walked' # walked
  PROVE  LET time == Last(walked').end
         IN /\ \A u \in DOMAIN intraday : position.cursor <= u /\ u + 1 <= time => Judged("intraday", u)
            /\ \A day \in DOMAIN daily :
                 position.cursor <= day * DayLen /\ (day + 1) * DayLen <= time =>
                   \/ Judged("daily", day * DayLen)
                   \/ \E u \in DOMAIN intraday : DayOf(u) = day
<1> DEFINE walk == WalkOf(asOf)
           window == Window(asOf)
           end == WalkEnd(asOf)
           bars == WindowBars(intraday, daily, position.cursor, end)
           n == Len(walk.bars)
           time == walk.bars[n].end
<1>1. position.cursor \in Nat /\ IsRows(intraday) /\ IsRows(daily) /\ walked \in Seq(Bar)
  BY DEF WalkInv, Typed
<1>2. end \in Nat
  BY WalkEndIs
<1>3. /\ window \in Seq(Bar) /\ \A i \in 1 .. Len(window) : window[i] \in bars /\ window[i].open < window[i].end
      /\ ApartIn(window)
  BY WindowOfCheck
<1>4. /\ WalkOK(Dir, TrailOf(position), walked, window, walk, Len(window))
      /\ walk.bars \in Seq(Bar) /\ walked \o walk.bars \in Seq(Bar)
  BY WalkOfCheck
<1>5. walked' = walked \o walk.bars /\ walked' # walked
  OBVIOUS
<1>6. n <= Len(window) /\ \A k \in 1 .. n : walk.bars[k] = window[k]
  <2> HIDE DEF walk, window
  <2> QED
    BY <1>4 DEF WalkOK
<1> HIDE DEF walk, window, bars
<1>7. walk.bars # <<>> /\ n \in Nat \ {0}
  <2>1. walk.bars # <<>>
    BY <1>1, <1>5, ConcatEmptySeq
  <2> QED
    BY <1>4, <2>1, EmptySeq, LenProperties
<1>8. n \in 1 .. n /\ n \in 1 .. Len(window) /\ walk.bars[n] = window[n]
  <2>1. Len(window) \in Nat
    BY <1>3, LenProperties
  <2> HIDE DEF n
  <2>2. n \in 1 .. n
    BY <1>7
  <2>3. n \in 1 .. Len(window)
    BY <1>6, <1>7, <2>1
  <2> QED
    BY <1>6, <2>2, <2>3
<1>9. Last(walked') = walk.bars[n]
  <2>1. /\ Len(walked') = Len(walked) + n /\ Len(walked) \in Nat
        /\ walked'[Len(walked) + n] = walk.bars[(Len(walked) + n) - Len(walked)]
    <3>1. Len(walked) \in Nat /\ Len(walked) + n \in 1 .. Len(walked) + Len(walk.bars) /\ ~(Len(walked) + n <= Len(walked))
      BY <1>1, <1>7, LenProperties
    <3> QED
      BY <1>1, <1>4, <1>5, <3>1, ConcatProperties
  <2>2. (Len(walked) + n) - Len(walked) = n
    BY <1>7, <2>1
  <2> QED
    BY <2>1, <2>2 DEF Last
<1>10. time \in Nat /\ time <= end /\ WholeUntil(position.cursor, end, time)
  <2>1. walk.bars[n] \in bars
    BY <1>3, <1>8
  <2> HIDE DEF end
  <2> QED
    BY <1>1, <1>2, <2>1, WholeUntilLast DEF bars
<1>11. ASSUME NEW i \in 1 .. Len(window), window[i].end <= time PROVE i <= n
  <2>1. SUFFICES ASSUME n < i PROVE FALSE
    BY <1>7
  <2>2. time <= window[i].open
    BY <1>3, <1>8, <2>1 DEF ApartIn
  <2>3. window[i] \in Bar
    BY <1>3, ElementOfSeq
  <2>4. window[i].open \in Nat /\ window[i].end \in Nat /\ window[i].open < window[i].end
    BY <1>3, <2>3 DEF Bar
  <2> HIDE DEF time
  <2> QED
    BY <1>10, <1>11, <2>2, <2>4
<1>12. /\ \A u \in DOMAIN intraday : position.cursor <= u /\ u + 1 <= time => Judged("intraday", u)
       /\ \A day \in DOMAIN daily :
            position.cursor <= day * DayLen /\ (day + 1) * DayLen <= time =>
              \/ Judged("daily", day * DayLen)
              \/ \E u \in DOMAIN intraday : DayOf(u) = day
  <2>1. \A i \in 1 .. Len(window) : window[i].end <= time => i <= n
    BY <1>11
  <2> HIDE DEF time
  <2> QED
    BY <1>2, <1>5, <1>10, <2>1, JudgedUntil DEF walk, window
<1> QED
  BY <1>9, <1>12

LEMMA StepJudgesEveryBar == WalkInv /\ [Next]_vars =>
  [(walked' # walked \/ position'.reason = "time_based") /\ ~Cut =>
       /\ \A u \in DOMAIN intraday : position.cursor <= u /\ u + 1 <= Reached => Judged("intraday", u)
       /\ \A day \in DOMAIN daily :
            position.cursor <= day * DayLen /\ (day + 1) * DayLen <= Reached =>
              \/ Judged("daily", day * DayLen)
              \/ \E u \in DOMAIN intraday : DayOf(u) = day]_<<walked, position>>
<1> DEFINE Whole ==
       /\ \A u \in DOMAIN intraday : position.cursor <= u /\ u + 1 <= Reached => Judged("intraday", u)
       /\ \A day \in DOMAIN daily :
            position.cursor <= day * DayLen /\ (day + 1) * DayLen <= Reached =>
              \/ Judged("daily", day * DayLen)
              \/ \E u \in DOMAIN intraday : DayOf(u) = day
<1> SUFFICES ASSUME WalkInv, [Next]_vars, ~UNCHANGED <<walked, position>>,
                    walked' # walked \/ position'.reason = "time_based", ~Cut
             PROVE  Whole
  OBVIOUS
<1>1. DOMAIN position = PositionFields
  BY DEF WalkInv, Typed
<1>2. ASSUME NEW asOf \in 0 .. clock, IsOpen, walked' = walked \o WalkOf(asOf).bars,
             position'.reason # "time_based"
      PROVE  Whole
  <2>1. Reached = Last(walked').end
    BY <1>2 DEF Reached
  <2>2. walked' # walked
    BY <1>2
  <2> QED
    BY <1>2, <2>1, <2>2, JudgedUntilLast
<1>3. ASSUME NEW asOf \in 0 .. clock, PriceExit(asOf) PROVE Whole
  <2> DEFINE walk == WalkOf(asOf)
             p == RecordedExcursion(position, walk)
  <2>1. /\ IsOpen /\ walk.exit # NoExit /\ walked' = walked \o walk.bars
        /\ position' = Closed(p, walk.exit.reason, walk.exit.price, walk.exit.at)
    BY <1>3 DEF PriceExit, Checks, Keeps
  <2>2. HitsMatch(Dir, TrailOf(position), walked \o walk.bars, walk.exit)
    BY <2>1, WalkOfCheck DEF WalkOK
  <2>3. walk.exit.reason \in PriceReasons
    BY <2>1, <2>2 DEF HitsMatch
  <2>4. DOMAIN p = PositionFields
    BY <1>1, RecordedIs
  <2> HIDE DEF walk, p
  <2>5. position'.reason = walk.exit.reason
    BY <2>1, <2>4, ClosedIs
  <2>6. position'.reason # "time_based"
    BY <2>3, <2>5 DEF PriceReasons
  <2> QED
    BY <1>2, <2>1, <2>6 DEF walk
<1>4. ASSUME NEW asOf \in 0 .. clock, MoveOn(asOf) PROVE Whole
  <2> DEFINE walk == WalkOf(asOf)
             p == RecordedExcursion(position, walk)
  <2>1. IsOpen /\ walked' = walked \o walk.bars /\ position' = Advanced(p, walk)
    BY <1>4 DEF MoveOn, LetsLive, Checks, Keeps
  <2>2. DOMAIN p = PositionFields /\ p.reason = "open"
    BY <1>1, <2>1, RecordedIs DEF IsOpen
  <2> HIDE DEF p
  <2>3. position'.reason # "time_based"
    <3> HIDE DEF walk
    <3> QED
      BY <2>1, <2>2, AdvancedIs
  <2> QED
    BY <1>2, <2>1, <2>3
<1>5. ASSUME NEW asOf \in 0 .. clock, DieAfterExcursion(asOf) PROVE FALSE
  <2> DEFINE p == RecordedExcursion(position, WalkOf(asOf))
  <2>1. IsOpen /\ walked' = walked /\ position' = p
    BY <1>5 DEF DieAfterExcursion, Checks
  <2>2. p.reason = "open"
    BY <1>1, <2>1, RecordedIs DEF IsOpen
  <2> QED
    BY <2>1, <2>2
<1>6. ASSUME NEW asOf \in 0 .. clock, Flip(asOf) PROVE Whole
  <2>1. PICK counted, price :
          /\ IsOpen /\ walked' = walked \o WalkOf(asOf).bars
          /\ position' = [counted EXCEPT !.reason = "flipped", !.price = price, !.closedAt = asOf]
          /\ DOMAIN counted = PositionFields
    <3> DEFINE walk == WalkOf(asOf)
               again == WalkBars(position.direction, Trailing(NoTrail), 0,
                                 BarSequence(intraday, daily, position.cursor, asOf))
               fill == CurrentPrice(intraday, daily, asOf)
               atFill == IF IsSplit(fill) THEN 0 ELSE Gross(position.direction, fill)
               more == [again EXCEPT !.mae = AtWorst(@, atFill), !.mfe = AtBest(@, atFill)]
               p == Advanced(position, walk)
               q == RecordedExcursion(p, walk)
               r == RecordedExcursion(q, more)
    <3>1. IsOpen /\ walked' = walked \o walk.bars /\ position' = Closed(r, "flipped", fill, asOf)
      BY <1>6 DEF Flip, LetsLive, Checks, Keeps
    <3> HIDE DEF walk, more, fill
    <3>2. DOMAIN p = PositionFields
      BY <1>1, AdvancedIs
    <3> HIDE DEF p
    <3>3. DOMAIN q = PositionFields
      BY <3>2, RecordedIs
    <3> HIDE DEF q
    <3>4. DOMAIN r = PositionFields
      BY <3>3, RecordedIs
    <3> HIDE DEF r
    <3>5. position' = [r EXCEPT !.reason = "flipped", !.price = fill, !.closedAt = asOf]
      BY <3>1 DEF Closed
    <3> QED
      BY <3>1, <3>4, <3>5 DEF walk
  <2>2. position'.reason = "flipped"
    BY <2>1 DEF PositionFields
  <2> QED
    BY <1>2, <2>1, <2>2
<1>7. ASSUME NEW asOf \in 0 .. clock, TimeExit(asOf) PROVE Whole
  <2> DEFINE walk == WalkOf(asOf)
             p == RecordedExcursion(position, walk)
             due == TimeExitDueAt(position.openedAt)
             window == Window(asOf)
  <2>1. PICK fill \in FillsWhenDue(walk, asOf) :
          Keeps(Closed(p, "time_based", fill.price, fill.at), walk)
    BY <1>7 DEF TimeExit
  <2>2. /\ IsOpen /\ walk.exit = NoExit /\ walked' = walked \o walk.bars
        /\ position' = Closed(p, "time_based", fill.price, fill.at)
    BY <1>7, <2>1 DEF TimeExit, Checks, Keeps
  <2>3. TimeDue(asOf)
    BY <2>1 DEF FillsWhenDue
  <2>4. walk = WalkOf(clock) /\ WalkEnd(asOf) = due
    BY <2>3, WalkEndIs DEF WalkEnd
  <2>5. position'.reason = "time_based"
    <3>1. DOMAIN p = PositionFields
      BY <1>1, RecordedIs
    <3> HIDE DEF p
    <3> QED
      BY <2>2, <3>1, ClosedIs
  <2>6. Reached = due
    BY <2>5 DEF Reached
  <2>7. ~walk.split /\ Cardinality(IntradayRows(intraday, position.cursor, due)) <= RowCap
    <3> HIDE DEF walk, due
    <3>1. ~walk.split /\ ~(Cardinality(IntradayRows(intraday, position.cursor, due)) > RowCap)
      BY <2>4, <2>5, <2>6 DEF Cut
    <3>2. IsFiniteSet(IntradayRows(intraday, position.cursor, due))
      <4>1. IntradayRows(intraday, position.cursor, due) \subseteq DOMAIN intraday
        BY DEF IntradayRows
      <4> QED
        BY <4>1, FS_Subset DEF WalkInv, Typed, IsRows
    <3>3. Cardinality(IntradayRows(intraday, position.cursor, due)) \in Nat /\ RowCap \in Nat
      BY <3>2, FS_CardinalityType, ExitAssumption
    <3> QED
      BY <3>1, <3>3
  <2>8. Len(walk.bars) = Len(window)
    <3>1. WalkOK(Dir, TrailOf(position), walked, window, walk, Len(window))
      BY <2>2, WalkOfCheck
    <3> HIDE DEF walk, window
    <3> QED
      BY <2>2, <2>7, <3>1 DEF WalkOK
  <2>9. due \in Nat
    BY DueIs DEF WalkInv, Typed
  <2>10. WholeUntil(position.cursor, WalkEnd(asOf), due) /\ due <= WalkEnd(asOf) /\ WalkEnd(asOf) \in Nat
    BY <2>4, <2>7, <2>9 DEF WholeUntil
  <2>11. \A i \in 1 .. Len(window) : window[i].end <= due => i <= Len(walk.bars)
    <3>1. Len(window) \in Nat
      BY <2>2, WindowOfCheck, LenProperties
    <3> QED
      BY <2>8, <3>1
  <2> HIDE DEF due
  <2>12. /\ \A u \in DOMAIN intraday : position.cursor <= u /\ u + 1 <= due => Judged("intraday", u)
         /\ \A day \in DOMAIN daily :
              position.cursor <= day * DayLen /\ (day + 1) * DayLen <= due =>
                \/ Judged("daily", day * DayLen)
                \/ \E u \in DOMAIN intraday : DayOf(u) = day
    BY <2>2, <2>9, <2>10, <2>11, JudgedUntil
  <2> QED
    BY <2>6, <2>12
<1>8. ~Tick /\ ~StoreIntraday /\ ~StoreDaily /\ ~SetKnobs /\ ~ClearKnobs /\ ~UNCHANGED vars
  BY DEF Tick, StoreIntraday, StoreDaily, SetKnobs, ClearKnobs, vars
<1> HIDE DEF Whole
<1> QED
  BY <1>3, <1>4, <1>5, <1>6, <1>7, <1>8 DEF Next

\* A check judges every bar that it could see up to the point it reached, and a time exit every
\* bar of the hold (shared/bar_window.js, graph/exit_check.js).
THEOREM EveryBarIsJudgedHolds == Spec => EveryBarIsJudged
<1>1. Spec => []WalkInv
  BY InitWalkInv, NextWalkInv, PTL DEF Spec
<1> QED
  BY <1>1, StepJudgesEveryBar, PTL DEF Spec, EveryBarIsJudged

-----------------------------------------------------------------------------
(* The close of a position has a price and an instant.                      *)

Priced == position.price \in Int /\ position.closedAt \in Nat

\* A price that is 0 is none.
LEMMA CurrentPriceIs ==
  ASSUME NEW intra, NEW days, IsRows(intra), IsRows(days), NEW asOf
  PROVE  CurrentPrice(intra, days, asOf) \in Nat
<1> DEFINE fresh == {u \in DOMAIN intra : u + 1 <= asOf}
           past == {day \in DOMAIN days : day < DayOf(asOf)}
<1>1. ASSUME fresh # {} PROVE intra[Max(fresh)].close \in Nat
  <2>1. IsFiniteSet(fresh) /\ fresh \subseteq Int /\ fresh \subseteq DOMAIN intra
    BY FS_Subset DEF IsRows
  <2> HIDE DEF fresh
  <2>2. Max(fresh) \in DOMAIN intra
    BY <1>1, <2>1, GreatestOfFinite
  <2> QED
    BY <2>2 DEF IsRows, ShapeType, Prices
<1>2. ASSUME past # {} PROVE days[Max(past)].close \in Nat
  <2>1. IsFiniteSet(past) /\ past \subseteq Int /\ past \subseteq DOMAIN days
    BY FS_Subset DEF IsRows
  <2> HIDE DEF past
  <2>2. Max(past) \in DOMAIN days
    BY <1>2, <2>1, GreatestOfFinite
  <2> QED
    BY <2>2 DEF IsRows, ShapeType, Prices
<1>3. \/ fresh # {} /\ CurrentPrice(intra, days, asOf) = intra[Max(fresh)].close
      \/ past # {} /\ CurrentPrice(intra, days, asOf) = days[Max(past)].close
      \/ CurrentPrice(intra, days, asOf) = 0
  BY DEF CurrentPrice
<1> HIDE DEF fresh, past
<1> QED
  BY <1>1, <1>2, <1>3

LEMMA FillIs ==
  ASSUME NEW intra, NEW days, IsRows(intra), IsRows(days), NEW dueAt \in Nat, NEW asOf \in Nat,
         NEW fill \in TimeExitFill(intra, days, dueAt, asOf)
  PROVE  fill.price \in Int /\ fill.at \in Nat
<1> DEFINE bars == FillBar(intra, days, dueAt, asOf)
<1>1. \A bar \in bars : bar \in Bar
  BY WindowTypes DEF FillBar
<1>2. \/ \E bar \in bars : fill = [price |-> Trusted(bar.shape.open), at |-> bar.open]
      \/ fill = [price |-> Trusted(CurrentPrice(intra, days, asOf)), at |-> asOf]
  BY DEF TimeExitFill
<1> HIDE DEF bars
<1>3. CurrentPrice(intra, days, asOf) \in Int
  BY CurrentPriceIs
<1>4. \A price \in Int : Trusted(price) \in Int
  BY DEF Trusted
<1>5. \A bar \in bars : bar.shape.open \in Int /\ bar.open \in Nat
  BY <1>1 DEF Bar, ShapeType, Prices
<1> QED
  BY <1>2, <1>3, <1>4, <1>5

\* What a check that closes the position writes.
LEMMA ClosedIsPriced ==
  ASSUME NEW pos, DOMAIN pos = PositionFields, NEW reason, NEW price \in Int, NEW at \in Nat,
         position' = Closed(pos, reason, price, at)
  PROVE  Priced'
<1>1. position'.price = price /\ position'.closedAt = at
  BY ClosedIs
<1> QED
  BY <1>1 DEF Priced

LEMMA PriceExitIsPriced ==
  ASSUME WalkInv, NEW asOf, PriceExit(asOf)
  PROVE  Priced'
<1> DEFINE walk == WalkOf(asOf)
           trail == TrailOf(position)
           all == walked \o walk.bars
           pos == RecordedExcursion(position, walk)
<1>1. /\ IsOpen /\ walk.exit # NoExit
      /\ position' = Closed(pos, walk.exit.reason, walk.exit.price, walk.exit.at)
  BY DEF PriceExit, Checks, Keeps
<1>2. all \in Seq(Bar) /\ HitsMatch(Dir, trail, all, walk.exit)
  BY <1>1, WalkOfCheck DEF WalkOK
<1>3. DOMAIN pos = PositionFields
  BY RecordedIs DEF WalkInv, Typed
<1>4. IsTrail(trail)
  BY TrailIs DEF WalkInv, Typed, TrailOf
<1> HIDE DEF walk, trail, all, pos
<1>5. HitsIn(Dir, trail, all) = {Len(all)} /\ ExitIn(Dir, trail, all, Len(all)) = walk.exit
  BY <1>1, <1>2 DEF HitsMatch
<1>6. Len(all) \in 1 .. Len(all) /\ Len(all) - 1 \in 0 .. Len(all)
  BY <1>2, <1>5, LenProperties DEF HitsIn, ValidIn
<1>7. all[Len(all)] \in Bar
  BY <1>2, <1>6, ElementOfSeq
<1> DEFINE bar == all[Len(all)]
           peak == BestIn(Dir, all, Len(all) - 1)
           rule == RatchetedStop(Dir, peak, trail)
<1>8. peak \in Int
  BY <1>2, <1>6, BestIsPrice
<1>9. walk.exit = ExitAtBar(Dir, bar, rule, TargetLevel(Dir, rule, trail))
  BY <1>5 DEF ExitIn, RuleIn
<1> HIDE DEF bar, peak
<1>10. walk.exit.price \in Int
  <2>1. bar \in Bar
    BY <1>7 DEF bar
  <2> QED
    BY <1>1, <1>4, <1>8, <1>9, <2>1, ExitIs
<1> HIDE DEF rule
<1>11. walk.exit.at \in Nat
  <2>1. bar.end \in Nat
    BY <1>7 DEF bar, Bar
  <2>2. walk.exit.at = bar.end
    BY <1>1, <1>9 DEF ExitAtBar
  <2> QED
    BY <2>1, <2>2
<1> QED
  BY <1>1, <1>3, <1>10, <1>11, ClosedIsPriced

LEMMA TimeExitIsPriced ==
  ASSUME WalkInv, NEW asOf \in Nat, TimeExit(asOf)
  PROVE  Priced'
<1> DEFINE walk == WalkOf(asOf)
           pos == RecordedExcursion(position, walk)
           due == TimeExitDueAt(position.openedAt)
<1>1. PICK fill \in FillsWhenDue(walk, asOf) :
        position' = Closed(pos, "time_based", fill.price, fill.at)
  BY DEF TimeExit, Keeps
<1>2. DOMAIN pos = PositionFields
  BY RecordedIs DEF WalkInv, Typed
<1>3. due \in Nat /\ IsRows(intraday) /\ IsRows(daily)
  BY DueIs DEF WalkInv, Typed
<1>4. fill = [price |-> 0, at |-> asOf] \/ fill \in TimeExitFill(intraday, daily, due, asOf)
  BY DEF FillsWhenDue
<1> HIDE DEF walk, pos, due
<1>5. fill.price \in Int /\ fill.at \in Nat
  BY <1>3, <1>4, FillIs
<1> QED
  BY <1>1, <1>2, <1>5, ClosedIsPriced

LEMMA FlipIsPriced ==
  ASSUME WalkInv, NEW asOf \in Nat, Flip(asOf)
  PROVE  Priced'
<1>1. \E counted : DOMAIN counted = PositionFields
                   /\ position' = Closed(counted, "flipped", CurrentPrice(intraday, daily, asOf), asOf)
  <2> DEFINE moved == Advanced(position, WalkOf(asOf))
             once == RecordedExcursion(moved, WalkOf(asOf))
  <2>1. DOMAIN moved = PositionFields
    BY AdvancedIs DEF WalkInv, Typed
  <2>2. PICK again : position' = Closed(RecordedExcursion(once, again), "flipped",
                                        CurrentPrice(intraday, daily, asOf), asOf)
    BY DEF Flip, Keeps
  <2> HIDE DEF moved
  <2>3. DOMAIN once = PositionFields
    BY <2>1, RecordedIs
  <2> HIDE DEF once
  <2>4. DOMAIN RecordedExcursion(once, again) = PositionFields
    BY <2>3, RecordedIs
  <2> QED
    BY <2>2, <2>4
<1>2. CurrentPrice(intraday, daily, asOf) \in Int
  BY CurrentPriceIs DEF WalkInv, Typed
<1> QED
  BY <1>1, <1>2, ClosedIsPriced

\* Every other step leaves price and closing instant alone.
LEMMA OthersKeepPrice ==
  ASSUME WalkInv, Priced, NEW asOf, MoveOn(asOf) \/ DieAfterExcursion(asOf)
  PROVE  Priced'
<1> DEFINE walk == WalkOf(asOf)
           pos == RecordedExcursion(position, walk)
<1>1. position' = pos \/ position' = Advanced(pos, walk)
  BY DEF MoveOn, Keeps, DieAfterExcursion
<1>2. pos.price = position.price /\ pos.closedAt = position.closedAt
  BY DEF WalkInv, Typed, PositionFields, RecordedExcursion
<1>3. DOMAIN pos = PositionFields
  BY RecordedIs DEF WalkInv, Typed
<1> HIDE DEF walk, pos
<1>4. Advanced(pos, walk).price = pos.price /\ Advanced(pos, walk).closedAt = pos.closedAt
  BY <1>3 DEF Advanced, PositionFields
<1> QED
  BY <1>1, <1>2, <1>4 DEF Priced

LEMMA InitPriced == Init => Priced
  BY DEF Init, Opened, Priced

LEMMA NextPriced == WalkInv /\ Priced /\ [Next]_vars => Priced'
<1> SUFFICES ASSUME WalkInv, Priced, [Next]_vars PROVE Priced'
  OBVIOUS
<1>1. \A asOf \in 0 .. clock : asOf \in Nat
  BY DEF WalkInv, Typed
<1>2. ASSUME position' = position PROVE Priced'
  BY <1>2 DEF Priced
<1>3. CASE Tick \/ StoreIntraday \/ StoreDaily \/ SetKnobs \/ ClearKnobs \/ UNCHANGED vars
  BY <1>2, <1>3 DEF Tick, StoreIntraday, StoreDaily, SetKnobs, ClearKnobs, vars
<1>4. ASSUME NEW asOf \in 0 .. clock, PriceExit(asOf) PROVE Priced'
  BY <1>4, PriceExitIsPriced
<1>5. ASSUME NEW asOf \in 0 .. clock, TimeExit(asOf) PROVE Priced'
  BY <1>1, <1>5, TimeExitIsPriced
<1>6. ASSUME NEW asOf \in 0 .. clock, MoveOn(asOf) \/ DieAfterExcursion(asOf) PROVE Priced'
  BY <1>6, OthersKeepPrice
<1>7. ASSUME NEW asOf \in 0 .. clock, Flip(asOf) PROVE Priced'
  BY <1>1, <1>7, FlipIsPriced
<1> QED
  BY <1>3, <1>4, <1>5, <1>6, <1>7 DEF Next

-----------------------------------------------------------------------------
(* What the days of the grid book.                                          *)

BookFields == {"entered", "value", "realized", "charged", "pnl"}
IsBook(book) ==
  /\ DOMAIN book = BookFields
  /\ book.entered \in BOOLEAN /\ book.value \in Int /\ book.realized \in BOOLEAN
  /\ book.charged \in BOOLEAN /\ book.pnl \in Int
IsTrade(trade) == {trade.openDay, trade.closeDay, trade.exitPrice} \subseteq Int /\ HasExit(trade)
IsGrid(closes) == DOMAIN closes \subseteq Nat /\ IsFiniteSet(DOMAIN closes) /\ \A x \in DOMAIN closes : closes[x] \in Int

LEMMA ValuesAre ==
  ASSUME NEW dir, NEW price \in Int, NEW value \in Int, NEW cost \in Nat
  PROVE  ValueAt(dir, price) \in Int /\ CostOf(value, cost) \in Int
<1>1. Max({0, 200 - price}) \in Int
  <2> DEFINE both == {0, 200 - price}
  <2>1. IsFiniteSet(both) /\ both \subseteq Int /\ both # {}
    <3>1. IsFiniteSet({0}) /\ {0} \cup {200 - price} = both
      BY FS_Singleton
    <3> QED
      BY <3>1, FS_AddElement
  <2> HIDE DEF both
  <2>2. Max(both) \in both
    BY <2>1, GreatestOfFinite
  <2>3. Max(both) \in Int
    BY <2>1, <2>2
  <2> QED
    BY <2>3 DEF both
<1> DEFINE short == Max({0, 200 - price})
<1>2. ValueAt(dir, price) = 100 * (IF dir = "long" THEN price ELSE short)
  BY DEF ValueAt
<1>3. short \in Int
  BY <1>1
<1> HIDE DEF short
<1>4. ValueAt(dir, price) \in Int
  BY <1>2, <1>3
<1>5. CostOf(value, cost) \in Int
  <2> DEFINE product == value * cost
  <2>1. product \in Int
    OBVIOUS
  <2> HIDE DEF product
  <2>2. product \div 100 \in Int
    BY <2>1
  <2> QED
    BY <2>2 DEF CostOf, product
<1> QED
  BY <1>4, <1>5

\* The days before d on which the trade is held, and those after it was left.
HeldBefore(trade, closes, d) == {x \in DOMAIN closes : x < d /\ ActiveOn(trade, x)}
LeftBefore(trade, closes, d) == {x \in DOMAIN closes : x < d /\ IsPastClose(trade, x)}

\* What is booked before day d.
BookOK(trade, closes, cost, book, d) ==
  LET exit == ValueAt(trade.direction, trade.exitPrice)
  IN /\ IsBook(book)
     /\ book.entered <=> HeldBefore(trade, closes, d) # {}
     /\ book.charged <=> book.entered /\ LeftBefore(trade, closes, d) # {}
     /\ book.charged => book.realized
     /\ book.realized => book.entered /\ book.value = exit
     /\ book.realized /\ ~SameDay(trade) => LeftBefore(trade, closes, d) # {}
     /\ ~book.entered => book.pnl = 0
     /\ book.entered => book.pnl = book.value - Allocation - CostOf(Allocation, cost)
                                     - (IF book.charged THEN CostOf(exit, cost) ELSE 0)

LEMMA NothingBooked ==
  ASSUME NEW trade, IsTrade(trade), NEW closes, IsGrid(closes), NEW cost \in Nat
  PROVE  BookOK(trade, closes, cost, Unbooked, 0)
<1>1. HeldBefore(trade, closes, 0) = {} /\ LeftBefore(trade, closes, 0) = {}
  BY DEF HeldBefore, LeftBefore, IsGrid
<1>2. /\ IsBook(Unbooked) /\ ~Unbooked.entered /\ ~Unbooked.charged /\ ~Unbooked.realized
      /\ Unbooked.pnl = 0
  BY DEF Unbooked, IsBook, BookFields
<1> QED
  BY <1>1, <1>2 DEF BookOK

\* The days on which a trade is held come before those after it was left.
LEMMA HeldThenLeft ==
  ASSUME NEW trade, IsTrade(trade), NEW d \in Int, ActiveOn(trade, d), NEW x \in Int, x <= d
  PROVE  ~IsPastClose(trade, x)
  BY DEF IsTrade, HasExit, ActiveOn, IsPastClose, SameDay

LEMMA DayGoesBy ==
  ASSUME NEW trade, NEW closes, IsGrid(closes), NEW d \in Nat
  PROVE  /\ IF d \in DOMAIN closes /\ ActiveOn(trade, d) THEN d \in HeldBefore(trade, closes, d + 1)
            ELSE HeldBefore(trade, closes, d + 1) = HeldBefore(trade, closes, d)
         /\ IF d \in DOMAIN closes /\ IsPastClose(trade, d) THEN d \in LeftBefore(trade, closes, d + 1)
            ELSE LeftBefore(trade, closes, d + 1) = LeftBefore(trade, closes, d)
<1>1. \A x \in DOMAIN closes : x < d + 1 <=> x < d \/ x = d
  BY DEF IsGrid
<1>2. \A x : x \in HeldBefore(trade, closes, d + 1) <=>
               x \in HeldBefore(trade, closes, d) \/ (x = d /\ d \in DOMAIN closes /\ ActiveOn(trade, d))
  BY <1>1 DEF HeldBefore
<1>3. \A x : x \in LeftBefore(trade, closes, d + 1) <=>
               x \in LeftBefore(trade, closes, d) \/ (x = d /\ d \in DOMAIN closes /\ IsPastClose(trade, d))
  BY <1>1 DEF LeftBefore
<1> DEFINE H == HeldBefore(trade, closes, d)
           H2 == HeldBefore(trade, closes, d + 1)
           L == LeftBefore(trade, closes, d)
           L2 == LeftBefore(trade, closes, d + 1)
<1>4. \A x : x \in H2 <=> x \in H \/ (x = d /\ d \in DOMAIN closes /\ ActiveOn(trade, d))
  BY <1>2
<1>5. \A x : x \in L2 <=> x \in L \/ (x = d /\ d \in DOMAIN closes /\ IsPastClose(trade, d))
  BY <1>3
<1>6. IF d \in DOMAIN closes /\ ActiveOn(trade, d) THEN d \in H2 ELSE H2 = H
  <2> HIDE DEF H, H2
  <2>1. CASE d \in DOMAIN closes /\ ActiveOn(trade, d)
    BY <1>4, <2>1
  <2>2. CASE ~(d \in DOMAIN closes /\ ActiveOn(trade, d))
    <3>1. \A x : x \in H2 <=> x \in H
      BY <1>4, <2>2
    <3>2. H2 = H
      BY <3>1
    <3> QED
      BY <2>2, <3>2
  <2> QED
    BY <2>1, <2>2
<1>7. IF d \in DOMAIN closes /\ IsPastClose(trade, d) THEN d \in L2 ELSE L2 = L
  <2> HIDE DEF L, L2
  <2>1. CASE d \in DOMAIN closes /\ IsPastClose(trade, d)
    BY <1>5, <2>1
  <2>2. CASE ~(d \in DOMAIN closes /\ IsPastClose(trade, d))
    <3>1. \A x : x \in L2 <=> x \in L
      BY <1>5, <2>2
    <3>2. L2 = L
      BY <3>1
    <3> QED
      BY <2>2, <3>2
  <2> QED
    BY <2>1, <2>2
<1> QED
  BY <1>6, <1>7

\* A day on which the trade is held marks it.
LEMMA HeldDayBooks ==
  ASSUME NEW trade, IsTrade(trade), NEW closes, IsGrid(closes), NEW cost \in Nat, NEW d \in DOMAIN closes,
         NEW book, BookOK(trade, closes, cost, book, d), ActiveOn(trade, d)
  PROVE  BookOK(trade, closes, cost, BookDay(trade, closes, cost, book, d), d + 1)
<1> DEFINE exit == ValueAt(trade.direction, trade.exitPrice)
           entry == CostOf(Allocation, cost)
           in == Enter(book, cost)
           price == IF SameDay(trade) THEN trade.exitPrice ELSE closes[d]
           value == ValueAt(trade.direction, price)
           book2 == BookDay(trade, closes, cost, book, d)
<1>1. d \in Nat /\ d \in Int
  BY DEF IsGrid
<1>2. ~IsPastClose(trade, d) /\ LeftBefore(trade, closes, d) = {}
  <2>1. \A x \in DOMAIN closes : x < d => ~IsPastClose(trade, x)
    BY <1>1, HeldThenLeft DEF IsGrid
  <2> QED
    BY <1>1, <2>1, HeldThenLeft DEF LeftBefore
<1>3. HeldBefore(trade, closes, d + 1) # {} /\ LeftBefore(trade, closes, d + 1) = {}
  BY <1>1, <1>2, DayGoesBy
<1>4. IsBook(book) /\ ~book.charged /\ (book.realized => SameDay(trade))
  BY <1>2 DEF BookOK
<1>5. HasExit(trade)
  BY DEF IsTrade
<1>6. ChargeExit(trade, Realize(trade, book, d), d, cost) = book
  BY <1>2 DEF ChargeExit, Realize
<1>7. book2 = Mark(trade, in, closes[d])
  BY <1>6 DEF BookDay
<1>8. entry \in Int /\ exit \in Int /\ Allocation \in Int /\ value \in Int
  <2>1. Allocation \in Int /\ trade.exitPrice \in Int /\ closes[d] \in Int
    BY DEF Allocation, IsTrade, IsGrid
  <2>2. price \in Int
    BY <2>1
  <2> HIDE DEF price
  <2> QED
    BY <2>1, <2>2, ValuesAre
<1>9. /\ IsBook(in) /\ in.entered /\ ~in.charged /\ (in.realized => SameDay(trade))
      /\ in.pnl = in.value - Allocation - entry
  <2>1. CASE book.entered
    <3>1. in = book
      BY <2>1 DEF Enter
    <3>2. book.pnl = book.value - Allocation - entry - 0
      BY <1>4, <2>1 DEF BookOK
    <3> HIDE DEF in
    <3>3. book.value \in Int
      BY <1>4 DEF IsBook
    <3> QED
      BY <1>4, <1>8, <2>1, <3>1, <3>2, <3>3
  <2>2. CASE ~book.entered
    <3>1. in = [book EXCEPT !.entered = TRUE, !.value = Allocation, !.pnl = @ - entry]
      BY <2>2 DEF Enter
    <3>2. book.pnl = 0
      BY <2>2 DEF BookOK
    <3> HIDE DEF in, entry
    <3> DEFINE p == 0 - entry
    <3>3. p \in Int /\ book.realized \in BOOLEAN /\ book.charged \in BOOLEAN /\ TRUE \in BOOLEAN
      BY <1>4, <1>8 DEF IsBook
    <3>4. in = [book EXCEPT !.entered = TRUE, !.value = Allocation, !.pnl = p]
      BY <3>1, <3>2
    <3> HIDE DEF p
    <3>5. /\ DOMAIN in = BookFields /\ in.entered = TRUE /\ in.value = Allocation /\ in.pnl = p
          /\ in.realized = book.realized /\ in.charged = book.charged
      <4>1. DOMAIN book = BookFields
        BY <1>4 DEF IsBook
      <4> QED
        BY <3>4, <4>1 DEF BookFields
    <3>6. IsBook(in)
      BY <1>8, <3>3, <3>5 DEF IsBook
    <3>7. p = Allocation - Allocation - entry
      BY <1>8 DEF p
    <3> QED
      BY <1>4, <3>5, <3>6, <3>7
  <2> QED
    BY <2>1, <2>2
<1>10. book2 = [in EXCEPT !.pnl = @ + value - in.value, !.value = value, !.realized = @ \/ SameDay(trade)]
  BY <1>5, <1>7 DEF Mark
<1>11. SameDay(trade) => value = exit
  OBVIOUS
<1>12. SameDay(trade) \in BOOLEAN
  BY DEF SameDay
<1> DEFINE realized == in.realized \/ SameDay(trade)
           pnl == in.pnl + value - in.value
<1> HIDE DEF in, value, entry, exit, price, book2
<1>13. /\ IsBook(book2)
       /\ book2.entered = in.entered /\ book2.charged = in.charged /\ book2.value = value
       /\ book2.pnl = pnl /\ book2.realized = realized
  <2>1. /\ in.entered \in BOOLEAN /\ in.value \in Int /\ in.charged \in BOOLEAN /\ in.pnl \in Int
        /\ realized \in BOOLEAN
    BY <1>9, <1>12 DEF IsBook
  <2>2. pnl \in Int
    BY <1>8, <2>1
  <2>3. book2 = [in EXCEPT !.pnl = pnl, !.value = value, !.realized = realized]
    BY <1>10
  <2> HIDE DEF pnl, realized
  <2>4. /\ DOMAIN book2 = BookFields /\ book2.pnl = pnl /\ book2.value = value /\ book2.realized = realized
        /\ book2.entered = in.entered /\ book2.charged = in.charged
    <3>1. DOMAIN in = BookFields
      BY <1>9 DEF IsBook
    <3> QED
      BY <2>3, <3>1 DEF BookFields
  <2> QED
    BY <1>8, <2>1, <2>2, <2>4 DEF IsBook
<1>14. book2.pnl = value - Allocation - entry - 0
  <2>1. in.value \in Int
    BY <1>9 DEF IsBook
  <2> QED
    BY <1>8, <1>9, <1>13, <2>1 DEF pnl
<1>15. BookOK(trade, closes, cost, book2, d + 1)
  BY <1>3, <1>9, <1>11, <1>13, <1>14 DEF BookOK, exit, entry, realized
<1> QED
  BY <1>15 DEF book2

\* The first day after it was left realizes the exit and charges it.
LEMMA LeftDayBooks ==
  ASSUME NEW trade, IsTrade(trade), NEW closes, IsGrid(closes), NEW cost \in Nat, NEW d \in DOMAIN closes,
         NEW book, BookOK(trade, closes, cost, book, d), ~ActiveOn(trade, d)
  PROVE  BookOK(trade, closes, cost, BookDay(trade, closes, cost, book, d), d + 1)
<1> DEFINE exit == ValueAt(trade.direction, trade.exitPrice)
           entry == CostOf(Allocation, cost)
           paid == CostOf(exit, cost)
           sold == Realize(trade, book, d)
           book2 == ChargeExit(trade, sold, d, cost)
<1>1. d \in Nat
  BY DEF IsGrid
<1>2. BookDay(trade, closes, cost, book, d) = book2
  BY DEF BookDay
<1>3. HasExit(trade) /\ IsBook(book) /\ (book.charged => book.entered) /\ (book.realized => book.entered)
  BY DEF IsTrade, BookOK
<1>4. entry \in Int /\ exit \in Int /\ Allocation \in Int /\ paid \in Int
  <2>1. Allocation \in Int /\ trade.exitPrice \in Int
    BY DEF Allocation, IsTrade
  <2>2. exit \in Int
    BY <2>1, ValuesAre
  <2> HIDE DEF exit
  <2> QED
    BY <2>1, <2>2, ValuesAre
<1>5. HeldBefore(trade, closes, d + 1) = HeldBefore(trade, closes, d)
  BY <1>1, DayGoesBy
<1> HIDE DEF book2
<1>6. CASE ~book.entered \/ ~IsPastClose(trade, d)
  <2>1. sold = book
    BY <1>6 DEF Realize
  <2>2. book2 = book
    BY <1>6, <2>1 DEF ChargeExit, book2
  <2>3. CASE ~IsPastClose(trade, d)
    <3>1. LeftBefore(trade, closes, d + 1) = LeftBefore(trade, closes, d)
      BY <1>1, <2>3, DayGoesBy
    <3> QED
      BY <1>2, <1>5, <2>2, <3>1 DEF BookOK
  <2>4. CASE ~book.entered
    BY <1>2, <1>3, <1>5, <2>2, <2>4 DEF BookOK
  <2> QED
    BY <1>6, <2>3, <2>4
<1>7. CASE book.entered /\ IsPastClose(trade, d)
  <2>1. d \in LeftBefore(trade, closes, d + 1)
    BY <1>1, <1>7, DayGoesBy
  <2>2. /\ IsBook(sold) /\ sold.entered /\ sold.realized /\ sold.value = exit /\ sold.charged = book.charged
        /\ sold.pnl = exit - Allocation - entry - (IF book.charged THEN paid ELSE 0)
    <3>1. book.pnl = book.value - Allocation - entry - (IF book.charged THEN paid ELSE 0)
      BY <1>7 DEF BookOK
    <3>2. CASE book.realized
      <4>1. sold = book
        BY <3>2 DEF Realize
      <4>2. book.value = exit
        BY <3>2 DEF BookOK
      <4> QED
        BY <1>3, <1>7, <3>1, <3>2, <4>1, <4>2
    <3>3. CASE ~book.realized
      <4> DEFINE p == book.pnl + exit - book.value
      <4>1. sold = [book EXCEPT !.pnl = p, !.value = exit, !.realized = TRUE]
        BY <1>3, <1>7, <3>3 DEF Realize
      <4>2. DOMAIN book = BookFields /\ book.value \in Int /\ book.pnl \in Int
        BY <1>3 DEF IsBook
      <4> HIDE DEF sold, exit, entry, paid
      <4>3. p \in Int /\ p = exit - Allocation - entry - (IF book.charged THEN paid ELSE 0)
        BY <1>4, <3>1, <4>2
      <4> HIDE DEF p
      <4>4. /\ DOMAIN sold = BookFields /\ sold.pnl = p /\ sold.value = exit /\ sold.realized = TRUE
            /\ sold.entered = book.entered /\ sold.charged = book.charged
        BY <4>1, <4>2 DEF BookFields
      <4>5. IsBook(sold)
        BY <1>3, <1>4, <4>3, <4>4 DEF IsBook
      <4> QED
        BY <1>7, <4>3, <4>4, <4>5
    <3> QED
      BY <3>2, <3>3
  <2> HIDE DEF sold, exit, entry, paid
  <2>3. /\ IsBook(book2) /\ book2.entered /\ book2.realized /\ book2.value = exit /\ book2.charged
        /\ book2.pnl = exit - Allocation - entry - paid
    <3>1. CASE book.charged
      <4>1. book2 = sold
        BY <2>2, <3>1 DEF ChargeExit, book2
      <4> QED
        BY <2>2, <3>1, <4>1
    <3>2. CASE ~book.charged
      <4> DEFINE p == sold.pnl - paid
      <4>1. book2 = [sold EXCEPT !.pnl = p, !.charged = TRUE]
        BY <1>7, <2>2, <3>2 DEF ChargeExit, book2, paid
      <4>2. DOMAIN sold = BookFields
        BY <2>2 DEF IsBook
      <4>3. p \in Int /\ p = exit - Allocation - entry - paid
        BY <1>4, <2>2, <3>2
      <4> HIDE DEF p
      <4>4. /\ DOMAIN book2 = BookFields /\ book2.pnl = p /\ book2.value = sold.value
            /\ book2.realized = sold.realized /\ book2.entered = sold.entered /\ book2.charged = TRUE
        BY <4>1, <4>2 DEF BookFields
      <4>5. IsBook(book2)
        BY <2>2, <4>3, <4>4 DEF IsBook
      <4> QED
        BY <2>2, <4>3, <4>4, <4>5
    <3> QED
      BY <3>1, <3>2
  <2>4. HeldBefore(trade, closes, d) # {}
    BY <1>7 DEF BookOK
  <2> QED
    BY <1>2, <1>5, <2>1, <2>3, <2>4 DEF BookOK, exit, entry, paid
<1> QED
  BY <1>6, <1>7

\* The book at the end of day d.
DayBooked(trade, closes, cost, book, d) ==
  IF d \notin DOMAIN closes THEN book ELSE BookDay(trade, closes, cost, book, d)

LEMMA DayBooks ==
  ASSUME NEW trade, IsTrade(trade), NEW closes, IsGrid(closes), NEW cost \in Nat, NEW d \in Nat,
         NEW book, BookOK(trade, closes, cost, book, d)
  PROVE  BookOK(trade, closes, cost, DayBooked(trade, closes, cost, book, d), d + 1)
<1>1. CASE d \in DOMAIN closes
  BY <1>1, HeldDayBooks, LeftDayBooks DEF DayBooked
<1>2. CASE d \notin DOMAIN closes
  <2>1. /\ HeldBefore(trade, closes, d + 1) = HeldBefore(trade, closes, d)
        /\ LeftBefore(trade, closes, d + 1) = LeftBefore(trade, closes, d)
    BY <1>2, DayGoesBy
  <2> QED
    BY <1>2, <2>1 DEF BookOK, DayBooked
<1> QED
  BY <1>1, <1>2

IsRecord(g, trade, closes, cost, n) ==
  g = [day \in 0 .. n |-> IF day = 0 THEN Unbooked
                          ELSE IF day - 1 \notin DOMAIN closes THEN g[day - 1]
                          ELSE BookDay(trade, closes, cost, g[day - 1], day - 1)]

\* By the least number of days that would have no record.
LEMMA RecordExists ==
  ASSUME NEW trade, NEW closes, NEW cost, NEW n \in Nat
  PROVE  \E g : IsRecord(g, trade, closes, cost, n)
<1> DEFINE Next2(book, day) == DayBooked(trade, closes, cost, book, day - 1)
           has(m) == \E g : g = [day \in 0 .. m |-> IF day = 0 THEN Unbooked ELSE Next2(g[day - 1], day)]
           bad == {m \in Nat : ~has(m)}
<1> HIDE DEF Next2
<1>1. ASSUME bad # {} PROVE FALSE
  <2>1. Min(bad) \in bad /\ \A y \in bad : Min(bad) <= y
    <3> HIDE DEF has
    <3>1. bad \subseteq Nat
      OBVIOUS
    <3> HIDE DEF bad
    <3> QED
      BY <1>1, <3>1, LeastNatural
  <2> DEFINE m == Min(bad)
  <2>2. m \in Nat /\ ~has(m) /\ (m # 0 => has(m - 1))
    <3> HIDE DEF has
    <3>1. m \in Nat /\ ~has(m)
      BY <2>1
    <3>2. ASSUME m # 0 PROVE has(m - 1)
      <4>1. m - 1 \in Nat /\ ~(m <= m - 1)
        BY <3>1, <3>2
      <4> QED
        BY <2>1, <4>1
    <3> QED
      BY <3>1, <3>2
  <2> HIDE DEF m, bad
  <2>3. CASE m = 0
    <3> DEFINE g == [day \in 0 .. 0 |-> Unbooked]
    <3>1. g = [day \in 0 .. 0 |-> IF day = 0 THEN Unbooked ELSE Next2(g[day - 1], day)]
      OBVIOUS
    <3>2. has(0)
      <4> HIDE DEF g
      <4> QED
        BY <3>1
    <3> QED
      BY <2>2, <2>3, <3>2
  <2>4. CASE m # 0
    <3>1. PICK g : g = [day \in 0 .. m - 1 |-> IF day = 0 THEN Unbooked ELSE Next2(g[day - 1], day)]
      BY <2>2, <2>4
    <3> DEFINE h == [day \in 0 .. m |-> IF day < m THEN g[day] ELSE Next2(g[m - 1], m)]
    <3>2. ASSUME NEW day \in 0 .. m
          PROVE  h[day] = IF day = 0 THEN Unbooked ELSE Next2(h[day - 1], day)
      <4>1. CASE day = 0
        BY <2>2, <2>4, <3>1, <4>1
      <4>2. CASE day # 0 /\ day < m
        <5>1. day \in 0 .. m - 1 /\ day - 1 \in 0 .. m /\ day - 1 < m
          BY <2>2, <4>2
        <5>2. h[day] = g[day] /\ h[day - 1] = g[day - 1]
          BY <4>2, <5>1
        <5>3. g[day] = Next2(g[day - 1], day)
          BY <3>1, <4>2, <5>1
        <5> QED
          BY <4>2, <5>2, <5>3
      <4>3. CASE day = m
        <5>1. h[day] = Next2(g[m - 1], m) /\ h[day - 1] = g[m - 1]
          BY <2>2, <2>4, <4>3
        <5> QED
          BY <2>4, <4>3, <5>1
      <4> QED
        BY <2>2, <4>1, <4>2, <4>3
    <3>3. h = [day \in 0 .. m |-> h[day]]
      OBVIOUS
    <3> HIDE DEF h
    <3>4. h = [day \in 0 .. m |-> IF day = 0 THEN Unbooked ELSE Next2(h[day - 1], day)]
      BY <3>2, <3>3
    <3>5. has(m)
      BY <3>4
    <3> QED
      BY <2>2, <3>5
  <2> QED
    BY <2>3, <2>4
<1>2. has(n)
  BY <1>1
<1>3. \A g : [day \in 0 .. n |-> IF day = 0 THEN Unbooked ELSE Next2(g[day - 1], day)] =
             [day \in 0 .. n |-> IF day = 0 THEN Unbooked
                                 ELSE IF day - 1 \notin DOMAIN closes THEN g[day - 1]
                                 ELSE BookDay(trade, closes, cost, g[day - 1], day - 1)]
  BY DEF DayBooked, Next2
<1>4. PICK g : g = [day \in 0 .. n |-> IF day = 0 THEN Unbooked ELSE Next2(g[day - 1], day)]
  BY <1>2
<1>5. g = [day \in 0 .. n |-> IF day = 0 THEN Unbooked
                              ELSE IF day - 1 \notin DOMAIN closes THEN g[day - 1]
                              ELSE BookDay(trade, closes, cost, g[day - 1], day - 1)]
  BY <1>3, <1>4
<1> QED
  BY <1>5 DEF IsRecord

\* The end of the grid comes after all its days.
EndOf(closes) == Max({0} \cup {day + 1 : day \in DOMAIN closes})

LEMMA EndIs ==
  ASSUME NEW closes, IsGrid(closes)
  PROVE  EndOf(closes) \in Nat /\ \A day \in DOMAIN closes : day < EndOf(closes)
<1> DEFINE D == DOMAIN closes
           f == [day \in D |-> day + 1]
           S == {f[day] : day \in D}
<1>1. IsFiniteSet(D) /\ D \subseteq Nat
  BY DEF IsGrid
<1>2. IsFiniteSet(S)
  <2>1. DOMAIN f = D
    OBVIOUS
  <2> HIDE DEF f, D
  <2> QED
    BY <1>1, <2>1, ImageIsFinite
<1>3. S = {day + 1 : day \in D} /\ S \subseteq Nat
  BY <1>1
<1>4. IsFiniteSet({0} \cup S) /\ {0} \cup S \subseteq Int /\ {0} \cup S # {}
  <2> HIDE DEF S
  <2>1. IsFiniteSet(S \cup {0})
    BY <1>2, FS_AddElement
  <2>2. S \cup {0} = {0} \cup S
    OBVIOUS
  <2>3. S \subseteq Nat
    BY <1>3
  <2>4. {0} \cup S \subseteq Int
    BY <2>3
  <2>5. 0 \in {0} \cup S
    OBVIOUS
  <2> QED
    BY <2>1, <2>2, <2>4, <2>5
<1>5. EndOf(closes) = Max({0} \cup S)
  BY <1>3 DEF EndOf
<1>6. EndOf(closes) \in {0} \cup S /\ \A y \in {0} \cup S : EndOf(closes) >= y
  <2> HIDE DEF S
  <2> QED
    BY <1>4, <1>5, GreatestOfFinite
<1>7. EndOf(closes) \in Nat
  BY <1>3, <1>6
<1>8. ASSUME NEW day \in D PROVE day < EndOf(closes)
  <2>1. day + 1 \in S /\ day \in Nat
    BY <1>1
  <2>2. EndOf(closes) >= day + 1
    BY <1>6, <2>1
  <2> QED
    BY <1>7, <2>1, <2>2
<1> QED
  BY <1>7, <1>8

LEMMA BookIs ==
  ASSUME NEW trade, NEW closes, IsGrid(closes), NEW cost
  PROVE  \E g : /\ g[0] = Unbooked
                /\ \A day \in 1 .. EndOf(closes) : g[day] = DayBooked(trade, closes, cost, g[day - 1], day - 1)
                /\ BookedBy(trade, closes, cost) = g[EndOf(closes)]
<1> DEFINE n == Max({0} \cup {day + 1 : day \in DOMAIN closes})
           Sol(g) == g = [day \in 0 .. n |->
                            IF day = 0 THEN Unbooked
                            ELSE IF day - 1 \notin DOMAIN closes THEN g[day - 1]
                            ELSE BookDay(trade, closes, cost, g[day - 1], day - 1)]
           f == CHOOSE g : Sol(g)
<1>0. n = EndOf(closes) /\ n \in Nat
  BY EndIs DEF EndOf
<1>1. \E g : Sol(g)
  <2> HIDE DEF n
  <2>1. \E g : IsRecord(g, trade, closes, cost, n)
    BY <1>0, RecordExists
  <2> QED
    BY <2>1 DEF IsRecord
<1>2. Sol(f)
  <2> HIDE DEF Sol
  <2> QED
    BY <1>1
<1>3. BookedBy(trade, closes, cost) = f[n]
  BY DEF BookedBy
<1> HIDE DEF f, n
<1>4. f[0] = Unbooked /\ \A day \in 1 .. n : f[day] = IF day - 1 \notin DOMAIN closes THEN f[day - 1]
                            ELSE BookDay(trade, closes, cost, f[day - 1], day - 1)
  BY <1>0, <1>2
<1>5. \A day \in 1 .. n : f[day] = DayBooked(trade, closes, cost, f[day - 1], day - 1)
  BY <1>4 DEF DayBooked
<1> QED
  BY <1>0, <1>3, <1>4, <1>5

\* By the least day whose book would be wrong.
LEMMA BookSummary ==
  ASSUME NEW trade, IsTrade(trade), NEW closes, IsGrid(closes), NEW cost \in Nat
  PROVE  BookOK(trade, closes, cost, BookedBy(trade, closes, cost), EndOf(closes))
<1> DEFINE n == EndOf(closes)
<1>1. n \in Nat
  BY EndIs
<1>2. PICK g : /\ g[0] = Unbooked
               /\ \A day \in 1 .. n : g[day] = DayBooked(trade, closes, cost, g[day - 1], day - 1)
               /\ BookedBy(trade, closes, cost) = g[n]
  BY BookIs
<1> HIDE DEF n
<1> DEFINE bad == {day \in 0 .. n : ~BookOK(trade, closes, cost, g[day], day)}
<1>3. ASSUME bad # {} PROVE FALSE
  <2>1. bad \subseteq Nat
    BY <1>1
  <2>2. Min(bad) \in bad /\ \A y \in bad : Min(bad) <= y
    <3> HIDE DEF bad
    <3> QED
      BY <1>3, <2>1, LeastNatural
  <2> DEFINE m == Min(bad)
  <2>3. m \in 0 .. n /\ ~BookOK(trade, closes, cost, g[m], m)
    BY <2>2
  <2>4. m # 0 => BookOK(trade, closes, cost, g[m - 1], m - 1)
    <3>1. SUFFICES ASSUME m # 0 PROVE BookOK(trade, closes, cost, g[m - 1], m - 1)
      OBVIOUS
    <3>2. m - 1 \in 0 .. n /\ ~(m <= m - 1)
      <4> HIDE DEF m
      <4> QED
        BY <1>1, <2>3, <3>1
    <3> QED
      BY <2>2, <3>2
  <2> HIDE DEF m, bad
  <2>5. CASE m = 0
    BY <1>2, <2>3, <2>5, NothingBooked
  <2>6. CASE m # 0
    <3>1. m \in 1 .. n /\ m - 1 \in Nat /\ (m - 1) + 1 = m
      BY <1>1, <2>3, <2>6
    <3>2. g[m] = DayBooked(trade, closes, cost, g[m - 1], m - 1)
      BY <1>2, <3>1
    <3>3. BookOK(trade, closes, cost, DayBooked(trade, closes, cost, g[m - 1], m - 1), (m - 1) + 1)
      BY <2>4, <2>6, <3>1, DayBooks
    <3> QED
      BY <2>3, <3>1, <3>2, <3>3
  <2> QED
    BY <2>5, <2>6
<1>4. n \in 0 .. n
  BY <1>1
<1>5. BookOK(trade, closes, cost, g[n], n)
  BY <1>3, <1>4
<1> QED
  BY <1>2, <1>5 DEF n

LEMMA InvTradeIsBookedOnce == WalkInv /\ Priced => TradeIsBookedOnce
<1> SUFFICES ASSUME WalkInv, Priced, HasExit(Trade), NEW held \in DOMAIN daily, ActiveOn(Trade, held),
                    NEW left \in DOMAIN daily, IsPastClose(Trade, left)
             PROVE  LET exit == ValueAt(position.direction, position.price)
                    IN Booked.pnl = exit - Allocation - CostOf(Allocation, SideCost) - CostOf(exit, SideCost)
  BY DEF TradeIsBookedOnce
<1> DEFINE exit == ValueAt(position.direction, position.price)
<1>1. /\ Trade.direction = position.direction /\ Trade.exitPrice = position.price
      /\ Trade.openDay = DayOf(position.openedAt) /\ Trade.closeDay = DayOf(position.closedAt)
  BY DEF Trade
<1>2. IsTrade(Trade)
  <2>1. DayOf(position.openedAt) \in Nat /\ DayOf(position.closedAt) \in Nat
    BY DaySplit DEF WalkInv, Typed, Priced, DayOf
  <2> QED
    BY <1>1, <2>1 DEF IsTrade, Priced
<1>3. IsGrid(Closes) /\ DOMAIN Closes = DOMAIN daily
  BY DEF WalkInv, Typed, IsRows, ShapeType, Prices, IsGrid, Closes
<1>4. SideCost \in Nat
  BY CostAssumption
<1>5. BookOK(Trade, Closes, SideCost, Booked, EndOf(Closes))
  BY <1>2, <1>3, <1>4, BookSummary DEF Booked
<1>6. held \in HeldBefore(Trade, Closes, EndOf(Closes)) /\ left \in LeftBefore(Trade, Closes, EndOf(Closes))
  BY <1>3, EndIs DEF HeldBefore, LeftBefore
<1>7. Booked.entered /\ Booked.charged /\ Booked.realized /\ Booked.value = exit
  BY <1>1, <1>5, <1>6 DEF BookOK
<1>8. Booked.pnl = exit - Allocation - CostOf(Allocation, SideCost) - CostOf(exit, SideCost)
  BY <1>1, <1>5, <1>7 DEF BookOK
<1> QED
  BY <1>8

\* Whenever and at whatever price the position was closed, and whichever days have bars, the curve
\* books it once and in full (backtest/equity.js onEquityReturns).
THEOREM TradeIsBookedOnceHolds == Spec => []TradeIsBookedOnce
<1>1. Spec => []WalkInv
  BY InitWalkInv, NextWalkInv, PTL DEF Spec
<1>2. Spec => [](WalkInv /\ Priced)
  BY <1>1, InitPriced, NextPriced, PTL DEF Spec
<1> QED
  BY <1>2, InvTradeIsBookedOnce, PTL
=============================================================================
