----------------------------- MODULE GapProofs -----------------------------
(***************************************************************************)
(* Proof that the gaps Partition.tla's probe reports are the maximal       *)
(* aligned ranges of free space, for every table a call can come across:   *)
(* blank or full, with spans in any order, touching or nested.             *)
(***************************************************************************)
EXTENDS PartitionProofs, WellFoundedInduction

-----------------------------------------------------------------------------
(* Extreme elements of bounded sets of integers.                           *)

LEMMA LowestExists ==
    ASSUME NEW S \in SUBSET Int, S # {}, NEW b \in Int, \A x \in S : b <= x
    PROVE  \E x \in S : \A y \in S : x <= y
<1> DEFINE T == {x - b : x \in S}
<1>1. T \subseteq Nat
    <2> SUFFICES ASSUME NEW x \in S
                 PROVE  x - b \in Nat
        OBVIOUS
    <2>1. x \in Int /\ b <= x
        OBVIOUS
    <2> QED BY <2>1
<1>2. T # {} /\ \A y \in S : y - b \in T
    OBVIOUS
<1>3. PICK m \in T : \A y \in T : ~ (<<y, m>> \in OpToRel(<, Nat))
    <2> HIDE DEF T
    <2> QED BY <1>1, <1>2, WFMin, NatLessThanWellFounded
<1>4. ASSUME NEW y \in T
      PROVE  m <= y
    <2> HIDE DEF T
    <2>1. m \in Nat /\ y \in Nat
        BY <1>1
    <2>2. ~ (y < m)
        <3>1. <<y, m>> \in Nat \X Nat
            BY <2>1
        <3> QED BY <1>3, <3>1 DEF OpToRel
    <2> QED BY <2>1, <2>2
<1>5. PICK x \in S : m = x - b
    BY <1>3
<1>6. ASSUME NEW y \in S
      PROVE  x <= y
    <2>1. m <= y - b
        BY <1>2, <1>4
    <2>2. x \in Int /\ y \in Int
        OBVIOUS
    <2> QED BY <1>5, <2>1, <2>2
<1> QED BY <1>6

LEMMA HighestIsMax ==
    ASSUME NEW S \in SUBSET Int, S # {}, NEW b \in Int, \A x \in S : x <= b
    PROVE  Highest(S) \in S /\ \A y \in S : y <= Highest(S)
<1> DEFINE T == {-x : x \in S}
<1>1. T \in SUBSET Int /\ T # {}
    <2>1. \A x \in S : x \in Int
        OBVIOUS
    <2>2. \A x \in S : -x \in Int
        BY <2>1
    <2> QED BY <2>2
<1>2. \A t \in T : -b <= t
    <2> SUFFICES ASSUME NEW t \in T
                 PROVE  -b <= t
        OBVIOUS
    <2>1. PICK x \in S : t = -x
        OBVIOUS
    <2>2. x \in Int /\ x <= b
        OBVIOUS
    <2> QED BY <2>1, <2>2
<1>3. -b \in Int
    OBVIOUS
<1>4. PICK m \in T : \A y \in T : m <= y
    <2> HIDE DEF T
    <2> QED BY <1>1, <1>2, <1>3, LowestExists
<1>5. PICK x \in S : m = -x
    BY <1>4
<1>6. ASSUME NEW y \in S
      PROVE  y <= x
    <2>1. m <= -y
        BY <1>4
    <2>2. x \in Int /\ y \in Int
        OBVIOUS
    <2> QED BY <1>5, <2>1, <2>2
<1> QED BY <1>6 DEF Highest

-----------------------------------------------------------------------------
(* Multiples of the alignment.                                             *)

Aligned(x) == x \in Int /\ x % Align = 0

LEMMA AlignIsPositive == Align \in Int /\ Align > 0
BY UnitsAssumption

LEMMA AlignDownIs ==
    ASSUME NEW v \in Int
    PROVE  Aligned(AlignDown(v)) /\ AlignDown(v) <= v /\ v < AlignDown(v) + Align
BY AlignIsPositive, Division DEF AlignDown, Aligned

LEMMA AlignUpIs ==
    ASSUME NEW v \in Int
    PROVE  Aligned(AlignUp(v)) /\ v <= AlignUp(v) /\ AlignUp(v) < v + Align
<1>1. v + Align - 1 \in Int
    BY AlignIsPositive
<1>2. /\ Aligned(AlignUp(v)) /\ AlignUp(v) <= v + Align - 1
      /\ v + Align - 1 < AlignUp(v) + Align
    BY <1>1, AlignDownIs DEF AlignUp
<1> QED BY <1>2, AlignIsPositive DEF Aligned

\* An aligned number is so many times the alignment.
LEMMA AlignedTimes ==
    ASSUME NEW x, Aligned(x)
    PROVE  x \div Align \in Int /\ x = (x \div Align) * Align
BY AlignIsPositive, Division DEF Aligned

LEMMA TimesAligned ==
    ASSUME NEW i \in Int
    PROVE  Aligned(i * Align)
BY AlignIsPositive, SMTT(60) DEF Aligned

LEMMA AlignedStep ==
    ASSUME NEW x, Aligned(x)
    PROVE  Aligned(x + Align) /\ Aligned(x - Align)
<1>1. PICK i \in Int : x = i * Align
    BY AlignedTimes
<1>2. x + Align = (i + 1) * Align /\ x - Align = (i - 1) * Align
    BY <1>1, AlignIsPositive
<1>3. Aligned((i + 1) * Align) /\ Aligned((i - 1) * Align)
    BY TimesAligned
<1> QED BY <1>2, <1>3

\* There is no aligned number between one and the next.
LEMMA AlignedApart ==
    ASSUME NEW x, NEW y, Aligned(x), Aligned(y), x < y
    PROVE  x + Align <= y
<1>1. PICK i \in Int : x = i * Align
    BY AlignedTimes
<1>2. PICK j \in Int : y = j * Align
    BY AlignedTimes
<1>3. Align \in Int /\ Align > 0
    BY AlignIsPositive
<1>4. i < j
    <2> SUFFICES ASSUME j <= i
                 PROVE  FALSE
        OBVIOUS
    <2>1. j * Align <= i * Align
        BY <1>3
    <2>2. i * Align \in Int /\ j * Align \in Int
        BY <1>3
    <2> QED BY <1>1, <1>2, <2>1, <2>2
<1>5. (i + 1) * Align <= j * Align
    <2>1. i + 1 <= j
        BY <1>4
    <2> QED BY <1>3, <2>1
<1>6. (i + 1) * Align = i * Align + Align
    BY <1>3
<1> QED BY <1>1, <1>2, <1>5, <1>6

\* The points at which the definition of a gap looks.
LEMMA PointsAligned ==
    ASSUME NEW x \in AlignedPoints
    PROVE  Aligned(x) /\ First <= x /\ x - Align < End
<1> DEFINE k == (End - First) \div Align
<1>1. PICK i \in 0..k : x = AlignUp(First) + i * Align
    BY DEF AlignedPoints
<1>2. First \in Int /\ End \in Int /\ Align \in Int /\ Align > 0 /\ First < End
    BY UnitsAssumption
<1>3. End - First \in Int
    BY <1>2
<1>4. k \in Int /\ k * Align <= End - First
    BY <1>2, <1>3, Division
<1> HIDE DEF k
<1>5. PICK j \in Int : AlignUp(First) = j * Align
    BY <1>2, AlignUpIs, AlignedTimes
<1>6. AlignUp(First) \in Int /\ First <= AlignUp(First) /\ AlignUp(First) < First + Align
    BY <1>2, AlignUpIs DEF Aligned
<1>7. i \in Int /\ i >= 0 /\ i <= k
    BY <1>4
<1>8. 0 <= i * Align /\ i * Align <= k * Align /\ i * Align \in Int /\ k * Align \in Int
    BY <1>2, <1>4, <1>7
<1>9. j * Align + i * Align = (j + i) * Align
    BY <1>2, <1>7
<1>10. Aligned((j + i) * Align)
    BY <1>7, TimesAligned
<1>11. Aligned(x)
    BY <1>1, <1>5, <1>9, <1>10
<1> QED BY <1>1, <1>2, <1>4, <1>6, <1>8, <1>11

LEMMA AlignedIsPoint ==
    ASSUME NEW x, Aligned(x), First <= x, x <= End
    PROVE  x \in AlignedPoints
<1> DEFINE f == AlignUp(First)
           k == (End - First) \div Align
<1>1. First \in Int /\ End \in Int /\ Align \in Int /\ Align > 0 /\ x \in Int
    BY UnitsAssumption DEF Aligned
<1>2. Aligned(f) /\ First <= f /\ f < First + Align /\ f \in Int
    BY <1>1, AlignUpIs DEF Aligned
<1>3. End - First \in Int
    BY <1>1
<1>4. k \in Int /\ End - First < k * Align + Align
    BY <1>1, <1>3, Division
<1> HIDE DEF f, k
<1>5. f <= x
    <2> SUFFICES ASSUME x < f
                 PROVE  FALSE
        BY <1>1, <1>2
    <2>1. x + Align <= f
        BY <1>2, AlignedApart
    <2> QED BY <1>1, <1>2, <2>1
<1>6. PICK i \in Int, j \in Int : x = i * Align /\ f = j * Align
    BY <1>2, AlignedTimes
<1>7. x = f + (i - j) * Align
    BY <1>1, <1>6
<1>8. (i - j) * Align \in Int /\ 0 <= (i - j) * Align /\ (i - j) * Align < k * Align + Align
    <2>1. (i - j) * Align \in Int
        BY <1>1
    <2> QED BY <1>1, <1>2, <1>4, <1>5, <1>7, <2>1
<1>9. PICK m \in Int : m = i - j
    OBVIOUS
<1>10. 0 <= m
    <2> SUFFICES ASSUME m + 1 <= 0
                 PROVE  FALSE
        OBVIOUS
    <2>1. (m + 1) * Align <= 0 * Align
        BY <1>1
    <2>2. (m + 1) * Align = m * Align + Align
        BY <1>1
    <2> QED BY <1>1, <1>8, <1>9, <2>1, <2>2
<1>11. m <= k
    <2> SUFFICES ASSUME k + 1 <= m
                 PROVE  FALSE
        BY <1>4
    <2>1. (k + 1) * Align <= m * Align
        BY <1>1, <1>4
    <2>2. (k + 1) * Align = k * Align + Align
        BY <1>1, <1>4
    <2> QED BY <1>1, <1>4, <1>8, <1>9, <2>1, <2>2
<1> QED BY <1>7, <1>9, <1>10, <1>11 DEF AlignedPoints, f, k

-----------------------------------------------------------------------------
(* The gaps of one table.                                                  *)

\* The partitions are not empty, and end where the usable range does or before.
\* They may begin before it, touch, overlap and nest.
Contained(t) ==
    \A n \in DOMAIN t : /\ t[n].start \in Int /\ t[n].size \in Int
                        /\ t[n].size > 0 /\ EndOf(t[n]) <= End

LEMMA SpanContained ==
    ASSUME NEW t, Contained(t), NEW p \in Spans(t)
    PROVE  /\ p.start \in Int /\ p.size \in Int /\ EndOf(p) \in Int
           /\ p.start < EndOf(p) /\ EndOf(p) <= End
<1>1. PICK n \in DOMAIN t : p = t[n]
    BY DEF Spans
<1>2. p.start \in Int /\ p.size \in Int /\ p.size > 0 /\ EndOf(p) <= End
    BY <1>1 DEF Contained
<1> QED BY <1>2 DEF EndOf

\* compute_gaps's cursor is the highest end so far, and not below firstlba.
LEMMA CursorIsHighest ==
    ASSUME NEW t, Contained(t), NEW ps \in SUBSET Spans(t)
    PROVE  /\ CursorAt(t, ps) \in Int /\ First <= CursorAt(t, ps)
           /\ \A p \in ps : EndOf(p) <= CursorAt(t, ps)
           /\ CursorAt(t, ps) = First \/ \E p \in ps : CursorAt(t, ps) = EndOf(p)
<1> DEFINE S == {First} \cup {EndOf(p) : p \in ps}
<1>1. First \in Int /\ End \in Int /\ First < End
    BY UnitsAssumption
<1>2. ASSUME NEW x \in S
      PROVE  x \in Int /\ x <= End
    <2>1. CASE x = First
        BY <1>1, <2>1
    <2>2. ASSUME NEW p \in ps, x = EndOf(p)
          PROVE  x \in Int /\ x <= End
        BY <2>2, SpanContained
    <2> QED BY <2>1, <2>2
<1>3. First \in S /\ \A p \in ps : EndOf(p) \in S
    OBVIOUS
<1>4. Highest(S) \in S /\ \A y \in S : y <= Highest(S)
    <2> HIDE DEF S
    <2>1. S \in SUBSET Int /\ S # {}
        BY <1>2, <1>3
    <2> QED BY <1>1, <1>2, <2>1, HighestIsMax
<1>5. CursorAt(t, ps) = Highest(S)
    BY DEF CursorAt
<1>6. Highest(S) = First \/ \E p \in ps : Highest(S) = EndOf(p)
    BY <1>4
<1>7. Highest(S) \in Int
    BY <1>2, <1>4
<1> QED BY <1>3, <1>4, <1>5, <1>6, <1>7

\* Between lo and hi there is nothing, and something or the range's bound at either.
Hole(t, lo, hi) ==
    /\ lo \in Int /\ hi \in Int /\ First <= lo /\ lo < hi /\ hi <= End
    /\ lo = First \/ \E p \in Spans(t) : lo = EndOf(p)
    /\ hi = End \/ \E p \in Spans(t) : hi = p.start
    /\ \A p \in Spans(t) : EndOf(p) <= lo \/ hi <= p.start

LEMMA BeforeIs ==
    ASSUME NEW t, Contained(t), NEW p \in Spans(t), NEW q \in Spans(t)
    PROVE  /\ ~Before(q, p) => p.start <= q.start
           /\ Before(q, p) => q.start <= p.start
BY SpanContained DEF Before

LEMMA RawGapIsHole ==
    ASSUME NEW t, Contained(t), NEW r \in RawGaps(t), r[2] > r[1]
    PROVE  Hole(t, r[1], r[2])
<1>1. End \in Int /\ UsableEnd = End
    BY UnitsAssumption DEF UsableEnd
<1>2. CASE r = <<CursorAt(t, Spans(t)), UsableEnd>>
    <2>1. /\ r[1] \in Int /\ First <= r[1] /\ \A p \in Spans(t) : EndOf(p) <= r[1]
          /\ r[1] = First \/ \E p \in Spans(t) : r[1] = EndOf(p)
        BY <1>2, CursorIsHighest
    <2>2. r[2] = End
        BY <1>1, <1>2
    <2> QED BY <1>1, <2>1, <2>2 DEF Hole
<1>3. ASSUME NEW p \in Spans(t),
             r = <<CursorAt(t, {q \in Spans(t) : Before(q, p)}), p.start>>
      PROVE  Hole(t, r[1], r[2])
    <2> DEFINE ps == {q \in Spans(t) : Before(q, p)}
    <2>1. ps \in SUBSET Spans(t) /\ r[1] = CursorAt(t, ps) /\ r[2] = p.start
        BY <1>3
    <2>2. /\ r[1] \in Int /\ First <= r[1] /\ \A q \in ps : EndOf(q) <= r[1]
          /\ r[1] = First \/ \E q \in ps : r[1] = EndOf(q)
        <3> HIDE DEF ps
        <3> QED BY <2>1, CursorIsHighest
    <2>3. r[2] \in Int /\ r[2] <= End
        BY <1>1, <2>1, SpanContained
    <2>4. ASSUME NEW q \in Spans(t)
          PROVE  EndOf(q) <= r[1] \/ r[2] <= q.start
        <3>1. Before(q, p) => EndOf(q) <= r[1]
            BY <2>2
        <3> QED BY <2>1, <3>1, BeforeIs
    <2> QED BY <2>1, <2>2, <2>3, <2>4 DEF Hole
<1>4. \/ r = <<CursorAt(t, Spans(t)), UsableEnd>>
      \/ \E p \in Spans(t) :
            r = <<CursorAt(t, {q \in Spans(t) : Before(q, p)}), p.start>>
    BY Zenon DEF RawGaps
<1> QED BY <1>2, <1>3, <1>4

\* A gap is a hole without what is not aligned of it.
LEMMA GapIsHole ==
    ASSUME NEW t, Contained(t), NEW g \in Gaps(t)
    PROVE  /\ \E lo, hi \in Int :
                 Hole(t, lo, hi) /\ g = [start |-> AlignUp(lo), end |-> AlignDown(hi)]
           /\ g.start < g.end
<1>1. PICK r \in RawGaps(t) : /\ r[2] > r[1]
                              /\ g = [start |-> AlignUp(r[1]), end |-> AlignDown(r[2])]
    BY DEF Gaps
<1>2. Hole(t, r[1], r[2])
    BY <1>1, RawGapIsHole
<1>3. r[1] \in Int /\ r[2] \in Int
    BY <1>2 DEF Hole
<1>4. g.end > g.start
    BY DEF Gaps
<1>5. g.start \in Int /\ g.end \in Int
    BY <1>1, <1>3, AlignUpIs, AlignDownIs DEF Aligned
<1> QED BY <1>1, <1>2, <1>3, <1>4, <1>5

\* What a user of a gap needs to know of it.
LEMMA GapBounds ==
    ASSUME NEW t, Contained(t), NEW g \in Gaps(t)
    PROVE  /\ Aligned(g.start) /\ Aligned(g.end)
           /\ First <= g.start /\ g.start < g.end /\ g.end <= End
           /\ \A n \in DOMAIN t : EndOf(t[n]) <= g.start \/ g.end <= t[n].start
<1>1. PICK lo \in Int, hi \in Int :
         Hole(t, lo, hi) /\ g = [start |-> AlignUp(lo), end |-> AlignDown(hi)]
    BY GapIsHole
<1>2. /\ Aligned(g.start) /\ lo <= g.start /\ Aligned(g.end) /\ g.end <= hi
    BY <1>1, AlignUpIs, AlignDownIs
<1>3. g.start < g.end
    BY GapIsHole
<1>4. First \in Int /\ End \in Int
    BY UnitsAssumption
<1>5. First <= g.start /\ g.end <= End
    BY <1>1, <1>2, <1>4 DEF Hole, Aligned
<1>6. ASSUME NEW n \in DOMAIN t
      PROVE  EndOf(t[n]) <= g.start \/ g.end <= t[n].start
    <2>1. t[n] \in Spans(t)
        BY DEF Spans
    <2>2. EndOf(t[n]) <= lo \/ hi <= t[n].start
        BY <1>1, <2>1 DEF Hole
    <2>3. EndOf(t[n]) \in Int /\ t[n].start \in Int
        BY <2>1, SpanContained
    <2> QED BY <1>2, <2>2, <2>3 DEF Aligned
<1> QED BY <1>2, <1>3, <1>5, <1>6

-----------------------------------------------------------------------------
(* Gaps are maximal free ranges.                                           *)

\* Nothing is in a range, in terms of partitions.
Clear(t, a, b) ==
    /\ First <= a /\ b <= End
    /\ \A n \in DOMAIN t : EndOf(t[n]) <= a \/ b <= t[n].start

LEMMA FreeUnitIsClear ==
    ASSUME NEW t, NEW a
    PROVE  FreeUnit(t, a) <=> a >= First /\ Clear(t, a, a + Align)
BY DEF FreeUnit, Clear

LEMMA ClearIsFree ==
    ASSUME NEW t, Contained(t), NEW a, NEW b, Aligned(a), Aligned(b), a < b, Clear(t, a, b)
    PROVE  FreeRange(t, a, b)
<1> SUFFICES ASSUME NEW u \in AlignedPoints, a <= u, u < b
             PROVE  FreeUnit(t, u)
    BY DEF FreeRange
<1>1. Aligned(u) /\ u \in Int /\ a \in Int /\ b \in Int /\ First \in Int /\ End \in Int
      /\ Align \in Int
    BY PointsAligned, UnitsAssumption DEF Aligned
<1>2. u + Align <= b
    BY <1>1, AlignedApart
<1>3. u >= First /\ u + Align <= End
    BY <1>1, <1>2 DEF Clear
<1>4. ASSUME NEW n \in DOMAIN t
      PROVE  EndOf(t[n]) <= u \/ u + Align <= t[n].start
    <2>1. EndOf(t[n]) \in Int /\ t[n].start \in Int
        BY SpanContained DEF Spans
    <2>2. EndOf(t[n]) <= a \/ b <= t[n].start
        BY DEF Clear
    <2> QED BY <1>1, <1>2, <2>1, <2>2
<1> QED BY <1>3, <1>4 DEF FreeUnit

\* A partition that reached into the range would be in one of its units.
LEMMA FreeIsClear ==
    ASSUME NEW t, Contained(t), NEW a \in AlignedPoints, NEW b \in AlignedPoints,
           FreeRange(t, a, b)
    PROVE  Clear(t, a, b)
<1>1. /\ Aligned(a) /\ Aligned(b) /\ a \in Int /\ b \in Int /\ First <= a /\ a < b
      /\ b - Align < End /\ First \in Int /\ End \in Int /\ Align \in Int /\ Align > 0
    BY PointsAligned, UnitsAssumption DEF FreeRange, Aligned
<1>2. ASSUME NEW u, Aligned(u), a <= u, u < b
      PROVE  FreeUnit(t, u)
    <2>1. u \in Int /\ u + Align <= b
        BY <1>1, <1>2, AlignedApart DEF Aligned
    <2>2. First <= u /\ u <= End
        BY <1>1, <1>2, <2>1
    <2>3. u \in AlignedPoints
        BY <1>2, <2>2, AlignedIsPoint
    <2> QED BY <1>2, <2>3 DEF FreeRange
<1>3. b <= End
    <2>1. Aligned(b - Align) /\ b - Align < b
        BY <1>1, AlignedStep
    <2>2. a + Align <= b
        BY <1>1, AlignedApart
    <2>3. FreeUnit(t, b - Align)
        BY <1>1, <1>2, <2>1, <2>2
    <2> QED BY <1>1, <2>3 DEF FreeUnit
<1>4. ASSUME NEW n \in DOMAIN t
      PROVE  EndOf(t[n]) <= a \/ b <= t[n].start
    <2>1. PICK s \in Int, e \in Int : s = t[n].start /\ e = EndOf(t[n]) /\ s < e
        BY SpanContained DEF Spans
    <2> SUFFICES ASSUME a < e, s < b
                 PROVE  FALSE
        BY <1>1, <2>1
    <2>2. CASE s <= a
        <3>1. FreeUnit(t, a)
            BY <1>1, <1>2
        <3>2. e <= a \/ a + Align <= s
            BY <2>1, <3>1 DEF FreeUnit
        <3> QED BY <1>1, <2>1, <2>2, <3>2
    <2>3. CASE a < s
        <3> DEFINE u == AlignDown(s)
        <3>1. Aligned(u) /\ u \in Int /\ u <= s /\ s < u + Align
            BY AlignDownIs DEF Aligned
        <3> HIDE DEF u
        <3>2. a <= u
            <4> SUFFICES ASSUME u < a
                         PROVE  FALSE
                BY <1>1, <3>1
            <4>1. u + Align <= a
                BY <1>1, <3>1, AlignedApart
            <4> QED BY <1>1, <2>3, <3>1, <4>1
        <3>3. FreeUnit(t, u)
            BY <1>1, <1>2, <2>1, <3>1, <3>2
        <3>4. e <= u \/ u + Align <= s
            BY <2>1, <3>3 DEF FreeUnit
        <3> QED BY <1>1, <2>1, <3>1, <3>4
    <2> QED BY <1>1, <2>1, <2>2, <2>3
<1> QED BY <1>1, <1>3, <1>4 DEF Clear

\* The bound of a hole keeps a unit that straddles it from being free.
LEMMA HoleEndsThere ==
    ASSUME NEW t, Contained(t), NEW lo, NEW hi, Hole(t, lo, hi)
    PROVE  /\ \A a \in Int : a < lo /\ lo <= a + Align => ~FreeUnit(t, a)
           /\ \A a \in Int : a <= hi /\ hi < a + Align => ~FreeUnit(t, a)
<1>1. lo \in Int /\ hi \in Int /\ First \in Int /\ End \in Int /\ Align \in Int
    BY UnitsAssumption DEF Hole
<1>2. ASSUME NEW a \in Int, a < lo, lo <= a + Align, FreeUnit(t, a)
      PROVE  FALSE
    <2>1. CASE lo = First
        BY <1>1, <1>2, <2>1 DEF FreeUnit
    <2>2. ASSUME NEW p \in Spans(t), lo = EndOf(p)
          PROVE  FALSE
        <3>1. p.start \in Int /\ p.start < lo
            BY <2>2, SpanContained
        <3>2. lo <= a \/ a + Align <= p.start
            BY <1>2, <2>2 DEF FreeUnit, Spans
        <3> QED BY <1>1, <1>2, <3>1, <3>2
    <2> QED BY <2>1, <2>2 DEF Hole
<1>3. ASSUME NEW a \in Int, a <= hi, hi < a + Align, FreeUnit(t, a)
      PROVE  FALSE
    <2>1. CASE hi = End
        BY <1>1, <1>3, <2>1 DEF FreeUnit
    <2>2. ASSUME NEW p \in Spans(t), hi = p.start
          PROVE  FALSE
        <3>1. EndOf(p) \in Int /\ hi < EndOf(p)
            BY <2>2, SpanContained
        <3>2. EndOf(p) <= a \/ a + Align <= hi
            BY <1>3, <2>2 DEF FreeUnit, Spans
        <3> QED BY <1>1, <1>3, <3>1, <3>2
    <2> QED BY <2>1, <2>2 DEF Hole
<1> QED BY <1>2, <1>3

\* A free range that cannot be made longer.
Maximal(t, a, b) == FreeRange(t, a, b) /\ ~FreeUnit(t, a - Align) /\ ~FreeUnit(t, b)

LEMMA GapIsMaximal ==
    ASSUME NEW t, Contained(t), NEW g \in Gaps(t)
    PROVE  /\ g \in [start : AlignedPoints, end : AlignedPoints]
           /\ Maximal(t, g.start, g.end)
<1>1. PICK lo \in Int, hi \in Int :
         Hole(t, lo, hi) /\ g = [start |-> AlignUp(lo), end |-> AlignDown(hi)]
    BY GapIsHole
<1>2. /\ Aligned(g.start) /\ Aligned(g.end)
      /\ First <= g.start /\ g.start < g.end /\ g.end <= End
      /\ \A n \in DOMAIN t : EndOf(t[n]) <= g.start \/ g.end <= t[n].start
    BY GapBounds
<1>3. First \in Int /\ End \in Int /\ Align \in Int /\ Align > 0
      /\ g.start \in Int /\ g.end \in Int
    BY <1>2, UnitsAssumption DEF Aligned
<1>4. g.start \in AlignedPoints /\ g.end \in AlignedPoints
    BY <1>2, <1>3, AlignedIsPoint
<1>5. FreeRange(t, g.start, g.end)
    BY <1>2, ClearIsFree DEF Clear
<1>6. ~FreeUnit(t, g.start - Align)
    <2>1. lo <= g.start /\ g.start < lo + Align
        BY <1>1, AlignUpIs
    <2>2. g.start - Align \in Int /\ g.start - Align < lo /\ lo <= g.start - Align + Align
        BY <1>3, <2>1
    <2> QED BY <1>1, <2>2, HoleEndsThere
<1>7. ~FreeUnit(t, g.end)
    <2>1. g.end <= hi /\ hi < g.end + Align
        BY <1>1, AlignDownIs
    <2> QED BY <1>1, <1>3, <2>1, HoleEndsThere
<1> QED BY <1>1, <1>4, <1>5, <1>6, <1>7 DEF Maximal

\* The first span from a point on, in the order in which compute_gaps sorts them.
LEMMA FirstSpanExists ==
    ASSUME NEW t, Contained(t), NEW A \in SUBSET Spans(t), A # {},
           NEW b \in Int, \A p \in A : b <= p.start
    PROVE  \E p \in A : \A q \in A : ~Before(q, p)
<1> DEFINE starts == {p.start : p \in A}
<1>1. \A p \in A : p.start \in Int /\ p.size \in Int /\ p.size > 0
    <2> TAKE p \in A
    <2>1. p \in Spans(t)
        OBVIOUS
    <2> QED BY <2>1 DEF Spans, Contained
<1>2. starts \in SUBSET Int /\ starts # {} /\ \A s \in starts : b <= s
    BY <1>1
<1>3. PICK s \in starts : \A x \in starts : s <= x
    <2> HIDE DEF starts
    <2> QED BY <1>2, LowestExists
<1> DEFINE ties == {p \in A : p.start = s}
           sizes == {p.size : p \in ties}
<1>4. sizes \in SUBSET Int /\ sizes # {} /\ \A z \in sizes : 0 <= z
    BY <1>1, <1>3
<1>5. PICK z \in sizes : \A x \in sizes : z <= x
    <2>1. 0 \in Int
        OBVIOUS
    <2> HIDE DEF sizes
    <2> QED BY <1>4, <2>1, LowestExists
<1>6. PICK p \in A : p.start = s /\ p.size = z
    BY <1>5
<1>7. ASSUME NEW q \in A
      PROVE  ~Before(q, p)
    <2>1. s <= q.start /\ (q.start = s => z <= q.size)
        BY <1>3, <1>5
    <2> QED BY <1>1, <1>6, <2>1 DEF Before
<1> QED BY <1>6, <1>7

\* Wherever a range is free there is a hole around it.
LEMMA HoleAround ==
    ASSUME NEW t, Contained(t), NEW a \in Int, NEW b \in Int, a < b, Clear(t, a, b)
    PROVE  \E r \in RawGaps(t) : /\ r[1] \in Int /\ r[2] \in Int
                                 /\ r[1] <= a /\ b <= r[2] /\ Clear(t, r[1], r[2])
<1>1. First \in Int /\ End \in Int /\ UsableEnd = End /\ First <= a /\ b <= End
    BY UnitsAssumption DEF UsableEnd, Clear
<1>2. ASSUME NEW p \in Spans(t)
      PROVE  /\ p.start \in Int /\ EndOf(p) \in Int /\ p.start < EndOf(p)
             /\ EndOf(p) <= End
             /\ EndOf(p) <= a \/ b <= p.start
    <2>1. EndOf(p) <= a \/ b <= p.start
        BY DEF Clear, Spans
    <2> QED BY <2>1, SpanContained
<1> DEFINE after == {p \in Spans(t) : b <= p.start}
<1>3. CASE after = {}
    <2> DEFINE c == CursorAt(t, Spans(t))
    <2>1. \A p \in Spans(t) : EndOf(p) <= a
        BY <1>2, <1>3
    <2>2. c \in Int /\ c <= a /\ First <= c /\ \A p \in Spans(t) : EndOf(p) <= c
        BY <1>1, <2>1, CursorIsHighest
    <2>3. <<c, UsableEnd>> \in RawGaps(t)
        BY DEF RawGaps
    <2>4. Clear(t, c, End)
        BY <1>1, <2>2 DEF Clear, Spans
    <2> HIDE DEF c
    <2> QED BY <1>1, <2>2, <2>3, <2>4
<1>4. CASE after # {}
    <2>1. PICK p \in after : \A q \in after : ~Before(q, p)
        <3>1. after \in SUBSET Spans(t) /\ \A q \in after : b <= q.start
            OBVIOUS
        <3> HIDE DEF after
        <3> QED BY <1>4, <3>1, FirstSpanExists
    <2> DEFINE ps == {q \in Spans(t) : Before(q, p)}
               c == CursorAt(t, ps)
    <2>2. \A q \in ps : EndOf(q) <= a
        BY <1>2, <2>1
    <2>3. c \in Int /\ c <= a /\ First <= c /\ \A q \in ps : EndOf(q) <= c
        <3>1. ps \in SUBSET Spans(t)
            OBVIOUS
        <3> HIDE DEF ps
        <3> QED BY <1>1, <2>2, <3>1, CursorIsHighest
    <2>4. p \in Spans(t) /\ <<c, p.start>> \in RawGaps(t)
        BY DEF RawGaps
    <2>5. Clear(t, c, p.start)
        <3>1. p.start <= End
            BY <1>1, <1>2, <2>4
        <3>2. ASSUME NEW q \in Spans(t)
              PROVE  EndOf(q) <= c \/ p.start <= q.start
            BY <2>3, <2>4, BeforeIs
        <3> HIDE DEF c
        <3> QED BY <2>3, <3>1, <3>2 DEF Clear, Spans
    <2>6. b <= p.start /\ p.start \in Int
        BY <1>2, <2>4
    <2> HIDE DEF c
    <2> QED BY <2>3, <2>4, <2>5, <2>6
<1> QED BY <1>3, <1>4

\* A range of which nothing is left out at its ends is a gap.
LEMMA MaximalIsGap ==
    ASSUME NEW t, Contained(t), NEW g \in [start : AlignedPoints, end : AlignedPoints],
           Maximal(t, g.start, g.end)
    PROVE  g \in Gaps(t)
<1>1. PICK a \in Int, b \in Int : a = g.start /\ b = g.end /\ Aligned(a) /\ Aligned(b) /\ a < b
    BY PointsAligned DEF Maximal, FreeRange, Aligned
<1>2. Clear(t, a, b) /\ ~FreeUnit(t, a - Align) /\ ~FreeUnit(t, b)
    BY <1>1, FreeIsClear DEF Maximal
<1>3. PICK r \in RawGaps(t) : /\ r[1] \in Int /\ r[2] \in Int
                              /\ r[1] <= a /\ b <= r[2] /\ Clear(t, r[1], r[2])
    BY <1>1, <1>2, HoleAround
<1>4. PICK lo \in Int, hi \in Int : lo = r[1] /\ hi = r[2]
    BY <1>3
<1>5. Align \in Int /\ Align > 0 /\ First \in Int /\ End \in Int
    BY UnitsAssumption
<1>6. AlignUp(lo) = a
    <2>1. Aligned(AlignUp(lo)) /\ lo <= AlignUp(lo) /\ AlignUp(lo) < lo + Align
          /\ AlignUp(lo) \in Int
        BY AlignUpIs DEF Aligned
    <2>2. AlignUp(lo) <= a
        <3> SUFFICES ASSUME a < AlignUp(lo)
                     PROVE  FALSE
            BY <1>1, <2>1
        <3>1. a + Align <= AlignUp(lo)
            BY <1>1, <2>1, AlignedApart
        <3> QED BY <1>1, <1>3, <1>4, <1>5, <2>1, <3>1
    <2> SUFFICES ASSUME AlignUp(lo) < a
                 PROVE  FALSE
        BY <1>1, <2>1, <2>2
    <2>3. AlignUp(lo) + Align <= a
        BY <1>1, <2>1, AlignedApart
    <2>4. lo <= a - Align /\ a - Align \in Int
        BY <1>1, <1>5, <2>1, <2>3
    <2>5. ASSUME NEW n \in DOMAIN t
          PROVE  EndOf(t[n]) <= a - Align \/ a <= t[n].start
        <3>1. EndOf(t[n]) \in Int /\ t[n].start \in Int /\ t[n].start < EndOf(t[n])
            BY SpanContained DEF Spans
        <3>2. EndOf(t[n]) <= lo \/ hi <= t[n].start
            BY <1>3, <1>4 DEF Clear
        <3> QED BY <1>1, <1>3, <1>4, <2>4, <3>1, <3>2
    <2>6. a - Align >= First /\ a <= End /\ a - Align + Align = a
        BY <1>1, <1>2, <1>3, <1>4, <1>5, <2>4 DEF Clear
    <2>7. FreeUnit(t, a - Align)
        BY <2>5, <2>6 DEF FreeUnit
    <2> QED BY <1>2, <2>7
<1>7. AlignDown(hi) = b
    <2>1. Aligned(AlignDown(hi)) /\ AlignDown(hi) <= hi /\ hi < AlignDown(hi) + Align
          /\ AlignDown(hi) \in Int
        BY AlignDownIs DEF Aligned
    <2>2. b <= AlignDown(hi)
        <3> SUFFICES ASSUME AlignDown(hi) < b
                     PROVE  FALSE
            BY <1>1, <2>1
        <3>1. AlignDown(hi) + Align <= b
            BY <1>1, <2>1, AlignedApart
        <3> QED BY <1>1, <1>3, <1>4, <1>5, <2>1, <3>1
    <2> SUFFICES ASSUME b < AlignDown(hi)
                 PROVE  FALSE
        BY <1>1, <2>1, <2>2
    <2>3. b + Align <= AlignDown(hi)
        BY <1>1, <2>1, AlignedApart
    <2>4. b + Align <= hi
        BY <1>1, <1>5, <2>1, <2>3
    <2>5. ASSUME NEW n \in DOMAIN t
          PROVE  EndOf(t[n]) <= b \/ b + Align <= t[n].start
        <3>1. EndOf(t[n]) \in Int /\ t[n].start \in Int
            BY SpanContained DEF Spans
        <3>2. EndOf(t[n]) <= lo \/ hi <= t[n].start
            BY <1>3, <1>4 DEF Clear
        <3> QED BY <1>1, <1>3, <1>4, <1>5, <2>4, <3>1, <3>2
    <2>6. b >= First /\ b + Align <= End
        BY <1>1, <1>2, <1>3, <1>4, <1>5, <2>4 DEF Clear
    <2>7. FreeUnit(t, b)
        BY <2>5, <2>6 DEF FreeUnit
    <2> QED BY <1>2, <2>7
<1>8. g = [start |-> AlignUp(r[1]), end |-> AlignDown(r[2])]
    BY <1>1, <1>4, <1>6, <1>7
<1>9. r[2] > r[1] /\ g.end > g.start
    BY <1>1, <1>3
<1> QED BY <1>3, <1>8, <1>9 DEF Gaps

LEMMA ContainedGapsExact ==
    ASSUME Contained(table)
    PROVE  GapsExact
<1>1. \A g : g \in Gaps(table) <=>
         /\ g \in [start : AlignedPoints, end : AlignedPoints]
         /\ Maximal(table, g.start, g.end)
    BY GapIsMaximal, MaximalIsGap
<1> QED BY <1>1 DEF GapsExact, Maximal

-----------------------------------------------------------------------------
(* The tables a call comes across.                                         *)

\* A line that sfdisk accepts, and a partition that keeps its place.
LEMMA AppendContained ==
    ASSUME Contained(table), NEW lines \in SUBSET RawLines, Fits(lines),
           NEW slot \in [lines -> Numbers \ DOMAIN table], AppendLines(lines, slot)
    PROVE  Contained(table)'
<1> SUFFICES ASSUME NEW n \in DOMAIN table'
             PROVE  /\ table'[n].start \in Int /\ table'[n].size \in Int
                    /\ table'[n].size > 0 /\ EndOf(table'[n]) <= End
    BY DEF Contained
<1>1. CASE n \in DOMAIN table
    BY <1>1, AppendEffect DEF Contained
<1>2. CASE n \notin DOMAIN table
    <2>1. table'[n] \in lines
        BY <1>2, AppendEffect
    <2> QED BY <2>1 DEF Fits, RawLines
<1> QED BY <1>1, <1>2

LEMMA PlacesContained ==
    ASSUME Contained(table), DOMAIN table' \subseteq DOMAIN table,
           \A n \in DOMAIN table' : /\ table'[n].start = table[n].start
                                    /\ table'[n].size = table[n].size
    PROVE  Contained(table)'
BY DEF Contained, EndOf

LEMMA ErasedContained ==
    ASSUME Erase
    PROVE  Contained(table)'
<1> DEFINE a == AlignUp(First)
           z == AlignDown(End)
<1>1. First \in Int /\ End \in Int /\ EspBytes \in Int /\ EspBytes > 0
      /\ BootBytes \in Int /\ BootBytes > 0
    BY UnitsAssumption
<1>2. a \in Int /\ z \in Int /\ z <= End
    BY <1>1, AlignUpIs, AlignDownIs DEF Aligned
<1>3. EraseRoot = a + EspBytes + BootBytes /\ EraseRoot < z
    BY DEF Erase, EraseRoot
<1>4. /\ DOMAIN table' = 1..3
      /\ table'[1] = Created(a, EspBytes, "esp")
      /\ table'[2] = Created(a + EspBytes, BootBytes, "other")
      /\ table'[3] = Created(EraseRoot, z - EraseRoot, "other")
    BY DEF Erase
<1> HIDE DEF a, z
<1>5. ASSUME NEW n \in DOMAIN table'
      PROVE  /\ table'[n].start \in Int /\ table'[n].size \in Int
             /\ table'[n].size > 0 /\ EndOf(table'[n]) <= End
    <2>1. n = 1 \/ n = 2 \/ n = 3
        BY <1>4
    <2>2. CASE n = 1
        <3>1. table'[n].start = a /\ table'[n].size = EspBytes
            BY <1>4, <2>2 DEF Created
        <3> QED BY <1>1, <1>2, <1>3, <3>1 DEF EndOf
    <2>3. CASE n = 2
        <3>1. table'[n].start = a + EspBytes /\ table'[n].size = BootBytes
            BY <1>4, <2>3 DEF Created
        <3> QED BY <1>1, <1>2, <1>3, <3>1 DEF EndOf
    <2>4. CASE n = 3
        <3>1. table'[n].start = EraseRoot /\ table'[n].size = z - EraseRoot
            BY <1>4, <2>4 DEF Created
        <3> QED BY <1>1, <1>2, <1>3, <3>1 DEF EndOf
    <2> QED BY <2>1, <2>2, <2>3, <2>4
<1> QED BY <1>5 DEF Contained

LEMMA ContainedInit == Init => Contained(table)
<1> SUFFICES ASSUME Init, NEW n \in DOMAIN table
             PROVE  /\ table[n].start \in Int /\ table[n].size \in Int
                    /\ table[n].size > 0 /\ EndOf(table[n]) <= End
    BY DEF Contained
<1>1. table[n] \in Parts /\ table[n].size > 0 /\ table[n].start + table[n].size <= End
    BY TablesAssumption DEF Init
<1>2. table[n].start \in Bytes /\ table[n].size \in Bytes
    BY <1>1 DEF Parts
<1> QED BY <1>1, <1>2, BytesAreIntegers DEF EndOf

LEMMA ContainedNext ==
    ASSUME Typed, Contained(table), [Next]_vars
    PROVE  Contained(table)'
<1>1. CASE UNCHANGED table
    BY <1>1, PlacesContained
<1>2. CASE Erase
    BY <1>2, ErasedContained
<1>3. CASE StampErased
    BY <1>3, PlacesContained DEF StampErased, Typed, Parts
<1>4. CASE AppendFree
    BY <1>4, FreeLinesTyped, AppendContained DEF AppendFree
<1>5. CASE DeletePartitions
    BY <1>5, PlacesContained DEF DeletePartitions
<1>6. CASE AppendCustom
    <2>1. CASE Creates = {}
        BY <1>1, <1>6, <2>1 DEF AppendCustom
    <2>2. CASE Creates # {}
        BY <1>6, <2>2, CreateLinesTyped, AppendContained DEF AppendCustom
    <2> QED BY <2>1, <2>2
<1>7. CASE UseAsRoot
    BY <1>7, PlacesContained DEF UseAsRoot, RootUsable, Typed, Parts
<1>8. CASE UseAsEsp
    BY <1>8, PlacesContained DEF UseAsEsp, EspUsable, Typed, Parts
<1>9. CASE CommandFails
    <2>1. CASE table' = <<>>
        BY <2>1 DEF Contained
    <2>2. CASE AtUse("useRoot") /\ RootUsable
               /\ table' = [table EXCEPT ![Action.dev].type = "root"]
        BY <2>2, PlacesContained DEF RootUsable, Typed, Parts
    <2>3. CASE AtUse("useEsp") /\ EspUsable
               /\ table' = [table EXCEPT ![Action.dev].type = "esp"]
        BY <2>3, PlacesContained DEF EspUsable, Typed, Parts
    <2> QED BY <1>1, <1>9, <2>1, <2>2, <2>3 DEF CommandFails, FailsLeaving
<1>10. CASE UNCHANGED vars
    BY <1>1, <1>10 DEF vars
<1>11. CASE Start \/ RefuseFree \/ ResolveFree \/ RefuseDeletes \/ RefuseCreates
            \/ ResolveCreated
    BY <1>1, <1>11 DEF Start, RefuseFree, ResolveFree, RefuseDeletes, RefuseCreates,
                       ResolveCreated, Refuse
<1>12. CASE SkipAction \/ RefuseUse \/ Finish \/ CommandRefuses
    BY <1>1, <1>12 DEF SkipAction, RefuseUse, Finish, CommandRefuses, Refuse
<1> QED
    BY <1>2, <1>3, <1>4, <1>5, <1>6, <1>7, <1>8, <1>9, <1>10, <1>11, <1>12 DEF Next

\* On every disk that a call finds, and after each of its commands, the gaps that
\* the probe would report are the maximal aligned ranges of free space: what the
\* range checks of free_space and custom let through overlaps no partition, and
\* nothing that is free is withheld.
THEOREM GapsAreExact == Spec => []GapsExact
<1>1. Init => Contained(table)
    BY ContainedInit
<1>2. PlanInv /\ Contained(table) /\ [Next]_vars => Contained(table)'
    BY ContainedNext DEF PlanInv
<1>3. Contained(table) => GapsExact
    BY ContainedGapsExact
<1> QED BY PlanInvHolds, <1>1, <1>2, <1>3, PTL DEF Spec

=============================================================================
