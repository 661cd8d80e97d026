-------------------------- MODULE VariableRateProofs --------------------------
(***************************************************************************)
(* Variable-rate streams for every list of segments and every sequence of  *)
(* claims: both definitions of the claimable amount are the sum of the     *)
(* rates ledger by ledger, what was paid is what has vested, and the vault *)
(* holds what is still owed.                                               *)
(***************************************************************************)
EXTENDS VariableRateStream, FoldTheorems, SequenceTheorems, TLAPS

-----------------------------------------------------------------------------
(* The segments of a stream cut its ledgers into intervals.                *)

\* Where segment k ends, and where the first one starts.
EndOf(segments, start, k) == IF k = 0 THEN start ELSE segments[k].end

\* What ValidSegments guarantees.
Ascending(segments, start) ==
    /\ Len(segments) \in Nat \ {0}
    /\ \A k \in 0..Len(segments) : EndOf(segments, start, k) \in Nat
    /\ \A k \in 1..Len(segments) :
         /\ EndOf(segments, start, k - 1) < EndOf(segments, start, k)
         /\ segments[k].rate \in Nat

LEMMA ValidAscends ==
    ASSUME NEW segments \in Seq(Segment), NEW start \in Nat, ValidSegments(segments, start)
    PROVE  Ascending(segments, start)
<1>1. Len(segments) \in Nat /\ Len(segments) # 0 /\ DOMAIN segments = 1..Len(segments)
  BY DEF ValidSegments
<1>2. \A k \in 1..Len(segments) : segments[k].end \in Nat /\ segments[k].rate \in Nat
  <2>1. \A k \in 1..Len(segments) : segments[k] \in Segment
    OBVIOUS
  <2>2. \A g \in Segment : g.end \in Nat /\ g.rate \in Nat
    BY LedgerAssumption DEF Segment
  <2>3. QED BY <2>1, <2>2
<1>3. \A k \in 0..Len(segments) : EndOf(segments, start, k) \in Nat
  BY <1>1, <1>2 DEF EndOf
<1>4. ASSUME NEW k \in 1..Len(segments)
      PROVE  EndOf(segments, start, k - 1) < EndOf(segments, start, k)
  <2>1. segments[k].end > (IF k = 1 THEN start ELSE segments[k - 1].end)
    BY <1>1 DEF ValidSegments
  <2>2. QED BY <1>1, <1>2, <1>3, <2>1 DEF EndOf
<1>5. QED BY <1>1, <1>2, <1>3, <1>4 DEF Ascending

\* Later segments end later.
LEMMA EndsOrdered ==
    ASSUME NEW segments, NEW start, Ascending(segments, start)
    PROVE  \A j \in 0..Len(segments) : \A i \in 0..j :
              EndOf(segments, start, i) <= EndOf(segments, start, j)
<1> DEFINE E(k) == EndOf(segments, start, k)
           n == Len(segments)
           T == {j \in Nat : j <= n => \A i \in 0..j : E(i) <= E(j)}
<1>0. n \in Nat /\ (\A k \in 0..n : E(k) \in Nat) /\ \A k \in 1..n : E(k - 1) < E(k)
  BY DEF Ascending
<1> HIDE DEF E, n
<1>1. 0 \in T
  BY <1>0
<1>2. ASSUME NEW j \in Nat, j \in T PROVE j + 1 \in T
  <2> SUFFICES ASSUME j + 1 <= n, NEW i \in 0..(j + 1) PROVE E(i) <= E(j + 1)
    OBVIOUS
  <2>1. j + 1 \in 1..n /\ j \in 0..n /\ i \in 0..n
    BY <1>0
  <2>2. E(j) < E(j + 1) /\ E(j) \in Nat /\ E(j + 1) \in Nat /\ E(i) \in Nat
    BY <1>0, <2>1
  <2>3. CASE i = j + 1
    BY <2>2, <2>3
  <2>4. CASE i # j + 1
    <3>1. i \in 0..j
      BY <2>4
    <3>2. E(i) <= E(j)
      BY <1>0, <1>2, <2>1, <3>1
    <3>3. QED BY <2>2, <3>2
  <2>5. QED BY <2>3, <2>4
<1>3. \A j \in Nat : j \in T
  BY <1>1, <1>2, Induction
<1>4. QED BY <1>0, <1>3 DEF E, n

\* The rate in force inside segment k is that of segment k.
LEMMA RateInside ==
    ASSUME NEW segments \in Seq(Segment), NEW start \in Nat, Ascending(segments, start),
           NEW k \in 1..Len(segments), NEW l \in Nat,
           EndOf(segments, start, k - 1) <= l, l < segments[k].end
    PROVE  RateAt(segments, l) = segments[k].rate
<1> DEFINE P(i) == /\ segments[i].end > l
                   /\ \A j \in 1..(i - 1) : segments[j].end <= l
<1>0. Len(segments) \in Nat /\ DOMAIN segments = 1..Len(segments)
  OBVIOUS
<1>1. \A i \in DOMAIN segments : segments[i].end \in Nat
  BY <1>0 DEF Ascending, EndOf
<1>2. \A j \in 1..(k - 1) : segments[j].end <= l
  <2> SUFFICES ASSUME NEW j \in 1..(k - 1) PROVE segments[j].end <= l
    OBVIOUS
  <2>1. k - 1 \in 0..Len(segments) /\ j \in 0..(k - 1) /\ k - 1 # 0 /\ j # 0
        /\ j \in DOMAIN segments /\ k - 1 \in DOMAIN segments
    BY <1>0
  <2>2. EndOf(segments, start, j) <= EndOf(segments, start, k - 1)
    BY <2>1, EndsOrdered
  <2>3. segments[j].end <= segments[k - 1].end /\ segments[k - 1].end <= l
    BY <2>1, <2>2 DEF EndOf
  <2>4. QED BY <1>1, <2>1, <2>3
<1>3. k \in DOMAIN segments /\ P(k)
  BY <1>0, <1>1, <1>2
<1>4. ASSUME NEW i \in DOMAIN segments, P(i) PROVE i = k
  <2>1. ~(i < k)
    <3>1. i < k => i \in 1..(k - 1)
      BY <1>0
    <3>2. QED BY <1>1, <1>2, <1>4, <3>1
  <2>2. ~(k < i)
    <3>1. k < i => k \in 1..(i - 1)
      BY <1>0
    <3>2. QED BY <1>1, <1>3, <1>4, <3>1
  <2>3. QED BY <1>0, <2>1, <2>2
<1> HIDE DEF P
<1>5. (CHOOSE i \in DOMAIN segments : P(i)) = k
  BY <1>3, <1>4
<1>6. QED BY <1>5 DEF RateAt, P

\* Every ledger of the stream is inside a segment.
LEMMA LedgerInside ==
    ASSUME NEW segments \in Seq(Segment), NEW start \in Nat, Ascending(segments, start),
           NEW l \in Nat, start <= l, l < segments[Len(segments)].end
    PROVE  \E k \in 1..Len(segments) :
              EndOf(segments, start, k - 1) <= l /\ l < segments[k].end
<1> DEFINE E(k) == EndOf(segments, start, k)
           n == Len(segments)
           T == {m \in Nat : m <= n /\ l < E(m) =>
                    \E k \in 1..n : E(k - 1) <= l /\ l < E(k)}
<1>0. n \in Nat /\ n # 0 /\ (\A k \in 0..n : E(k) \in Nat) /\ E(0) = start
      /\ \A k \in 1..n : E(k) = segments[k].end
  BY DEF Ascending, EndOf
<1> HIDE DEF E, n
<1>1. 0 \in T
  BY <1>0
<1>2. ASSUME NEW m \in Nat, m \in T PROVE m + 1 \in T
  <2> SUFFICES ASSUME m + 1 <= n, l < E(m + 1)
               PROVE  \E k \in 1..n : E(k - 1) <= l /\ l < E(k)
    OBVIOUS
  <2>1. m + 1 \in 1..n /\ m \in 0..n /\ E(m) \in Nat /\ (m + 1) - 1 = m /\ m <= n
    BY <1>0
  <2>2. CASE l < E(m)
    BY <1>2, <2>1, <2>2
  <2>3. CASE E(m) <= l
    <3>1. E((m + 1) - 1) <= l
      BY <2>1, <2>3
    <3>2. QED BY <2>1, <3>1
  <2>4. QED BY <2>1, <2>2, <2>3
<1>3. n \in T
  BY <1>0, <1>1, <1>2, Induction
<1>4. n \in 1..n /\ n <= n
  BY <1>0
<1>5. l < E(n)
  BY <1>0, <1>4 DEF n
<1>6. PICK k \in 1..n : E(k - 1) <= l /\ l < E(k)
  BY <1>3, <1>4, <1>5
<1>7. l < segments[k].end
  BY <1>0, <1>6
<1>8. QED BY <1>6, <1>7 DEF E, n

-----------------------------------------------------------------------------
(* Sums of rates.                                                          *)

\* Every ledger from lo to hi has a rate.
Rated(segments, lo, hi) ==
    lo \in Nat /\ hi \in Nat /\ \A l \in lo..(hi - 1) : RateAt(segments, l) \in Nat

LEMMA StreamRated ==
    ASSUME NEW segments \in Seq(Segment), NEW start \in Nat, Ascending(segments, start)
    PROVE  Rated(segments, start, segments[Len(segments)].end)
<1>1. segments[Len(segments)].end \in Nat
  BY DEF Ascending, EndOf
<1>2. ASSUME NEW l \in start..(segments[Len(segments)].end - 1)
      PROVE  RateAt(segments, l) \in Nat
  <2>1. l \in Nat /\ start <= l /\ l < segments[Len(segments)].end
    BY <1>1
  <2>2. PICK k \in 1..Len(segments) : EndOf(segments, start, k - 1) <= l /\ l < segments[k].end
    BY <2>1, LedgerInside
  <2>3. RateAt(segments, l) = segments[k].rate
    BY <2>1, <2>2, RateInside
  <2>4. QED BY <2>3 DEF Ascending
<1>3. QED BY <1>1, <1>2 DEF Rated

RatesOf(segments, a, b) == [l \in a..(b - 1) |-> RateAt(segments, l)]

LEMMA RatesType ==
    ASSUME NEW segments, NEW lo, NEW hi, Rated(segments, lo, hi),
           NEW a \in lo..hi, NEW b \in a..hi
    PROVE  /\ RatesOf(segments, a, b) \in [a..(b - 1) -> Int]
           /\ IsFiniteSet(a..(b - 1))
           /\ VestedBetween(segments, a, b) \in Int
<1>1. lo \in Nat /\ hi \in Nat /\ a \in Nat /\ b \in Nat
  BY DEF Rated
<1>2. \A l \in a..(b - 1) : l \in lo..(hi - 1)
  BY <1>1
<1>3. \A l \in a..(b - 1) : RateAt(segments, l) \in Int
  BY <1>2 DEF Rated
<1>4. RatesOf(segments, a, b) \in [a..(b - 1) -> Int]
  BY <1>3 DEF RatesOf
<1>5. IsFiniteSet(a..(b - 1))
  BY <1>1, FS_Interval
<1>6. SumFunction(RatesOf(segments, a, b)) \in Int
  BY <1>4, <1>5, SumType
<1>7. QED BY <1>4, <1>5, <1>6 DEF VestedBetween, RatesOf

LEMMA VestedNone ==
    ASSUME NEW segments, NEW lo, NEW hi, Rated(segments, lo, hi), NEW a \in lo..hi
    PROVE  VestedBetween(segments, a, a) = 0
<1> DEFINE v == RatesOf(segments, a, a)
<1>1. a \in Nat /\ a \in a..hi
  BY DEF Rated
<1>2. a..(a - 1) = {}
  BY <1>1
<1>3. v \in [{} -> Int] /\ DOMAIN v = {}
  BY <1>2 DEF RatesOf
<1> HIDE DEF v
<1>4. SumFunction(v) = 0
  BY <1>3, SumEmpty
<1>5. QED BY <1>4 DEF VestedBetween, RatesOf, v

LEMMA VestedNext ==
    ASSUME NEW segments, NEW lo, NEW hi, Rated(segments, lo, hi),
           NEW a \in lo..hi, NEW b \in a..hi, b < hi
    PROVE  /\ VestedBetween(segments, a, b + 1)
                = VestedBetween(segments, a, b) + RateAt(segments, b)
           /\ RateAt(segments, b) \in Nat
<1> DEFINE u == RatesOf(segments, a, b)
           v == RatesOf(segments, a, b + 1)
           S == a..(b - 1)
<1>1. lo \in Nat /\ hi \in Nat /\ a \in Nat /\ b \in Nat /\ b + 1 \in a..hi /\ b \in lo..(hi - 1)
  BY DEF Rated
<1>2. S \cup {b} = a..((b + 1) - 1) /\ b \notin S
  BY <1>1
<1>3. u \in [S -> Int] /\ IsFiniteSet(S)
  BY RatesType
<1>4. v \in [S \cup {b} -> Int]
  <2>1. v \in [a..((b + 1) - 1) -> Int]
    BY <1>1, RatesType
  <2> HIDE DEF v, S
  <2>2. QED BY <1>2, <2>1
<1>5. (\A y \in S : u[y] = v[y]) /\ v[b] = RateAt(segments, b)
  BY <1>2 DEF RatesOf
<1>6. MoreBy(v, u, S, b)
  BY <1>3, <1>4, <1>5 DEF MoreBy
<1> HIDE DEF u, v, S
<1>7. SumFunction(v) = SumFunction(u) + v[b]
  BY <1>2, <1>3, <1>6, SumAdd
<1>8. RateAt(segments, b) \in Nat
  BY <1>1 DEF Rated
<1>9. QED BY <1>5, <1>7, <1>8 DEF VestedBetween, RatesOf, u, v

\* Two intervals that meet vest what the whole does.
LEMMA VestedSplit ==
    ASSUME NEW segments, NEW lo, NEW hi, Rated(segments, lo, hi),
           NEW a \in lo..hi, NEW b \in a..hi, NEW c \in b..hi
    PROVE  VestedBetween(segments, a, c)
             = VestedBetween(segments, a, b) + VestedBetween(segments, b, c)
<1> DEFINE V(x, y) == VestedBetween(segments, x, y)
           T == {m \in Nat : b + m <= hi => V(a, b + m) = V(a, b) + V(b, b + m)}
<1>0. lo \in Nat /\ hi \in Nat /\ a \in Nat /\ b \in Nat /\ c \in Nat /\ b \in lo..hi
      /\ a <= b /\ b <= c /\ c <= hi
  BY DEF Rated
<1>1. ASSUME NEW x \in lo..hi, NEW y \in x..hi PROVE V(x, y) \in Int
  BY RatesType
<1>2. V(b, b) = 0
  BY <1>0, VestedNone
<1>3. ASSUME NEW x \in lo..hi, NEW y \in x..hi, y < hi
      PROVE  V(x, y + 1) = V(x, y) + RateAt(segments, y) /\ RateAt(segments, y) \in Nat
  BY <1>3, VestedNext
<1> HIDE DEF V
<1>4. 0 \in T
  <2>1. V(a, b) \in Int /\ b + 0 = b
    BY <1>0, <1>1
  <2>2. V(a, b + 0) = V(a, b) + V(b, b + 0)
    BY <1>2, <2>1
  <2>3. QED BY <2>2
<1>5. ASSUME NEW m \in Nat, m \in T PROVE m + 1 \in T
  <2> SUFFICES ASSUME b + (m + 1) <= hi PROVE V(a, b + (m + 1)) = V(a, b) + V(b, b + (m + 1))
    OBVIOUS
  <2> DEFINE y == b + m
  <2>1. y \in Nat /\ y < hi /\ y <= hi /\ y \in a..hi /\ y \in b..hi /\ b + (m + 1) = y + 1
    BY <1>0
  <2>2. V(a, y) = V(a, b) + V(b, y)
    BY <1>5, <2>1
  <2> HIDE DEF y
  <2>3. V(a, y + 1) = V(a, y) + RateAt(segments, y) /\ RateAt(segments, y) \in Nat
    BY <1>0, <1>3, <2>1
  <2>4. V(b, y + 1) = V(b, y) + RateAt(segments, y)
    BY <1>0, <1>3, <2>1
  <2>5. V(a, b) \in Int /\ V(b, y) \in Int
    BY <1>0, <1>1, <2>1
  <2>6. V(a, y + 1) = V(a, b) + V(b, y + 1)
    BY <2>2, <2>3, <2>4, <2>5
  <2>7. QED BY <2>1, <2>6
<1>6. c - b \in Nat /\ b + (c - b) = c
  BY <1>0
<1>7. c - b \in T
  BY <1>4, <1>5, <1>6, Induction
<1>8. V(a, c) = V(a, b) + V(b, c)
  BY <1>0, <1>6, <1>7
<1>9. QED BY <1>8 DEF V

\* Where the rate is constant the sum is a product.
Flat(segments, a, b, rate) == \A l \in a..(b - 1) : RateAt(segments, l) = rate

LEMMA VestedFlat ==
    ASSUME NEW segments, NEW lo, NEW hi, Rated(segments, lo, hi),
           NEW a \in lo..hi, NEW b \in a..hi, NEW rate \in Nat, Flat(segments, a, b, rate)
    PROVE  VestedBetween(segments, a, b) = (b - a) * rate
<1> DEFINE V(x, y) == VestedBetween(segments, x, y)
           T == {m \in Nat : a + m <= b => V(a, a + m) = m * rate}
<1>0. lo \in Nat /\ hi \in Nat /\ a \in Nat /\ b \in Nat /\ a <= b /\ b <= hi
  BY DEF Rated
<1>2. V(a, a) = 0
  BY <1>0, VestedNone
<1>3. ASSUME NEW y \in a..hi, y < hi
      PROVE  V(a, y + 1) = V(a, y) + RateAt(segments, y)
  BY <1>3, VestedNext
<1> HIDE DEF V
<1>4. 0 \in T
  <2>1. a + 0 = a /\ 0 * rate = 0
    BY <1>0
  <2>2. QED BY <1>2, <2>1
<1>5. ASSUME NEW m \in Nat, m \in T PROVE m + 1 \in T
  <2> SUFFICES ASSUME a + (m + 1) <= b PROVE V(a, a + (m + 1)) = (m + 1) * rate
    OBVIOUS
  <2> DEFINE y == a + m
  <2>1. y \in a..hi /\ y < hi /\ y <= b /\ y \in a..(b - 1) /\ a + (m + 1) = y + 1
    BY <1>0
  <2>2. V(a, y) = m * rate
    BY <1>5, <2>1
  <2> HIDE DEF y
  <2>3. V(a, y + 1) = V(a, y) + rate
    BY <1>3, <2>1 DEF Flat
  <2>4. (m + 1) * rate = m * rate + rate
    OBVIOUS
  <2>5. QED BY <2>1, <2>2, <2>3, <2>4
<1>6. b - a \in Nat /\ a + (b - a) = b
  BY <1>0
<1>7. b - a \in T
  BY <1>4, <1>5, <1>6, Induction
<1>8. V(a, b) = (b - a) * rate
  BY <1>0, <1>6, <1>7
<1>9. QED BY <1>8 DEF V

\* Nothing that has vested is taken back.
LEMMA VestedPositive ==
    ASSUME NEW segments, NEW lo, NEW hi, Rated(segments, lo, hi),
           NEW a \in lo..hi, NEW b \in a..hi
    PROVE  VestedBetween(segments, a, b) \in Nat
<1> DEFINE V(x, y) == VestedBetween(segments, x, y)
           T == {m \in Nat : a + m <= hi => V(a, a + m) \in Nat}
<1>0. lo \in Nat /\ hi \in Nat /\ a \in Nat /\ b \in Nat /\ a <= b /\ b <= hi
  BY DEF Rated
<1>2. V(a, a) = 0
  BY <1>0, VestedNone
<1>3. ASSUME NEW y \in a..hi, y < hi
      PROVE  V(a, y + 1) = V(a, y) + RateAt(segments, y) /\ RateAt(segments, y) \in Nat
  BY <1>3, VestedNext
<1> HIDE DEF V
<1>4. 0 \in T
  <2>1. a + 0 = a
    BY <1>0
  <2>2. QED BY <1>2, <2>1
<1>5. ASSUME NEW m \in Nat, m \in T PROVE m + 1 \in T
  <2> SUFFICES ASSUME a + (m + 1) <= hi PROVE V(a, a + (m + 1)) \in Nat
    OBVIOUS
  <2> DEFINE y == a + m
  <2>1. y \in a..hi /\ y < hi /\ y <= hi /\ a + (m + 1) = y + 1
    BY <1>0
  <2>2. V(a, y) \in Nat
    BY <1>5, <2>1
  <2> HIDE DEF y
  <2>3. V(a, y + 1) = V(a, y) + RateAt(segments, y) /\ RateAt(segments, y) \in Nat
    BY <1>3, <2>1
  <2>4. QED BY <2>1, <2>2, <2>3
<1>6. b - a \in Nat /\ a + (b - a) = b
  BY <1>0
<1>7. b - a \in T
  BY <1>4, <1>5, <1>6, Induction
<1>8. V(a, b) \in Nat
  BY <1>0, <1>6, <1>7
<1>9. QED BY <1>8 DEF V

-----------------------------------------------------------------------------
(* The folds over the segments, one step after the other.                  *)

\* A[k] is what the loop of the first definition has after k segments.
OverlapLoop(A, segments, from, to, start) ==
    /\ A[0] = [total |-> 0, segStart |-> start, done |-> FALSE]
    /\ \A k \in 1..Len(segments) : A[k] = OverlapStep(from, to, A[k - 1], segments[k])

OverlapFold(F, segments, from, to, start) ==
    F = [s \in SUBSET DOMAIN segments |->
            IF s = {} THEN [total |-> 0, segStart |-> start, done |-> FALSE]
            ELSE OverlapStep(from, to, F[s \ {Max(s)}], segments[Max(s)])]

LEMMA OverlapIsFold ==
    ASSUME NEW segments, NEW from, NEW to, NEW start
    PROVE  ComputeVariableClaimable(segments, from, to, start)
             = (CHOOSE F : OverlapFold(F, segments, from, to, start))[DOMAIN segments].total
BY DEF ComputeVariableClaimable, FoldLeft, MapThenFoldSet, OverlapFold

LEMMA OverlapSteps ==
    ASSUME NEW segments \in Seq(Segment), NEW from \in Int, NEW to \in Int, NEW start \in Int
    PROVE  \E A : /\ OverlapLoop(A, segments, from, to, start)
                  /\ ComputeVariableClaimable(segments, from, to, start)
                       = A[Len(segments)].total
<1> DEFINE n == Len(segments)
           Acc == [total : Int, segStart : Int, done : BOOLEAN]
           base == [total |-> 0, segStart |-> start, done |-> FALSE]
           step == [p \in (1..n) \X Acc |-> OverlapStep(from, to, p[2], segments[p[1]])]
           c == CHOOSE F : OverlapFold(F, segments, from, to, start)
<1>1. n \in Nat /\ DOMAIN segments = 1..n
  OBVIOUS
<1>2. \A k \in 1..n : segments[k] \in Segment
  OBVIOUS
<1>3. ASSUME NEW acc \in Acc, NEW seg \in Segment
      PROVE  OverlapStep(from, to, acc, seg) \in Acc
  <2>1. seg.end \in Int /\ seg.rate \in Int
    BY LedgerAssumption DEF Segment
  <2>2. acc.total \in Int /\ acc.segStart \in Int
    OBVIOUS
  <2>3. (seg.end >= to) \in BOOLEAN
    OBVIOUS
  <2> DEFINE lo == MaxOf(from, acc.segStart)
             hi == MinOf(to, seg.end)
             sum == acc.total + (IF hi > lo THEN (hi - lo) * seg.rate ELSE 0)
  <2>4. lo \in Int /\ hi \in Int
    BY <2>1, <2>2 DEF MaxOf, MinOf
  <2>5. sum \in Int
    BY <2>1, <2>2, <2>4
  <2> DEFINE d == seg.end >= to
  <2>6. OverlapStep(from, to, acc, seg)
          = IF acc.done THEN acc ELSE [total |-> sum, segStart |-> seg.end, done |-> d]
    BY DEF OverlapStep
  <2>7. d \in BOOLEAN
    BY <2>3
  <2> HIDE DEF sum, d
  <2>8. [total |-> sum, segStart |-> seg.end, done |-> d] \in Acc
    BY <2>1, <2>5, <2>7
  <2>9. QED BY <2>6, <2>8
<1>4. base \in Acc
  OBVIOUS
<1>5. step \in [(1..n) \X Acc -> Acc]
  BY <1>2, <1>3
<1>6. \A k \in 1..n, acc \in Acc : step[<<k, acc>>] = OverlapStep(from, to, acc, segments[k])
  OBVIOUS
<1> HIDE DEF n, Acc, base, step
<1>7. PICK F : F \in [SUBSET (1..n) -> Acc] /\ SequenceFolded(F, n, base, step)
  BY <1>1, <1>4, <1>5, SequenceFoldExists
<1>8. ASSUME NEW s \in SUBSET (1..n)
      PROVE  F[s] = IF s = {} THEN base ELSE OverlapStep(from, to, F[s \ {Max(s)}], segments[Max(s)])
  <2>1. CASE s = {}
    BY <1>7, <2>1 DEF SequenceFolded
  <2>2. CASE s # {}
    <3>1. Max(s) \in 1..n
      BY <1>1, <2>2, MaxIn
    <3>2. F[s \ {Max(s)}] \in Acc
      BY <1>7
    <3>3. F[s] = step[<<Max(s), F[s \ {Max(s)}]>>]
      BY <1>7, <2>2 DEF SequenceFolded
    <3>4. QED BY <1>6, <2>2, <3>1, <3>2, <3>3
  <2>3. QED BY <2>1, <2>2
<1>9. OverlapFold(F, segments, from, to, start)
  BY <1>1, <1>7, <1>8 DEF OverlapFold, base
<1>10. OverlapFold(c, segments, from, to, start)
  BY <1>9
<1>11. ComputeVariableClaimable(segments, from, to, start) = c[1..n].total
  BY <1>1, OverlapIsFold
<1> HIDE DEF c
<1> DEFINE A == [k \in 0..n |-> c[1..k]]
<1>12. A[0] = base
  <2>1. A[0] = c[1..0] /\ 1..0 = {}
    BY <1>1
  <2>2. QED BY <1>10, <2>1 DEF OverlapFold, base
<1>13. ASSUME NEW k \in 1..n PROVE A[k] = OverlapStep(from, to, A[k - 1], segments[k])
  <2>1. k \in Nat /\ k # 0 /\ k \in 0..n /\ k - 1 \in 0..n /\ 1..k \in SUBSET (1..n)
    BY <1>1
  <2>2. Max(1..k) = k /\ (1..k) \ {Max(1..k)} = 1..(k - 1) /\ 1..k # {}
    BY <2>1, MaxOfPrefix
  <2>3. c[1..k] = OverlapStep(from, to, c[(1..k) \ {Max(1..k)}], segments[Max(1..k)])
    BY <1>1, <1>10, <2>1, <2>2 DEF OverlapFold
  <2>4. c[1..k] = OverlapStep(from, to, c[1..(k - 1)], segments[k])
    BY <2>2, <2>3
  <2>5. QED BY <2>1, <2>4
<1>14. A[n] = c[1..n]
  BY <1>1
<1> HIDE DEF A
<1>15. QED BY <1>11, <1>12, <1>13, <1>14 DEF OverlapLoop, n, base

\* A[k] is what the loop of the second definition has after k segments.
SkipLoop(A, segments, from, to) ==
    /\ A[0] = [total |-> 0, prevEnd |-> from, done |-> FALSE]
    /\ \A k \in 1..Len(segments) : A[k] = SkipStep(from, to, A[k - 1], segments[k])

SkipFold(F, segments, from, to) ==
    F = [s \in SUBSET DOMAIN segments |->
            IF s = {} THEN [total |-> 0, prevEnd |-> from, done |-> FALSE]
            ELSE SkipStep(from, to, F[s \ {Max(s)}], segments[Max(s)])]

LEMMA SkipIsFold ==
    ASSUME NEW segments, NEW from, NEW to
    PROVE  ComputeVariableClaimable2(segments, from, to)
             = (CHOOSE F : SkipFold(F, segments, from, to))[DOMAIN segments].total
BY DEF ComputeVariableClaimable2, FoldLeft, MapThenFoldSet, SkipFold

LEMMA SkipSteps ==
    ASSUME NEW segments \in Seq(Segment), NEW from \in Int, NEW to \in Int
    PROVE  \E A : /\ SkipLoop(A, segments, from, to)
                  /\ ComputeVariableClaimable2(segments, from, to)
                       = A[Len(segments)].total
<1> DEFINE n == Len(segments)
           Acc == [total : Int, prevEnd : Int, done : BOOLEAN]
           base == [total |-> 0, prevEnd |-> from, done |-> FALSE]
           step == [p \in (1..n) \X Acc |-> SkipStep(from, to, p[2], segments[p[1]])]
           c == CHOOSE F : SkipFold(F, segments, from, to)
<1>1. n \in Nat /\ DOMAIN segments = 1..n
  OBVIOUS
<1>2. \A k \in 1..n : segments[k] \in Segment
  OBVIOUS
<1>3. ASSUME NEW acc \in Acc, NEW seg \in Segment
      PROVE  SkipStep(from, to, acc, seg) \in Acc
  <2>1. seg.end \in Int /\ seg.rate \in Int
    BY LedgerAssumption DEF Segment
  <2>2. acc.total \in Int /\ acc.prevEnd \in Int
    OBVIOUS
  <2> DEFINE lo == MaxOf(acc.prevEnd, from)
             hi == MinOf(seg.end, to)
             sum == acc.total + (IF hi > lo THEN (hi - lo) * seg.rate ELSE 0)
             d == seg.end >= to
  <2>3. lo \in Int /\ hi \in Int
    BY <2>1, <2>2 DEF MaxOf, MinOf
  <2>4. sum \in Int
    BY <2>1, <2>2, <2>3
  <2>5. d \in BOOLEAN
    OBVIOUS
  <2>6. SkipStep(from, to, acc, seg)
          = IF acc.done THEN acc
            ELSE IF seg.end <= from THEN [acc EXCEPT !.prevEnd = seg.end]
            ELSE [total |-> sum, prevEnd |-> seg.end, done |-> d]
    BY DEF SkipStep
  <2> HIDE DEF sum, d
  <2>7. [total |-> sum, prevEnd |-> seg.end, done |-> d] \in Acc
    BY <2>1, <2>4, <2>5
  <2>8. [acc EXCEPT !.prevEnd = seg.end] \in Acc
    BY <2>1
  <2>9. QED BY <2>6, <2>7, <2>8
<1>4. base \in Acc
  OBVIOUS
<1>5. step \in [(1..n) \X Acc -> Acc]
  BY <1>2, <1>3
<1>6. \A k \in 1..n, acc \in Acc : step[<<k, acc>>] = SkipStep(from, to, acc, segments[k])
  OBVIOUS
<1> HIDE DEF n, Acc, base, step
<1>7. PICK F : F \in [SUBSET (1..n) -> Acc] /\ SequenceFolded(F, n, base, step)
  BY <1>1, <1>4, <1>5, SequenceFoldExists
<1>8. ASSUME NEW s \in SUBSET (1..n)
      PROVE  F[s] = IF s = {} THEN base ELSE SkipStep(from, to, F[s \ {Max(s)}], segments[Max(s)])
  <2>1. CASE s = {}
    BY <1>7, <2>1 DEF SequenceFolded
  <2>2. CASE s # {}
    <3>1. Max(s) \in 1..n
      BY <1>1, <2>2, MaxIn
    <3>2. F[s \ {Max(s)}] \in Acc
      BY <1>7
    <3>3. F[s] = step[<<Max(s), F[s \ {Max(s)}]>>]
      BY <1>7, <2>2 DEF SequenceFolded
    <3>4. QED BY <1>6, <2>2, <3>1, <3>2, <3>3
  <2>3. QED BY <2>1, <2>2
<1>9. SkipFold(F, segments, from, to)
  BY <1>1, <1>7, <1>8 DEF SkipFold, base
<1>10. SkipFold(c, segments, from, to)
  BY <1>9
<1>11. ComputeVariableClaimable2(segments, from, to) = c[1..n].total
  BY <1>1, SkipIsFold
<1> HIDE DEF c
<1> DEFINE A == [k \in 0..n |-> c[1..k]]
<1>12. A[0] = base
  <2>1. A[0] = c[1..0] /\ 1..0 = {}
    BY <1>1
  <2>2. QED BY <1>10, <2>1 DEF SkipFold, base
<1>13. ASSUME NEW k \in 1..n PROVE A[k] = SkipStep(from, to, A[k - 1], segments[k])
  <2>1. k \in Nat /\ k # 0 /\ k \in 0..n /\ k - 1 \in 0..n /\ 1..k \in SUBSET (1..n)
    BY <1>1
  <2>2. Max(1..k) = k /\ (1..k) \ {Max(1..k)} = 1..(k - 1) /\ 1..k # {}
    BY <2>1, MaxOfPrefix
  <2>3. c[1..k] = SkipStep(from, to, c[(1..k) \ {Max(1..k)}], segments[Max(1..k)])
    BY <1>1, <1>10, <2>1, <2>2 DEF SkipFold
  <2>4. c[1..k] = SkipStep(from, to, c[1..(k - 1)], segments[k])
    BY <2>2, <2>3
  <2>5. QED BY <2>1, <2>4
<1>14. A[n] = c[1..n]
  BY <1>1
<1> HIDE DEF A
<1>15. QED BY <1>11, <1>12, <1>13, <1>14 DEF SkipLoop, n, base

\* One iteration of the loop that adds up the deposit.
DepositStep(acc, seg) == [sum |-> acc.sum + seg.rate * (seg.end - acc.prev),
                          prev |-> seg.end]

\* A[k] is what the loop that adds up the deposit has after k segments.
DepositLoop(A, segments, start) ==
    /\ A[0] = [sum |-> 0, prev |-> start]
    /\ \A k \in 1..Len(segments) : A[k] = DepositStep(A[k - 1], segments[k])

DepositFold(F, segments, start) ==
    F = [s \in SUBSET DOMAIN segments |->
            IF s = {} THEN [sum |-> 0, prev |-> start]
            ELSE DepositStep(F[s \ {Max(s)}], segments[Max(s)])]

LEMMA DepositIsFold ==
    ASSUME NEW segments, NEW start
    PROVE  SegmentDeposit(segments, start)
             = (CHOOSE F : DepositFold(F, segments, start))[DOMAIN segments].sum
BY DEF SegmentDeposit, FoldLeft, MapThenFoldSet, DepositFold, DepositStep

LEMMA DepositSteps ==
    ASSUME NEW segments \in Seq(Segment), NEW start \in Int
    PROVE  \E A : /\ DepositLoop(A, segments, start)
                  /\ SegmentDeposit(segments, start)
                       = A[Len(segments)].sum
<1> DEFINE n == Len(segments)
           Acc == [sum : Int, prev : Int]
           base == [sum |-> 0, prev |-> start]
           step == [p \in (1..n) \X Acc |-> DepositStep(p[2], segments[p[1]])]
           c == CHOOSE F : DepositFold(F, segments, start)
<1>1. n \in Nat /\ DOMAIN segments = 1..n
  OBVIOUS
<1>2. \A k \in 1..n : segments[k] \in Segment
  OBVIOUS
<1>3. ASSUME NEW acc \in Acc, NEW seg \in Segment
      PROVE  DepositStep(acc, seg) \in Acc
  <2>1. seg.end \in Int /\ seg.rate \in Int
    BY LedgerAssumption DEF Segment
  <2>2. acc.sum \in Int /\ acc.prev \in Int
    OBVIOUS
  <2>3. acc.sum + seg.rate * (seg.end - acc.prev) \in Int
    BY <2>1, <2>2
  <2>4. QED BY <2>1, <2>3 DEF DepositStep
<1>4. base \in Acc
  OBVIOUS
<1>5. step \in [(1..n) \X Acc -> Acc]
  BY <1>2, <1>3
<1>6. \A k \in 1..n, acc \in Acc : step[<<k, acc>>] = DepositStep(acc, segments[k])
  OBVIOUS
<1> HIDE DEF n, Acc, base, step
<1>7. PICK F : F \in [SUBSET (1..n) -> Acc] /\ SequenceFolded(F, n, base, step)
  BY <1>1, <1>4, <1>5, SequenceFoldExists
<1>8. ASSUME NEW s \in SUBSET (1..n)
      PROVE  F[s] = IF s = {} THEN base ELSE DepositStep(F[s \ {Max(s)}], segments[Max(s)])
  <2>1. CASE s = {}
    BY <1>7, <2>1 DEF SequenceFolded
  <2>2. CASE s # {}
    <3>1. Max(s) \in 1..n
      BY <1>1, <2>2, MaxIn
    <3>2. F[s \ {Max(s)}] \in Acc
      BY <1>7
    <3>3. F[s] = step[<<Max(s), F[s \ {Max(s)}]>>]
      BY <1>7, <2>2 DEF SequenceFolded
    <3>4. QED BY <1>6, <2>2, <3>1, <3>2, <3>3
  <2>3. QED BY <2>1, <2>2
<1>9. DepositFold(F, segments, start)
  BY <1>1, <1>7, <1>8 DEF DepositFold, base
<1>10. DepositFold(c, segments, start)
  BY <1>9
<1>11. SegmentDeposit(segments, start) = c[1..n].sum
  BY <1>1, DepositIsFold
<1> HIDE DEF c
<1> DEFINE A == [k \in 0..n |-> c[1..k]]
<1>12. A[0] = base
  <2>1. A[0] = c[1..0] /\ 1..0 = {}
    BY <1>1
  <2>2. QED BY <1>10, <2>1 DEF DepositFold, base
<1>13. ASSUME NEW k \in 1..n PROVE A[k] = DepositStep(A[k - 1], segments[k])
  <2>1. k \in Nat /\ k # 0 /\ k \in 0..n /\ k - 1 \in 0..n /\ 1..k \in SUBSET (1..n)
    BY <1>1
  <2>2. Max(1..k) = k /\ (1..k) \ {Max(1..k)} = 1..(k - 1) /\ 1..k # {}
    BY <2>1, MaxOfPrefix
  <2>3. c[1..k] = DepositStep(c[(1..k) \ {Max(1..k)}], segments[Max(1..k)])
    BY <1>1, <1>10, <2>1, <2>2 DEF DepositFold
  <2>4. c[1..k] = DepositStep(c[1..(k - 1)], segments[k])
    BY <2>2, <2>3
  <2>5. QED BY <2>1, <2>4
<1>14. A[n] = c[1..n]
  BY <1>1
<1> HIDE DEF A
<1>15. QED BY <1>11, <1>12, <1>13, <1>14 DEF DepositLoop, n, base

-----------------------------------------------------------------------------
(* The loops compute sums of rates.                                        *)

\* Segments of a stream that starts at `start`, and an interval of it.
Interval(segments, start, from, to) ==
    /\ segments \in Seq(Segment) /\ start \in Nat /\ Ascending(segments, start)
    /\ from \in start..segments[Len(segments)].end
    /\ to \in from..segments[Len(segments)].end

LEMMA IntervalFacts ==
    ASSUME NEW segments, NEW start, NEW from, NEW to, Interval(segments, start, from, to)
    PROVE  /\ Len(segments) \in Nat /\ Len(segments) # 0
           /\ Rated(segments, start, segments[Len(segments)].end)
           /\ segments[Len(segments)].end \in Nat
           /\ from \in Nat /\ to \in Nat /\ start <= from /\ from <= to
           /\ to <= segments[Len(segments)].end
           /\ \A k \in 0..Len(segments) :
                /\ EndOf(segments, start, k) \in Nat
                /\ EndOf(segments, start, k) <= segments[Len(segments)].end
           /\ \A k \in 1..Len(segments) : EndOf(segments, start, k) = segments[k].end
<1> DEFINE n == Len(segments)
<1>1. n \in Nat /\ n # 0 /\ \A k \in 0..n : EndOf(segments, start, k) \in Nat
  BY DEF Interval, Ascending
<1>2. \A k \in 1..n : EndOf(segments, start, k) = segments[k].end
  BY <1>1 DEF EndOf
<1>3. n \in 1..n /\ n \in 0..n
  BY <1>1
<1>4. segments[n].end \in Nat
  BY <1>1, <1>2, <1>3
<1>5. \A k \in 0..n : EndOf(segments, start, k) <= EndOf(segments, start, n)
  BY <1>3, EndsOrdered DEF Interval
<1>6. \A k \in 0..n : EndOf(segments, start, k) <= segments[n].end
  BY <1>2, <1>3, <1>5
<1>7. Rated(segments, start, segments[n].end)
  BY StreamRated DEF Interval
<1>8. start \in Nat /\ from \in start..segments[n].end /\ to \in from..segments[n].end
  BY DEF Interval
<1> HIDE DEF n
<1>9. from \in Nat /\ to \in Nat /\ start <= from /\ from <= to /\ to <= segments[n].end
  BY <1>4, <1>8
<1>10. QED BY <1>1, <1>2, <1>4, <1>6, <1>7, <1>9 DEF n

\* What is vested from `from` up to the end of segment k, or to `to`.
VestedTo(segments, from, to, end) ==
    VestedBetween(segments, from, MaxOf(from, MinOf(to, end)))

\* The overlap of segment k with the interval is what it adds.
LEMMA SegmentAdds ==
    ASSUME NEW segments, NEW start, NEW from, NEW to, Interval(segments, start, from, to),
           NEW k \in 1..Len(segments), EndOf(segments, start, k - 1) <= to,
           NEW lo, lo = MaxOf(from, EndOf(segments, start, k - 1)),
           NEW hi, hi = MinOf(to, segments[k].end)
    PROVE  VestedBetween(segments, from, lo)
             + (IF hi > lo THEN (hi - lo) * segments[k].rate ELSE 0)
             = VestedTo(segments, from, to, segments[k].end)
<1> DEFINE n == Len(segments)
           last == segments[n].end
           b == EndOf(segments, start, k - 1)
           e == segments[k].end
           rate == segments[k].rate
<1>1. /\ n \in Nat /\ start \in Nat /\ Rated(segments, start, last) /\ last \in Nat
      /\ from \in Nat /\ to \in Nat /\ start <= from /\ from <= to /\ to <= last
  BY IntervalFacts DEF Interval
<1>2. k - 1 \in 0..n /\ k \in 0..n
  BY <1>1
<1>3. b \in Nat /\ e \in Nat /\ b < e /\ e <= last /\ rate \in Nat /\ b <= to
  <2>1. EndOf(segments, start, k) = e /\ e \in Nat /\ e <= last
    BY <1>2, IntervalFacts
  <2>2. b \in Nat
    BY <1>2, IntervalFacts
  <2>3. b < e /\ rate \in Nat
    BY <2>1 DEF Interval, Ascending
  <2>4. QED BY <2>1, <2>2, <2>3
<1>4. ASSUME NEW l \in Nat, b <= l, l < e PROVE RateAt(segments, l) = rate
  BY <1>4, RateInside DEF Interval
<1>5. from \in start..last
  BY <1>1
<1> HIDE DEF n, last, b, e, rate
<1>6. lo = MaxOf(from, b) /\ hi = MinOf(to, e)
  BY DEF b, e
<1>7. lo \in Nat /\ hi \in Nat /\ from <= lo /\ b <= lo /\ lo <= to /\ hi <= to /\ hi <= e
  BY <1>1, <1>3, <1>6 DEF MaxOf, MinOf
<1>8. lo \in from..last /\ VestedBetween(segments, from, lo) \in Int
  <2>1. lo \in from..last
    BY <1>1, <1>7
  <2>2. QED BY <1>1, <1>5, <2>1, RatesType
<1>9. CASE hi > lo
  <2>1. MaxOf(from, hi) = hi
    BY <1>1, <1>7, <1>9 DEF MaxOf
  <2>2. lo \in start..last /\ hi \in lo..last
    BY <1>1, <1>7, <1>9
  <2>3. Flat(segments, lo, hi, rate)
    <3> SUFFICES ASSUME NEW l \in lo..(hi - 1) PROVE RateAt(segments, l) = rate
      BY DEF Flat
    <3>1. l \in Nat /\ b <= l /\ l < e
      BY <1>3, <1>7
    <3>2. QED BY <1>4, <3>1
  <2>4. VestedBetween(segments, lo, hi) = (hi - lo) * rate
    BY <1>1, <1>3, <2>2, <2>3, VestedFlat
  <2>5. VestedBetween(segments, from, hi)
          = VestedBetween(segments, from, lo) + VestedBetween(segments, lo, hi)
    BY <1>1, <1>5, <1>8, <2>2, VestedSplit
  <2>6. VestedTo(segments, from, to, e) = VestedBetween(segments, from, hi)
    BY <1>6, <2>1 DEF VestedTo
  <2>7. QED BY <1>9, <2>4, <2>5, <2>6 DEF e, rate
<1>10. CASE ~(hi > lo)
  <2>1. MaxOf(from, hi) = lo
    BY <1>1, <1>3, <1>6, <1>7, <1>10 DEF MaxOf, MinOf
  <2>2. VestedTo(segments, from, to, e) = VestedBetween(segments, from, lo)
    BY <1>6, <2>1 DEF VestedTo
  <2>3. VestedBetween(segments, from, lo) + 0 = VestedBetween(segments, from, lo)
    BY <1>8
  <2>4. QED BY <1>10, <2>2, <2>3 DEF e
<1>11. QED BY <1>9, <1>10

LEMMA VestedToWhole ==
    ASSUME NEW segments, NEW from \in Nat, NEW to \in Nat, from <= to, NEW end \in Nat
    PROVE  /\ end >= to => VestedTo(segments, from, to, end) = VestedBetween(segments, from, to)
           /\ end <= to => VestedTo(segments, from, to, end)
                             = VestedBetween(segments, from, MaxOf(from, end))
<1>1. end >= to => MaxOf(from, MinOf(to, end)) = to
  BY DEF MaxOf, MinOf
<1>2. end <= to => MinOf(to, end) = end
  BY DEF MinOf
<1>3. QED BY <1>1, <1>2 DEF VestedTo

\* After k segments the loop has the whole interval, or the part of it the
\* first k segments cover.
OverlapInv(a, segments, start, from, to, k) ==
    \/ a.done = TRUE /\ a.total = VestedBetween(segments, from, to)
    \/ /\ a.done = FALSE
       /\ a.segStart = EndOf(segments, start, k)
       /\ EndOf(segments, start, k) <= to
       /\ a.total = VestedBetween(segments, from, MaxOf(from, EndOf(segments, start, k)))

LEMMA OverlapInvStep ==
    ASSUME NEW segments, NEW start, NEW from, NEW to, Interval(segments, start, from, to),
           NEW k \in 1..Len(segments), NEW acc,
           OverlapInv(acc, segments, start, from, to, k - 1)
    PROVE  OverlapInv(OverlapStep(from, to, acc, segments[k]), segments, start, from, to, k)
<1> DEFINE seg == segments[k]
           new == OverlapStep(from, to, acc, seg)
           lo == MaxOf(from, acc.segStart)
           hi == MinOf(to, seg.end)
           sum == acc.total + (IF hi > lo THEN (hi - lo) * seg.rate ELSE 0)
           d == seg.end >= to
<1>1. CASE acc.done = TRUE
  <2>1. new = acc
    BY <1>1 DEF OverlapStep
  <2>2. acc.total = VestedBetween(segments, from, to)
    BY <1>1 DEF OverlapInv
  <2>3. QED BY <1>1, <2>1, <2>2 DEF OverlapInv
<1>2. CASE acc.done = FALSE
  <2>1. /\ acc.segStart = EndOf(segments, start, k - 1)
        /\ EndOf(segments, start, k - 1) <= to
        /\ acc.total = VestedBetween(segments, from, MaxOf(from, EndOf(segments, start, k - 1)))
    BY <1>2 DEF OverlapInv
  <2>2. new = [total |-> sum, segStart |-> seg.end, done |-> d]
    BY <1>2 DEF OverlapStep
  <2>3. sum = VestedTo(segments, from, to, seg.end)
    BY <2>1, SegmentAdds
  <2>4. k \in 0..Len(segments) /\ EndOf(segments, start, k) = seg.end /\ seg.end \in Nat
        /\ from \in Nat /\ to \in Nat /\ from <= to
    <3>1. Len(segments) \in Nat
      BY IntervalFacts
    <3>2. k \in 0..Len(segments)
      BY <3>1
    <3>3. QED BY <3>2, IntervalFacts
  <2> HIDE DEF sum, new
  <2>5. new.total = sum /\ new.segStart = seg.end /\ new.done = d
    BY <2>2
  <2>6. CASE seg.end >= to
    <3>1. d = TRUE
      BY <2>6
    <3>2. sum = VestedBetween(segments, from, to)
      BY <2>3, <2>4, <2>6, VestedToWhole
    <3> HIDE DEF d, seg
    <3>3. OverlapInv(new, segments, start, from, to, k)
      BY <2>5, <3>1, <3>2 DEF OverlapInv
    <3>4. QED BY <3>3 DEF new, seg
  <2>7. CASE ~(seg.end >= to)
    <3>1. d = FALSE
      BY <2>7
    <3>2. seg.end <= to
      BY <2>4, <2>7
    <3>3. sum = VestedBetween(segments, from, MaxOf(from, seg.end))
      BY <2>3, <2>4, <3>2, VestedToWhole
    <3> HIDE DEF d, seg
    <3>4. OverlapInv(new, segments, start, from, to, k)
      BY <2>4, <2>5, <3>1, <3>2, <3>3 DEF OverlapInv
    <3>5. QED BY <3>4 DEF new, seg
  <2>8. QED BY <2>6, <2>7
<1>3. QED BY <1>1, <1>2 DEF OverlapInv

\* The first definition of the claimable amount is the sum of the rates.
LEMMA FirstDefinition ==
    ASSUME NEW segments, NEW start, NEW from, NEW to, Interval(segments, start, from, to)
    PROVE  ComputeVariableClaimable(segments, from, to, start) = VestedBetween(segments, from, to)
<1> DEFINE n == Len(segments)
           Inv(a, k) == OverlapInv(a, segments, start, from, to, k)
<1>1. /\ n \in Nat /\ n # 0 /\ start \in Nat /\ from \in Nat /\ to \in Nat /\ start <= from
      /\ from <= to /\ segments \in Seq(Segment)
      /\ segments[n].end \in Nat /\ to <= segments[n].end
      /\ EndOf(segments, start, n) = segments[n].end
  <2>1. n \in Nat /\ n # 0
    BY IntervalFacts
  <2>2. n \in 1..n
    BY <2>1
  <2>3. QED BY <2>1, <2>2, IntervalFacts DEF Interval
<1>2. PICK A : /\ OverlapLoop(A, segments, from, to, start)
               /\ ComputeVariableClaimable(segments, from, to, start) = A[n].total
  BY <1>1, OverlapSteps
<1>3. Rated(segments, start, segments[n].end) /\ from \in start..segments[n].end
  BY <1>1, IntervalFacts
<1> DEFINE T == {k \in Nat : k <= n => Inv(A[k], k)}
<1>4. 0 \in T
  <2>1. A[0].total = 0 /\ A[0].segStart = start /\ A[0].done = FALSE
    BY <1>2 DEF OverlapLoop
  <2>2. VestedBetween(segments, from, from) = 0
    BY <1>3, VestedNone
  <2>3. EndOf(segments, start, 0) = start /\ MaxOf(from, start) = from /\ start <= to
    BY <1>1 DEF EndOf, MaxOf
  <2>4. Inv(A[0], 0)
    BY <2>1, <2>2, <2>3 DEF OverlapInv
  <2>5. QED BY <2>4
<1>5. ASSUME NEW k \in Nat, k \in T PROVE k + 1 \in T
  <2> SUFFICES ASSUME k + 1 <= n PROVE Inv(A[k + 1], k + 1)
    OBVIOUS
  <2>1. k + 1 \in 1..n /\ (k + 1) - 1 = k /\ k <= n
    BY <1>1
  <2>2. A[k + 1] = OverlapStep(from, to, A[k], segments[k + 1])
    BY <1>2, <2>1 DEF OverlapLoop
  <2>3. Inv(A[k], (k + 1) - 1)
    BY <1>5, <2>1
  <2>4. OverlapInv(OverlapStep(from, to, A[k], segments[k + 1]), segments, start, from, to, k + 1)
    BY <2>1, <2>3, OverlapInvStep
  <2>5. QED BY <2>2, <2>4
<1>6. n \in T
  BY <1>1, <1>4, <1>5, Induction
<1>7. Inv(A[n], n)
  BY <1>1, <1>6
<1>8. A[n].total = VestedBetween(segments, from, to)
  <2>1. CASE A[n].total = VestedBetween(segments, from, to)
    BY <2>1
  <2>2. CASE /\ EndOf(segments, start, n) <= to
             /\ A[n].total = VestedBetween(segments, from, MaxOf(from, EndOf(segments, start, n)))
    <3>1. EndOf(segments, start, n) = to
      BY <1>1, <2>2
    <3>2. MaxOf(from, to) = to
      BY <1>1 DEF MaxOf
    <3>3. QED BY <2>2, <3>1, <3>2
  <2>3. QED BY <1>7, <2>1, <2>2 DEF OverlapInv
<1>9. QED BY <1>2, <1>8

\* The same for the second definition, which also passes over the segments
\* that end before `from`.
SkipInv(a, segments, start, from, to, k) ==
    /\ a \in [total : Int, prevEnd : Int, done : BOOLEAN]
    /\ \/ a.done = TRUE /\ a.total = VestedBetween(segments, from, to)
       \/ /\ a.done = FALSE
          /\ MaxOf(a.prevEnd, from) = MaxOf(from, EndOf(segments, start, k))
          /\ EndOf(segments, start, k) <= to
          /\ a.total = VestedBetween(segments, from, MaxOf(from, EndOf(segments, start, k)))

LEMMA SkipInvStep ==
    ASSUME NEW segments, NEW start, NEW from, NEW to, Interval(segments, start, from, to),
           NEW k \in 1..Len(segments), NEW acc,
           SkipInv(acc, segments, start, from, to, k - 1)
    PROVE  SkipInv(SkipStep(from, to, acc, segments[k]), segments, start, from, to, k)
<1> DEFINE seg == segments[k]
           new == SkipStep(from, to, acc, seg)
           b == EndOf(segments, start, k - 1)
           e == seg.end
           lo == MaxOf(acc.prevEnd, from)
           hi == MinOf(e, to)
           sum == acc.total + (IF hi > lo THEN (hi - lo) * seg.rate ELSE 0)
           d == e >= to
           Acc == [total : Int, prevEnd : Int, done : BOOLEAN]
<1>0. acc \in Acc
  BY DEF SkipInv
<1>1. CASE acc.done = TRUE
  <2>1. new = acc
    BY <1>1 DEF SkipStep
  <2>2. acc.total = VestedBetween(segments, from, to)
    BY <1>1 DEF SkipInv
  <2>3. QED BY <1>0, <1>1, <2>1, <2>2 DEF SkipInv
<1>2. CASE acc.done = FALSE
  <2>1. /\ lo = MaxOf(from, b)
        /\ b <= to
        /\ acc.total = VestedBetween(segments, from, MaxOf(from, b))
    BY <1>2 DEF SkipInv
  <2>2. /\ k \in 0..Len(segments) /\ EndOf(segments, start, k) = e /\ e \in Nat /\ b \in Nat
        /\ from \in Nat /\ to \in Nat /\ from <= to /\ b < e
    <3>1. Len(segments) \in Nat
      BY IntervalFacts
    <3>2. k \in 0..Len(segments) /\ k - 1 \in 0..Len(segments)
      BY <3>1
    <3>3. b < EndOf(segments, start, k)
      BY DEF Interval, Ascending
    <3>4. EndOf(segments, start, k) = e /\ e \in Nat /\ b \in Nat
      BY <3>2, IntervalFacts
    <3>5. QED BY <3>2, <3>3, <3>4, IntervalFacts
  <2>3. hi = MinOf(to, e)
    BY <2>2 DEF MinOf
  <2>4. sum = VestedTo(segments, from, to, e)
    BY <2>1, <2>3, SegmentAdds
  <2>5. CASE e <= from
    <3>1. new = [acc EXCEPT !.prevEnd = e]
      BY <1>2, <2>5 DEF SkipStep
    <3>2. MaxOf(from, b) = from /\ MaxOf(from, e) = from /\ MaxOf(e, from) = from /\ e <= to
      BY <2>2, <2>5 DEF MaxOf
    <3> HIDE DEF new, seg, e, b
    <3>3. new \in Acc /\ new.total = acc.total /\ new.prevEnd = e /\ new.done = FALSE
      BY <1>0, <1>2, <2>2, <3>1
    <3>4. SkipInv(new, segments, start, from, to, k)
      BY <2>1, <2>2, <3>2, <3>3 DEF SkipInv
    <3>5. QED BY <3>4 DEF new, seg
  <2>6. CASE ~(e <= from)
    <3>1. new = [total |-> sum, prevEnd |-> e, done |-> d]
      BY <1>2, <2>6 DEF SkipStep
    <3>2. sum \in Int
      <4>1. acc.total \in Int
        BY <1>0
      <4>2. seg.rate \in Nat
        BY DEF Interval, Ascending
      <4>3. lo \in Int /\ hi \in Int
        BY <1>0, <2>2 DEF MaxOf, MinOf
      <4> HIDE DEF lo, hi
      <4>4. (hi - lo) * seg.rate \in Int
        BY <4>2, <4>3
      <4>5. QED BY <4>1, <4>4
    <3> HIDE DEF sum, new
    <3>3. new.total = sum /\ new.prevEnd = e /\ new.done = d
      BY <3>1
    <3>4. MaxOf(e, from) = MaxOf(from, e)
      BY <2>2 DEF MaxOf
    <3>5. CASE e >= to
      <4>1. d = TRUE
        BY <3>5
      <4>2. sum = VestedBetween(segments, from, to)
        BY <2>2, <2>4, <3>5, VestedToWhole
      <4> HIDE DEF d, e, seg
      <4>3. new \in Acc
        BY <2>2, <3>1, <3>2, <4>1
      <4>4. SkipInv(new, segments, start, from, to, k)
        BY <3>3, <4>1, <4>2, <4>3 DEF SkipInv
      <4>5. QED BY <4>4 DEF new, seg
    <3>6. CASE ~(e >= to)
      <4>1. d = FALSE
        BY <3>6
      <4>2. e <= to
        BY <2>2, <3>6
      <4>3. sum = VestedBetween(segments, from, MaxOf(from, e))
        BY <2>2, <2>4, <4>2, VestedToWhole
      <4> HIDE DEF d, e, seg
      <4>4. new \in Acc
        <5>1. new = [total |-> sum, prevEnd |-> e, done |-> FALSE]
          BY <3>1, <4>1
        <5>2. e \in Int
          BY <2>2
        <5>3. QED BY <3>2, <5>1, <5>2
      <4>5. SkipInv(new, segments, start, from, to, k)
        BY <2>2, <3>3, <3>4, <4>1, <4>2, <4>3, <4>4 DEF SkipInv
      <4>6. QED BY <4>5 DEF new, seg
    <3>7. QED BY <3>5, <3>6
  <2>7. QED BY <2>5, <2>6
<1>3. QED BY <1>1, <1>2 DEF SkipInv

\* So is the second.
LEMMA SecondDefinition ==
    ASSUME NEW segments, NEW start, NEW from, NEW to, Interval(segments, start, from, to)
    PROVE  ComputeVariableClaimable2(segments, from, to) = VestedBetween(segments, from, to)
<1> DEFINE n == Len(segments)
           Inv(a, k) == SkipInv(a, segments, start, from, to, k)
<1>1. /\ n \in Nat /\ n # 0 /\ start \in Nat /\ from \in Nat /\ to \in Nat /\ start <= from
      /\ from <= to /\ segments \in Seq(Segment)
      /\ segments[n].end \in Nat /\ to <= segments[n].end
      /\ EndOf(segments, start, n) = segments[n].end
  <2>1. n \in Nat /\ n # 0
    BY IntervalFacts
  <2>2. n \in 1..n
    BY <2>1
  <2>3. QED BY <2>1, <2>2, IntervalFacts DEF Interval
<1>2. PICK A : /\ SkipLoop(A, segments, from, to)
               /\ ComputeVariableClaimable2(segments, from, to) = A[n].total
  BY <1>1, SkipSteps
<1>3. Rated(segments, start, segments[n].end) /\ from \in start..segments[n].end
  BY <1>1, IntervalFacts
<1> DEFINE T == {k \in Nat : k <= n => Inv(A[k], k)}
<1>4. 0 \in T
  <2>1. A[0] = [total |-> 0, prevEnd |-> from, done |-> FALSE]
    BY <1>2 DEF SkipLoop
  <2>2. /\ A[0] \in [total : Int, prevEnd : Int, done : BOOLEAN]
        /\ A[0].total = 0 /\ A[0].prevEnd = from /\ A[0].done = FALSE
    BY <1>1, <2>1
  <2>3. VestedBetween(segments, from, from) = 0
    BY <1>3, VestedNone
  <2>4. EndOf(segments, start, 0) = start /\ MaxOf(from, start) = from /\ start <= to
        /\ MaxOf(from, from) = from
    BY <1>1 DEF EndOf, MaxOf
  <2>5. Inv(A[0], 0)
    BY <2>2, <2>3, <2>4 DEF SkipInv
  <2>6. QED BY <2>5
<1>5. ASSUME NEW k \in Nat, k \in T PROVE k + 1 \in T
  <2> SUFFICES ASSUME k + 1 <= n PROVE Inv(A[k + 1], k + 1)
    OBVIOUS
  <2>1. k + 1 \in 1..n /\ (k + 1) - 1 = k /\ k <= n
    BY <1>1
  <2>2. A[k + 1] = SkipStep(from, to, A[k], segments[k + 1])
    BY <1>2, <2>1 DEF SkipLoop
  <2>3. Inv(A[k], (k + 1) - 1)
    BY <1>5, <2>1
  <2>4. SkipInv(SkipStep(from, to, A[k], segments[k + 1]), segments, start, from, to, k + 1)
    BY <2>1, <2>3, SkipInvStep
  <2>5. QED BY <2>2, <2>4
<1>6. n \in T
  BY <1>1, <1>4, <1>5, Induction
<1>7. Inv(A[n], n)
  BY <1>1, <1>6
<1>8. A[n].total = VestedBetween(segments, from, to)
  <2>1. CASE A[n].total = VestedBetween(segments, from, to)
    BY <2>1
  <2>2. CASE /\ EndOf(segments, start, n) <= to
             /\ A[n].total = VestedBetween(segments, from, MaxOf(from, EndOf(segments, start, n)))
    <3>1. EndOf(segments, start, n) = to
      BY <1>1, <2>2
    <3>2. MaxOf(from, to) = to
      BY <1>1 DEF MaxOf
    <3>3. QED BY <2>2, <3>1, <3>2
  <2>3. QED BY <1>7, <2>1, <2>2 DEF SkipInv
<1>9. QED BY <1>2, <1>8

\* The deposit is what the whole stream vests.
DepositInv(a, segments, start, k) ==
    /\ a.sum = VestedBetween(segments, start, EndOf(segments, start, k))
    /\ a.prev = EndOf(segments, start, k)

LEMMA DepositInvStep ==
    ASSUME NEW segments \in Seq(Segment), NEW start \in Nat, Ascending(segments, start),
           NEW k \in 1..Len(segments), NEW acc, DepositInv(acc, segments, start, k - 1)
    PROVE  DepositInv(DepositStep(acc, segments[k]), segments, start, k)
<1> DEFINE n == Len(segments)
           last == segments[n].end
           b == EndOf(segments, start, k - 1)
           e == segments[k].end
           rate == segments[k].rate
<1>1. n \in Nat /\ n # 0 /\ last \in Nat /\ start <= last
  <2>1. n \in Nat /\ n # 0 /\ \A j \in 0..n : EndOf(segments, start, j) \in Nat
    BY DEF Ascending
  <2>2. n \in 0..n /\ 0 \in 0..n
    BY <2>1
  <2>3. EndOf(segments, start, n) = last /\ EndOf(segments, start, 0) = start
    BY <2>1 DEF EndOf
  <2>4. EndOf(segments, start, 0) <= EndOf(segments, start, n)
    BY <2>1, <2>2, EndsOrdered
  <2>5. QED BY <2>1, <2>2, <2>3, <2>4
<1>2. Interval(segments, start, start, last)
  <2>1. start \in start..last /\ last \in start..last
    BY <1>1
  <2>2. QED BY <2>1 DEF Interval
<1>3. k \in 0..n /\ k - 1 \in 0..n /\ 0 \in 0..(k - 1)
  BY <1>1
<1>4. e = EndOf(segments, start, k) /\ e \in Nat /\ e <= last /\ b \in Nat
  BY <1>2, <1>3, IntervalFacts
<1>5. start <= b
  <2>1. EndOf(segments, start, 0) <= b
    BY <1>3, EndsOrdered
  <2>2. QED BY <2>1 DEF EndOf
<1>6. b < e /\ rate \in Nat
  BY <1>4 DEF Ascending
<1>7. Rated(segments, start, last)
  BY <1>2, IntervalFacts
<1>8. Flat(segments, b, e, rate)
  <2> SUFFICES ASSUME NEW l \in b..(e - 1) PROVE RateAt(segments, l) = rate
    BY DEF Flat
  <2>1. l \in Nat /\ b <= l /\ l < e
    BY <1>4
  <2>2. QED BY <2>1, RateInside
<1>9. acc.sum = VestedBetween(segments, start, b) /\ acc.prev = b
  BY DEF DepositInv
<1>10. DepositStep(acc, segments[k]).sum = acc.sum + rate * (e - acc.prev)
       /\ DepositStep(acc, segments[k]).prev = e
  BY DEF DepositStep
<1> DEFINE new == DepositStep(acc, segments[k])
<1> HIDE DEF n, last, b, e, rate, new
<1>11. start \in start..last /\ b \in start..last /\ e \in b..last
  BY <1>1, <1>4, <1>5, <1>6
<1>12. VestedBetween(segments, b, e) = (e - b) * rate
  BY <1>6, <1>7, <1>8, <1>11, VestedFlat
<1>13. VestedBetween(segments, start, e)
         = VestedBetween(segments, start, b) + VestedBetween(segments, b, e)
  BY <1>7, <1>11, VestedSplit
<1>14. (e - b) * rate = rate * (e - b)
  BY <1>4, <1>6
<1>15. new.sum = VestedBetween(segments, start, e) /\ new.prev = e
  BY <1>9, <1>10, <1>12, <1>13, <1>14 DEF new
<1>16. DepositInv(new, segments, start, k)
  BY <1>4, <1>15 DEF DepositInv
<1>17. QED BY <1>16 DEF new

LEMMA DepositIsWhole ==
    ASSUME NEW segments \in Seq(Segment), NEW start \in Nat, Ascending(segments, start)
    PROVE  SegmentDeposit(segments, start)
             = VestedBetween(segments, start, segments[Len(segments)].end)
<1> DEFINE n == Len(segments)
           Inv(a, k) == DepositInv(a, segments, start, k)
<1>1. n \in Nat /\ n # 0
  BY DEF Ascending
<1>2. PICK A : /\ DepositLoop(A, segments, start)
               /\ SegmentDeposit(segments, start) = A[n].sum
  BY DepositSteps
<1> DEFINE T == {k \in Nat : k <= n => Inv(A[k], k)}
<1>4. 0 \in T
  <2>1. A[0].sum = 0 /\ A[0].prev = start
    BY <1>2 DEF DepositLoop
  <2>2. start \in start..segments[n].end
    <3>1. n \in 0..n /\ 0 \in 0..n
      BY <1>1
    <3>2. EndOf(segments, start, 0) = start /\ EndOf(segments, start, n) = segments[n].end
      BY <1>1 DEF EndOf
    <3>3. start <= segments[n].end
      BY <3>1, <3>2, EndsOrdered
    <3>4. segments[n].end \in Nat
      BY <3>1, <3>2 DEF Ascending
    <3>5. QED BY <3>3, <3>4
  <2>3. VestedBetween(segments, start, start) = 0
    BY <2>2, StreamRated, VestedNone
  <2>4. EndOf(segments, start, 0) = start
    BY DEF EndOf
  <2>5. Inv(A[0], 0)
    BY <2>1, <2>3, <2>4 DEF DepositInv
  <2>6. QED BY <2>5
<1>5. ASSUME NEW k \in Nat, k \in T PROVE k + 1 \in T
  <2> SUFFICES ASSUME k + 1 <= n PROVE Inv(A[k + 1], k + 1)
    OBVIOUS
  <2>1. k + 1 \in 1..n /\ (k + 1) - 1 = k /\ k <= n
    BY <1>1
  <2>2. A[k + 1] = DepositStep(A[k], segments[k + 1])
    BY <1>2, <2>1 DEF DepositLoop
  <2>3. Inv(A[k], (k + 1) - 1)
    BY <1>5, <2>1
  <2>4. DepositInv(DepositStep(A[k], segments[k + 1]), segments, start, k + 1)
    BY <2>1, <2>3, DepositInvStep
  <2>5. QED BY <2>2, <2>4
<1>6. n \in T
  BY <1>1, <1>4, <1>5, Induction
<1>7. Inv(A[n], n)
  BY <1>1, <1>6
<1>8. EndOf(segments, start, n) = segments[n].end
  BY <1>1 DEF EndOf
<1>9. QED BY <1>2, <1>7, <1>8 DEF DepositInv

-----------------------------------------------------------------------------
(* What a stored stream keeps, whatever was claimed of it.                 *)

RowInv(v, l) ==
    /\ v \in VariableRow
    /\ Ascending(v.segments, v.start)
    /\ v.end = v.segments[Len(v.segments)].end
    /\ v.total = VestedBetween(v.segments, v.start, v.end)
    /\ v.start <= v.last /\ v.last <= l /\ v.last < v.end
    /\ v.start < v.last => v.cliff <= v.last
    /\ v.claimed = VestedBetween(v.segments, v.start, v.last)

LEMMA RowTypes ==
    ASSUME NEW v \in VariableRow
    PROVE  /\ v.start \in Nat /\ v.cliff \in Nat /\ v.end \in Nat /\ v.last \in Nat
           /\ v.total \in Int /\ v.claimed \in Int /\ v.segments \in Seq(Segment)
           /\ v.cliff <= U32Max
BY LedgerAssumption DEF VariableRow

\* Any interval of a stored stream is one the two definitions agree on.
LEMMA RowInterval ==
    ASSUME NEW v, NEW l \in Nat, RowInv(v, l), NEW from \in v.start..v.end, NEW to \in from..v.end
    PROVE  Interval(v.segments, v.start, from, to)
BY RowTypes DEF RowInv, Interval

LEMMA RowRated ==
    ASSUME NEW v, NEW l \in Nat, RowInv(v, l)
    PROVE  Rated(v.segments, v.start, v.end)
BY RowTypes, StreamRated DEF RowInv

\* What has been paid and what has vested never exceed the deposit.
LEMMA RowBounds ==
    ASSUME NEW v, NEW l \in Nat, RowInv(v, l), NEW m \in v.start..v.end
    PROVE  /\ VestedBetween(v.segments, v.start, m) \in Nat
           /\ VestedBetween(v.segments, v.start, m) <= v.total
           /\ v.total \in Nat
           /\ v.total = VestedBetween(v.segments, v.start, v.end)
<1>1. Rated(v.segments, v.start, v.end)
  BY RowRated
<1>2. v.start \in Nat /\ v.end \in Nat /\ m \in Nat
  BY RowTypes DEF RowInv
<1>3. v.start \in v.start..v.end /\ v.end \in m..v.end /\ v.end \in v.start..v.end
  BY <1>2
<1>4. VestedBetween(v.segments, v.start, m) \in Nat
  BY <1>1, <1>3, VestedPositive
<1>5. VestedBetween(v.segments, m, v.end) \in Nat
  BY <1>1, <1>3, VestedPositive
<1>6. VestedBetween(v.segments, v.start, v.end)
        = VestedBetween(v.segments, v.start, m) + VestedBetween(v.segments, m, v.end)
  BY <1>1, <1>3, VestedSplit
<1>7. v.total = VestedBetween(v.segments, v.start, v.end)
  BY DEF RowInv
<1>8. QED BY <1>4, <1>5, <1>6, <1>7

\* What is due is what has vested and has not been paid.
LEMMA RowDue ==
    ASSUME ledger \in Nat, NEW v, RowInv(v, ledger), ledger >= v.cliff
    PROVE  /\ v.claimed + ClaimableVariable(v)
                = VestedBetween(v.segments, v.start, MinOf(ledger, v.end))
           /\ ClaimableVariable(v) \in Nat
           /\ MinOf(ledger, v.end) \in v.start..v.end
<1> DEFINE V(a, b) == VestedBetween(v.segments, a, b)
<1>1. /\ v.start \in Nat /\ v.cliff \in Nat /\ v.end \in Nat /\ v.last \in Nat
      /\ v.total \in Int /\ v.claimed \in Int
  BY RowTypes DEF RowInv
<1>2. /\ v.start <= v.last /\ v.last <= ledger /\ v.last < v.end
      /\ v.claimed = V(v.start, v.last) /\ v.total = V(v.start, v.end)
  BY DEF RowInv
<1>3. Rated(v.segments, v.start, v.end)
  BY RowRated
<1>4. v.start \in v.start..v.end /\ v.last \in v.start..v.end /\ v.end \in v.last..v.end
  BY <1>1, <1>2
<1>5. V(v.last, v.end) \in Nat /\ V(v.start, v.end) = V(v.start, v.last) + V(v.last, v.end)
  BY <1>3, <1>4, VestedPositive, VestedSplit
<1>6. CASE ledger >= v.end
  <2>1. MinOf(ledger, v.end) = v.end
    BY <1>1, <1>6 DEF MinOf
  <2>2. ClaimableVariable(v) = v.total - v.claimed
    BY <1>1, <1>6 DEF ClaimableVariable
  <2>3. v.end \in v.start..v.end
    BY <1>1, <1>2
  <2> HIDE DEF V
  <2>4. ClaimableVariable(v) = V(v.last, v.end)
    BY <1>1, <1>2, <1>5, <2>2
  <2>5. v.claimed + ClaimableVariable(v) = V(v.start, v.end)
    BY <1>2, <1>5, <2>4
  <2>6. QED BY <1>5, <2>1, <2>3, <2>4, <2>5 DEF V
<1>7. CASE ~(ledger >= v.end)
  <2>1. MinOf(ledger, v.end) = ledger /\ ledger \in v.start..v.end /\ ledger \in v.last..v.end
    BY <1>1, <1>2, <1>7 DEF MinOf
  <2>2. ClaimableVariable(v) = ComputeVariableClaimable(v.segments, v.last, ledger, v.start)
    BY <1>1, <1>7 DEF ClaimableVariable
  <2>3. Interval(v.segments, v.start, v.last, ledger)
    BY <1>4, <2>1, RowInterval
  <2>4. ClaimableVariable(v) = V(v.last, ledger)
    BY <2>2, <2>3, FirstDefinition
  <2>5. V(v.last, ledger) \in Nat
    BY <1>3, <1>4, <2>1, VestedPositive
  <2>6. V(v.start, ledger) = V(v.start, v.last) + V(v.last, ledger)
    BY <1>3, <1>4, <2>1, VestedSplit
  <2>7. QED BY <1>2, <2>1, <2>4, <2>5, <2>6
<1>8. QED BY <1>6, <1>7

-----------------------------------------------------------------------------
(* What the vault owes.                                                    *)

VariableRows == [Recipients -> VariableRow \cup {NoRow}]

LiveIn(rows) == {r \in Recipients : rows[r] # NoRow}

OwedBy(rows) == [r \in LiveIn(rows) |-> rows[r].total - rows[r].claimed]

\* The streams of `next` are those of `rows` and a stream v of r.
OneMore(rows, next, r, v) ==
    /\ rows \in VariableRows /\ next \in VariableRows /\ r \in Recipients /\ v \in VariableRow
    /\ rows[r] = NoRow /\ next[r] = v
    /\ \A x \in Recipients \ {r} : next[x] = rows[x]

LEMMA OwedType ==
    ASSUME NEW rows \in VariableRows
    PROVE  /\ OwedBy(rows) \in [LiveIn(rows) -> Int]
           /\ IsFiniteSet(LiveIn(rows))
           /\ SumFunction(OwedBy(rows)) \in Int
<1>1. \A x \in LiveIn(rows) : rows[x].total - rows[x].claimed \in Int
  <2> SUFFICES ASSUME NEW x \in LiveIn(rows) PROVE rows[x].total - rows[x].claimed \in Int
    OBVIOUS
  <2>1. rows[x] \in VariableRow
    BY DEF LiveIn, VariableRows
  <2>2. QED BY <2>1, RowTypes
<1>2. OwedBy(rows) \in [LiveIn(rows) -> Int]
  BY <1>1 DEF OwedBy
<1>3. IsFiniteSet(LiveIn(rows))
  <2>1. LiveIn(rows) \subseteq Recipients
    BY DEF LiveIn
  <2>2. QED BY <2>1, AccountAssumption, FS_Subset
<1>4. QED BY <1>2, <1>3, SumType

LEMMA OwedMore ==
    ASSUME NEW rows, NEW next, NEW r, NEW v, OneMore(rows, next, r, v)
    PROVE  SumFunction(OwedBy(next)) = SumFunction(OwedBy(rows)) + (v.total - v.claimed)
<1> DEFINE S == LiveIn(rows)
           u == OwedBy(rows)
           w == OwedBy(next)
<1>1. rows \in VariableRows /\ next \in VariableRows /\ v # NoRow
  BY VariableAssumption DEF OneMore
<1>2. LiveIn(next) = S \cup {r} /\ r \notin S
  BY <1>1 DEF OneMore, LiveIn
<1>3. u \in [S -> Int] /\ IsFiniteSet(S) /\ w \in [LiveIn(next) -> Int]
  BY <1>1, OwedType
<1>4. \A y \in S : u[y] = w[y]
  <2> SUFFICES ASSUME NEW y \in S PROVE u[y] = w[y]
    OBVIOUS
  <2>1. y \in Recipients \ {r} /\ y \in LiveIn(next)
    BY <1>2 DEF LiveIn
  <2>2. next[y] = rows[y]
    BY <2>1 DEF OneMore
  <2>3. QED BY <2>1, <2>2 DEF OwedBy
<1>5. w[r] = v.total - v.claimed
  BY <1>2 DEF OwedBy, OneMore
<1>6. MoreBy(w, u, S, r)
  BY <1>2, <1>3, <1>4 DEF MoreBy
<1> HIDE DEF S, u, w
<1>7. SumFunction(w) = SumFunction(u) + w[r]
  BY <1>2, <1>3, <1>6, SumAdd
<1>8. QED BY <1>5, <1>7 DEF u, w

-----------------------------------------------------------------------------
(* The inductive invariant.                                                *)

RowsInv == \A r \in LiveVariable : RowInv(variable[r], ledger)

StreamsInv == VariableTypeOK /\ RowsInv /\ VaultBacksVariable

LEMMA VaultIsOwed ==
    /\ VaultBacksVariable <=> balance[Vault] = SumFunction(OwedBy(variable))
    /\ VaultBacksVariable' <=> balance'[Vault] = SumFunction(OwedBy(variable'))
<1>1. OwedBy(variable) = [r \in LiveVariable |-> variable[r].total - variable[r].claimed]
  BY DEF OwedBy, LiveIn, LiveVariable
<1>2. OwedBy(variable') = [r \in LiveVariable |-> variable[r].total - variable[r].claimed]'
  BY DEF OwedBy, LiveIn, LiveVariable
<1>3. QED BY <1>1, <1>2 DEF VaultBacksVariable

\* A transfer between two accounts.
LEMMA MovedFacts ==
    ASSUME NEW from \in Accounts, NEW to \in Accounts, from # to, NEW amount \in Nat,
           balance \in [Accounts -> Nat], CanPay(from, amount)
    PROVE  /\ Moved(balance, from, to, amount) \in [Accounts -> Nat]
           /\ Moved(balance, from, to, amount)[from] = balance[from] - amount
           /\ Moved(balance, from, to, amount)[to] = balance[to] + amount
<1>1. balance[from] \in Nat /\ balance[to] \in Nat /\ balance[from] - amount \in Nat
      /\ balance[to] + amount \in Nat
  BY DEF CanPay
<1>2. QED BY <1>1 DEF Moved

LEMMA InitInv == VariableInit => StreamsInv
<1> SUFFICES ASSUME VariableInit PROVE StreamsInv
  OBVIOUS
<1> USE DEF VariableInit
<1>1. VariableTypeOK
  BY LedgerAssumption, VariableAssumption DEF VariableTypeOK
<1>2. LiveVariable = {} /\ LiveIn(variable) = {}
  BY DEF LiveVariable, LiveIn
<1>3. OwedBy(variable) \in [{} -> Int]
  BY <1>2 DEF OwedBy
<1>4. SumFunction(OwedBy(variable)) = 0
  BY <1>3, SumEmpty
<1>5. balance[Vault] = 0
  BY AccountAssumption DEF Accounts
<1>6. QED BY <1>1, <1>2, <1>4, <1>5, VaultIsOwed DEF StreamsInv, RowsInv

\* Time only makes more of a stream due.
LEMMA RowAges ==
    ASSUME NEW v, NEW l \in Nat, NEW m \in Nat, l <= m, RowInv(v, l)
    PROVE  RowInv(v, m)
<1>1. v.last \in Nat
  BY RowTypes DEF RowInv
<1>2. v.last <= l => v.last <= m
  BY <1>1
<1>3. QED BY <1>2 DEF RowInv

LEMMA CloseKeeps ==
    ASSUME StreamsInv, CloseLedger /\ UNCHANGED <<balance, variable, fixedVars>>
    PROVE  StreamsInv'
<1>1. VariableTypeOK'
  BY LedgerAssumption DEF StreamsInv, VariableTypeOK, CloseLedger
<1>2. ledger \in Nat /\ ledger' \in Nat /\ ledger <= ledger'
  BY LedgerAssumption DEF StreamsInv, VariableTypeOK, CloseLedger
<1>3. LiveVariable' = LiveVariable /\ variable' = variable /\ balance' = balance
  BY DEF LiveVariable
<1>4. RowsInv'
  <2> SUFFICES ASSUME NEW r \in LiveVariable PROVE RowInv(variable[r], ledger')
    BY <1>3 DEF RowsInv
  <2>1. RowInv(variable[r], ledger)
    BY DEF StreamsInv, RowsInv
  <2>2. QED BY <1>2, <2>1, RowAges
<1>5. VaultBacksVariable'
  BY <1>3, VaultIsOwed DEF StreamsInv
<1>6. QED BY <1>1, <1>4, <1>5 DEF StreamsInv

\* A new stream has paid nothing of what its segments vest.
LEMMA NewRow ==
    ASSUME ledger \in 0..U32Max, NEW s \in Sponsors, NEW cliff \in Nat, ledger + cliff <= U32Max,
           NEW segments \in Seq(Segment), ValidSegments(segments, ledger),
           NEW total, total = SegmentDeposit(segments, ledger)
    PROVE  /\ RowInv(VariableSchedule(s, cliff, segments, total), ledger)
           /\ total \in Nat
           /\ VariableSchedule(s, cliff, segments, total).total = total
           /\ VariableSchedule(s, cliff, segments, total).claimed = 0
<1> DEFINE n == Len(segments)
           end == segments[n].end
           v == VariableSchedule(s, cliff, segments, total)
<1>1. ledger \in Nat /\ ledger + cliff \in 0..U32Max
  BY LedgerAssumption
<1>2. Ascending(segments, ledger)
  BY <1>1, ValidAscends
<1>3. n \in Nat /\ n # 0 /\ n \in 1..n /\ n \in 0..n /\ 0 \in 0..n /\ 1 \in 1..n /\ 1 \in 0..n
  BY <1>2 DEF Ascending
<1>4. Last(segments) = segments[n]
  BY DEF Last
<1>5. segments[n] \in Segment /\ end \in 0..U32Max
  <2>1. segments[n] \in Segment
    BY <1>3
  <2>2. QED BY <2>1 DEF Segment
<1>6. ledger < end
  <2>1. EndOf(segments, ledger, 1 - 1) < EndOf(segments, ledger, 1)
    BY <1>2, <1>3 DEF Ascending
  <2>2. EndOf(segments, ledger, 1) <= EndOf(segments, ledger, n)
    <3>1. 1 \in 0..n
      BY <1>3
    <3>2. QED BY <1>2, <1>3, <3>1, EndsOrdered
  <2>3. EndOf(segments, ledger, 0) = ledger /\ EndOf(segments, ledger, n) = end
    BY <1>3 DEF EndOf
  <2>4. EndOf(segments, ledger, 1) \in Nat /\ EndOf(segments, ledger, n) \in Nat
    BY <1>2, <1>3 DEF Ascending
  <2>5. 1 - 1 = 0
    OBVIOUS
  <2>6. QED BY <1>1, <2>1, <2>2, <2>3, <2>4, <2>5
<1>7. Rated(segments, ledger, end)
  BY <1>1, <1>2, StreamRated
<1>8. ledger \in ledger..end /\ end \in ledger..end
  BY <1>1, <1>5, <1>6, LedgerAssumption
<1>9. VestedBetween(segments, ledger, ledger) = 0 /\ VestedBetween(segments, ledger, end) \in Nat
  BY <1>7, <1>8, VestedNone, VestedPositive
<1>10. total = VestedBetween(segments, ledger, end)
  BY <1>1, <1>2, DepositIsWhole
<1>11. /\ v.sponsor = s /\ v.start = ledger /\ v.cliff = ledger + cliff /\ v.end = end
       /\ v.segments = segments /\ v.total = total /\ v.last = ledger /\ v.claimed = 0
  BY <1>4 DEF VariableSchedule
<1>12. v \in VariableRow
  BY <1>1, <1>4, <1>5, <1>9, <1>10 DEF VariableRow, VariableSchedule
<1> HIDE DEF v, n, end
<1>13. RowInv(v, ledger)
  <2>1. Ascending(v.segments, v.start)
    BY <1>2, <1>11
  <2>2. v.end = v.segments[Len(v.segments)].end
    BY <1>11 DEF end, n
  <2>3. v.total = VestedBetween(v.segments, v.start, v.end)
    BY <1>10, <1>11
  <2>4. v.start <= v.last /\ v.last <= ledger /\ v.last < v.end /\ ~(v.start < v.last)
    BY <1>1, <1>6, <1>11
  <2>5. v.claimed = VestedBetween(v.segments, v.start, v.last)
    BY <1>9, <1>11
  <2>6. QED BY <1>12, <2>1, <2>2, <2>3, <2>4, <2>5 DEF RowInv
<1>14. QED BY <1>9, <1>10, <1>11, <1>13 DEF v

LEMMA CreateKeeps ==
    ASSUME StreamsInv, NEW s \in Sponsors, NEW r \in Recipients, NEW cliff \in CliffDurations,
           NEW segments \in SegmentLists, CreateVariableRateStream(s, r, cliff, segments)
    PROVE  StreamsInv'
<1> DEFINE total == SegmentDeposit(segments, ledger)
           v == VariableSchedule(s, cliff, segments, total)
<1>1. /\ variable[r] = NoRow /\ ledger + cliff <= U32Max /\ ValidSegments(segments, ledger)
      /\ CanPay(s, total) /\ balance' = Moved(balance, s, Vault, total)
      /\ variable' = [variable EXCEPT ![r] = v] /\ ledger' = ledger
  BY DEF CreateVariableRateStream, FundVariable
<1>2. /\ ledger \in 0..U32Max /\ balance \in [Accounts -> Nat] /\ variable \in VariableRows
      /\ cliff \in Nat /\ segments \in Seq(Segment)
  BY VariableAssumption DEF StreamsInv, VariableTypeOK, VariableRows
<1>3. RowInv(v, ledger) /\ total \in Nat /\ v.total = total /\ v.claimed = 0
  BY <1>1, <1>2, NewRow
<1> HIDE DEF total, v
<1>4. v \in VariableRow
  BY <1>3 DEF RowInv
<1>5. variable' \in VariableRows /\ variable'[r] = v
      /\ \A x \in Recipients \ {r} : variable'[x] = variable[x]
  BY <1>1, <1>2, <1>4 DEF VariableRows
<1>6. s \in Accounts /\ Vault \in Accounts /\ s # Vault
  BY AccountAssumption DEF Accounts
<1>7. balance' \in [Accounts -> Nat] /\ balance'[Vault] = balance[Vault] + total
  BY <1>1, <1>2, <1>3, <1>6, MovedFacts
<1>8. VariableTypeOK'
  BY <1>1, <1>2, <1>5, <1>7 DEF VariableTypeOK, VariableRows
<1>9. RowsInv'
  <2> SUFFICES ASSUME NEW x \in LiveVariable' PROVE RowInv(variable'[x], ledger)
    BY <1>1 DEF RowsInv
  <2>1. x \in Recipients /\ variable'[x] # NoRow
    BY DEF LiveVariable
  <2>2. CASE x = r
    BY <1>3, <1>5, <2>2
  <2>3. CASE x # r
    <3>1. variable'[x] = variable[x] /\ x \in LiveVariable
      BY <1>5, <2>1, <2>3 DEF LiveVariable
    <3>2. QED BY <3>1 DEF StreamsInv, RowsInv
  <2>4. QED BY <2>2, <2>3
<1>10. VaultBacksVariable'
  <2>1. OneMore(variable, variable', r, v)
    BY <1>1, <1>2, <1>4, <1>5 DEF OneMore
  <2>2. SumFunction(OwedBy(variable')) = SumFunction(OwedBy(variable)) + (v.total - v.claimed)
    BY <2>1, OwedMore
  <2>3. balance[Vault] = SumFunction(OwedBy(variable))
    BY VaultIsOwed DEF StreamsInv
  <2>4. balance'[Vault] = SumFunction(OwedBy(variable'))
    BY <1>3, <1>7, <2>2, <2>3
  <2>5. QED BY <2>4, VaultIsOwed
<1>11. QED BY <1>8, <1>9, <1>10 DEF StreamsInv

LEMMA ClaimKeeps ==
    ASSUME StreamsInv, NEW r \in Recipients, ClaimVariableVested(r)
    PROVE  StreamsInv'
<1> DEFINE v      == variable[r]
           amount == ClaimableVariable(v)
           m      == MinOf(ledger, v.end)
           next   == [v EXCEPT !.last = m, !.claimed = @ + amount]
           cell   == IF next.claimed >= v.total THEN NoRow ELSE next
           gone   == [variable EXCEPT ![r] = NoRow]
<1>1. /\ v # NoRow /\ ledger >= v.cliff /\ CanPay(Vault, amount)
      /\ balance' = Moved(balance, Vault, r, amount)
      /\ variable' = [variable EXCEPT ![r] = cell] /\ ledger' = ledger
  BY DEF ClaimVariableVested
<1>2. /\ ledger \in 0..U32Max /\ ledger \in Nat /\ balance \in [Accounts -> Nat]
      /\ variable \in VariableRows
  BY LedgerAssumption DEF StreamsInv, VariableTypeOK, VariableRows
<1>3. RowInv(v, ledger)
  BY <1>1 DEF StreamsInv, RowsInv, LiveVariable
<1>4. /\ v.claimed + amount = VestedBetween(v.segments, v.start, m)
      /\ amount \in Nat /\ m \in v.start..v.end
  BY <1>1, <1>2, <1>3, RowDue
<1>5. v \in VariableRow
  BY <1>3 DEF RowInv
<1>6. /\ v.start \in Nat /\ v.cliff \in Nat /\ v.end \in Nat /\ v.last \in Nat
      /\ v.total \in Int /\ v.claimed \in Int /\ v.end \in 0..U32Max
  BY <1>5, RowTypes DEF VariableRow
<1>7. m \in 0..U32Max /\ m <= ledger
  BY <1>2, <1>6 DEF MinOf
<1>8. v.claimed + amount <= v.total /\ v.total = VestedBetween(v.segments, v.start, v.end)
  BY <1>2, <1>3, <1>4, RowBounds
<1>9. /\ next \in VariableRow /\ next.claimed = v.claimed + amount /\ next.last = m
      /\ next.start = v.start /\ next.cliff = v.cliff /\ next.end = v.end
      /\ next.segments = v.segments /\ next.total = v.total
  <2> HIDE DEF v, amount, m
  <2>1. v.claimed + amount \in Int
    BY <1>4, <1>6
  <2>2. QED BY <1>5, <1>7, <2>1 DEF VariableRow
<1>10. CASE v.claimed + amount = v.total
  <2>1. cell = NoRow
    <3> HIDE DEF v, amount, next
    <3>1. next.claimed >= v.total
      BY <1>6, <1>9, <1>10
    <3>2. QED BY <3>1
  <2> HIDE DEF v, amount, m, next, cell
  <2>2. variable' \in VariableRows /\ variable'[r] = NoRow
        /\ \A x \in Recipients \ {r} : variable'[x] = variable[x]
    BY <1>1, <1>2, <2>1 DEF VariableRows
  <2>3. r \in Accounts /\ Vault \in Accounts /\ r # Vault
    BY AccountAssumption DEF Accounts
  <2>4. balance' \in [Accounts -> Nat] /\ balance'[Vault] = balance[Vault] - amount
    BY <1>1, <1>2, <1>4, <2>3, MovedFacts
  <2>5. VariableTypeOK'
    BY <1>1, <1>2, <2>2, <2>4 DEF VariableTypeOK, VariableRows
  <2>6. RowsInv'
    <3> SUFFICES ASSUME NEW x \in LiveVariable' PROVE RowInv(variable'[x], ledger)
      BY <1>1 DEF RowsInv
    <3>1. x \in Recipients /\ x # r /\ variable'[x] # NoRow
      BY <2>2 DEF LiveVariable
    <3>2. variable'[x] = variable[x] /\ x \in LiveVariable
      BY <2>2, <3>1 DEF LiveVariable
    <3>3. QED BY <3>2 DEF StreamsInv, RowsInv
  <2>7. OneMore(variable', variable, r, v)
    BY <1>2, <1>5, <2>2 DEF OneMore, v
  <2>8. SumFunction(OwedBy(variable)) = SumFunction(OwedBy(variable')) + (v.total - v.claimed)
    BY <2>7, OwedMore
  <2>9. balance[Vault] = SumFunction(OwedBy(variable))
    BY VaultIsOwed DEF StreamsInv
  <2>10. SumFunction(OwedBy(variable')) \in Int
    BY <2>2, OwedType
  <2>11. balance'[Vault] = SumFunction(OwedBy(variable'))
    BY <1>4, <1>6, <1>10, <2>4, <2>8, <2>9, <2>10
  <2>12. QED BY <2>5, <2>6, <2>11, VaultIsOwed DEF StreamsInv
<1>11. CASE v.claimed + amount # v.total
  <2>1. cell = next
    <3> HIDE DEF v, amount, next
    <3>1. ~(next.claimed >= v.total)
      BY <1>4, <1>6, <1>8, <1>9, <1>11
    <3>2. QED BY <3>1
  <2>2. m = ledger /\ ledger < v.end
    <3>1. m = v.end \/ (m = ledger /\ ledger < v.end)
      BY <1>2, <1>6 DEF MinOf
    <3>2. m # v.end
      BY <1>4, <1>8, <1>11
    <3>3. QED BY <3>1, <3>2
  <2> HIDE DEF v, amount, m, next, cell
  <2>3. RowInv(next, ledger)
    <3>1. Ascending(next.segments, next.start) /\ next.end = next.segments[Len(next.segments)].end
      BY <1>3, <1>9 DEF RowInv
    <3>2. next.total = VestedBetween(next.segments, next.start, next.end)
      BY <1>8, <1>9
    <3>3. next.claimed = VestedBetween(next.segments, next.start, next.last)
      BY <1>4, <1>9
    <3>4. /\ next.start <= next.last /\ next.last <= ledger /\ next.last < next.end
          /\ next.cliff <= next.last
      BY <1>1, <1>2, <1>4, <1>6, <1>9, <2>2
    <3>5. QED BY <1>9, <3>1, <3>2, <3>3, <3>4 DEF RowInv
  <2>4. variable' \in VariableRows /\ variable'[r] = next
        /\ \A x \in Recipients \ {r} : variable'[x] = variable[x]
    BY <1>1, <1>2, <1>9, <2>1 DEF VariableRows
  <2>5. r \in Accounts /\ Vault \in Accounts /\ r # Vault
    BY AccountAssumption DEF Accounts
  <2>6. balance' \in [Accounts -> Nat] /\ balance'[Vault] = balance[Vault] - amount
    BY <1>1, <1>2, <1>4, <2>5, MovedFacts
  <2>7. VariableTypeOK'
    BY <1>1, <1>2, <2>4, <2>6 DEF VariableTypeOK, VariableRows
  <2>8. RowsInv'
    <3> SUFFICES ASSUME NEW x \in LiveVariable' PROVE RowInv(variable'[x], ledger)
      BY <1>1 DEF RowsInv
    <3>1. x \in Recipients /\ variable'[x] # NoRow
      BY DEF LiveVariable
    <3>2. CASE x = r
      BY <2>3, <2>4, <3>2
    <3>3. CASE x # r
      <4>1. variable'[x] = variable[x] /\ x \in LiveVariable
        BY <2>4, <3>1, <3>3 DEF LiveVariable
      <4>2. QED BY <4>1 DEF StreamsInv, RowsInv
    <3>4. QED BY <3>2, <3>3
  <2>9. /\ gone \in VariableRows /\ gone[r] = NoRow
        /\ \A x \in Recipients \ {r} : gone[x] = variable[x]
    BY <1>2 DEF VariableRows
  <2> HIDE DEF gone
  <2>10. OneMore(gone, variable, r, v)
    BY <1>2, <1>5, <2>9 DEF OneMore, v
  <2>11. OneMore(gone, variable', r, next)
    BY <1>9, <2>4, <2>9 DEF OneMore
  <2>12. SumFunction(OwedBy(variable)) = SumFunction(OwedBy(gone)) + (v.total - v.claimed)
    BY <2>10, OwedMore
  <2>13. SumFunction(OwedBy(variable')) = SumFunction(OwedBy(gone)) + (next.total - next.claimed)
    BY <2>11, OwedMore
  <2>14. balance[Vault] = SumFunction(OwedBy(variable))
    BY VaultIsOwed DEF StreamsInv
  <2>15. SumFunction(OwedBy(gone)) \in Int
    BY <2>9, OwedType
  <2>16. balance'[Vault] = SumFunction(OwedBy(variable'))
    BY <1>4, <1>6, <1>9, <2>6, <2>12, <2>13, <2>14, <2>15
  <2>17. QED BY <2>7, <2>8, <2>16, VaultIsOwed DEF StreamsInv
<1>12. QED BY <1>10, <1>11

LEMMA StreamsInvHolds == VariableSpec => []StreamsInv
<1>1. StreamsInv /\ [VariableNext]_vvars => StreamsInv'
  <2> SUFFICES ASSUME StreamsInv, [VariableNext]_vvars PROVE StreamsInv'
    OBVIOUS
  <2>1. CASE CloseLedger /\ UNCHANGED <<balance, variable, fixedVars>>
    BY <2>1, CloseKeeps
  <2>2. CASE \E s \in Sponsors, r \in Recipients, cliff \in CliffDurations, sg \in SegmentLists :
               CreateVariableRateStream(s, r, cliff, sg)
    BY <2>2, CreateKeeps
  <2>3. CASE \E r \in Recipients : ClaimVariableVested(r)
    BY <2>3, ClaimKeeps
  <2>4. CASE UNCHANGED vvars
    <3>1. ledger' = ledger /\ balance' = balance /\ variable' = variable
      BY <2>4 DEF vvars
    <3>2. QED BY <3>1, VaultIsOwed DEF StreamsInv, VariableTypeOK, RowsInv, LiveVariable
  <2>5. QED BY <2>1, <2>2, <2>3, <2>4 DEF VariableNext
<1>2. QED BY InitInv, <1>1, PTL DEF VariableSpec

-----------------------------------------------------------------------------
(* The theorems.                                                           *)

\* claim_variable_vested: whatever segments a stream was created with and
\* however its claims fall, its claim pointer stays inside it, what was paid
\* is what has vested up to the pointer, and what is due is the rest.
THEOREM VariableStreamsAreExact == VariableSpec => []VariableInv
<1>1. StreamsInv => VariableInv
  <2> SUFFICES ASSUME StreamsInv PROVE VariableInv
    OBVIOUS
  <2>1. ledger \in Nat
    BY LedgerAssumption DEF StreamsInv, VariableTypeOK
  <2>2. ASSUME NEW r \in LiveVariable
        PROVE  /\ RowInv(variable[r], ledger)
               /\ variable[r].cliff <= U32Max
               /\ ledger >= variable[r].cliff =>
                    variable[r].claimed + ClaimableVariable(variable[r])
                      = VestedBetween(variable[r].segments, variable[r].start,
                                      MinOf(ledger, variable[r].end))
    <3>1. RowInv(variable[r], ledger)
      BY DEF StreamsInv, RowsInv
    <3>2. variable[r].cliff <= U32Max
      BY <3>1, RowTypes DEF RowInv
    <3>3. QED BY <2>1, <3>1, <3>2, RowDue
  <2>3. VariablePointerInv
    BY <2>2 DEF VariablePointerInv, RowInv
  <2>4. ClaimedIsVested
    BY <2>2 DEF ClaimedIsVested, RowInv
  <2>5. QED BY <2>3, <2>4 DEF StreamsInv, VariableInv
<1>2. QED BY StreamsInvHolds, <1>1, PTL

\* compute_variable_claimable: the two definitions give the same amount for
\* every interval of every stream, the sum of the rates ledger by ledger.
THEOREM BothDefinitionsAgree == VariableSpec => []DefinitionsAgree
<1>1. StreamsInv => DefinitionsAgree
  <2> SUFFICES ASSUME StreamsInv, NEW r \in LiveVariable,
                      NEW from \in variable[r].start..variable[r].end,
                      NEW to \in from..variable[r].end
               PROVE  /\ ComputeVariableClaimable(variable[r].segments, from, to,
                                                  variable[r].start)
                           = VestedBetween(variable[r].segments, from, to)
                      /\ ComputeVariableClaimable2(variable[r].segments, from, to)
                           = VestedBetween(variable[r].segments, from, to)
    BY DEF DefinitionsAgree
  <2>1. ledger \in Nat
    BY LedgerAssumption DEF StreamsInv, VariableTypeOK
  <2>2. RowInv(variable[r], ledger)
    BY DEF StreamsInv, RowsInv
  <2>3. Interval(variable[r].segments, variable[r].start, from, to)
    BY <2>1, <2>2, RowInterval
  <2>4. QED BY <2>3, FirstDefinition, SecondDefinition
<1>2. QED BY StreamsInvHolds, <1>1, PTL

\* create_variable_rate_stream and claim_variable_vested: the vault holds
\* exactly what the live streams have still to pay.
THEOREM VaultBacksEveryStream == VariableSpec => []VaultBacksVariable
<1>1. StreamsInv => VaultBacksVariable
  BY DEF StreamsInv
<1>2. QED BY StreamsInvHolds, <1>1, PTL
=============================================================================
