------------------------ MODULE ReportFigures_proofs ------------------------
(* Proofs about the figures of the reports: what they add up to when writes *)
(* commit between the queries they are made of, and when none does.         *)
EXTENDS Reports_proofs, SumTheorems

-----------------------------------------------------------------------------
(* The ranges of a segment *)

\* Segments of whole numbers, and of some step.
Segment == [start : WholeNumbers, end : WholeNumbers, step : WholeNumbers \ {0}]

LEMMA MaxOfTwo == \A n \in Int : AtLeast1(n) = IF n >= 1 THEN n ELSE 1
<1> TAKE n \in Int
<1> DEFINE m == IF n >= 1 THEN n ELSE 1
<1>1. m \in {1, n} /\ \A y \in {1, n} : m >= y
  OBVIOUS
<1>2. \A x \in {1, n} : (\A y \in {1, n} : x >= y) => x = m
  OBVIOUS
<1> QED  BY <1>1, <1>2 DEF AtLeast1, Max

\* A product of integers grows with its factor.
LEMMA Product ==
  ASSUME NEW a \in Int, NEW b \in Int, NEW c \in Nat
  PROVE  /\ a * c \in Int /\ b * c \in Int
         /\ a <= b => a * c <= b * c
         /\ (a + 1) * c = a * c + c
<1>1. a * c \in Int /\ b * c \in Int /\ (b - a) * c \in Int  OBVIOUS
<1>2. (b - a) * c = b * c - a * c  OBVIOUS
<1>3. a <= b => (b - a) * c >= 0
  <2>1. ASSUME NEW x \in Nat PROVE x * c >= 0  OBVIOUS
  <2> QED  BY <2>1
<1>4. (a + 1) * c = a * c + c  OBVIOUS
<1> QED  BY <1>1, <1>2, <1>3, <1>4

LEMMA Division ==
  ASSUME NEW a \in Int, NEW c \in Nat \ {0}
  PROVE  a \div c \in Int /\ (a \div c) * c <= a /\ a < (a \div c) * c + c
OBVIOUS

\* A number that is a float64 is not rounded.
LEMMA FlExact == ASSUME NEW x \in Floats PROVE Fl(x) = x
<1> DEFINE D == 0 .. (IF x < 0 THEN -x ELSE x)
           P(d) == Near(x, d) # {} /\ \A c \in 0 .. d - 1 : Near(x, c) = {}
           d == CHOOSE e \in D : P(e)
<1>1. x \in Int  BY FloatsAssumption
<1>2. Near(x, 0) = {x}  BY <1>1 DEF Near
<1>3. 0 \in D /\ D \subseteq Nat  BY <1>1
<1>4. P(0)  BY <1>2
<1>5. \A e \in D : P(e) => e = 0
  <2> SUFFICES ASSUME NEW e \in D, P(e), e # 0 PROVE FALSE  OBVIOUS
  <2>1. e \in Nat  BY <1>3
  <2>2. 0 \in 0 .. e - 1  BY <2>1
  <2> QED  BY <1>2, <2>2
<1> HIDE DEF D, P
<1>6. d = 0  BY <1>3, <1>4, <1>5
<1>7. Fl(x) = CHOOSE y \in Near(x, d) : TRUE  BY DEF Fl, D, P
<1> QED  BY <1>2, <1>6, <1>7

\* Nor are the multiples of a whole number of points that are not larger than another.
LEMMA WholeExact ==
  ASSUME NEW m \in Int, NEW e \in WholeNumbers, 0 <= m * Unit, m * Unit <= e
  PROVE  m * Unit \in WholeNumbers /\ Fl(m * Unit) = m * Unit
<1>1. PICK n \in 0 .. Exact : e = n * Unit  BY DEF WholeNumbers
<1>2. Unit \in Nat \ {0} /\ Exact \in Nat /\ n \in Int  BY FloatsAssumption
<1>3. ASSUME NEW a \in Int, NEW b \in Int, a * Unit <= b * Unit PROVE a <= b
  <2> SUFFICES ASSUME b + 1 <= a PROVE FALSE  OBVIOUS
  <2>1. (b + 1) * Unit <= a * Unit /\ (b + 1) * Unit = b * Unit + Unit  BY <1>2, Product
  <2>2. a * Unit \in Int /\ b * Unit \in Int  BY <1>2, Product
  <2> QED  BY <1>2, <1>3, <2>1, <2>2
<1>4. 0 <= m /\ m <= n
  <2>1. 0 * Unit = 0  BY <1>2
  <2> QED  BY <1>1, <1>2, <1>3, <2>1
<1>5. m \in 0 .. Exact  BY <1>2, <1>4
<1> QED  BY <1>5, FlExact, FloatsAssumption DEF WholeNumbers

LEMMA WholeIs ==
  ASSUME NEW x \in WholeNumbers
  PROVE  x \in Nat /\ \E m \in Nat : x = m * Unit
<1>1. PICK m \in 0 .. Exact : x = m * Unit  BY DEF WholeNumbers
<1>2. Unit \in Nat /\ m \in Nat  BY FloatsAssumption
<1>3. 0 * Unit = 0 /\ 0 * Unit <= m * Unit /\ m * Unit \in Int  BY <1>2, Product
<1> QED  BY <1>1, <1>2, <1>3

LEMMA SegmentIs ==
  ASSUME NEW g \in Segment
  PROVE  /\ g.start \in WholeNumbers /\ g.end \in WholeNumbers /\ g.step \in WholeNumbers
         /\ g.start \in Nat /\ g.end \in Nat /\ g.step \in Nat \ {0}
         /\ g.start < g.end => Fl(g.end - g.start) = g.end - g.start
<1>1. g.start \in WholeNumbers /\ g.end \in WholeNumbers /\ g.step \in WholeNumbers /\ g.step # 0
  BY DEF Segment
<1> DEFINE a == g.start
           b == g.end
<1>2. a \in Nat /\ b \in Nat /\ g.step \in Nat  BY <1>1, WholeIs
<1>3. PICK k \in Nat, m \in Nat : a = k * Unit /\ b = m * Unit  BY <1>1, WholeIs
<1>4. b - a = (m - k) * Unit  BY <1>3, FloatsAssumption
<1> HIDE DEF a, b
<1>5. a < b => 0 <= b - a /\ b - a <= b  BY <1>2
<1>6. m - k \in Int /\ b \in WholeNumbers  BY <1>1, <1>3 DEF b
<1>7. a < b => Fl(b - a) = b - a  BY <1>4, <1>5, <1>6, WholeExact
<1> QED  BY <1>1, <1>2, <1>7 DEF a, b

\* A segment has a range at least, and all its ranges but the last fit inside it.
LEMMA StepsFit ==
  ASSUME NEW g \in Segment, g.start < g.end
  PROVE  /\ Steps(g) \in Nat \ {0}
         /\ (Steps(g) - 1) * g.step \in Int
         /\ (Steps(g) - 1) * g.step < g.end - g.start
<1> DEFINE a == g.end - g.start
           b == g.step
           n == (2 * a + b) \div (2 * b)
<1>1. a \in Int /\ b \in Nat \ {0} /\ a > 0 /\ Fl(a) = a  BY SegmentIs
<1>2. 2 * a + b \in Int /\ 2 * b \in Nat \ {0}  BY <1>1
<1>3. n \in Int /\ n * (2 * b) <= 2 * a + b
  <2> HIDE DEF a, b
  <2>1. ASSUME NEW x \in Int, NEW c \in Nat \ {0}
        PROVE x \div c \in Int /\ (x \div c) * c <= x
    BY Division
  <2> QED  BY <1>2, <2>1
<1>4. Steps(g) = IF n >= 1 THEN n ELSE 1
  BY <1>1, <1>3, MaxOfTwo DEF Steps, RoundDiv
<1>5. (n - 1) * b \in Int /\ (n - 1) * b < a
  <2> HIDE DEF n, a, b
  <2>1. n * (2 * b) = 2 * (n * b) /\ n * b \in Int  BY <1>1, <1>3
  <2>2. (n - 1) * b = n * b - b  BY <1>1, <1>3
  <2> QED  BY <1>1, <1>3, <2>1, <2>2
<1>6. CASE n >= 1
  <2>1. Steps(g) = n  BY <1>4, <1>6
  <2> HIDE DEF n
  <2> QED  BY <2>1, <1>3, <1>5, <1>6
<1>7. CASE ~(n >= 1)
  <2>1. Steps(g) = 1  BY <1>4, <1>7
  <2>2. 0 * b = 0  BY <1>1
  <2> QED  BY <2>1, <2>2, <1>1
<1> QED  BY <1>6, <1>7

\* The ranges of a segment, one after the other.
LEMMA RangeOf ==
  ASSUME NEW segs \in Seq(Segment), NEW k \in DOMAIN segs, segs[k].start < segs[k].end,
         NEW i \in 0 .. Steps(segs[k]) - 1
  PROVE  LET g == segs[k]
             rg == expandSegments(segs)[<<k, i>>] IN
         /\ g.start + i * g.step \in Int
         /\ rg.min = g.start + i * g.step
         /\ rg.max = IF i = Steps(g) - 1 THEN g.end ELSE g.start + (i + 1) * g.step
         /\ rg.isLast <=> i = Steps(g) - 1 /\ k = Len(segs)
<1> DEFINE g == segs[k]
           n == Steps(g)
           D == UNION {{m} \X (0 .. Steps(segs[m]) - 1) : m \in DOMAIN segs}
<1>1. g \in Segment  OBVIOUS
<1>2. n \in Nat \ {0} /\ (n - 1) * g.step \in Int /\ (n - 1) * g.step < g.end - g.start
  BY <1>1, StepsFit
<1>3. g.start \in Nat /\ g.end \in Nat /\ g.step \in Nat \ {0}  BY <1>1, SegmentIs
<1> DEFINE lo == g.start + i * g.step
<1>4. i * g.step \in Int /\ (i + 1) * g.step = i * g.step + g.step
  BY <1>2, <1>3, Product
<1>5. i # n - 1 => lo + g.step <= g.end
  <2> SUFFICES ASSUME i # n - 1 PROVE lo + g.step <= g.end  OBVIOUS
  <2>1. i + 1 <= n - 1 /\ i + 1 \in Int /\ n - 1 \in Int  BY <1>2
  <2>2. (i + 1) * g.step <= (n - 1) * g.step  BY <2>1, <1>3, Product
  <2>3. i * g.step + g.step < g.end - g.start  BY <2>2, <1>2, <1>3, <1>4
  <2> HIDE DEF g, n
  <2> QED  BY <2>3, <1>3, <1>4
\* None of these numbers is rounded: they are whole and not larger than the end.
<1>12. PICK a \in Nat, b \in Nat : g.start = a * Unit /\ g.step = b * Unit
  BY <1>1, SegmentIs, WholeIs
<1>13. ASSUME NEW x \in Int, 0 <= x * g.step, x * g.step <= g.end
       PROVE  Fl(x * g.step) = x * g.step
  <2>1. Unit \in Int /\ x * g.step = (x * b) * Unit /\ x * b \in Int
    BY <1>12, FloatsAssumption
  <2>2. g.end \in WholeNumbers  BY <1>1, SegmentIs
  <2> HIDE DEF g
  <2> QED  BY <1>13, <2>1, <2>2, WholeExact
<1>14. ASSUME NEW x \in Int, 0 <= x * g.step, g.start + x * g.step <= g.end
       PROVE  Fl(g.start + x * g.step) = g.start + x * g.step
  <2>1. Unit \in Int /\ g.start + x * g.step = (a + x * b) * Unit /\ a + x * b \in Int
    BY <1>12, FloatsAssumption
  <2>2. g.end \in WholeNumbers  BY <1>1, SegmentIs
  <2>3. x * g.step \in Int  BY <1>3
  <2>4. 0 <= g.start + x * g.step
    <3> DEFINE y == x * g.step
    <3> HIDE DEF g, y
    <3>1. 0 <= g.start + y  BY <1>3, <1>14, <2>3 DEF y
    <3> QED  BY <3>1 DEF y
  <2> HIDE DEF g
  <2> QED  BY <1>14, <2>1, <2>2, <2>4, WholeExact
<1>15. 0 <= i * g.step /\ lo <= g.end /\ i * g.step <= g.end
  <2>1. i \in Int /\ 0 <= i /\ i <= n - 1 /\ n - 1 \in Int  BY <1>2
  <2>2. 0 * g.step <= i * g.step /\ i * g.step <= (n - 1) * g.step /\ 0 * g.step = 0
    BY <2>1, <1>3, Product
  <2> DEFINE x == i * g.step
             y == (n - 1) * g.step
  <2>3. x \in Int /\ y \in Int /\ 0 <= x /\ x <= y /\ y < g.end - g.start /\ lo = g.start + x
    BY <1>2, <1>4, <2>2
  <2> HIDE DEF g, n, x, y, lo
  <2>4. 0 <= x /\ lo <= g.end /\ x <= g.end  BY <1>3, <2>3
  <2> QED  BY <2>4 DEF x
<1>16. Fl(g.start + Fl(i * g.step)) = lo
  <2>1. i \in Int  BY <1>2
  <2> QED  BY <1>13, <1>14, <1>15, <2>1
<1>17. i # n - 1 => Fl(lo + g.step) = lo + g.step
  <2> SUFFICES ASSUME i # n - 1 PROVE Fl(lo + g.step) = lo + g.step  OBVIOUS
  <2>1. i + 1 \in Int  BY <1>2
  <2> DEFINE x == i * g.step
             y == (i + 1) * g.step
  <2>2. y = x + g.step /\ x \in Int /\ 0 <= x /\ lo = g.start + x /\ lo + g.step <= g.end
    BY <1>4, <1>5, <1>15
  <2>3. lo + g.step = g.start + y /\ 0 <= y /\ g.start + y <= g.end
    <3> HIDE DEF g, x, y, lo, n
    <3> QED  BY <1>3, <2>2
  <2>4. Fl(g.start + y) = g.start + y  BY <1>14, <2>1, <2>3
  <2> HIDE DEF lo, g, y
  <2> QED  BY <2>3, <2>4
<1>6. <<k, i>> \in D
  <2>1. <<k, i>> \in {k} \X (0 .. Steps(segs[k]) - 1)  OBVIOUS
  <2> QED  BY <2>1
<1>7. expandSegments(segs)[<<k, i>>] =
        [min |-> lo,
         max |-> IF i = n - 1 \/ Fl(lo + g.step) > g.end THEN g.end ELSE Fl(lo + g.step),
         isLast |-> i = n - 1 /\ k = Len(segs)]
  BY <1>6, <1>16 DEF expandSegments
<1> DEFINE rg == expandSegments(segs)[<<k, i>>]
<1>8. /\ rg.min = lo
      /\ rg.max = IF i = n - 1 \/ lo + g.step > g.end THEN g.end ELSE lo + g.step
  <2>1. /\ rg.min = lo
        /\ rg.max = IF i = n - 1 \/ Fl(lo + g.step) > g.end THEN g.end ELSE Fl(lo + g.step)
    BY <1>7
  <2> HIDE DEF rg, lo, g, n
  <2> QED  BY <2>1, <1>17
<1>9. lo \in Int /\ lo + g.step = g.start + (i + 1) * g.step
  <2> DEFINE x == i * g.step
             y == (i + 1) * g.step
  <2>1. g.start \in Int /\ g.step \in Int /\ x \in Int /\ y = x + g.step  BY <1>3, <1>4
  <2>2. lo = g.start + x  OBVIOUS
  <2> HIDE DEF g, x, y, lo
  <2>3. lo \in Int /\ lo + g.step = g.start + y  BY <2>1, <2>2
  <2> QED  BY <2>3 DEF y
<1>10. rg.max = IF i = n - 1 THEN g.end ELSE g.start + (i + 1) * g.step
  <2> HIDE DEF g, n, rg
  <2>1. CASE i = n - 1  BY <2>1, <1>8
  <2>2. CASE i # n - 1
    <3> HIDE DEF lo
    <3>1. ~(lo + g.step > g.end)  BY <2>2, <1>3, <1>5, <1>9
    <3> QED  BY <2>2, <3>1, <1>8, <1>9
  <2> QED  BY <2>1, <2>2
<1>11. rg.isLast <=> i = n - 1 /\ k = Len(segs)
  <2>1. rg.isLast = (i = n - 1 /\ k = Len(segs))  BY <1>7
  <2> HIDE DEF rg, n
  <2> QED  BY <2>1
<1> QED  BY <1>8, <1>9, <1>10, <1>11

\* ScoreSegment: in a segment of whole numbers, of any length and any step, each number,
\* a fraction too, from its start up to its end is in exactly one of the ranges that
\* expandSegments makes of it.
THEOREM SegmentTiled ==
  ASSUME NEW segs \in Seq(Segment), NEW k \in DOMAIN segs, segs[k].start < segs[k].end,
         NEW p \in Int, segs[k].start <= p, p < segs[k].end
  PROVE  \E i \in 0 .. Steps(segs[k]) - 1 :
           /\ InRange(expandSegments(segs)[<<k, i>>], p)
           /\ \A j \in 0 .. Steps(segs[k]) - 1 :
                InRange(expandSegments(segs)[<<k, j>>], p) => j = i
<1> DEFINE lo == segs[k].start
           hi == segs[k].end
           b == segs[k].step
           n == Steps(segs[k])
           q == (p - lo) \div b
           I == 0 .. n - 1
           Starts(i) == lo + i * b
           Ends(i) == IF i = n - 1 THEN hi ELSE lo + (i + 1) * b
           In(i) == InRange(expandSegments(segs)[<<k, i>>], p)
<1>1. lo \in Int /\ hi \in Int /\ b \in Nat \ {0} /\ lo <= p /\ p < hi
  <2>1. segs[k] \in Segment  OBVIOUS
  <2> QED  BY <2>1, SegmentIs
<1>2. n \in Nat \ {0} /\ (n - 1) * b \in Int /\ (n - 1) * b < hi - lo
  <2>1. segs[k] \in Segment  OBVIOUS
  <2> QED  BY <2>1, StepsFit
<1>3. \A i \in I : In(i) <=> Starts(i) <= p /\ p < Ends(i)
  <2> SUFFICES ASSUME NEW i \in I PROVE In(i) <=> Starts(i) <= p /\ p < Ends(i)  OBVIOUS
  <2>1. /\ Starts(i) \in Int
        /\ expandSegments(segs)[<<k, i>>].min = Starts(i)
        /\ expandSegments(segs)[<<k, i>>].max = Ends(i)
    BY RangeOf
  <2>2. Ends(i) \in Int /\ (p = Ends(i) => i # n - 1)
    <3>1. (i + 1) * b \in Int  BY <1>1, <1>2, Product
    <3> HIDE DEF lo, hi, b, n
    <3> QED  BY <3>1, <1>1, <1>2
  <2>3. expandSegments(segs)[<<k, i>>].isLast => i = n - 1  BY RangeOf
  <2> QED  BY <2>1, <2>2, <2>3 DEF InRange
<1>4. q \in Int /\ q * b \in Int /\ q * b <= p - lo /\ p - lo < q * b + b
  <2> DEFINE a == p - lo
  <2>1. a \in Int  BY <1>1
  <2> HIDE DEF a
  <2>2. a \div b \in Int /\ (a \div b) * b <= a /\ a < (a \div b) * b + b
    BY <2>1, <1>1, Division
  <2>3. (a \div b) * b \in Int  BY <2>2, <1>1
  <2> QED  BY <2>2, <2>3 DEF a
<1>5. q >= 0
  <2>1. ASSUME q + 1 <= 0 PROVE FALSE
    <3>1. (q + 1) * b <= 0 * b /\ (q + 1) * b = q * b + b  BY <2>1, <1>1, <1>4, Product
    <3>2. 0 * b = 0  BY <1>1
    <3> HIDE DEF q, b, lo
    <3> QED  BY <3>1, <3>2, <1>1, <1>4
  <2> QED  BY <2>1, <1>4
\* The range of p: number q, or the last one.
<1> DEFINE w == IF q <= n - 1 THEN q ELSE n - 1
<1>6. w \in I  BY <1>2, <1>4, <1>5
<1> HIDE DEF lo, hi, b, n, q
<1>7. Starts(w) <= p /\ p < Ends(w)
  <2>1. w \in Int /\ w <= q  BY <1>2, <1>4
  <2>2. w * b \in Int /\ w * b <= q * b /\ (w + 1) * b = w * b + b
    BY <2>1, <1>1, <1>4, Product
  <2>3. w # n - 1 => w = q  BY <1>2, <1>4
  <2>4. w # n - 1 => (w + 1) * b = q * b + b
    BY <2>2, <2>3
  <2> HIDE DEF w
  <2>5. Starts(w) <= p  BY <2>2, <1>1, <1>4
  <2>6. CASE w = n - 1  BY <2>5, <2>6, <1>1
  <2>7. CASE w # n - 1
    <3>1. p < lo + (w + 1) * b  BY <2>4, <2>7, <2>2, <1>1, <1>4
    <3> QED  BY <3>1, <2>5, <2>7
  <2> QED  BY <2>6, <2>7
\* Of two ranges one ends where the other starts, or before.
<1>8. ASSUME NEW i \in I, NEW j \in I, i < j PROVE Ends(i) <= Starts(j)
  <2>1. i # n - 1 /\ i + 1 <= j /\ i + 1 \in Int /\ j \in Int  BY <1>2, <1>8
  <2>2. (i + 1) * b \in Int /\ j * b \in Int /\ (i + 1) * b <= j * b  BY <2>1, <1>1, Product
  <2> QED  BY <2>1, <2>2, <1>1
<1>9. \A i \in I : Starts(i) \in Int /\ Ends(i) \in Int
  <2> SUFFICES ASSUME NEW i \in I PROVE Starts(i) \in Int /\ Ends(i) \in Int  OBVIOUS
  <2>1. i \in Int /\ i * b \in Int /\ (i + 1) * b \in Int  BY <1>1, <1>2, Product
  <2> QED  BY <2>1, <1>1
<1>10. ASSUME NEW j \in I, Starts(j) <= p, p < Ends(j) PROVE j = w
  <2>1. CASE j < w
    <3>1. Ends(j) <= Starts(w)  BY <2>1, <1>6, <1>8
    <3>2. Ends(j) \in Int /\ Starts(w) \in Int  BY <1>6, <1>9
    <3> HIDE DEF Starts, Ends
    <3> QED  BY <3>1, <3>2, <1>1, <1>7, <1>10
  <2>2. CASE w < j
    <3>1. Ends(w) <= Starts(j)  BY <2>2, <1>6, <1>8
    <3>2. Ends(w) \in Int /\ Starts(j) \in Int  BY <1>6, <1>9
    <3> HIDE DEF Starts, Ends
    <3> QED  BY <3>1, <3>2, <1>1, <1>7, <1>10
  <2>3. j \in Int /\ w \in Int  BY <1>6, <1>2
  <2> HIDE DEF w
  <2> QED  BY <2>1, <2>2, <2>3
<1>11. In(w) /\ \A j \in I : In(j) => j = w  BY <1>3, <1>6, <1>7, <1>10
<1> QED  BY <1>6, <1>11 DEF n

-----------------------------------------------------------------------------
(* Students, classes and points *)

Scores == SUBSET (Students \X Subjects)

LEMMA TakersFinite ==
  \A v, s : Takers(v, s) \in SUBSET Students /\ IsFiniteSet(Takers(v, s))
BY FS_Subset, ScoresAssumption DEF Takers

LEMMA CountIsNat == \A T : IsFiniteSet(T) => Cardinality(T) \in Nat
BY FS_CardinalityType

LEMMA InClassOf ==
  ASSUME NEW T \in SUBSET Students, NEW c
  PROVE  InClass(T, c) \in SUBSET T /\ IsFiniteSet(T) /\ IsFiniteSet(InClass(T, c))
BY FS_Subset, ScoresAssumption DEF InClass

\* A set of students has finitely many classes, which are disjoint and make it up.
LEMMA ClassesFinite ==
  ASSUME NEW T \in SUBSET Students
  PROVE  IsFiniteSet(ClassesOf(T)) /\ ClassesOf(T) \in SUBSET Classes
<1> DEFINE f == [st \in T |-> ClassOf[st]]
<1>1. f \in Surjection(T, ClassesOf(T))
  BY DEF Surjection, ClassesOf
<1>2. IsFiniteSet(T)
  BY FS_Subset, ScoresAssumption
<1> HIDE DEF f
<1>3. IsFiniteSet(ClassesOf(T))
  BY <1>1, <1>2, FS_Surjection
<1> QED
  BY <1>3, ScoresAssumption DEF ClassesOf

LEMMA PointsInt ==
  ASSUME NEW v, v.took \in Scores, NEW s, NEW st
  PROVE  Points(v, s, st) \in Int
<1> DEFINE S == {t \in Scope(s) : <<st, t>> \in v.took}
           f == [t \in S |-> Mark[<<st, t>>]]
<1>1. S \in SUBSET Subjects /\ \A t \in S : <<st, t>> \in Students \X Subjects
  BY DEF Scores
<1>2. IsFiniteSet(S) /\ \A t \in S : f[t] \in Int
  BY <1>1, FS_Subset, ScoresAssumption
<1>3. Points(v, s, st) = SumFunctionOnSet(f, S)
  BY DEF Points, SumOver, SumFunction
<1> HIDE DEF f, S
<1> QED
  BY <1>2, <1>3, SumInt

\* Who is in the later query was in the earlier one, and so are the classes.
LEMMA TakersGrow ==
  ASSUME NEW v, NEW w, v.took \subseteq w.took, NEW s
  PROVE  Takers(v, s) \subseteq Takers(w, s) /\ ClassesOf(Takers(v, s)) \subseteq ClassesOf(Takers(w, s))
BY DEF Takers, ClassesOf

-----------------------------------------------------------------------------
(* Rounding *)

LEMMA RoundDivIs ==
  ASSUME NEW a \in Int, NEW b \in Nat \ {0}
  PROVE  /\ RoundDiv(a, b) \in Int
         /\ 2 * (RoundDiv(a, b) * b) <= 2 * a + b
         /\ 2 * a - b <= 2 * (RoundDiv(a, b) * b)
<1> DEFINE d == 2 * b
<1>1. d \in Nat \ {0}
  OBVIOUS
<1>2. CASE a < 0
  <2> DEFINE m == b - 2 * a
             k == m \div d
  <2>1. m \in Int
    OBVIOUS
  <2>2. k \in Int /\ k * d <= m /\ m < k * d + d
    <3> HIDE DEF m, d
    <3> QED
      BY <1>1, <2>1, Division
  <2>3. RoundDiv(a, b) = -k
    BY <1>2 DEF RoundDiv
  <2>4. k * d = 2 * (k * b) /\ (-k) * b = -(k * b) /\ k * b \in Int
    BY <2>2
  <2> HIDE DEF k
  <2> QED
    BY <2>2, <2>3, <2>4
<1>3. CASE ~(a < 0)
  <2> DEFINE m == 2 * a + b
             k == m \div d
  <2>1. m \in Int
    OBVIOUS
  <2>2. k \in Int /\ k * d <= m /\ m < k * d + d
    <3> HIDE DEF m, d
    <3> QED
      BY <1>1, <2>1, Division
  <2>3. RoundDiv(a, b) = k
    BY <1>3 DEF RoundDiv
  <2>4. k * d = 2 * (k * b) /\ k * b \in Int
    BY <2>2
  <2> HIDE DEF k
  <2> QED
    BY <2>2, <2>3, <2>4
<1> QED
  BY <1>2, <1>3

-----------------------------------------------------------------------------
(* What an answered report was made of *)

\* Everything a report of kind k asks for has been seen, if it asked for rows at all.
LEMMA Reading ==
  ASSUME Told, NEW k, NEW r \in Requests, Answered(r, k)
  PROVE  /\ ask[r] \in Asks /\ ask[r].kind = k /\ k \in Kinds
         /\ ToSet(QueriesOf(ask[r])) \subseteq DOMAIN seen[r]
         /\ \A q \in DOMAIN seen[r] :
              /\ DOMAIN seen[r][q] = Reads(k, q)
              /\ \A t \in Reads(k, q) : Found(t, seen[r][q][t])
<1>1. state[r] = "answered" /\ ask[r].kind = k /\ "rows" \in DOMAIN seen[r]
  BY DEF Answered
<1>2. ask[r] \in Asks
  BY <1>1 DEF Told, ReportsInv, Ordered
<1> QED
  BY <1>1, <1>2, AllQueriesRun, ReportsAssumption DEF Told, SeenTyped, SeenTypedIn

LEMMA ReadsIs ==
  /\ Reads("rating", "count") = {"took"} /\ Reads("rating", "rows") = {"took", "full"}
  /\ Reads("segment", "count") = {"took"} /\ Reads("segment", "rows") = {"took"}
  /\ Reads("rank", "count") = {"took"} /\ Reads("rank", "rows") = {"took"}
  /\ Reads("class", "count") = {"took"} /\ Reads("class", "rows") = {"took"}
  /\ Reads("single", "grade") = {"took"} /\ Reads("single", "rows") = {"took"}
  /\ Reads("compare", "rows") = {"asked"} /\ Reads("compare", "breakdown") = {"asked"}
<1>1. \A k, q : k \in {"rating"} /\ q \in {"rows"} => Reads(k, q) = {"took", "full"}
  <2> SUFFICES ASSUME NEW k, NEW q, k = "rating", q = "rows" PROVE Reads(k, q) = {"took", "full"}
    OBVIOUS
  <2>1. /\ q # "name" /\ q # "full" /\ q # "overall" /\ k \notin QuestionKinds
        /\ q \in {"rows", "overall"} /\ k \in {"subject", "drill", "rating"}
    BY DEF QuestionKinds
  <2> QED
    BY <2>1, Zenon DEF Reads
<1>2. \A k, q : k = "compare" /\ q \in {"rows", "breakdown"} => Reads(k, q) = {"asked"}
  <2> SUFFICES ASSUME NEW k, NEW q, k = "compare", q \in {"rows", "breakdown"} PROVE Reads(k, q) = {"asked"}
    OBVIOUS
  <2>1. /\ q # "name" /\ q # "full" /\ q # "overall" /\ k \in QuestionKinds
        /\ k \notin {"subject", "drill", "rating"}
    BY DEF QuestionKinds
  <2> QED
    BY <2>1, Zenon DEF Reads
<1>3. \A k, q : /\ k \in {"rating", "segment", "rank", "class", "single"} /\ q \in {"count", "rows", "grade"}
                /\ k = "rating" => q # "rows"
                => Reads(k, q) = {"took"}
  <2> SUFFICES ASSUME NEW k, NEW q, k \in {"rating", "segment", "rank", "class", "single"}, q \in {"count", "rows", "grade"},
                      k = "rating" => q # "rows"
               PROVE  Reads(k, q) = {"took"}
    OBVIOUS
  <2>1. /\ q # "name" /\ q # "full" /\ q # "overall" /\ k \notin QuestionKinds
        /\ ~(q \in {"rows", "overall"} /\ k \in {"subject", "drill", "rating"})
    BY DEF QuestionKinds
  <2> QED
    BY <2>1, Zenon DEF Reads
<1> QED
  BY <1>1, <1>2, <1>3

\* Every query of the reports on students, but those for names and full scores, reads
\* who has scores.
LEMMA ReadsTook ==
  \A k \in {"rank", "single", "drill", "segment"}, q \in {"rows", "count", "grade", "ranks", "overall", "overallRanks"} :
    "took" \in Reads(k, q)
<1> SUFFICES ASSUME NEW k \in {"rank", "single", "drill", "segment"},
                    NEW q \in {"rows", "count", "grade", "ranks", "overall", "overallRanks"}
             PROVE  "took" \in Reads(k, q)
  OBVIOUS
<1>1. q # "name" /\ q # "full" /\ k # "class" /\ k \notin QuestionKinds
  BY DEF QuestionKinds
<1>2. CASE q \in {"rows", "overall"} /\ k \in {"subject", "drill", "rating"}
  BY <1>1, <1>2, Zenon DEF Reads
<1>3. CASE ~(q \in {"rows", "overall"} /\ k \in {"subject", "drill", "rating"})
  BY <1>1, <1>3, Zenon DEF Reads
<1> QED
  BY <1>2, <1>3

-----------------------------------------------------------------------------
(* The rating *)

\* A view of the rows of students, with or without the full scores.
TookView(v) == v.took \in Scores
FullView(v) == TookView(v) /\ v.full \in [Subjects -> FullScores \cup {None}]

LEMMA RatesInt ==
  ASSUME NEW v, FullView(v), NEW s, NEW st
  PROVE  All100(v, s, st) \in Int /\ Won(v, s, st) \in Int
<1> DEFINE S == {t \in Scope(s) : <<st, t>> \in v.took}
           W == {t \in Scope(s) : <<st, t>> \in v.took /\ FullScore(v, t) > 0}
           f == [t \in S |-> FullScore(v, t)]
           g == [t \in W |-> Mark[<<st, t>>]]
<1>1. S \in SUBSET Subjects /\ W \in SUBSET S /\ \A t \in S : <<st, t>> \in Students \X Subjects
  BY DEF FullView, TookView, Scores
<1>2. IsFiniteSet(S) /\ IsFiniteSet(W)
  BY <1>1, FS_Subset, ScoresAssumption
<1>3. \A t \in S : f[t] \in Int
  <2>1. \A t \in Subjects : FullScore(v, t) \in Int
    <3> SUFFICES ASSUME NEW t \in Subjects PROVE FullScore(v, t) \in Int
      OBVIOUS
    <3>1. v.full[t] \in FullScores \cup {None}
      BY DEF FullView
    <3>2. \A n \in FullScores : n \in Int
      BY ReportsAssumption
    <3> QED
      BY <3>1, <3>2 DEF FullScore
  <2> QED
    BY <1>1, <2>1
<1>4. \A t \in W : g[t] \in Int
  BY <1>1, ScoresAssumption
<1>5. All100(v, s, st) = SumFunctionOnSet(f, S) /\ Won(v, s, st) = SumFunctionOnSet(g, W)
  BY DEF All100, Won, SumOver, SumFunction
<1> HIDE DEF f, g, S, W
<1> QED
  BY <1>2, <1>3, <1>4, <1>5, SumInt

LEMMA ThresholdInt ==
  ASSUME NEW th \in [Rates -> Int]
  PROVE  Threshold(th) \in [Rates -> Int]
BY DEF Threshold, DefaultThreshold, Rates

\* Who reaches a threshold reaches every lower one, and does not miss it.
LEMMA ReachesLower ==
  ASSUME NEW v, FullView(v), NEW s, NEW st, NEW a \in Int, NEW b \in Int, a <= b, Reaches(v, s, st, b)
  PROVE  Reaches(v, s, st, a) /\ ~Misses(v, s, st, a)
<1> DEFINE all == All100(v, s, st)
           won == Won(v, s, st)
<1>1. all \in Int /\ won \in Int
  BY RatesInt
<1>2. all > 0 /\ 100 * won >= b * all
  BY DEF Reaches
<1> HIDE DEF all, won
<1>3. all \in Nat
  BY <1>1, <1>2
<1>4. a * all <= b * all /\ a * all \in Int /\ b * all \in Int
  BY <1>3, Product
<1>5. 100 * won >= a * all /\ ~(100 * won < a * all)
  BY <1>1, <1>2, <1>4
<1> QED
  BY <1>2, <1>5 DEF Reaches, Misses, all, won

\* Those of U counted under k.
Rated(v, s, U, k, th) ==
  {st \in U : IF k = "low" THEN Misses(v, s, st, Threshold(th)[k]) ELSE Reaches(v, s, st, Threshold(th)[k])}

LEMMA RatedIs ==
  ASSUME NEW v, NEW s, NEW U \in SUBSET Students, NEW k, NEW th
  PROVE  /\ Rated(v, s, U, k, th) \in SUBSET U /\ IsFiniteSet(U) /\ IsFiniteSet(Rated(v, s, U, k, th))
         /\ Counted(v, s, U, k, th) = Cardinality(Rated(v, s, U, k, th))
         /\ Counted(v, s, U, k, th) \in Nat /\ Cardinality(U) \in Nat
         /\ Counted(v, s, U, k, th) <= Cardinality(U)
<1> DEFINE R == Rated(v, s, U, k, th)
<1>1. IsFiniteSet(U) /\ R \in SUBSET U
  BY ScoresAssumption, FS_Subset DEF Rated
<1>2. Counted(v, s, U, k, th) = Cardinality(R)
  BY DEF Rated, Counted
<1> HIDE DEF R
<1>3. IsFiniteSet(R) /\ Cardinality(R) <= Cardinality(U)
  BY <1>1, FS_Subset
<1> QED
  BY <1>1, <1>2, <1>3, CountIsNat DEF R

\* Of two rates other than the low one, that with the lower threshold counts more.
LEMMA CountsNested ==
  ASSUME NEW v, FullView(v), NEW s, NEW U \in SUBSET Students, NEW th \in [Rates -> Int],
         NEW j \in Rates \ {"low"}, NEW k \in Rates \ {"low"}, Threshold(th)[j] >= Threshold(th)[k]
  PROVE  Counted(v, s, U, j, th) <= Counted(v, s, U, k, th)
<1> DEFINE J == Rated(v, s, U, j, th)
           K == Rated(v, s, U, k, th)
<1>1. Threshold(th)[j] \in Int /\ Threshold(th)[k] \in Int
  BY ThresholdInt
<1>2. J \in SUBSET K
  BY <1>1, ReachesLower DEF Rated
<1>3. IsFiniteSet(K)
  BY RatedIs
<1> HIDE DEF J, K
<1>4. Cardinality(J) <= Cardinality(K)
  BY <1>2, <1>3, FS_Subset
<1> QED
  BY <1>4, RatedIs DEF J, K

LEMMA PassedNotLow ==
  ASSUME NEW v, FullView(v), NEW s, NEW U \in SUBSET Students, NEW th \in [Rates -> Int],
         Threshold(th).pass >= Threshold(th).low
  PROVE  Counted(v, s, U, "pass", th) + Counted(v, s, U, "low", th) <= Cardinality(U)
<1> DEFINE J == Rated(v, s, U, "pass", th)
           K == Rated(v, s, U, "low", th)
<1>1. Threshold(th).pass \in Int /\ Threshold(th).low \in Int
  BY ThresholdInt DEF Rates
<1>2. J \cap K = {}
  BY <1>1, ReachesLower DEF Rated
<1>3. IsFiniteSet(J) /\ IsFiniteSet(K) /\ IsFiniteSet(U) /\ J \cup K \in SUBSET U
  BY RatedIs
<1>4. /\ Counted(v, s, U, "pass", th) = Cardinality(J) /\ Counted(v, s, U, "low", th) = Cardinality(K)
      /\ Cardinality(J) \in Nat /\ Cardinality(K) \in Nat
  BY RatedIs
<1> HIDE DEF J, K
<1>5. Cardinality(J \cup K) = Cardinality(J) + Cardinality(K) - Cardinality(J \cap K)
  BY <1>3, FS_Union
<1>6. Cardinality(J \cup K) <= Cardinality(U)
  BY <1>3, FS_Subset
<1>7. Cardinality(J \cap K) = 0 /\ Cardinality(U) \in Nat
  BY <1>2, <1>3, FS_EmptySet, CountIsNat
<1> QED
  BY <1>4, <1>5, <1>6, <1>7

\* A part of the whole is at most 100 %.
LEMMA PercentOfPart ==
  ASSUME NEW n \in Nat, NEW total \in Nat, n <= total
  PROVE  Percent(n, total) <= 10000
<1>1. CASE total = 0
  BY <1>1 DEF Percent
<1>2. CASE total # 0
  <2> DEFINE a == 10000 * n
             q == RoundDiv(a, total)
  <2>1. a \in Int /\ total \in Nat \ {0} /\ a <= 10000 * total
    BY <1>2
  <2>2. q \in Int /\ 2 * (q * total) <= 2 * a + total
    <3> HIDE DEF a
    <3> QED
      BY <2>1, RoundDivIs
  <2>3. Percent(n, total) = q
    BY <1>2 DEF Percent
  <2> HIDE DEF q
  <2>4. SUFFICES ASSUME q >= 10001 PROVE FALSE
    BY <2>2, <2>3
  <2>5. 10001 * total <= q * total /\ q * total \in Int
    BY <2>2, <2>4, Product
  <2> QED
    BY <2>1, <2>2, <2>5
<1> QED
  BY <1>1, <1>2

\* The counts of a rating are nested whatever commits between its queries, nobody is
\* passed and low, and without commits no rate exceeds 100 %.
THEOREM RatingHolds == Spec => []RatingSound
<1>1. Told => RatingSound
  <2> SUFFICES ASSUME Told, NEW r \in Requests, Answered(r, "rating")
               PROVE  LET rep == GetRatingDistribution(ask[r], seen[r]).report
                          th == rep.config
                          Nested(row) == /\ row.count.excellent <= row.count.good
                                         /\ row.count.good <= row.count.medium
                                         /\ row.count.medium <= row.count.pass IN
                      /\ th.excellent >= th.good /\ th.good >= th.medium /\ th.medium >= th.pass =>
                           Nested(rep.grade) /\ \A c \in DOMAIN rep.classes : Nested(rep.classes[c])
                      /\ th.pass >= th.low => \A c \in DOMAIN rep.classes :
                           rep.classes[c].count.pass + rep.classes[c].count.low <= rep.classes[c].n
                      /\ Quiet(r) => \A k \in Rates : rep.grade.percent[k] <= 10000
    BY DEF RatingSound
  <2> DEFINE s == ask[r].subject
             th == ask[r].config
             v == seen[r].rows
             T == Takers(v, s)
             total == Cardinality(Takers(seen[r].count, s))
             rep == RatingDistribution(seen[r], s, th)
             N(U, k) == Counted(v, s, U, k, th)
  <2>1. /\ th \in [Rates -> Int]
        /\ {"count", "rows"} \subseteq DOMAIN seen[r]
        /\ \A q \in {"count", "rows"} : /\ DOMAIN seen[r][q] = Reads("rating", q)
                                        /\ \A t \in Reads("rating", q) : Found(t, seen[r][q][t])
    <3>1. /\ ask[r] \in Asks /\ ask[r].kind = "rating"
          /\ ToSet(QueriesOf(ask[r])) \subseteq DOMAIN seen[r]
          /\ \A q \in DOMAIN seen[r] : /\ DOMAIN seen[r][q] = Reads("rating", q)
                                       /\ \A t \in Reads("rating", q) : Found(t, seen[r][q][t])
      BY Reading
    <3>2. QueriesOf(ask[r]) = <<"count", "rows", "name">>
      BY <3>1 DEF QueriesOf, Queries, RatingQueries
    <3>3. {"count", "rows"} \subseteq ToSet(<<"count", "rows", "name">>)
      BY DEF ToSet
    <3> QED
      BY <3>1, <3>2, <3>3, ReportsAssumption
  <2>2. FullView(v) /\ "took" \in DOMAIN seen[r].count /\ "took" \in DOMAIN seen[r].rows
    BY <2>1, ReadsIs DEF FullView, TookView, Found, Scores
  <2>3. T \in SUBSET Students
    BY TakersFinite
  <2>4. /\ GetRatingDistribution(ask[r], seen[r]).report = rep
        /\ rep.config = Threshold(th)
        /\ DOMAIN rep.classes = ClassesOf(T)
        /\ \A c \in ClassesOf(T) : /\ rep.classes[c].n = Cardinality(InClass(T, c))
                                   /\ \A k \in Rates : rep.classes[c].count[k] = N(InClass(T, c), k)
        /\ \A k \in Rates : /\ rep.grade.count[k] = N(T, k)
                            /\ rep.grade.percent[k] = Percent(N(T, k), total)
    BY DEF GetRatingDistribution, NamedReply, RatingDistribution
  <2>5. {"excellent", "good", "medium", "pass", "low"} = Rates
    BY DEF Rates
  <2> DEFINE C(c) == InClass(T, c)
  <2>6. \A c : C(c) \in SUBSET Students
    BY <2>3, InClassOf
  <2> HIDE DEF v, T, rep, th, s, total
  <2>7. ASSUME NEW U \in SUBSET Students, NEW l, l = Threshold(th),
               l.excellent >= l.good, l.good >= l.medium, l.medium >= l.pass
        PROVE  N(U, "excellent") <= N(U, "good") /\ N(U, "good") <= N(U, "medium") /\ N(U, "medium") <= N(U, "pass")
    BY <2>1, <2>2, <2>5, <2>7, CountsNested
  <2>8. ASSUME NEW U \in SUBSET Students, NEW l, l = Threshold(th), l.pass >= l.low
        PROVE  N(U, "pass") + N(U, "low") <= Cardinality(U)
    BY <2>1, <2>2, <2>5, <2>8, PassedNotLow
  <2>9. ASSUME Quiet(r), NEW k \in Rates
        PROVE  Percent(N(T, k), total) <= 10000
    <3>1. seen[r].count.took = v.took
      BY <2>1, <2>2, <2>9 DEF Quiet, v
    <3>2. total = Cardinality(T)
      BY <3>1 DEF total, T, Takers
    <3> QED
      BY <2>3, <3>2, RatedIs, PercentOfPart
  <2> HIDE DEF N, C
  <2> QED
    BY <2>3, <2>4, <2>5, <2>6, <2>7, <2>8, <2>9 DEF C
<1> QED
  BY <1>1, Telling, PTL

-----------------------------------------------------------------------------
(* Extremes and rows *)

LEMMA ExtremesExist ==
  ASSUME NEW S \in SUBSET Int, IsFiniteSet(S), S # {}
  PROVE  /\ \E x \in S : \A y \in S : x >= y
         /\ \E x \in S : \A y \in S : x <= y
<1> DEFINE Top(T) == \E x \in T : \A y \in T : x >= y
           Low(T) == \E x \in T : \A y \in T : x <= y
           A == {T \in SUBSET S : T = {} \/ (Top(T) /\ Low(T))}
<1>1. {} \in A
  OBVIOUS
<1>2. ASSUME NEW T \in SUBSET S, NEW x \in T, T \ {x} \in A
      PROVE  T \in A
  <2>1. CASE T \ {x} = {}
    <3>1. T = {x} /\ x \in Int
      BY <2>1
    <3> QED
      BY <3>1
  <2>2. CASE T \ {x} # {}
    <3>1. PICK a \in T \ {x} : \A y \in T \ {x} : a >= y
      BY <1>2, <2>2
    <3>2. PICK b \in T \ {x} : \A y \in T \ {x} : b <= y
      BY <1>2, <2>2
    <3>3. T \subseteq Int
      OBVIOUS
    <3>4. Top(T)
      <4>1. CASE a >= x
        BY <3>1, <3>3, <4>1
      <4>2. CASE ~(a >= x)
        BY <3>1, <3>3, <4>2
      <4> QED
        BY <4>1, <4>2
    <3>5. Low(T)
      <4>1. CASE b <= x
        BY <3>2, <3>3, <4>1
      <4>2. CASE ~(b <= x)
        BY <3>2, <3>3, <4>2
      <4> QED
        BY <4>1, <4>2
    <3> QED
      BY <3>4, <3>5
  <2> QED
    BY <2>1, <2>2
<1> HIDE DEF A
<1>3. S \in A
  BY <1>1, <1>2, ElementInduction
<1> QED
  BY <1>3 DEF A

LEMMA MaxMin ==
  ASSUME NEW S \in SUBSET Int, IsFiniteSet(S), S # {}
  PROVE  /\ Max(S) \in S /\ \A y \in S : Max(S) >= y
         /\ Min(S) \in S /\ \A y \in S : Min(S) <= y
BY ExtremesExist DEF Max, Min

\* The points of the students U, as a set.
PointsOf(v, s, U) == {Points(v, s, st) : st \in U}

LEMMA PointsFinite ==
  ASSUME NEW v, TookView(v), NEW s, NEW U \in SUBSET Students
  PROVE  PointsOf(v, s, U) \in SUBSET Int /\ IsFiniteSet(PointsOf(v, s, U))
<1> DEFINE f == [st \in U |-> Points(v, s, st)]
<1>1. f \in Surjection(U, PointsOf(v, s, U))
  BY DEF Surjection, PointsOf
<1>2. IsFiniteSet(U)
  BY FS_Subset, ScoresAssumption
<1> HIDE DEF f
<1>3. IsFiniteSet(PointsOf(v, s, U))
  BY <1>1, <1>2, FS_Surjection
<1> QED
  BY <1>3, PointsInt DEF PointsOf, TookView

LEMMA RowIs ==
  ASSUME NEW v, NEW s, NEW U \in SUBSET Students
  PROVE  /\ RowOf(v, s, U).n = Cardinality(U)
         /\ U = {} => RowOf(v, s, U).high = 0
         /\ U # {} => /\ RowOf(v, s, U).high = Max(PointsOf(v, s, U))
                      /\ RowOf(v, s, U).low = Min(PointsOf(v, s, U))
<1>1. IsFiniteSet(U)
  BY FS_Subset, ScoresAssumption
<1>2. Cardinality(U) = 0 <=> U = {}
  BY <1>1, FS_EmptySet
<1>3. CASE U = {}
  BY <1>2, <1>3 DEF RowOf, Row, SumOver, SumFunction
<1>4. CASE U # {}
  <2>1. Cardinality(U) # 0
    BY <1>2, <1>4
  <2>2. RowOf(v, s, U).n = Cardinality(U)
    BY <2>1 DEF RowOf, Row, SumOver, SumFunction
  <2>3. RowOf(v, s, U).high = Max(PointsOf(v, s, U))
    BY <2>1 DEF RowOf, Row, PointsOf, SumOver, SumFunction
  <2>4. RowOf(v, s, U).low = Min(PointsOf(v, s, U))
    BY <2>1 DEF RowOf, Row, PointsOf, SumOver, SumFunction
  <2> QED
    BY <1>4, <2>2, <2>3, <2>4
<1> QED
  BY <1>3, <1>4

\* The students of the classes add up to those of the grade.
LEMMA ClassesAddUp ==
  ASSUME NEW T \in SUBSET Students, NEW n, \A c \in ClassesOf(T) : n[c] = Cardinality(InClass(T, c))
  PROVE  SumFunctionOnSet(n, ClassesOf(T)) = Cardinality(T)
<1> DEFINE I == ClassesOf(T)
           P == [c \in I |-> InClass(T, c)]
<1>1. IsFiniteSet(I) /\ \A c \in I : IsFiniteSet(P[c]) /\ n[c] = Cardinality(P[c])
  BY ClassesFinite, InClassOf
<1>2. Disjoint(P, I)
  BY DEF Disjoint, InClass
<1>3. Whole(P, I) = T
  <2>1. ASSUME NEW st \in T
        PROVE  ClassOf[st] \in I /\ st \in P[ClassOf[st]]
    BY DEF InClass, ClassesOf
  <2>2. \A c \in I : P[c] \subseteq T
    BY DEF InClass
  <2> HIDE DEF I, P
  <2> QED
    BY <2>1, <2>2 DEF Whole
<1> HIDE DEF I, P
<1>4. SumFunctionOnSet(n, I) = Cardinality(Whole(P, I))
  BY <1>1, <1>2, CountParts
<1> QED
  BY <1>3, <1>4 DEF I

\* What a report of kind k has seen in its queries Q, all of them of the students.
LEMMA SeesStudents ==
  ASSUME Told, NEW k \in {"rank", "single", "drill", "segment"}, NEW r \in Requests, Answered(r, k)
  PROVE  /\ k = "rank" => TookView(seen[r].rows) /\ TookView(seen[r].count)
         /\ k = "single" => TookView(seen[r].rows) /\ TookView(seen[r].grade)
         /\ k = "drill" => /\ TookView(seen[r].rows) /\ TookView(seen[r].ranks)
                           /\ TookView(seen[r].overall) /\ TookView(seen[r].overallRanks)
         /\ k = "segment" => TookView(seen[r].rows) /\ TookView(seen[r].count)
<1>1. /\ ask[r] \in Asks /\ ask[r].kind = k
      /\ ToSet(QueriesOf(ask[r])) \subseteq DOMAIN seen[r]
      /\ \A q \in DOMAIN seen[r] : \A t \in Reads(k, q) : Found(t, seen[r][q][t])
  BY Reading
<1>2. QueriesOf(ask[r]) = Queries[k] /\ Queries[k] \in {RankQueries, SingleQueries, DrillQueries, SegmentQueries}
  BY <1>1 DEF QueriesOf, Queries
<1>3. /\ ToSet(RankQueries) = {"rows", "count", "name"}
      /\ ToSet(SegmentQueries) = {"count", "rows", "name"}
      /\ ToSet(SingleQueries) = {"full", "rows", "grade", "marks", "name"}
      /\ ToSet(DrillQueries) = {"rows", "ranks", "overall", "overallRanks", "marks", "name"}
  BY DEF ToSet, RankQueries, SegmentQueries, SingleQueries, DrillQueries
<1>4. ASSUME NEW q \in {"rows", "count", "grade", "ranks", "overall", "overallRanks"}, q \in ToSet(Queries[k])
      PROVE  TookView(seen[r][q])
  <2>1. "took" \in Reads(k, q)
    BY ReadsTook
  <2> QED
    BY <1>1, <1>2, <1>4, <2>1 DEF Found, TookView, Scores
<1> QED
  BY <1>3, <1>4 DEF Queries

-----------------------------------------------------------------------------
(* The reports whose later query has to cover the earlier one *)

LEMMA LaterCovers ==
  ASSUME Told, NEW k, NEW r \in Requests, Answered(r, k), Named(r), NEW q1, NEW q2, <<q1, q2>> \in Twice(k)
  PROVE  seen[r][q1].took \subseteq seen[r][q2].took
<1> DEFINE p == <<q1, q2>>
<1>1. ask[r] \in Asks /\ state[r] = "answered" /\ "rows" \in DOMAIN seen[r] /\ ask[r].kind = k
  BY Reading DEF Answered
<1>2. p \in Twice(ask[r].kind) /\ p[1] = q1 /\ p[2] = q2
  BY <1>1
<1> HIDE DEF p
<1> QED
  BY <1>1, <1>2, TwiceCovered

LEMMA IndicesFinite ==
  ASSUME NEW S, NEW l \in Seq(S)
  PROVE  IsFiniteSet(DOMAIN l) /\ DOMAIN l \subseteq Int /\ \A i \in DOMAIN l : l[i] \in S
<1>1. /\ DOMAIN l = 1 .. Len(l) /\ 1 \in Int /\ Len(l) \in Int
      /\ \A i \in 1 .. Len(l) : l[i] \in S
  OBVIOUS
<1>2. IsFiniteSet(1 .. Len(l))
  BY <1>1, FS_Interval
<1> QED
  BY <1>1, <1>2

\* The students of T ranked within g.
Within(v, s, T, g) == {st \in T : RankIn(v, s, T, st) \in g.start + 1 .. g.end}

\* Ranges of ranks that do not overlap never hold more students than there are.
LEMMA RanksFit ==
  ASSUME NEW v, NEW s, NEW segs \in Seq([start : Int, end : Int]), NEW T \in SUBSET Students,
         \A i, j \in DOMAIN segs : i < j => segs[i].end <= segs[j].start,
         NEW n, \A i \in DOMAIN segs : n[i] = Cardinality(Within(v, s, T, segs[i]))
  PROVE  SumFunctionOnSet(n, DOMAIN segs) <= Cardinality(T)
<1> DEFINE I == DOMAIN segs
           P == [i \in I |-> Within(v, s, T, segs[i])]
<1>1. IsFiniteSet(I) /\ I \subseteq Int
  BY IndicesFinite
<1>2. \A i \in I : P[i] \subseteq T /\ n[i] = Cardinality(P[i])
  BY DEF Within
<1>3. IsFiniteSet(T)
  BY FS_Subset, ScoresAssumption
<1>4. Disjoint(P, I)
  <2>1. ASSUME NEW i \in I, NEW j \in I, i < j PROVE P[i] \cap P[j] = {}
    <3> DEFINE g == segs[i]
               h == segs[j]
    <3>1. g \in [start : Int, end : Int] /\ h \in [start : Int, end : Int]
      BY IndicesFinite
    <3>4. g.end <= h.start
      BY <2>1
    <3>2. P[i] = Within(v, s, T, g) /\ P[j] = Within(v, s, T, h)
      OBVIOUS
    <3> HIDE DEF g, h, P
    <3>3. \A k : ~(k \in g.start + 1 .. g.end /\ k \in h.start + 1 .. h.end)
      BY <3>1, <3>4
    <3> QED
      BY <3>2, <3>3 DEF Within
  <2>2. \A i, j \in I : i # j => i < j \/ j < i
    BY <1>1
  <2> HIDE DEF P, I
  <2> QED
    BY <2>1, <2>2 DEF Disjoint
<1> HIDE DEF I, P
<1>5. SumFunctionOnSet(n, I) <= Cardinality(T)
  BY <1>1, <1>2, <1>3, <1>4, CountPartsOf
<1> QED
  BY <1>5 DEF I

\* Rank segments that do not overlap hold no more students than took part.
THEOREM RanksHold == Spec => []RankSegmentsFit
<1>1. Told => RankSegmentsFit
  <2> SUFFICES ASSUME Told, NEW r \in Requests, Answered(r, "rank"), Named(r)
               PROVE  LET segs == ask[r].config
                          rep == GetRankSegment(ask[r], seen[r]).report IN
                      (\A i, j \in DOMAIN segs : i < j => segs[i].end <= segs[j].start)
                      => SumOver(DOMAIN segs, LAMBDA i : rep.grade.counts[i]) <= rep.grade.n
    BY DEF RankSegmentsFit
  <2> DEFINE segs == ask[r].config
             s == ask[r].subject
             v == seen[r].rows
             T == Takers(v, s)
             rep == GetRankSegment(ask[r], seen[r]).report
             n == [i \in DOMAIN segs |-> rep.grade.counts[i]]
  <2> SUFFICES ASSUME \A i, j \in DOMAIN segs : i < j => segs[i].end <= segs[j].start
               PROVE  SumFunctionOnSet(n, DOMAIN segs) <= rep.grade.n
    BY DEF SumOver, SumFunction
  <2>1. ask[r] \in Asks /\ ask[r].kind = "rank" /\ segs \in Seq([start : Int, end : Int])
    BY Reading, ReportsAssumption
  <2>2. CASE segs = <<>>
    <3>1. rep.grade.n = 0 /\ DOMAIN segs = {}
      BY <2>2 DEF GetRankSegment, NamedReply, Unsegmented
    <3> HIDE DEF segs, rep
    <3> QED
      BY <3>1, SumEmpty
  <2>3. CASE segs # <<>>
    <3>1. rep.grade.n = Cardinality(Takers(seen[r].count, s))
      BY <2>3 DEF GetRankSegment, NamedReply, RankSegment
    <3>2. \A i \in DOMAIN segs : n[i] = Cardinality(Within(v, s, T, segs[i]))
      BY <2>3 DEF GetRankSegment, NamedReply, RankSegment, Within
    <3>3. v.took \subseteq seen[r].count.took
      BY LaterCovers, TwiceIs
    <3>4. /\ T \in SUBSET Takers(seen[r].count, s)
          /\ IsFiniteSet(Takers(seen[r].count, s)) /\ T \in SUBSET Students
      BY <3>3, TakersGrow, TakersFinite
    <3>5. Cardinality(T) <= Cardinality(Takers(seen[r].count, s)) /\ Cardinality(T) \in Int
          /\ Cardinality(Takers(seen[r].count, s)) \in Int
      BY <3>4, FS_Subset, CountIsNat
    <3>6. SumFunctionOnSet(n, DOMAIN segs) \in Int
      <4>1. IsFiniteSet(DOMAIN segs)
        BY <2>1, IndicesFinite
      <4>2. ASSUME NEW i \in DOMAIN segs PROVE n[i] \in Int
        <5> DEFINE U == Within(v, s, T, segs[i])
        <5>1. IsFiniteSet(T) /\ U \in SUBSET T
          BY <3>4, FS_Subset, ScoresAssumption DEF Within
        <5>2. n[i] = Cardinality(U)
          BY <3>2
        <5> HIDE DEF U, n, T
        <5> QED
          BY <5>1, <5>2, FS_Subset, CountIsNat
      <4> HIDE DEF n
      <4> QED
        BY <4>1, <4>2, SumInt
    <3> HIDE DEF segs, v, s, T, rep, n
    <3>7. SumFunctionOnSet(n, DOMAIN segs) <= Cardinality(T)
      BY <2>1, <3>2, <3>4, RanksFit
    <3> QED
      BY <3>1, <3>5, <3>6, <3>7
  <2> QED
    BY <2>2, <2>3
<1> QED
  BY <1>1, Telling, PTL

\* Of one subject a student has the same points in every query that finds the score.
LEMMA PointsStay ==
  ASSUME NEW v, NEW w, NEW s, s # All, NEW st \in Takers(v, s), st \in Takers(w, s)
  PROVE  Points(v, s, st) = Points(w, s, st)
<1>1. {t \in Scope(s) : <<st, t>> \in v.took} = {t \in Scope(s) : <<st, t>> \in w.took}
  BY DEF Takers, Scope
<1> QED
  BY <1>1 DEF Points, SumOver, SumFunction

\* The grade row of the summary of one subject covers its class rows.
THEOREM GradeCovers == Spec => []GradeCoversClasses
<1>1. Told => GradeCoversClasses
  <2> SUFFICES ASSUME Told, NEW r \in Requests, Answered(r, "single"), Named(r)
               PROVE  LET rep == GetSingleClassSummary(ask[r], seen[r]).report
                          n == [c \in DOMAIN rep.classes |-> rep.classes[c].stats.n]
                          g == rep.grade.stats IN
                      /\ SumFunctionOnSet(n, DOMAIN rep.classes) <= g.n
                      /\ \A c \in DOMAIN rep.classes :
                           g.low <= rep.classes[c].stats.low /\ rep.classes[c].stats.high <= g.high
    BY DEF GradeCoversClasses, SumOver, SumFunction
  <2> DEFINE s == ask[r].subject
             v == seen[r].rows
             w == seen[r].grade
             T == Takers(v, s)
             G == Takers(w, s)
             rep == GetSingleClassSummary(ask[r], seen[r]).report
             n == [c \in DOMAIN rep.classes |-> rep.classes[c].stats.n]
  <2>1. ask[r] \in Asks /\ ask[r].kind = "single" /\ s # All
    BY Reading, ReportsAssumption
  <2>2. TookView(v) /\ TookView(w)
    BY SeesStudents
  <2>3. v.took \subseteq w.took
    BY LaterCovers, TwiceIs
  <2>4. T \in SUBSET G /\ G \in SUBSET Students /\ T \in SUBSET Students /\ IsFiniteSet(G)
    BY <2>3, TakersGrow, TakersFinite
  <2>5. /\ DOMAIN rep.classes = ClassesOf(T) /\ rep.grade.stats = RowOf(w, s, G)
        /\ \A c \in ClassesOf(T) : rep.classes[c].stats = RowOf(v, s, InClass(T, c))
    BY DEF GetSingleClassSummary, NamedReply, SingleClassSummary
  <2> HIDE DEF rep, v, w, s
  <2>7. \A c : InClass(T, c) \in SUBSET T /\ InClass(T, c) \in SUBSET Students
    BY <2>4, InClassOf
  <2>8. SumFunctionOnSet(n, ClassesOf(T)) <= rep.grade.stats.n
    <3>1. \A c \in ClassesOf(T) : n[c] = Cardinality(InClass(T, c))
      BY <2>5, <2>7, RowIs
    <3>2. rep.grade.stats.n = Cardinality(G)
      BY <2>4, <2>5, RowIs
    <3>3. Cardinality(T) <= Cardinality(G)
      BY <2>4, FS_Subset
    <3> HIDE DEF n
    <3>4. SumFunctionOnSet(n, ClassesOf(T)) = Cardinality(T)
      BY <2>4, <3>1, ClassesAddUp
    <3> QED
      BY <3>2, <3>3, <3>4
  <2>9. ASSUME NEW c \in ClassesOf(T)
        PROVE  /\ rep.grade.stats.low <= rep.classes[c].stats.low
               /\ rep.classes[c].stats.high <= rep.grade.stats.high
    <3> DEFINE C == InClass(T, c)
               X == PointsOf(v, s, C)
               Y == PointsOf(w, s, G)
    <3>1. C # {} /\ G # {} /\ C \in SUBSET Students
      BY <2>4, <2>7, <2>9 DEF ClassesOf, InClass
    <3>2. X \subseteq Y
      <4>1. \A st \in C : Points(v, s, st) = Points(w, s, st) /\ st \in G
        BY <2>1, <2>4, <2>7, PointsStay DEF s
      <4> QED
        BY <4>1 DEF PointsOf
    <3>3. /\ X \in SUBSET Int /\ IsFiniteSet(X) /\ X # {}
          /\ Y \in SUBSET Int /\ IsFiniteSet(Y) /\ Y # {}
      <4>1. X # {} /\ Y # {}
        BY <3>1 DEF PointsOf
      <4> QED
        BY <2>2, <2>4, <3>1, <4>1, PointsFinite
    <3>4. rep.grade.stats.low = Min(Y) /\ rep.grade.stats.high = Max(Y)
      BY <2>4, <2>5, <3>1, RowIs
    <3>5. rep.classes[c].stats.low = Min(X) /\ rep.classes[c].stats.high = Max(X)
      BY <2>5, <3>1, RowIs
    <3> HIDE DEF X, Y
    <3>6. Max(X) \in Y /\ Min(X) \in Y
      BY <3>2, <3>3, MaxMin
    <3>7. Max(Y) >= Max(X) /\ Min(Y) <= Min(X) /\ Max(X) \in Int /\ Max(Y) \in Int
      BY <3>3, <3>6, MaxMin
    <3> QED
      BY <3>4, <3>5, <3>7
  <2> QED
    BY <2>5, <2>8, <2>9 DEF rep
<1> QED
  BY <1>1, Telling, PTL

\* A class that has a rank is ranked among as many classes as there are.
LEMMA RankOfClass ==
  ASSUME NEW v, TookView(v), NEW s, NEW c
  PROVE  LET C == ClassesOf(Takers(v, s)) IN
         /\ Cardinality(C) \in Nat
         /\ ClassRank(v, s, c) <= Cardinality(C)
         /\ c \in C => ClassRank(v, s, c) > 0
<1> DEFINE T == Takers(v, s)
           C == ClassesOf(T)
           n(d) == Cardinality(InClass(T, d))
           sum(d) == SumOver(InClass(T, d), LAMBDA st : Points(v, s, st))
           Better(d) == \/ sum(d) * n(c) > sum(c) * n(d)
                        \/ sum(d) * n(c) = sum(c) * n(d) /\ d < c
           B == {d \in C : Better(d)}
<1>1. T \in SUBSET Students /\ IsFiniteSet(C) /\ C \in SUBSET Classes
  BY TakersFinite, ClassesFinite
<1>2. Cardinality(C) \in Nat
  BY <1>1, CountIsNat
<1>3. CASE c \notin C
  <2>1. ClassRank(v, s, c) = 0
    BY <1>3 DEF ClassRank
  <2> QED
    BY <1>2, <1>3, <2>1
<1>4. CASE c \in C
  <2>1. ClassRank(v, s, c) = 1 + Cardinality(B)
    BY <1>4 DEF ClassRank, SumOver, SumFunction
  <2>2. ~Better(c)
    <3>1. n(c) \in Int
      BY <1>1, InClassOf, CountIsNat
    <3>2. sum(c) \in Int
      <4> DEFINE U == InClass(T, c)
                 f == [st \in U |-> Points(v, s, st)]
      <4>1. IsFiniteSet(U) /\ \A st \in U : f[st] \in Int
        BY <1>1, InClassOf, PointsInt DEF TookView
      <4>2. sum(c) = SumFunctionOnSet(f, U)
        BY DEF SumOver, SumFunction
      <4> HIDE DEF f, U, sum
      <4> QED
        BY <4>1, <4>2, SumInt
    <3>3. c \in Int
      BY <1>1, <1>4, ScoresAssumption
    <3> DEFINE a == sum(c) * n(c)
    <3>4. a \in Int
      <4> HIDE DEF sum, n
      <4> QED
        BY <3>1, <3>2
    <3>5. ~(a > a) /\ ~(c < c)
      <4> HIDE DEF a
      <4> QED
        BY <3>3, <3>4
    <3> HIDE DEF sum, n
    <3> QED
      BY <3>5
  <2>3. B \in SUBSET (C \ {c})
    BY <2>2
  <2> HIDE DEF B, C
  <2>4. IsFiniteSet(C \ {c}) /\ Cardinality(C \ {c}) = Cardinality(C) - 1
    BY <1>1, <1>4, FS_RemoveElement
  <2>5. Cardinality(B) <= Cardinality(C \ {c}) /\ IsFiniteSet(B)
    BY <2>3, <2>4, FS_Subset
  <2>6. Cardinality(B) \in Nat
    BY <2>5, CountIsNat
  <2> QED
    BY <1>2, <2>1, <2>4, <2>5, <2>6 DEF C
<1> QED
  BY <1>3, <1>4

\* The drill-down of a class, of the rows v, the ranks w and the points u.
LEMMA DrillItemRanked ==
  ASSUME NEW v, NEW w, TookView(w), v.took \subseteq w.took, NEW u, NEW s, NEW c
  PROVE  LET item == DrillItem(v, w, u, s, c) IN
         /\ item.rank <= item.ranked
         /\ item.stats.high > 0 => item.rank > 0
<1> DEFINE item == DrillItem(v, w, u, s, c)
           T == Takers(v, s)
           C == InClass(T, c)
<1>1. item.rank = ClassRank(w, s, c) /\ item.ranked = Cardinality(ClassesOf(Takers(w, s)))
  BY DEF DrillItem, SumOver, SumFunction
<1>2. item.stats.high = RowOf(v, s, C).high
  <2> DEFINE row == RowOf(v, s, C)
  <2>1. \E n, d : item.stats = [row EXCEPT !.n = n, !.std = d]
    BY DEF DrillItem, SumOver, SumFunction
  <2>2. "high" # "n" /\ "high" # "std"
    OBVIOUS
  <2>3. "high" \in DOMAIN row
    BY DEF RowOf, Row, SumOver, SumFunction
  <2> HIDE DEF row, item
  <2> QED
    BY <2>1, <2>2, <2>3, Zenon DEF row
<1>3. item.stats.high > 0 => c \in ClassesOf(Takers(w, s))
  <2>1. T \in SUBSET Students /\ C \in SUBSET Students
    BY TakersFinite, InClassOf
  <2>2. C = {} => item.stats.high = 0
    BY <1>2, <2>1, RowIs
  <2>3. C # {} => c \in ClassesOf(T)
    BY DEF InClass, ClassesOf
  <2> QED
    BY <2>2, <2>3, TakersGrow
<1> HIDE DEF item
<1> QED
  BY <1>1, <1>3, RankOfClass DEF item

\* The drill-down ranks a class among the classes ranked, and every class with points.
THEOREM DrillHolds == Spec => []DrillRanked
<1>1. Told => DrillRanked
  <2> SUFFICES ASSUME Told, NEW r \in Requests, Answered(r, "drill"), Named(r),
                      NEW item, LET rep == GetClassSubjectSummary(ask[r], seen[r]).report IN
                                item \in {rep.subjects[s] : s \in DOMAIN rep.subjects} \cup {rep.overall}
               PROVE  /\ item.rank <= item.ranked
                      /\ item.stats.high > 0 => item.rank > 0
    BY DEF DrillRanked
  <2> DEFINE c == ask[r].class
             x == seen[r]
  <2>1. TookView(x.ranks) /\ TookView(x.overallRanks)
    BY SeesStudents
  <2>2. x.rows.took \subseteq x.ranks.took /\ x.overall.took \subseteq x.overallRanks.took
    BY LaterCovers, TwiceIs
  <2>3. \/ \E s : item = DrillItem(x.rows, x.ranks, x[s], s, c)
        \/ item = DrillItem(x.overall, x.overallRanks, x.marks, All, c)
    BY DEF GetClassSubjectSummary, NamedReply, ClassSubjectSummary
  <2> HIDE DEF x, c
  <2>4. CASE \E s : item = DrillItem(x.rows, x.ranks, x[s], s, c)
    <3>1. PICK s : item = DrillItem(x.rows, x.ranks, x[s], s, c)
      BY <2>4
    <3> QED
      BY <2>1, <2>2, <3>1, DrillItemRanked
  <2>5. CASE item = DrillItem(x.overall, x.overallRanks, x.marks, All, c)
    BY <2>1, <2>2, <2>5, DrillItemRanked
  <2> QED
    BY <2>3, <2>4, <2>5
<1> QED
  BY <1>1, Telling, PTL

-----------------------------------------------------------------------------
(* The score segments *)

\* Segments that follow on each other, each of them of some length.
Chained(segs) ==
  /\ segs \in Seq(Segment)
  /\ \A k \in DOMAIN segs : segs[k].start < segs[k].end
  /\ \A k \in 1 .. Len(segs) - 1 : segs[k].end = segs[k + 1].start

LEMMA ChainedTyped ==
  ASSUME NEW segs, Chained(segs), NEW k \in DOMAIN segs
  PROVE  /\ segs[k].start \in Int /\ segs[k].end \in Int /\ segs[k].start < segs[k].end
         /\ segs[k] \in Segment /\ k \in Int /\ k \in 1 .. Len(segs) /\ Len(segs) \in Nat
<1>1. segs \in Seq(Segment)
  BY DEF Chained
<1>2. segs[k] \in Segment /\ DOMAIN segs = 1 .. Len(segs) /\ Len(segs) \in Nat
  BY <1>1
<1> QED
  BY <1>2, SegmentIs DEF Chained

\* No segment starts before an earlier one has ended.
LEMMA ChainedOrdered ==
  ASSUME NEW segs, Chained(segs), NEW i \in DOMAIN segs, NEW j \in DOMAIN segs, i < j
  PROVE  segs[i].end <= segs[j].start
<1> DEFINE start(k) == segs[k].start
           end(k) == segs[k].end
           n == Len(segs)
           B == {k \in i + 1 .. n : start(k) < end(i)}
<1>1. DOMAIN segs = 1 .. n /\ n \in Nat /\ i \in 1 .. n /\ j \in i + 1 .. n /\ i \in Int /\ j \in Int
  <2>1. i \in 1 .. n /\ j \in 1 .. n /\ n \in Nat
    BY ChainedTyped
  <2> QED
    BY <2>1 DEF Chained
<1>2. \A k \in 1 .. n : start(k) \in Int /\ end(k) \in Int /\ start(k) < end(k)
  BY <1>1, ChainedTyped
<1>3. \A k \in 1 .. n - 1 : end(k) = start(k + 1)
  BY DEF Chained
<1> HIDE DEF start, end, n
<1>4. ASSUME B # {} PROVE FALSE
  <2>1. B \in SUBSET Int /\ IsFiniteSet(B)
    <3>1. B \in SUBSET (1 .. n) /\ 1 \in Int /\ n \in Int
      BY <1>1
    <3>2. IsFiniteSet(1 .. n) /\ 1 .. n \subseteq Int
      BY <3>1, FS_Interval
    <3> HIDE DEF B
    <3> QED
      BY <3>1, <3>2, FS_Subset
  <2> DEFINE m == Min(B)
  <2>2. m \in B /\ \A k \in B : m <= k
    BY <2>1, <1>4, MaxMin
  <2> HIDE DEF m
  <2>3. m \in i + 1 .. n /\ start(m) < end(i)
    BY <2>2
  <2>4. m # i + 1
    BY <1>1, <1>2, <1>3, <2>3
  <2>5. m - 1 \in i + 1 .. n /\ m - 1 \in 1 .. n - 1 /\ m - 1 < m /\ m - 1 + 1 = m
    BY <1>1, <2>3, <2>4
  <2>6. ~(m <= m - 1)
    BY <2>3, <1>1
  <2>7. ~(start(m - 1) < end(i))
    BY <2>2, <2>5, <2>6
  <2>8. start(m) = end(m - 1) /\ start(m - 1) < end(m - 1) /\ m - 1 \in 1 .. n /\ m \in 1 .. n
    BY <1>1, <1>2, <1>3, <2>5, <2>3
  <2> QED
    BY <1>1, <1>2, <2>3, <2>7, <2>8
<1>5. start(j) \in Int /\ end(i) \in Int /\ ~(start(j) < end(i))
  BY <1>1, <1>2, <1>4
<1> QED
  BY <1>5 DEF start, end

\* The ranges of a segment are within it, and only the very last has its upper bound.
LEMMA RangeInside ==
  ASSUME NEW segs, Chained(segs), NEW k \in DOMAIN segs, NEW i \in 0 .. Steps(segs[k]) - 1,
         NEW p \in Int, InRange(expandSegments(segs)[<<k, i>>], p)
  PROVE  /\ segs[k].start <= p
         /\ p < segs[k].end \/ (p = segs[k].end /\ k = Len(segs) /\ i = Steps(segs[k]) - 1)
<1> DEFINE lo == segs[k].start
           hi == segs[k].end
           b == segs[k].step
           n == Steps(segs[k])
           rg == expandSegments(segs)[<<k, i>>]
<1>1. segs[k] \in Segment /\ lo < hi /\ segs \in Seq(Segment)
  BY ChainedTyped DEF Chained
<1>2. lo \in Int /\ hi \in Int /\ b \in Nat \ {0}
  BY <1>1, SegmentIs
<1>3. n \in Nat \ {0} /\ (n - 1) * b \in Int /\ (n - 1) * b < hi - lo
  BY <1>1, StepsFit
<1>4. /\ rg.min = lo + i * b
      /\ rg.max = IF i = n - 1 THEN hi ELSE lo + (i + 1) * b
      /\ rg.isLast <=> i = n - 1 /\ k = Len(segs)
  BY <1>1, RangeOf
<1>5. rg.min <= p /\ (p < rg.max \/ (rg.isLast /\ p = rg.max))
  BY DEF InRange
<1>6. i * b \in Int /\ 0 <= i * b
  <2>1. i \in Int /\ 0 <= i /\ b \in Nat /\ 0 * b = 0
    BY <1>2, <1>3
  <2> QED
    BY <2>1, Product
<1>7. i # n - 1 => (i + 1) * b \in Int /\ (i + 1) * b <= (n - 1) * b
  <2>1. i # n - 1 => i + 1 \in Int /\ n - 1 \in Int /\ i + 1 <= n - 1 /\ b \in Nat
    BY <1>2, <1>3
  <2> QED
    BY <2>1, Product
<1> HIDE DEF lo, hi, b, n, rg
<1>8. lo <= p
  BY <1>2, <1>4, <1>5, <1>6
<1>9. CASE i = n - 1
  BY <1>2, <1>4, <1>5, <1>8, <1>9 DEF lo, hi, n
<1>10. CASE i # n - 1
  <2>1. lo + (i + 1) * b < hi
    BY <1>2, <1>3, <1>7, <1>10
  <2>2. ~rg.isLast /\ p < lo + (i + 1) * b
    BY <1>4, <1>5, <1>10
  <2>3. p < hi
    BY <1>2, <1>7, <1>10, <2>1, <2>2
  <2> QED
    BY <1>8, <2>3 DEF lo, hi
<1> QED
  BY <1>9, <1>10

Ranges(segs) == UNION {{k} \X (0 .. Steps(segs[k]) - 1) : k \in DOMAIN segs}

LEMMA RangesFinite ==
  ASSUME NEW segs, Chained(segs)
  PROVE  IsFiniteSet(Ranges(segs)) /\ DOMAIN expandSegments(segs) = Ranges(segs)
<1> DEFINE I == DOMAIN segs
           P == [k \in I |-> {k} \X (0 .. Steps(segs[k]) - 1)]
           n == [k \in I |-> Cardinality(P[k])]
<1>1. IsFiniteSet(I)
  BY IndicesFinite DEF Chained
<1>2. ASSUME NEW k \in I PROVE IsFiniteSet(P[k])
  <2> DEFINE m == Steps(segs[k])
  <2>1. m \in Nat \ {0}
    BY StepsFit, ChainedTyped
  <2> HIDE DEF m
  <2>2. IsFiniteSet({k}) /\ IsFiniteSet(0 .. m - 1)
    <3>1. 0 \in Int /\ m - 1 \in Int
      BY <2>1
    <3> QED
      BY <3>1, FS_Interval, FS_Singleton
  <2>3. IsFiniteSet({k} \X (0 .. m - 1))
    BY <2>2, FS_Product
  <2> QED
    BY <2>3 DEF m
<1>3. Disjoint(P, I)
  <2> SUFFICES ASSUME NEW i \in I, NEW j \in I, i # j PROVE P[i] \cap P[j] = {}
    BY DEF Disjoint
  <2> QED
    OBVIOUS
<1>4. Whole(P, I) = Ranges(segs)
  BY DEF Whole, Ranges
<1>5. \A k \in I : n[k] = Cardinality(P[k])
  OBVIOUS
<1> HIDE DEF P, I, n
<1>6. IsFiniteSet(Whole(P, I))
  BY <1>1, <1>2, <1>3, <1>5, CountParts
<1> QED
  BY <1>4, <1>6 DEF expandSegments, Ranges

\* Every number from the first start to the last end is in exactly one range.
LEMMA RangesTile ==
  ASSUME NEW segs, Chained(segs), segs # <<>>,
         NEW p \in Int, segs[1].start <= p, p <= segs[Len(segs)].end
  PROVE  \E a \in Ranges(segs) :
           /\ InRange(expandSegments(segs)[a], p)
           /\ \A b \in Ranges(segs) : InRange(expandSegments(segs)[b], p) => b = a
<1> DEFINE n == Len(segs)
           In(a) == InRange(expandSegments(segs)[a], p)
<1>1. n \in Nat \ {0} /\ DOMAIN segs = 1 .. n /\ 1 \in DOMAIN segs /\ n \in DOMAIN segs
  BY DEF Chained
<1>2. \A k \in DOMAIN segs : /\ segs[k].start \in Int /\ segs[k].end \in Int
                             /\ segs[k].start < segs[k].end
  BY ChainedTyped
<1>3. \A k \in DOMAIN segs : \A i \in 0 .. Steps(segs[k]) - 1 :
        In(<<k, i>>) => /\ segs[k].start <= p
                        /\ p < segs[k].end \/ (p = segs[k].end /\ k = n /\ i = Steps(segs[k]) - 1)
  BY RangeInside
<1>4. \A i, j \in DOMAIN segs : i < j => segs[i].end <= segs[j].start
  BY ChainedOrdered
<1>5. \A b \in Ranges(segs) : \E j \in DOMAIN segs : \E i \in 0 .. Steps(segs[j]) - 1 : b = <<j, i>>
  BY DEF Ranges
<1>6. \A j \in DOMAIN segs : \A i \in 0 .. Steps(segs[j]) - 1 : <<j, i>> \in Ranges(segs)
  BY DEF Ranges
<1>7. CASE p < segs[n].end
  <2> DEFINE K == {k \in 1 .. n : segs[k].start <= p}
             k == Max(K)
  <2>1. K \in SUBSET Int /\ IsFiniteSet(K) /\ K # {}
    <3>1. 1 \in K
      BY <1>1
    <3>2. K \in SUBSET (1 .. n) /\ 1 \in Int /\ n \in Int
      BY <1>1
    <3>3. IsFiniteSet(1 .. n) /\ 1 .. n \subseteq Int
      BY <3>2, FS_Interval
    <3> HIDE DEF K
    <3> QED
      BY <3>1, <3>2, <3>3, FS_Subset
  <2>2. k \in K /\ \A y \in K : k >= y
    BY <2>1, MaxMin
  <2> HIDE DEF k
  <2>3. k \in DOMAIN segs /\ k \in 1 .. n /\ segs[k].start <= p
    BY <1>1, <2>2
  <2>4. p < segs[k].end
    <3>1. CASE k = n
      BY <1>7, <3>1
    <3>2. CASE k # n
      <4>1. k + 1 \in 1 .. n /\ k \in 1 .. n - 1 /\ ~(k >= k + 1)
        BY <1>1, <2>3, <3>2
      <4>2. ~(segs[k + 1].start <= p)
        BY <2>2, <4>1
      <4>3. segs[k].end = segs[k + 1].start
        BY <4>1 DEF Chained
      <4> QED
        BY <1>1, <1>2, <2>3, <4>2, <4>3
    <3> QED
      BY <3>1, <3>2
  <2>5. PICK i \in 0 .. Steps(segs[k]) - 1 :
          In(<<k, i>>) /\ \A j \in 0 .. Steps(segs[k]) - 1 : In(<<k, j>>) => j = i
    <3>1. segs \in Seq(Segment) /\ segs[k].start < segs[k].end
      BY <2>3 DEF Chained
    <3> QED
      BY <2>3, <2>4, <3>1, SegmentTiled
  <2>6. ASSUME NEW j \in DOMAIN segs, NEW m \in 0 .. Steps(segs[j]) - 1, In(<<j, m>>)
        PROVE  j = k
    <3>1. segs[j].start <= p /\ p <= segs[j].end /\ (p = segs[j].end => j = n)
      BY <1>2, <1>3, <2>6
    <3>2. j \in 1 .. n
      BY <1>1
    <3>3. ~(j < k)
      <4>1. j < k => segs[j].end <= segs[k].start
        BY <1>4, <2>3
      <4> QED
        BY <1>1, <1>2, <2>3, <3>1, <3>2, <4>1
    <3>4. ~(k < j)
      <4>1. k < j => segs[k].end <= segs[j].start
        BY <1>4, <2>3
      <4> QED
        BY <1>2, <2>3, <2>4, <3>1, <4>1
    <3> QED
      BY <1>1, <2>3, <3>2, <3>3, <3>4
  <2> HIDE DEF In
  <2> QED
    BY <1>5, <1>6, <2>3, <2>5, <2>6 DEF In
<1>8. CASE p = segs[n].end
  <2> DEFINE i == Steps(segs[n]) - 1
             lo == segs[n].start
             hi == segs[n].end
             b == segs[n].step
             rg == expandSegments(segs)[<<n, i>>]
  <2>1. segs[n] \in Segment /\ lo < hi /\ segs \in Seq(Segment)
    BY <1>1, ChainedTyped DEF Chained
  <2>2. lo \in Int /\ hi \in Int /\ b \in Nat \ {0}
    BY <2>1, SegmentIs
  <2>3. i \in Nat /\ i * b \in Int /\ i * b < hi - lo /\ i \in 0 .. Steps(segs[n]) - 1
    BY <2>1, StepsFit
  <2>4. rg.min = lo + i * b /\ rg.max = hi /\ rg.isLast
    BY <1>1, <2>1, <2>3, RangeOf
  <2>5. In(<<n, i>>)
    <3>1. rg.min <= p
      <4> HIDE DEF lo, hi, b, i, rg
      <4>1. p = hi
        BY <1>8 DEF hi
      <4> QED
        BY <2>2, <2>3, <2>4, <4>1
    <3> QED
      BY <1>8, <2>4, <3>1 DEF InRange
  <2>6. ASSUME NEW j \in DOMAIN segs, NEW m \in 0 .. Steps(segs[j]) - 1, In(<<j, m>>)
        PROVE  j = n /\ m = i
    <3>1. segs[j].start <= p /\ (p < segs[j].end \/ (p = segs[j].end /\ j = n /\ m = Steps(segs[j]) - 1))
      BY <1>3, <2>6
    <3>2. j = n
      <4>1. j \in 1 .. n
        BY <1>1
      <4>2. j < n => segs[j].end <= segs[n].start
        BY <1>1, <1>4
      <4> QED
        BY <1>1, <1>2, <1>8, <3>1, <4>1, <4>2
    <3> QED
      BY <1>1, <1>2, <1>8, <3>1, <3>2
  <2> HIDE DEF In, i
  <2> QED
    BY <1>1, <1>5, <1>6, <2>3, <2>5, <2>6 DEF In
<1> QED
  BY <1>1, <1>2, <1>7, <1>8

\* The students of U in a range.
InRangeOf(v, s, U, rg) == {st \in U : InRange(rg, Points(v, s, st) * Unit)}

\* Everybody of U has points within the segments; n counts the students of each range.
Held(v, s, segs, U) ==
  \A st \in U : Points(v, s, st) * Unit \in segs[1].start .. segs[Len(segs)].end

CountsRanges(n, v, s, segs, U) ==
  \A a \in Ranges(segs) : n[a] = Cardinality(InRangeOf(v, s, U, expandSegments(segs)[a]))

\* So the counts of the ranges add up to the students who have such points.
LEMMA RangesAddUp ==
  ASSUME NEW segs, Chained(segs), segs # <<>>, NEW v, TookView(v), NEW s, NEW U \in SUBSET Students,
         Held(v, s, segs, U), NEW n, CountsRanges(n, v, s, segs, U)
  PROVE  SumFunctionOnSet(n, Ranges(segs)) = Cardinality(U)
<1> DEFINE I == Ranges(segs)
           P == [a \in I |-> InRangeOf(v, s, U, expandSegments(segs)[a])]
           p(st) == Points(v, s, st) * Unit
           In(a, st) == InRange(expandSegments(segs)[a], p(st))
<1>1. \A st \in U : \E a \in I : In(a, st) /\ \A b \in I : In(b, st) => b = a
  <2> SUFFICES ASSUME NEW st \in U
               PROVE  \E a \in I : In(a, st) /\ \A b \in I : In(b, st) => b = a
    OBVIOUS
  <2>1. p(st) \in Int
    <3>1. Points(v, s, st) \in Int /\ Unit \in Int
      BY PointsInt, FloatsAssumption DEF TookView
    <3> HIDE DEF p
    <3> QED
      BY <3>1 DEF p
  <2>2. segs[1].start <= p(st) /\ p(st) <= segs[Len(segs)].end
    BY DEF Held
  <2> HIDE DEF p
  <2> QED
    BY <2>1, <2>2, RangesTile
<1>2. IsFiniteSet(I) /\ IsFiniteSet(U)
  BY RangesFinite, FS_Subset, ScoresAssumption
<1>3. \A a \in I : P[a] = {st \in U : In(a, st)} /\ P[a] \in SUBSET U /\ n[a] = Cardinality(P[a])
  BY DEF InRangeOf, CountsRanges
<1> HIDE DEF I, P, In
<1>4. \A a \in I : IsFiniteSet(P[a])
  BY <1>2, <1>3, FS_Subset
<1>5. Disjoint(P, I)
  BY <1>1, <1>3 DEF Disjoint
<1>6. Whole(P, I) = U
  BY <1>1, <1>3 DEF Whole
<1>7. SumFunctionOnSet(n, I) = Cardinality(Whole(P, I))
  BY <1>2, <1>3, <1>4, <1>5, CountParts
<1> QED
  BY <1>6, <1>7 DEF I

\* Segments of whole numbers that follow on each other and hold everybody's points count
\* everybody once, whatever the float64s are.
THEOREM SegmentsHold == Spec => []SegmentsPartition
<1>1. Told => SegmentsPartition
  <2> SUFFICES ASSUME Told, NEW r \in Requests, Answered(r, "segment"), Quiet(r),
                      \A i \in DOMAIN ask[r].config :
                        {ask[r].config[i].start, ask[r].config[i].end, ask[r].config[i].step}
                          \subseteq WholeNumbers,
                      Covers(ask[r].config, seen[r].rows, ask[r].subject,
                             Takers(seen[r].rows, ask[r].subject))
               PROVE  CountsOnce(GetScoreSegment(ask[r], seen[r]).report)
    BY DEF SegmentsPartition
  <2> DEFINE segs == ask[r].config
             s == ask[r].subject
             v == seen[r].rows
             T == Takers(v, s)
             rep == GetScoreSegment(ask[r], seen[r]).report
             total(row) == SumFunctionOnSet([i \in DOMAIN row.counts |-> row.counts[i]], DOMAIN row.counts)
  <2> SUFFICES /\ total(rep.grade) = rep.grade.n
               /\ \A c \in DOMAIN rep.classes : total(rep.classes[c]) = rep.classes[c].n
    BY DEF CountsOnce, SumOver, SumFunction
  <2>4. /\ \A i \in DOMAIN segs : segs[i].start < segs[i].end /\ segs[i].step > 0
        /\ \A i \in 1 .. Len(segs) - 1 : segs[i].end = segs[i + 1].start
        /\ \A st \in T : Points(v, s, st) * Unit \in segs[1].start .. segs[Len(segs)].end
    BY DEF Covers
  <2>1. /\ ask[r] \in Asks /\ ask[r].kind = "segment"
        /\ segs \in Seq([start : Floats, end : Floats, step : Floats])
    BY Reading, ReportsAssumption
  <2>2. CASE segs = <<>>
    <3>1. rep.grade.n = 0 /\ DOMAIN rep.grade.counts = {} /\ DOMAIN rep.classes = {}
      BY <2>2 DEF GetScoreSegment, NamedReply, Unsegmented
    <3> HIDE DEF rep
    <3> QED
      BY <3>1, SumEmpty
  <2>3. CASE segs # <<>>
    <3>1. Chained(segs)
      <4>1. segs \in Seq(Segment)
        <5>1. \A i \in DOMAIN segs : segs[i] \in Segment
          <6> SUFFICES ASSUME NEW i \in DOMAIN segs PROVE segs[i] \in Segment
            OBVIOUS
          <6> DEFINE g == segs[i]
          <6>1. g \in [start : Floats, end : Floats, step : Floats] /\ g.step > 0
            BY <2>1, <2>4, IndicesFinite
          <6>3. {g.start, g.end, g.step} \subseteq WholeNumbers
            OBVIOUS
          <6> HIDE DEF g
          <6>2. g \in Segment
            BY <6>1, <6>3 DEF Segment
          <6> QED
            BY <6>2 DEF g
        <5> HIDE DEF segs
        <5>2. segs \in [1 .. Len(segs) -> Segment] /\ Len(segs) \in Nat
          BY <2>1, <5>1
        <5> QED
          BY <5>2
      <4> QED
        BY <2>4, <4>1 DEF Chained
    <3>2. TookView(v) /\ T \in SUBSET Students
      BY SeesStudents, TakersFinite
    <3>3. /\ DOMAIN rep.classes = ClassesOf(T)
          /\ rep.grade.n = Cardinality(Takers(seen[r].count, s))
          /\ \A c \in ClassesOf(T) : rep.classes[c].n = Cardinality(InClass(T, c))
      BY <2>3 DEF GetScoreSegment, NamedReply, ScoreSegment
    <3>4. rep.grade.n = Cardinality(T)
      <4>1. seen[r].count.took = v.took
        <5>1. /\ "count" \in DOMAIN seen[r] /\ "rows" \in DOMAIN seen[r]
              /\ "took" \in DOMAIN seen[r].count /\ "took" \in DOMAIN seen[r].rows
          <6>1. /\ ask[r].kind = "segment" /\ ToSet(QueriesOf(ask[r])) \subseteq DOMAIN seen[r]
                /\ \A q \in DOMAIN seen[r] : DOMAIN seen[r][q] = Reads("segment", q)
            BY Reading
          <6>2. QueriesOf(ask[r]) = <<"count", "rows", "name">>
            BY <6>1 DEF QueriesOf, Queries, SegmentQueries
          <6>3. {"count", "rows"} \subseteq ToSet(<<"count", "rows", "name">>)
            BY DEF ToSet
          <6> QED
            BY <6>1, <6>2, <6>3, ReadsIs
        <5> QED
          BY <5>1 DEF Quiet
      <4> QED
        BY <3>3, <4>1 DEF Takers
    <3>5. ASSUME NEW U \in SUBSET T, NEW row, DOMAIN row.counts = DOMAIN expandSegments(segs),
                 \A a \in DOMAIN row.counts :
                   row.counts[a] = Cardinality(InRangeOf(v, s, U, expandSegments(segs)[a]))
          PROVE  total(row) = Cardinality(U)
      <4> DEFINE n == [i \in DOMAIN row.counts |-> row.counts[i]]
      <4>1. DOMAIN row.counts = Ranges(segs) /\ total(row) = SumFunctionOnSet(n, Ranges(segs))
        BY <3>1, <3>5, RangesFinite
      <4>2. CountsRanges(n, v, s, segs, U)
        BY <3>5, <4>1 DEF CountsRanges
      <4>3. U \in SUBSET Students /\ Held(v, s, segs, U)
        BY <2>4, <3>2 DEF Held
      <4> HIDE DEF n, segs, v, s, T, total
      <4>4. SumFunctionOnSet(n, Ranges(segs)) = Cardinality(U)
        BY <2>3, <3>1, <3>2, <4>2, <4>3, RangesAddUp
      <4> QED
        BY <4>1, <4>4
    <3>6. /\ DOMAIN rep.grade.counts = DOMAIN expandSegments(segs)
          /\ \A a \in DOMAIN rep.grade.counts :
               rep.grade.counts[a] = Cardinality(InRangeOf(v, s, T, expandSegments(segs)[a]))
      BY <2>3 DEF GetScoreSegment, NamedReply, ScoreSegment, InRangeOf
    <3>7. \A c \in ClassesOf(T) :
            /\ DOMAIN rep.classes[c].counts = DOMAIN expandSegments(segs)
            /\ \A a \in DOMAIN rep.classes[c].counts :
                 rep.classes[c].counts[a] = Cardinality(InRangeOf(v, s, InClass(T, c), expandSegments(segs)[a]))
      BY <2>3 DEF GetScoreSegment, NamedReply, ScoreSegment, InRangeOf
    <3>8. \A c : InClass(T, c) \in SUBSET T /\ T \in SUBSET T
      BY DEF InClass
    <3> HIDE DEF rep, T, v, s, segs, total
    <3>9. total(rep.grade) = Cardinality(T)
      BY <3>5, <3>6, <3>8
    <3>10. \A c \in ClassesOf(T) : total(rep.classes[c]) = Cardinality(InClass(T, c))
      BY <3>5, <3>7, <3>8
    <3> QED
      BY <3>3, <3>4, <3>9, <3>10
  <2> QED
    BY <2>2, <2>3
<1> QED
  BY <1>1, Telling, PTL

-----------------------------------------------------------------------------
(* Ranks and averages *)

\* R orders the whole of C.
StrictOrder(R, C) ==
  /\ \A c \in C : <<c, c>> \notin R
  /\ \A c, d \in C : c # d => <<c, d>> \in R \/ <<d, c>> \in R
  /\ \A b, c, d \in C : <<b, c>> \in R /\ <<c, d>> \in R => <<b, d>> \in R

\* What R puts before c.
Before(R, C, c) == {d \in C : <<d, c>> \in R}

\* By any strict order the ranks of n things are 1 .. n, and go with the order.
LEMMA OrderRanks ==
  ASSUME NEW C, IsFiniteSet(C), NEW R, StrictOrder(R, C),
         NEW r, \A c \in C : r[c] = 1 + Cardinality(Before(R, C, c))
  PROVE  /\ \A c, d \in C : <<c, d>> \in R => r[c] < r[d]
         /\ \A c \in C : r[c] \in 1 .. Cardinality(C)
         /\ \A k \in 1 .. Cardinality(C) : \E c \in C : r[c] = k
<1> DEFINE B(c) == Before(R, C, c)
           n == Cardinality(C)
           f == [c \in C |-> r[c]]
<1>1. \A c \in C : B(c) \in SUBSET (C \ {c}) /\ r[c] = 1 + Cardinality(B(c))
  BY DEF Before, StrictOrder
<1>2. \A c, d \in C : <<c, d>> \in R => B(c) \in SUBSET B(d) /\ c \in B(d) /\ c \notin B(c)
  BY DEF Before, StrictOrder
<1> HIDE DEF B
<1>3. ASSUME NEW c \in C
      PROVE  /\ IsFiniteSet(B(c)) /\ Cardinality(B(c)) \in Nat
             /\ r[c] \in 1 .. n
  <2>1. IsFiniteSet(C \ {c}) /\ Cardinality(C \ {c}) = Cardinality(C) - 1 /\ Cardinality(C) \in Nat
    BY FS_RemoveElement, CountIsNat
  <2>2. IsFiniteSet(B(c)) /\ Cardinality(B(c)) <= Cardinality(C \ {c})
    BY <1>1, <2>1, FS_Subset
  <2>3. Cardinality(B(c)) \in Nat
    BY <2>2, CountIsNat
  <2> QED
    BY <1>1, <2>1, <2>2, <2>3
<1>4. ASSUME NEW c \in C, NEW d \in C, <<c, d>> \in R
      PROVE  r[c] < r[d]
  <2>1. IsFiniteSet(B(d)) /\ IsFiniteSet(B(c)) /\ Cardinality(B(c)) \in Nat /\ Cardinality(B(d)) \in Nat
    BY <1>3
  <2>2. B(c) \in SUBSET B(d) /\ B(c) # B(d)
    BY <1>2, <1>4
  <2>3. Cardinality(B(c)) <= Cardinality(B(d)) /\ Cardinality(B(d)) # Cardinality(B(c))
    BY <2>1, <2>2, FS_Subset
  <2> QED
    BY <1>1, <2>1, <2>3
<1>5. f \in Injection(C, 1 .. n)
  <2>1. f \in [C -> 1 .. n]
    BY <1>3
  <2>2. \A c, d \in C : c # d => f[c] # f[d]
    <3>1. \A c \in C : r[c] \in Int
      BY <1>1, <1>3
    <3>2. \A c, d \in C : c # d => r[c] < r[d] \/ r[d] < r[c]
      BY <1>4 DEF StrictOrder
    <3> QED
      BY <3>1, <3>2
  <2> HIDE DEF f
  <2> QED
    BY <2>1, <2>2 DEF Injection, IsInjective
<1>6. n \in Nat /\ IsFiniteSet(1 .. n) /\ Cardinality(1 .. n) = n
  <2>1. n \in Nat /\ 1 \in Int
    BY CountIsNat
  <2> HIDE DEF n
  <2> QED
    BY <2>1, FS_Interval
<1>7. f \in Surjection(C, 1 .. n)
  <2> HIDE DEF f
  <2> QED
    BY <1>5, <1>6, FS_Injection
<1>8. \A k \in 1 .. n : \E c \in C : r[c] = k
  BY <1>7 DEF Surjection
<1> QED
  BY <1>3, <1>4, <1>8

\* The sum of rounded averages, weighted, is that of the points up to half of each.
LEMMA AveragesAddUp ==
  ASSUME NEW I, IsFiniteSet(I), NEW n, \A i \in I : n[i] \in Nat \ {0},
         NEW S, \A i \in I : S[i] \in Int,
         NEW a, \A i \in I : a[i] = RoundDiv(100 * S[i], n[i]),
         NEW w, \A i \in I : w[i] = n[i] * a[i]
  PROVE  LET W == SumFunctionOnSet(w, I)
             P == SumFunctionOnSet(S, I)
             N == SumFunctionOnSet(n, I) IN
         /\ \A i \in I : a[i] \in Int /\ w[i] \in Int
         /\ W \in Int /\ P \in Int /\ N \in Int
         /\ 2 * W <= 200 * P + N /\ 200 * P - N <= 2 * W
<1> DEFINE l == [i \in I |-> 200 * S[i]]
           m == [i \in I |-> 2 * w[i]]
           g == [i \in I |-> (-1) * n[i]]
           up == [i \in I |-> l[i] + n[i]]
           low == [i \in I |-> l[i] + g[i]]
           W == SumFunctionOnSet(w, I)
           P == SumFunctionOnSet(S, I)
           N == SumFunctionOnSet(n, I)
<1>1. ASSUME NEW i \in I
      PROVE  /\ a[i] \in Int /\ w[i] \in Int /\ n[i] \in Int
             /\ 2 * w[i] <= 200 * S[i] + n[i] /\ 200 * S[i] + (-1) * n[i] <= 2 * w[i]
  <2> DEFINE h == 100 * S[i]
             q == RoundDiv(h, n[i])
  <2>1. h \in Int /\ n[i] \in Nat \ {0} /\ 2 * h = 200 * S[i]
    OBVIOUS
  <2>2. q \in Int /\ 2 * (q * n[i]) <= 2 * h + n[i] /\ 2 * h - n[i] <= 2 * (q * n[i])
    <3> HIDE DEF h
    <3> QED
      BY <2>1, RoundDivIs
  <2>3. a[i] = q /\ w[i] = n[i] * a[i]
    OBVIOUS
  <2> HIDE DEF q, h
  <2>4. n[i] * q = q * n[i] /\ q * n[i] \in Int
    BY <2>1, <2>2
  <2> QED
    BY <2>1, <2>2, <2>3, <2>4
<1>2. \A i \in I : /\ l[i] \in Int /\ l[i] = 200 * S[i] /\ m[i] \in Int /\ m[i] = 2 * w[i]
                   /\ g[i] \in Int /\ g[i] = (-1) * n[i]
                   /\ up[i] \in Int /\ up[i] = l[i] + n[i] /\ low[i] \in Int /\ low[i] = l[i] + g[i]
                   /\ m[i] <= up[i] /\ low[i] <= m[i]
  BY <1>1
<1> HIDE DEF l, m, g, up, low
<1>3. W \in Int /\ P \in Int /\ N \in Int
  BY <1>1, SumInt
<1>4. SumFunctionOnSet(l, I) = 200 * P /\ SumFunctionOnSet(m, I) = 2 * W /\ SumFunctionOnSet(g, I) = (-1) * N
  <2>1. 200 \in Int /\ 2 \in Int /\ -1 \in Int
    OBVIOUS
  <2> QED
    BY <1>1, <1>2, <2>1, SumTimes
<1>5. SumFunctionOnSet(up, I) = SumFunctionOnSet(l, I) + N
  BY <1>1, <1>2, SumPlus
<1>6. SumFunctionOnSet(low, I) = SumFunctionOnSet(l, I) + SumFunctionOnSet(g, I)
  <2>1. \A i \in I : l[i] \in Int /\ g[i] \in Int /\ low[i] = l[i] + g[i]
    BY <1>2
  <2> QED
    BY <2>1, SumPlus
<1>7. SumFunctionOnSet(m, I) <= SumFunctionOnSet(up, I) /\ SumFunctionOnSet(low, I) <= SumFunctionOnSet(m, I)
  BY <1>2, SumMonotone
<1> HIDE DEF W, P, N
<1>8. 2 * W <= 200 * P + N /\ 200 * P - N <= 2 * W
  BY <1>3, <1>4, <1>5, <1>6, <1>7
<1> QED
  BY <1>1, <1>3, <1>8 DEF W, P, N

\* The points of the classes add up to those of the grade.
LEMMA ClassSumsAddUp ==
  ASSUME NEW T \in SUBSET Students, NEW p, \A st \in T : p[st] \in Int,
         NEW S, \A c \in ClassesOf(T) : S[c] = SumFunctionOnSet(p, InClass(T, c))
  PROVE  /\ SumFunctionOnSet(S, ClassesOf(T)) = SumFunctionOnSet(p, T)
         /\ \A c \in ClassesOf(T) : S[c] \in Int
         /\ SumFunctionOnSet(p, T) \in Int
<1> DEFINE I == ClassesOf(T)
           P == [c \in I |-> InClass(T, c)]
<1>1. IsFiniteSet(I) /\ IsFiniteSet(T) /\ \A c \in I : IsFiniteSet(P[c]) /\ P[c] \subseteq T /\ P[c] = InClass(T, c)
  BY ClassesFinite, InClassOf
<1>2. Disjoint(P, I)
  BY DEF Disjoint, InClass
<1>3. Whole(P, I) = T
  <2>1. ASSUME NEW st \in T
        PROVE  ClassOf[st] \in I /\ st \in P[ClassOf[st]]
    BY DEF InClass, ClassesOf
  <2>2. \A c \in I : P[c] \subseteq T
    BY <1>1
  <2> HIDE DEF I, P
  <2> QED
    BY <2>1, <2>2 DEF Whole
<1>4. \A c \in I : S[c] = SumFunctionOnSet(p, P[c])
  BY <1>1
<1> HIDE DEF I, P
<1>5. SumFunctionOnSet(p, Whole(P, I)) = SumFunctionOnSet(S, I)
  BY <1>1, <1>2, <1>3, <1>4, SumParts
<1>6. \A c \in I : S[c] \in Int
  BY <1>1, <1>4, SumInt
<1>7. SumFunctionOnSet(p, T) \in Int
  BY <1>1, SumInt
<1> QED
  BY <1>3, <1>5, <1>6, <1>7 DEF I

\* A class of a student has students, finitely many.
LEMMA ClassCount ==
  ASSUME NEW T \in SUBSET Students, NEW c \in ClassesOf(T)
  PROVE  /\ InClass(T, c) # {} /\ InClass(T, c) \in SUBSET Students
         /\ Cardinality(InClass(T, c)) \in Nat \ {0}
<1>1. InClass(T, c) # {}
  BY DEF InClass, ClassesOf
<1>2. InClass(T, c) \in SUBSET Students /\ IsFiniteSet(InClass(T, c))
  BY InClassOf
<1> QED
  BY <1>1, <1>2, CountIsNat, FS_EmptySet

\* The number and the average of the points p of each class of T, and that of all of T.
ClassFigures(T, p, n, a) ==
  \A c \in ClassesOf(T) :
    /\ n[c] = Cardinality(InClass(T, c))
    /\ a[c] = RoundDiv(100 * SumFunctionOnSet(p, InClass(T, c)), n[c])

GradeAverage(T, p, avg) == T # {} => avg = RoundDiv(100 * SumFunctionOnSet(p, T), Cardinality(T))

\* The differences of the classes from the average of the grade balance out.
LEMMA Balanced ==
  ASSUME NEW T \in SUBSET Students, NEW p, \A st \in T : p[st] \in Int,
         NEW n, NEW a, ClassFigures(T, p, n, a), NEW avg, GradeAverage(T, p, avg),
         NEW d, \A c \in ClassesOf(T) : d[c] = n[c] * (a[c] - avg)
  PROVE  SumFunctionOnSet(d, ClassesOf(T)) \in -Cardinality(T) .. Cardinality(T)
<1> DEFINE I == ClassesOf(T)
           S == [c \in I |-> SumFunctionOnSet(p, InClass(T, c))]
           w == [c \in I |-> n[c] * a[c]]
           u == [c \in I |-> (-avg) * n[c]]
           N == Cardinality(T)
           P == SumFunctionOnSet(p, T)
           W == SumFunctionOnSet(w, I)
<1>1. IsFiniteSet(I) /\ IsFiniteSet(T) /\ N \in Nat
  BY ClassesFinite, InClassOf, CountIsNat
<1>2. CASE T = {}
  <2>1. I = {} /\ N = 0
    BY <1>2, FS_EmptySet DEF ClassesOf
  <2> QED
    BY <2>1, SumEmpty
<1>3. CASE T # {}
  <2>1. N \in Nat \ {0}
    BY <1>1, <1>3, FS_EmptySet
  <2>2. \A c \in I : n[c] \in Nat \ {0}
    BY ClassCount DEF ClassFigures
  <2>3. \A c \in I : S[c] = SumFunctionOnSet(p, InClass(T, c))
    OBVIOUS
  <2>4. \A c \in I : a[c] = RoundDiv(100 * S[c], n[c]) /\ w[c] = n[c] * a[c]
    BY DEF ClassFigures
  <2> HIDE DEF S, w
  <2>5. SumFunctionOnSet(S, I) = P /\ P \in Int /\ \A c \in I : S[c] \in Int
    BY <2>3, ClassSumsAddUp
  <2>6. SumFunctionOnSet(n, I) = N
    BY ClassesAddUp DEF ClassFigures
  <2> HIDE DEF I
  <2>7. /\ \A c \in I : a[c] \in Int /\ w[c] \in Int
        /\ W \in Int /\ 2 * W <= 200 * P + N /\ 200 * P - N <= 2 * W
    BY <1>1, <2>2, <2>4, <2>5, <2>6, AveragesAddUp
  <2>8. avg \in Int /\ 2 * (avg * N) <= 200 * P + N /\ 200 * P - N <= 2 * (avg * N) /\ avg * N \in Int
    <3> DEFINE h == 100 * P
    <3>1. h \in Int /\ 2 * h = 200 * P /\ avg = RoundDiv(h, N)
      BY <1>3, <2>5 DEF GradeAverage
    <3> HIDE DEF h, N
    <3>2. avg \in Int /\ 2 * (avg * N) <= 2 * h + N /\ 2 * h - N <= 2 * (avg * N)
      BY <2>1, <3>1, RoundDivIs
    <3> QED
      BY <2>1, <3>1, <3>2
  <2>9. \A c \in I : /\ n[c] \in Int /\ u[c] \in Int /\ u[c] = (-avg) * n[c]
                     /\ d[c] = w[c] + u[c]
    <3> SUFFICES ASSUME NEW c \in I
                 PROVE  n[c] \in Int /\ u[c] \in Int /\ u[c] = (-avg) * n[c] /\ d[c] = w[c] + u[c]
      OBVIOUS
    <3>1. n[c] \in Int /\ a[c] \in Int /\ w[c] = n[c] * a[c] /\ d[c] = n[c] * (a[c] - avg)
      BY <2>2, <2>4, <2>7 DEF I
    <3>2. \A x, y, z \in Int : x * (y - z) = x * y + (-z) * x
      OBVIOUS
    <3> QED
      BY <2>8, <3>1, <3>2
  <2> HIDE DEF u
  <2>10. SumFunctionOnSet(u, I) = (-avg) * N
    <3>1. -avg \in Int
      BY <2>8
    <3>2. SumFunctionOnSet(u, I) = (-avg) * SumFunctionOnSet(n, I)
      BY <1>1, <2>9, <3>1, SumTimes
    <3> QED
      BY <2>6, <3>2
  <2>11. SumFunctionOnSet(d, I) = W + SumFunctionOnSet(u, I)
    BY <1>1, <2>7, <2>9, SumPlus
  <2> HIDE DEF N, W, P
  <2>12. (-avg) * N = -(avg * N)
    BY <2>1, <2>8
  <2>13. SumFunctionOnSet(d, I) = W - avg * N
    BY <2>7, <2>8, <2>10, <2>11, <2>12
  <2> DEFINE D == SumFunctionOnSet(d, I)
             Z == avg * N
  <2>14. D = W - Z /\ W \in Int /\ Z \in Int /\ 2 * W <= 200 * P + N /\ 200 * P - N <= 2 * W
         /\ 2 * Z <= 200 * P + N /\ 200 * P - N <= 2 * Z /\ P \in Int /\ N \in Nat
    BY <2>1, <2>5, <2>7, <2>8, <2>13
  <2> HIDE DEF D, Z
  <2>15. D \in -N .. N
    BY <2>14
  <2> QED
    BY <2>15 DEF D, N, I
<1> QED
  BY <1>2, <1>3

\* The marks for the question of s.
MarksOf(s) == [st \in Students |-> Mark[<<st, s>>]]

LEMMA MarksInt == \A s \in Subjects : \A st \in Students : MarksOf(s)[st] \in Int
BY ScoresAssumption DEF MarksOf

LEMMA QuestionRowIs ==
  ASSUME NEW s, NEW U \in SUBSET Students
  PROVE  /\ QuestionRow(s, U).n = Cardinality(U)
         /\ U # {} => QuestionRow(s, U).avg = RoundDiv(100 * SumFunctionOnSet(MarksOf(s), U), Cardinality(U))
<1>1. IsFiniteSet(U)
  BY FS_Subset, ScoresAssumption
<1>2. Cardinality(U) = 0 <=> U = {}
  BY <1>1, FS_EmptySet
<1>3. CASE U = {}
  BY <1>2, <1>3 DEF QuestionRow, Row, SumOver, SumFunction
<1>4. CASE U # {}
  <2> DEFINE f == [st \in U |-> Mark[<<st, s>>]]
  <2>1. Cardinality(U) # 0
    BY <1>2, <1>4
  <2>2. QuestionRow(s, U).n = Cardinality(U)
    BY <2>1 DEF QuestionRow, Row, SumOver, SumFunction
  <2>3. QuestionRow(s, U).avg = RoundDiv(100 * SumFunctionOnSet(f, U), Cardinality(U))
    BY <2>1 DEF QuestionRow, Row, SumOver, SumFunction
  <2>4. \A st \in U : f[st] = MarksOf(s)[st]
    BY DEF MarksOf
  <2> HIDE DEF f
  <2>5. SumFunctionOnSet(f, U) = SumFunctionOnSet(MarksOf(s), U)
    BY <1>1, <2>4, SumEqual
  <2> QED
    BY <2>2, <2>3, <2>5
<1> QED
  BY <1>3, <1>4

\* The classes a question compares make up the grade, and their ranks are a ranking.
THEOREM CompareHolds == Spec => []CompareBalanced
<1>1. Told => CompareBalanced
  <2> SUFFICES ASSUME Told, NEW r \in Requests, Answered(r, "compare"), Quiet(r)
               PROVE  LET rep == GetSingleQuestionClassCompare(ask[r], seen[r]).report
                          C == DOMAIN rep.classes
                          total == rep.stats.n IN
                      /\ SumFunctionOnSet([c \in C |-> rep.classes[c].stats.n], C) = total
                      /\ SumFunctionOnSet([c \in C |-> rep.classes[c].stats.n * rep.classes[c].diff], C)
                           \in -total .. total
                      /\ {rep.classes[c].rank : c \in C} = 1 .. Cardinality(C)
                      /\ \A c, d \in C : rep.classes[c].rank < rep.classes[d].rank =>
                            rep.classes[c].diff >= rep.classes[d].diff
    BY DEF CompareBalanced, SumOver, SumFunction
  <2> DEFINE s == ask[r].subject
             T == AskedOf(seen[r].rows, s)
             rep == GetSingleQuestionClassCompare(ask[r], seen[r]).report
             C == DOMAIN rep.classes
             row == [c \in ClassesOf(T) |-> QuestionRow(s, InClass(T, c))]
             avg == QuestionRow(s, T).avg
             n == [c \in C |-> rep.classes[c].stats.n]
             d == [c \in C |-> rep.classes[c].stats.n * rep.classes[c].diff]
             rank == [c \in C |-> rep.classes[c].rank]
             p == MarksOf(s)
             InFront(c, e) == row[c].avg > row[e].avg \/ (row[c].avg = row[e].avg /\ c < e)
             R == {ce \in C \X C : InFront(ce[1], ce[2])}
  <2> SUFFICES /\ SumFunctionOnSet(n, C) = rep.stats.n
               /\ SumFunctionOnSet(d, C) \in -rep.stats.n .. rep.stats.n
               /\ {rep.classes[c].rank : c \in C} = 1 .. Cardinality(C)
               /\ \A c, e \in C : rep.classes[c].rank < rep.classes[e].rank =>
                     rep.classes[c].diff >= rep.classes[e].diff
    OBVIOUS
  <2>1. AskedOf(seen[r].breakdown, s) = T /\ s \in Subjects
    <3>1. /\ ask[r] \in Asks /\ ask[r].kind = "compare" /\ ToSet(QueriesOf(ask[r])) \subseteq DOMAIN seen[r]
          /\ \A q \in DOMAIN seen[r] : DOMAIN seen[r][q] = Reads("compare", q)
      BY Reading
    <3>2. QueriesOf(ask[r]) = <<"rows", "breakdown", "name">>
      BY <3>1 DEF QueriesOf, Queries, CompareQueries
    <3>3. {"rows", "breakdown"} \subseteq ToSet(<<"rows", "breakdown", "name">>)
      BY DEF ToSet
    <3>4. /\ {"rows", "breakdown"} \subseteq DOMAIN seen[r]
          /\ "asked" \in DOMAIN seen[r].rows \cap DOMAIN seen[r].breakdown
      BY <3>1, <3>2, <3>3, ReadsIs
    <3>5. seen[r].rows.asked = seen[r].breakdown.asked
      BY <3>4 DEF Quiet
    <3>6. s \in Subjects
      BY <3>1, ReportsAssumption DEF QuestionKinds
    <3> QED
      BY <3>5, <3>6 DEF AskedOf
  <2>2. /\ C = ClassesOf(T) /\ rep.stats = QuestionRow(s, T)
        /\ \A c \in C : /\ rep.classes[c].stats = row[c] /\ rep.classes[c].diff = row[c].avg - avg
                        /\ rep.classes[c].rank = 1 + Cardinality({e \in C : InFront(e, c)})
    BY <2>1 DEF GetSingleQuestionClassCompare, NamedReply, SingleQuestionClassCompare, QuestionRank
  <2>3. T \in SUBSET Students /\ IsFiniteSet(C) /\ C \subseteq Int /\ IsFiniteSet(T)
    <3>1. T \in SUBSET Students
      BY DEF AskedOf
    <3>2. IsFiniteSet(T)
      BY <3>1, FS_Subset, ScoresAssumption
    <3> HIDE DEF T, C
    <3> QED
      BY <2>2, <3>1, <3>2, ClassesFinite, ScoresAssumption
  <2>4. \A c \in C : row[c] = QuestionRow(s, InClass(T, c))
    BY <2>2
  <2>5. \A c \in C : /\ n[c] = row[c].n /\ rank[c] = rep.classes[c].rank
                     /\ d[c] = n[c] * (row[c].avg - avg) /\ rep.classes[c].diff = row[c].avg - avg
    BY <2>2
  <2> HIDE DEF rep, T, s, row, n, d, rank, C
  <2>6. \A c \in C : InClass(T, c) \in SUBSET Students /\ InClass(T, c) # {} /\ Cardinality(InClass(T, c)) \in Nat \ {0}
    BY <2>2, <2>3, ClassCount
  <2>7. \A c \in C : n[c] = Cardinality(InClass(T, c))
    BY <2>4, <2>5, <2>6, QuestionRowIs
  <2>8. \A c \in C : row[c].avg = RoundDiv(100 * SumFunctionOnSet(p, InClass(T, c)), n[c])
    BY <2>4, <2>6, <2>7, QuestionRowIs
  <2>9. rep.stats.n = Cardinality(T)
    BY <2>2, <2>3, QuestionRowIs
  <2>10. SumFunctionOnSet(n, C) = rep.stats.n
    BY <2>2, <2>3, <2>7, <2>9, ClassesAddUp
  <2>11. \A st \in Students : p[st] \in Int
    BY <2>1, MarksInt
  <2>12. \A c \in C : row[c].avg \in Int
    <3> SUFFICES ASSUME NEW c \in C PROVE row[c].avg \in Int
      OBVIOUS
    <3> DEFINE h == 100 * SumFunctionOnSet(p, InClass(T, c))
               m == Cardinality(InClass(T, c))
    <3>1. h \in Int
      <4>1. IsFiniteSet(InClass(T, c))
        BY <2>6, FS_Subset, ScoresAssumption
      <4>2. SumFunctionOnSet(p, InClass(T, c)) \in Int
        BY <2>6, <2>11, <4>1, SumInt
      <4> QED
        BY <4>2
    <3>2. m \in Nat \ {0} /\ row[c].avg = RoundDiv(h, m)
      BY <2>6, <2>7, <2>8
    <3> HIDE DEF h, m
    <3> QED
      BY <3>1, <3>2, RoundDivIs
  <2>13. SumFunctionOnSet(d, C) \in -rep.stats.n .. rep.stats.n
    <3> DEFINE a == [c \in C |-> row[c].avg]
    <3>1. ClassFigures(T, p, n, a)
      BY <2>2, <2>7, <2>8 DEF ClassFigures
    <3>2. \A c \in C : d[c] = n[c] * (a[c] - avg)
      BY <2>5
    <3>3. GradeAverage(T, p, avg)
      BY <2>3, QuestionRowIs DEF GradeAverage
    <3>4. \A st \in T : p[st] \in Int
      BY <2>3, <2>11
    <3> HIDE DEF a, p, avg
    <3>5. SumFunctionOnSet(d, ClassesOf(T)) \in -Cardinality(T) .. Cardinality(T)
      BY <2>2, <2>3, <3>1, <3>2, <3>3, <3>4, Balanced
    <3> QED
      BY <2>2, <2>9, <3>5
  <2>14. StrictOrder(R, C)
    <3>1. \A c, e \in C : <<c, e>> \in R <=> InFront(c, e)
      <4> HIDE DEF InFront
      <4> QED
        OBVIOUS
    <3>2. \A c \in C : c \in Int /\ row[c].avg \in Int
      BY <2>3, <2>12
    <3>3. \A c \in C : ~InFront(c, c)
      BY <3>2
    <3>4. \A c, e \in C : c # e => InFront(c, e) \/ InFront(e, c)
      BY <3>2
    <3>5. \A b, c, e \in C : InFront(b, c) /\ InFront(c, e) => InFront(b, e)
      BY <3>2
    <3> HIDE DEF R, InFront
    <3> QED
      BY <3>1, <3>3, <3>4, <3>5 DEF StrictOrder
  <2>15. \A c \in C : rank[c] = 1 + Cardinality(Before(R, C, c))
    <3> HIDE DEF InFront
    <3>1. \A c \in C : Before(R, C, c) = {e \in C : InFront(e, c)}
      BY DEF Before
    <3> HIDE DEF R
    <3> QED
      BY <2>2, <2>5, <3>1
  <2>16. /\ \A c, e \in C : <<c, e>> \in R => rank[c] < rank[e]
         /\ \A c \in C : rank[c] \in 1 .. Cardinality(C)
         /\ \A k \in 1 .. Cardinality(C) : \E c \in C : rank[c] = k
    <3> HIDE DEF R, InFront
    <3>1. IsFiniteSet(C)
      BY <2>3
    <3>2. StrictOrder(R, C)
      BY <2>14
    <3>3. \A c \in C : rank[c] = 1 + Cardinality(Before(R, C, c))
      BY <2>15
    <3> QED
      BY <3>1, <3>2, <3>3, OrderRanks
  <2>17. {rep.classes[c].rank : c \in C} = 1 .. Cardinality(C)
    BY <2>5, <2>16
  <2>18. \A c \in C : rank[c] \in Int
    BY <2>16
  <2>19. ASSUME NEW c \in C, NEW e \in C, rank[c] < rank[e]
         PROVE  rep.classes[c].diff >= rep.classes[e].diff
    <3>2. <<e, c>> \notin R
      BY <2>16, <2>18, <2>19
    <3>3. ~(row[e].avg > row[c].avg)
      BY <2>19, <3>2
    <3>4. avg \in Int
      <4>1. T # {}
        BY <2>2 DEF ClassesOf
      <4> DEFINE h == 100 * SumFunctionOnSet(p, T)
                 m == Cardinality(T)
      <4>2. h \in Int
        <5>1. SumFunctionOnSet(p, T) \in Int
          BY <2>3, <2>11, SumInt
        <5> QED
          BY <5>1
      <4>3. m \in Nat \ {0} /\ avg = RoundDiv(h, m)
        BY <2>3, <4>1, QuestionRowIs, CountIsNat, FS_EmptySet
      <4> HIDE DEF h, m, avg
      <4> QED
        BY <4>2, <4>3, RoundDivIs
    <3> HIDE DEF avg
    <3> QED
      BY <2>5, <2>12, <3>3, <3>4
  <2> QED
    BY <2>5, <2>10, <2>13, <2>17, <2>19
<1> QED
  BY <1>1, Telling, PTL

-----------------------------------------------------------------------------
(* Two reports on the same scores *)

\* A row is a record of all its figures.
LEMMA RowKept ==
  \A v, s, T : LET row == RowOf(v, s, T) IN
    /\ [row EXCEPT !.std = row.std] = row
    /\ [row EXCEPT !.n = row.n, !.std = row.std] = row
<1> SUFFICES ASSUME NEW v, NEW s, NEW T, NEW row, row = RowOf(v, s, T)
             PROVE  /\ [row EXCEPT !.std = row.std] = row
                    /\ [row EXCEPT !.n = row.n, !.std = row.std] = row
  BY Zenon
<1>1. \E n, avg, high, low, std :
        row = [n |-> n, avg |-> avg, high |-> high, low |-> low, std |-> std]
  <2>1. CASE Cardinality(T) = 0
    <3>1. row = [n |-> 0, avg |-> 0, high |-> 0, low |-> 0, std |-> 0]
      BY <2>1 DEF RowOf, Row, SumOver, SumFunction
    <3> QED
      BY <3>1
  <2>2. CASE Cardinality(T) # 0
    <3> DEFINE n == Cardinality(T)
               sum == SumOver(T, LAMBDA st : Points(v, s, st))
               squares == SumOver(T, LAMBDA st : Points(v, s, st) * Points(v, s, st))
               avg == RoundDiv(100 * sum, n)
               high == Max({Points(v, s, st) : st \in T})
               low == Min({Points(v, s, st) : st \in T})
               std == RoundSqrt(10000 * (n * squares - sum * sum), n * n)
    <3>1. row = [n |-> n, avg |-> avg, high |-> high, low |-> low, std |-> std]
      BY <2>2 DEF RowOf, Row, SumOver, SumFunction
    <3> HIDE DEF n, avg, high, low, std
    <3> QED
      BY <3>1
  <2> QED
    BY <2>1, <2>2
<1> QED
  BY <1>1

\* What is at most one and a half times as large as m is at most once as large.
LEMMA WithinOne ==
  ASSUME NEW k \in Int, NEW m \in Nat \ {0}, 2 * (k * m) <= 3 * m, -(3 * m) <= 2 * (k * m)
  PROVE  k \in -1 .. 1
<1>1. k * m \in Int /\ m \in Int
  OBVIOUS
<1>2. CASE k >= 2
  <2>1. 2 * m <= k * m
    BY <1>2, Product
  <2> DEFINE p == k * m
  <2> HIDE DEF p
  <2> QED
    BY <1>1, <2>1
<1>3. CASE k <= -2
  <2>1. k * m <= (-2) * m
    BY <1>3, Product
  <2>2. (-2) * m = -(2 * m)
    OBVIOUS
  <2> QED
    BY <1>1, <2>1, <2>2
<1> QED
  BY <1>2, <1>3

\* The rounded difference of two averages and the difference of the rounded ones.
LEMMA DifferencesAgree ==
  ASSUME NEW A \in Int, NEW B \in Int, NEW n \in Nat \ {0}, NEW N \in Nat \ {0}
  PROVE  RoundDiv(100 * (A * N - B * n), N * n) - (RoundDiv(100 * A, n) - RoundDiv(100 * B, N)) \in -1 .. 1
<1> DEFINE m == N * n
           x == 100 * (A * N - B * n)
           d == RoundDiv(x, m)
           a == RoundDiv(100 * A, n)
           b == RoundDiv(100 * B, N)
           k == d - (a - b)
<1>1. m \in Nat \ {0} /\ x \in Int /\ A * N \in Int /\ B * n \in Int /\ 100 * A \in Int /\ 100 * B \in Int
  OBVIOUS
<1>2. x = 100 * (A * N) - 100 * (B * n)
  OBVIOUS
<1>3. d \in Int /\ 2 * (d * m) <= 2 * x + m /\ 2 * x - m <= 2 * (d * m)
  <2> HIDE DEF m, x
  <2> QED
    BY <1>1, RoundDivIs
<1>4. a \in Int /\ 2 * (a * n) <= 200 * A + n /\ 200 * A - n <= 2 * (a * n)
  <2>1. a \in Int /\ 2 * (a * n) <= 2 * (100 * A) + n /\ 2 * (100 * A) - n <= 2 * (a * n)
    BY <1>1, RoundDivIs
  <2> HIDE DEF a
  <2> QED
    BY <2>1
<1>5. b \in Int /\ 2 * (b * N) <= 200 * B + N /\ 200 * B - N <= 2 * (b * N)
  <2>1. b \in Int /\ 2 * (b * N) <= 2 * (100 * B) + N /\ 2 * (100 * B) - N <= 2 * (b * N)
    BY <1>1, RoundDivIs
  <2> HIDE DEF b
  <2> QED
    BY <2>1
<1> HIDE DEF d, a, b
<1>6. a * m = (a * n) * N /\ a * n \in Int /\ b * m = (b * N) * n /\ b * N \in Int
  BY <1>4, <1>5
<1>7. 2 * (a * m) <= 200 * (A * N) + m /\ 200 * (A * N) - m <= 2 * (a * m)
  <2>1. (2 * (a * n)) * N <= (200 * A + n) * N /\ (200 * A - n) * N <= (2 * (a * n)) * N
    BY <1>4, <1>6, Product
  <2>2. (2 * (a * n)) * N = 2 * ((a * n) * N)
    BY <1>6
  <2>3. (200 * A + n) * N = 200 * (A * N) + n * N /\ (200 * A - n) * N = 200 * (A * N) - n * N
    OBVIOUS
  <2>4. n * N = m
    OBVIOUS
  <2> QED
    BY <1>6, <2>1, <2>2, <2>3, <2>4
<1>8. 2 * (b * m) <= 200 * (B * n) + m /\ 200 * (B * n) - m <= 2 * (b * m)
  <2>1. (2 * (b * N)) * n <= (200 * B + N) * n /\ (200 * B - N) * n <= (2 * (b * N)) * n
    BY <1>5, <1>6, Product
  <2>2. (2 * (b * N)) * n = 2 * ((b * N) * n)
    BY <1>6
  <2>3. (200 * B + N) * n = 200 * (B * n) + m /\ (200 * B - N) * n = 200 * (B * n) - m
    OBVIOUS
  <2> QED
    BY <1>6, <2>1, <2>2, <2>3
<1> HIDE DEF m, x
<1>9. k \in Int /\ k * m = d * m - a * m + b * m /\ d * m \in Int /\ a * m \in Int /\ b * m \in Int
  BY <1>1, <1>3, <1>4, <1>5
<1> HIDE DEF k
<1>10. 2 * (k * m) <= 3 * m /\ -(3 * m) <= 2 * (k * m)
  BY <1>1, <1>2, <1>3, <1>7, <1>8, <1>9
<1>11. k \in -1 .. 1
  BY <1>1, <1>9, <1>10, WithinOne
<1> QED
  BY <1>11 DEF k, d, a, b, x, m

\* An average rounded once, and rounded from a sum that is off by half a unit a head.
LEMMA AveragesAgree ==
  ASSUME NEW P \in Int, NEW W \in Int, NEW N \in Nat \ {0}, 2 * W <= 200 * P + N, 200 * P - N <= 2 * W
  PROVE  RoundDiv(100 * P, N) - RoundDiv(W, N) \in -1 .. 1
<1> DEFINE a == RoundDiv(100 * P, N)
           b == RoundDiv(W, N)
           k == a - b
<1>1. a \in Int /\ 2 * (a * N) <= 200 * P + N /\ 200 * P - N <= 2 * (a * N)
  <2>1. 100 * P \in Int
    OBVIOUS
  <2>2. a \in Int /\ 2 * (a * N) <= 2 * (100 * P) + N /\ 2 * (100 * P) - N <= 2 * (a * N)
    BY <2>1, RoundDivIs
  <2> HIDE DEF a
  <2> QED
    BY <2>2
<1>2. b \in Int /\ 2 * (b * N) <= 2 * W + N /\ 2 * W - N <= 2 * (b * N)
  BY RoundDivIs
<1> HIDE DEF a, b
<1>3. k \in Int /\ k * N = a * N - b * N /\ a * N \in Int /\ b * N \in Int
  BY <1>1, <1>2
<1> HIDE DEF k
<1>4. 2 * (k * N) <= 3 * N /\ -(3 * N) <= 2 * (k * N)
  BY <1>1, <1>2, <1>3
<1>5. k \in -1 .. 1
  BY <1>3, <1>4, WithinOne
<1> QED
  BY <1>5 DEF k, a, b

\* The queries of all reports have the result they have on v.
On(x, v) ==
  /\ {x.count, x.rows, x.classes, x.full, x.grade, x.overall,
      x.ranks, x.overallRanks, x.marks, x.breakdown, x.groups} = {v}
  /\ \A s \in Subjects : x[s] = v

LEMMA SubjectItemIs ==
  ASSUME NEW v, NEW x, On(x, v), NEW s \in SubjectsOf(v)
  PROVE  LET item == SubjectItem(x, s)
             T == Takers(v, s) IN
         /\ item.stats = RowOf(v, s, T)
         /\ item.difficulty = calculateDifficulty(RowOf(v, s, T).avg, 1, FullScore(v, s))
         /\ item.discrimination = calculateDiscrimination(v, s, T, FullScore(v, s))
<1> DEFINE T == Takers(v, s)
           row == RowOf(v, s, T)
<1>1. x.rows = v /\ x[s] = v /\ v.full[s] # None
  BY DEF On, SubjectsOf
<1>2. SubjectItem(x, s) =
        [stats |-> [row EXCEPT !.std = row.std],
         full |-> FullScore(v, s),
         difficulty |-> calculateDifficulty(row.avg, 1, FullScore(v, s)),
         discrimination |-> calculateDiscrimination(v, s, T, FullScore(v, s))]
  BY <1>1, Zenon DEF SubjectItem
<1>3. [row EXCEPT !.std = row.std] = row
  BY RowKept, Zenon
<1> HIDE DEF row, T
<1>4. SubjectItem(x, s) =
        [stats |-> row,
         full |-> FullScore(v, s),
         difficulty |-> calculateDifficulty(row.avg, 1, FullScore(v, s)),
         discrimination |-> calculateDiscrimination(v, s, T, FullScore(v, s))]
  BY <1>2, <1>3, Zenon
<1>5. /\ SubjectItem(x, s).stats = row
      /\ SubjectItem(x, s).difficulty = calculateDifficulty(row.avg, 1, FullScore(v, s))
      /\ SubjectItem(x, s).discrimination = calculateDiscrimination(v, s, T, FullScore(v, s))
  BY <1>4
<1> QED
  BY <1>5 DEF row, T

\* What the drill-down of class c says of s, and what the report on its classes does.
LEMMA DrillItemIs ==
  ASSUME NEW v, NEW s, NEW c
  PROVE  LET item == DrillItem(v, v, v, s, c)
             T == Takers(v, s)
             C == InClass(T, c) IN
         /\ item.stats = RowOf(v, s, C)
         /\ item.gradeAvg = RowOf(v, s, T).avg
         /\ item.discrimination = calculateDiscrimination(v, s, C, FullOf(v, s))
         /\ C # {} =>
              item.diff = RoundDiv(100 * (SumOver(C, LAMBDA st : Points(v, s, st)) * Cardinality(T)
                                          - SumOver(T, LAMBDA st : Points(v, s, st)) * RowOf(v, s, C).n),
                                   Cardinality(T) * RowOf(v, s, C).n)
<1> DEFINE T == Takers(v, s)
           C == InClass(T, c)
           row == RowOf(v, s, C)
           item == DrillItem(v, v, v, s, c)
<1>1. row.n = Cardinality(C)
  <2>1. C \in SUBSET Students
    BY TakersFinite, InClassOf
  <2> HIDE DEF C
  <2> QED
    BY <2>1, RowIs
<1>2. item.stats = [row EXCEPT !.n = IF s = All THEN Cardinality(C) ELSE row.n, !.std = row.std]
  BY Zenon DEF DrillItem
<1>3. (IF s = All THEN Cardinality(C) ELSE row.n) = row.n
  BY <1>1
<1>4. item.stats = [row EXCEPT !.n = row.n, !.std = row.std]
  BY <1>2, <1>3, Zenon
<1>5. [row EXCEPT !.n = row.n, !.std = row.std] = row
  BY RowKept, Zenon
<1>6. item.stats = row
  BY <1>4, <1>5, Zenon
<1>7. item.gradeAvg = RowOf(v, s, T).avg /\ item.discrimination = calculateDiscrimination(v, s, C, FullOf(v, s))
  BY Zenon DEF DrillItem
<1>8. C # {} =>
        item.diff = RoundDiv(100 * (SumOver(C, LAMBDA st : Points(v, s, st)) * Cardinality(T)
                                    - SumOver(T, LAMBDA st : Points(v, s, st)) * RowOf(v, s, C).n),
                             Cardinality(T) * RowOf(v, s, C).n)
  BY Zenon DEF DrillItem
<1> QED
  BY <1>6, <1>7, <1>8, Zenon

\* The averages of points, as the numbers they are rounded from.
LEMMA AverageIs ==
  ASSUME NEW v, TookView(v), NEW s, NEW U \in SUBSET Students, U # {}
  PROVE  LET p == [st \in Students |-> Points(v, s, st)]
             sum == SumFunctionOnSet(p, U) IN
         /\ sum \in Int /\ SumOver(U, LAMBDA st : Points(v, s, st)) = sum
         /\ Cardinality(U) \in Nat \ {0}
         /\ RowOf(v, s, U).avg = RoundDiv(100 * sum, Cardinality(U))
<1> DEFINE p == [st \in Students |-> Points(v, s, st)]
           f == [st \in U |-> Points(v, s, st)]
           sum == SumFunctionOnSet(p, U)
<1>1. IsFiniteSet(U) /\ Cardinality(U) \in Nat \ {0}
  BY FS_Subset, ScoresAssumption, FS_EmptySet, CountIsNat
<1>2. \A st \in U : p[st] \in Int /\ f[st] = p[st]
  BY PointsInt DEF TookView
<1>3. SumOver(U, LAMBDA st : Points(v, s, st)) = SumFunctionOnSet(f, U)
  BY DEF SumOver, SumFunction
<1>4. RowOf(v, s, U).avg = RoundDiv(100 * SumFunctionOnSet(f, U), Cardinality(U))
  BY <1>1 DEF RowOf, Row, SumOver, SumFunction
<1> HIDE DEF f, p
<1>5. SumFunctionOnSet(f, U) = sum /\ sum \in Int
  BY <1>1, <1>2, SumEqual, SumInt
<1>6. /\ sum \in Int /\ SumOver(U, LAMBDA st : Points(v, s, st)) = sum
      /\ RowOf(v, s, U).avg = RoundDiv(100 * sum, Cardinality(U))
  BY <1>3, <1>4, <1>5
<1> QED
  BY <1>1, <1>6 DEF sum, p

\* The summary of one subject's classes and the drill-down of one of them.
LEMMA DrillAgrees ==
  ASSUME NEW v, TookView(v), NEW s, NEW c \in ClassesOf(Takers(v, s))
  PROVE  LET T == Takers(v, s)
             C == InClass(T, c) IN
         DrillItem(v, v, v, s, c).diff - (RowOf(v, s, C).avg - RowOf(v, s, T).avg) \in -1 .. 1
<1> DEFINE T == Takers(v, s)
           C == InClass(T, c)
           p == [st \in Students |-> Points(v, s, st)]
           A == SumFunctionOnSet(p, C)
           B == SumFunctionOnSet(p, T)
           n == Cardinality(C)
           N == Cardinality(T)
<1>1. T \in SUBSET Students /\ C \in SUBSET Students /\ C # {} /\ T # {}
  BY TakersFinite, ClassCount DEF ClassesOf
<1>2. /\ A \in Int /\ SumOver(C, LAMBDA st : Points(v, s, st)) = A
      /\ n \in Nat \ {0} /\ RowOf(v, s, C).avg = RoundDiv(100 * A, n)
  <2> HIDE DEF C
  <2> QED
    BY <1>1, AverageIs
<1>3. /\ B \in Int /\ SumOver(T, LAMBDA st : Points(v, s, st)) = B
      /\ N \in Nat \ {0} /\ RowOf(v, s, T).avg = RoundDiv(100 * B, N)
  <2> HIDE DEF T
  <2> QED
    BY <1>1, AverageIs
<1>4. RowOf(v, s, C).n = n
  <2> HIDE DEF C
  <2> QED
    BY <1>1, RowIs
<1>5. DrillItem(v, v, v, s, c).diff
        = RoundDiv(100 * (SumOver(C, LAMBDA st : Points(v, s, st)) * N
                          - SumOver(T, LAMBDA st : Points(v, s, st)) * RowOf(v, s, C).n),
                   N * RowOf(v, s, C).n)
  BY <1>1, DrillItemIs, Zenon
<1>6. DrillItem(v, v, v, s, c).diff = RoundDiv(100 * (A * N - B * n), N * n)
  BY <1>2, <1>3, <1>4, <1>5, Zenon
<1> HIDE DEF A, B, n, N
<1>7. RoundDiv(100 * (A * N - B * n), N * n) - (RoundDiv(100 * A, n) - RoundDiv(100 * B, N)) \in -1 .. 1
  BY <1>2, <1>3, DifferencesAgree
<1> QED
  BY <1>2, <1>3, <1>6, <1>7

\* The sum a grade row averages.
AllPoints(row) == SumOver(DOMAIN row, LAMBDA c : row[c].avg * row[c].n)

\* It is off by half a unit a head at most.
LEMMA GradeSum ==
  ASSUME NEW v, TookView(v), NEW s, NEW T \in SUBSET Students
  PROVE  LET row == [c \in ClassesOf(T) |-> RowOf(v, s, InClass(T, c))]
             W == AllPoints(row)
             P == SumFunctionOnSet([st \in Students |-> Points(v, s, st)], T)
             N == Cardinality(T) IN
         /\ W \in Int /\ P \in Int /\ N \in Nat
         /\ 2 * W <= 200 * P + N /\ 200 * P - N <= 2 * W
<1> DEFINE I == ClassesOf(T)
           row == [c \in I |-> RowOf(v, s, InClass(T, c))]
           g == [c \in DOMAIN row |-> row[c].avg * row[c].n]
           p == [st \in Students |-> Points(v, s, st)]
           n == [c \in I |-> Cardinality(InClass(T, c))]
           S == [c \in I |-> SumFunctionOnSet(p, InClass(T, c))]
           a == [c \in I |-> row[c].avg]
           w == [c \in I |-> n[c] * a[c]]
           P == SumFunctionOnSet(p, T)
           N == Cardinality(T)
<1>1. IsFiniteSet(I) /\ IsFiniteSet(T) /\ N \in Nat
  BY ClassesFinite, InClassOf, CountIsNat
<1>2. \A st \in T : p[st] \in Int
  BY PointsInt DEF TookView
<1>3. AllPoints(row) = SumFunctionOnSet(g, I)
  BY DEF AllPoints, SumOver, SumFunction
<1>4. \A c \in I : /\ n[c] = Cardinality(InClass(T, c)) /\ n[c] \in Nat \ {0}
                   /\ S[c] = SumFunctionOnSet(p, InClass(T, c))
                   /\ a[c] = RoundDiv(100 * S[c], n[c]) /\ w[c] = n[c] * a[c] /\ g[c] = a[c] * n[c]
  <2> SUFFICES ASSUME NEW c \in I
               PROVE  /\ n[c] \in Nat \ {0} /\ a[c] = RoundDiv(100 * S[c], n[c]) /\ row[c].n = n[c]
    BY Zenon
  <2> DEFINE C == InClass(T, c)
  <2>1. C # {} /\ C \in SUBSET Students
    BY ClassCount
  <2>2. n[c] = Cardinality(C) /\ S[c] = SumFunctionOnSet(p, C) /\ row[c] = RowOf(v, s, C) /\ a[c] = row[c].avg
    OBVIOUS
  <2> HIDE DEF C, n, S, row, a
  <2>3. n[c] \in Nat \ {0} /\ RowOf(v, s, C).avg = RoundDiv(100 * SumFunctionOnSet(p, C), n[c])
    BY <2>1, <2>2, AverageIs
  <2> QED
    BY <2>1, <2>2, <2>3, RowIs
<1> HIDE DEF p, n, S, a, w, g, row
<1>5. SumFunctionOnSet(S, I) = P /\ P \in Int /\ \A c \in I : S[c] \in Int
  BY <1>2, <1>4, ClassSumsAddUp
<1>6. SumFunctionOnSet(n, I) = N
  BY <1>4, ClassesAddUp
<1> DEFINE W == SumFunctionOnSet(w, I)
<1>7. /\ \A c \in I : a[c] \in Int /\ w[c] \in Int
      /\ W \in Int /\ 2 * W <= 200 * P + N /\ 200 * P - N <= 2 * W
  <2>1. \A c \in I : n[c] \in Nat \ {0}
    BY <1>4
  <2>2. \A c \in I : a[c] = RoundDiv(100 * S[c], n[c])
    BY <1>4
  <2>3. \A c \in I : w[c] = n[c] * a[c]
    BY <1>4
  <2>4. \A c \in I : S[c] \in Int
    BY <1>5
  <2> HIDE DEF I, P, N, W
  <2>5. /\ \A c \in I : a[c] \in Int /\ w[c] \in Int
        /\ SumFunctionOnSet(w, I) \in Int
        /\ 2 * SumFunctionOnSet(w, I) <= 200 * SumFunctionOnSet(S, I) + SumFunctionOnSet(n, I)
        /\ 200 * SumFunctionOnSet(S, I) - SumFunctionOnSet(n, I) <= 2 * SumFunctionOnSet(w, I)
    BY <1>1, <2>1, <2>2, <2>3, <2>4, AveragesAddUp
  <2> QED
    BY <1>5, <1>6, <2>5 DEF W
<1>8. \A c \in I : g[c] = w[c]
  BY <1>4, <1>7
<1>9. SumFunctionOnSet(g, I) = W
  <2> HIDE DEF I
  <2> QED
    BY <1>1, <1>8, SumEqual
<1> QED
  BY <1>1, <1>3, <1>5, <1>7, <1>9 DEF p, row

\* The grade row of a class summary, when nobody is missing.
LEMMA GradeRowIs ==
  ASSUME NEW v, NEW x, x.rows = v, NEW s, Takers(x.count, s) = Takers(v, s)
  PROVE  LET T == Takers(v, s)
             row == [c \in ClassesOf(T) |-> RowOf(v, s, InClass(T, c))]
             all == ClassSummary(x, s) IN
         /\ all.grade.stats = GradeRow(row, Cardinality(T))
         /\ DOMAIN all.classes = ClassesOf(T)
         /\ \A c \in ClassesOf(T) : all.classes[c].stats = RowOf(v, s, InClass(T, c))
<1> DEFINE T == Takers(v, s)
           row == [c \in ClassesOf(T) |-> RowOf(v, s, InClass(T, c))]
           all == ClassSummary(x, s)
<1>1. all.grade.stats = GradeRow(row, Cardinality(T))
  BY Zenon DEF ClassSummary
<1>2. DOMAIN all.classes = DOMAIN row /\ \A c \in DOMAIN row : all.classes[c].stats = row[c]
  BY Zenon DEF ClassSummary
<1>3. DOMAIN row = ClassesOf(T) /\ \A c \in ClassesOf(T) : row[c] = RowOf(v, s, InClass(T, c))
  OBVIOUS
<1> QED
  BY <1>1, <1>2, <1>3, Zenon

LEMMA GradeAverageIs ==
  ASSUME NEW v, TookView(v), NEW s, NEW T \in SUBSET Students, T # {}
  PROVE  LET row == [c \in ClassesOf(T) |-> RowOf(v, s, InClass(T, c))] IN
         RowOf(v, s, T).avg - GradeRow(row, Cardinality(T)).avg \in -1 .. 1
<1> DEFINE row == [c \in ClassesOf(T) |-> RowOf(v, s, InClass(T, c))]
           W == AllPoints(row)
           p == [st \in Students |-> Points(v, s, st)]
           P == SumFunctionOnSet(p, T)
           N == Cardinality(T)
<1>1. W \in Int /\ P \in Int /\ N \in Nat /\ 2 * W <= 200 * P + N /\ 200 * P - N <= 2 * W
  BY GradeSum
<1>2. N \in Nat \ {0} /\ RowOf(v, s, T).avg = RoundDiv(100 * P, N)
  BY AverageIs
<1>3. AtLeast1(N) = N
  <2> HIDE DEF N
  <2> QED
    BY <1>2, MaxOfTwo
<1>4. GradeRow(row, N).avg = RoundDiv(W, AtLeast1(N))
  BY Zenon DEF GradeRow, AllPoints
<1> HIDE DEF row, W, P, N
<1>5. RoundDiv(100 * P, N) - RoundDiv(W, N) \in -1 .. 1
  BY <1>1, <1>2, AveragesAgree
<1>6. RowOf(v, s, T).avg - GradeRow(row, N).avg \in -1 .. 1
  BY <1>2, <1>3, <1>4, <1>5
<1> QED
  BY <1>6 DEF row, N

\* One subject: the summary of subjects, that of its classes, and the drill-down of one.
SubjectAgrees(x, s) ==
  LET subjects == SubjectSummary(x, All).subjects
      single == SingleClassSummary(x, s)
      subject == subjects[s] IN
  /\ subject.stats = single.grade.stats
  /\ subject.difficulty = single.grade.difficulty
  /\ subject.discrimination = single.grade.discrimination
  /\ SubjectSummary(x, s).subjects[s] = subject
  /\ \A c \in DOMAIN single.classes :
       LET drill == ClassSubjectSummary(x, c).subjects[s] IN
       /\ drill.stats = single.classes[c].stats
       /\ drill.gradeAvg = single.grade.stats.avg
       /\ drill.discrimination = single.classes[c].discrimination
       /\ drill.diff - single.classes[c].deviation \in -1 .. 1

LEMMA SubjectsAgree ==
  ASSUME NEW v, TookView(v), NEW x, On(x, v), NEW s \in SubjectsOf(v)
  PROVE  SubjectAgrees(x, s)
<1> DEFINE T == Takers(v, s)
           row == RowOf(v, s, T)
           full == FullScore(v, s)
           subject == SubjectItem(x, s)
           single == SingleClassSummary(x, s)
<1>1. /\ x.rows = v /\ x.full = v /\ x.grade = v /\ x.marks = v /\ x.ranks = v /\ x[s] = v
      /\ s \in Subjects /\ s # All
  BY ScoresAssumption DEF On, SubjectsOf
<1>2. FullOf(v, s) = full
  BY <1>1 DEF FullOf
<1>3. SubjectSummary(x, All).subjects[s] = subject /\ SubjectSummary(x, s).subjects[s] = subject
  <2>1. SubjectSummary(x, All).subjects = [t \in SubjectsOf(v) |-> SubjectItem(x, t)]
    BY <1>1, Zenon DEF SubjectSummary
  <2>2. SubjectSummary(x, s).subjects = [t \in {s} |-> SubjectItem(x, t)]
    BY <1>1, Zenon DEF SubjectSummary
  <2> QED
    BY <2>1, <2>2
<1>4. /\ subject.stats = row
      /\ subject.difficulty = calculateDifficulty(row.avg, 1, full)
      /\ subject.discrimination = calculateDiscrimination(v, s, T, full)
  BY SubjectItemIs, Zenon
<1>5. single.grade = [stats |-> row, full |-> full, deviation |-> 0,
                      difficulty |-> calculateDifficulty(row.avg, 1, full),
                      discrimination |-> calculateDiscrimination(v, s, T, full)]
  BY <1>1, <1>2, Zenon DEF SingleClassSummary
<1>6. /\ DOMAIN single.classes = ClassesOf(T)
      /\ \A c \in ClassesOf(T) :
           /\ single.classes[c].stats = RowOf(v, s, InClass(T, c))
           /\ single.classes[c].deviation = RowOf(v, s, InClass(T, c)).avg - row.avg
           /\ single.classes[c].discrimination = calculateDiscrimination(v, s, InClass(T, c), full)
  BY <1>1, <1>2 DEF SingleClassSummary
<1>7. ASSUME NEW c \in ClassesOf(T)
      PROVE  LET drill == ClassSubjectSummary(x, c).subjects[s] IN
             /\ drill.stats = single.classes[c].stats
             /\ drill.gradeAvg = row.avg
             /\ drill.discrimination = single.classes[c].discrimination
             /\ drill.diff - single.classes[c].deviation \in -1 .. 1
  <2> DEFINE drill == DrillItem(v, v, v, s, c)
  <2>1. ClassSubjectSummary(x, c).subjects[s] = drill
    BY <1>1, Zenon DEF ClassSubjectSummary
  <2>2. /\ drill.stats = RowOf(v, s, InClass(T, c)) /\ drill.gradeAvg = row.avg
        /\ drill.discrimination = calculateDiscrimination(v, s, InClass(T, c), full)
    BY <1>2, DrillItemIs, Zenon
  <2>3. drill.diff - (RowOf(v, s, InClass(T, c)).avg - row.avg) \in -1 .. 1
    BY <1>7, DrillAgrees
  <2> HIDE DEF drill, single, row, T, full
  <2> QED
    BY <1>6, <1>7, <2>1, <2>2, <2>3
<1> HIDE DEF subject, single, row, T, full
<1>8. single.grade.stats = row /\ single.grade.difficulty = calculateDifficulty(row.avg, 1, full)
      /\ single.grade.discrimination = calculateDiscrimination(v, s, T, full)
  BY <1>5
<1> QED
  BY <1>3, <1>4, <1>6, <1>7, <1>8 DEF SubjectAgrees, single

\* A question: its summary, the comparison of its classes and its figures in a class.
QuestionAgrees(x, s) ==
  LET summary == SingleQuestionSummary(x, s)
      compare == SingleQuestionClassCompare(x, s) IN
  /\ summary.stats = compare.stats /\ summary.rate = compare.rate
  /\ DOMAIN summary.classes = DOMAIN compare.classes
  /\ \A c \in DOMAIN compare.classes :
       /\ summary.classes[c] = compare.classes[c].stats
       /\ \A q \in SingleClassQuestions(x, s, c) :
            /\ q.avg = summary.classes[c].avg /\ q.gradeAvg = summary.stats.avg
            /\ q.rate = compare.classes[c].rate

LEMMA QuestionsAgree ==
  ASSUME NEW v, NEW x, On(x, v), NEW s
  PROVE  QuestionAgrees(x, s)
<1> DEFINE A == AskedOf(v, s)
           grade == QuestionRow(s, A)
           full == QuestionFull(s, A)
           I == ClassesOf(A)
           row(c) == QuestionRow(s, InClass(A, c))
           summary == SingleQuestionSummary(x, s)
           compare == SingleQuestionClassCompare(x, s)
<1>1. x.rows = v /\ x.breakdown = v /\ x.groups = v
  BY DEF On
<1>2. /\ summary.stats = grade /\ summary.rate = calculateDifficulty(grade.avg, 1, full)
      /\ summary.classes = [c \in I |-> row(c)]
  BY <1>1, Zenon DEF SingleQuestionSummary
<1>3. compare.stats = grade /\ compare.rate = calculateDifficulty(grade.avg, 1, full)
  BY <1>1, Zenon DEF SingleQuestionClassCompare
<1>4. /\ DOMAIN compare.classes = I
      /\ \A c \in I : /\ compare.classes[c].stats = row(c)
                      /\ compare.classes[c].rate = calculateDifficulty(row(c).avg, 1, full)
  BY <1>1 DEF SingleQuestionClassCompare
<1>5. \A c \in I : \A q \in SingleClassQuestions(x, s, c) :
        q.avg = row(c).avg /\ q.gradeAvg = grade.avg /\ q.rate = calculateDifficulty(row(c).avg, 1, full)
  BY <1>1 DEF SingleClassQuestions
<1> HIDE DEF A, grade, full, I, row, summary, compare
<1> QED
  BY <1>2, <1>3, <1>4, <1>5 DEF QuestionAgrees, summary, compare

\* The classes in all subjects: their summary and the drill-down of one.
ClassesAgree(x) ==
  \A c \in DOMAIN ClassSummary(x, All).classes :
    LET all == ClassSummary(x, All)
        drill == ClassSubjectSummary(x, c).overall IN
    /\ drill.stats = all.classes[c].stats
    /\ drill.gradeAvg - all.grade.stats.avg \in -1 .. 1

LEMMA AllClassesAgree ==
  ASSUME NEW v, TookView(v), NEW x, On(x, v)
  PROVE  ClassesAgree(x)
<1> SUFFICES ASSUME NEW c \in DOMAIN ClassSummary(x, All).classes
             PROVE  LET all == ClassSummary(x, All)
                        drill == ClassSubjectSummary(x, c).overall IN
                    /\ drill.stats = all.classes[c].stats
                    /\ drill.gradeAvg - all.grade.stats.avg \in -1 .. 1
  BY DEF ClassesAgree
<1> DEFINE T == Takers(v, All)
           row == [d \in ClassesOf(T) |-> RowOf(v, All, InClass(T, d))]
           all == ClassSummary(x, All)
           drill == DrillItem(v, v, v, All, c)
<1>1. x.rows = v /\ x.count = v /\ x.overall = v /\ x.overallRanks = v /\ x.marks = v
  BY DEF On
<1>2. /\ all.grade.stats = GradeRow(row, Cardinality(T)) /\ c \in ClassesOf(T)
      /\ all.classes[c].stats = RowOf(v, All, InClass(T, c))
  BY <1>1, GradeRowIs
<1>3. ClassSubjectSummary(x, c).overall = drill
  BY <1>1, Zenon DEF ClassSubjectSummary
<1>4. drill.stats = RowOf(v, All, InClass(T, c)) /\ drill.gradeAvg = RowOf(v, All, T).avg
  BY DrillItemIs, Zenon
<1>5. T \in SUBSET Students /\ T # {}
  BY <1>2, TakersFinite DEF ClassesOf
<1>6. RowOf(v, All, T).avg - GradeRow(row, Cardinality(T)).avg \in -1 .. 1
  BY <1>5, GradeAverageIs
<1> HIDE DEF T, row, all, drill
<1> QED
  BY <1>2, <1>3, <1>4, <1>6 DEF all

\* Reports on the same scores, each of which asks the database in a way of its own, do
\* not contradict each other.
THEOREM ReportsDoAgree == Spec => []ReportsAgree
<1>1. Told => ReportsAgree
  <2> DEFINE X(v) == [q \in Subjects \cup {"count", "rows", "classes", "full", "grade", "overall",
                        "ranks", "overallRanks", "marks", "breakdown", "groups"} |-> v]
             Agree(x) == /\ \A s \in DOMAIN SubjectSummary(x, All).subjects : SubjectAgrees(x, s)
                         /\ ClassesAgree(x)
                         /\ \A s \in Subjects : QuestionAgrees(x, s)
  <2>1. (\A e \in Exams : (\A r \in Requests : state[r] = "check") => Agree(X(ViewOf(e)))) => ReportsAgree
    BY Zenon DEF ReportsAgree, SubjectAgrees, ClassesAgree, QuestionAgrees
  <2>2. ASSUME Told, NEW e \in Exams PROVE Agree(X(ViewOf(e)))
    <3> DEFINE v == ViewOf(e)
               x == X(v)
    <3>1. TookView(v)
      <4>1. Found("took", v["took"])
        BY <2>2, ViewTyped DEF Told
      <4> QED
        BY <4>1 DEF Found, TookView, Scores
    <3>2. On(x, v)
      <4> HIDE DEF v
      <4> QED
        BY DEF On
    <3>3. SubjectSummary(x, All).subjects = [t \in SubjectsOf(v) |-> SubjectItem(x, t)]
      <4> HIDE DEF x, v
      <4> QED
        BY <3>2, Zenon DEF SubjectSummary, On
    <3> HIDE DEF x, v
    <3> QED
      BY <3>1, <3>2, <3>3, SubjectsAgree, AllClassesAgree, QuestionsAgree DEF x, v
  <2> QED
    BY <2>1, <2>2
<1> QED
  BY <1>1, Telling, PTL
-----------------------------------------------------------------------------
(* Deviations *)

LEMMA Square == \A a \in Int : a * a \in Nat
<1> SUFFICES ASSUME NEW a \in Int PROVE a * a \in Nat
  OBVIOUS
<1>1. CASE a >= 0
  BY <1>1
<1>2. CASE a < 0
  <2>1. a * a = (-a) * (-a) /\ -a \in Nat
    BY <1>2
  <2> QED
    BY <2>1
<1> QED
  BY <1>1, <1>2

\* The rounded root is there, and off by half a unit at most.
LEMMA RoundSqrtIs ==
  ASSUME NEW a \in Nat, NEW b \in Nat \ {0}
  PROVE  LET k == RoundSqrt(a, b) IN
         /\ k \in Nat
         /\ 4 * a < ((2 * k + 1) * (2 * k + 1)) * b
         /\ k = 0 \/ ((2 * k - 1) * (2 * k - 1)) * b <= 4 * a
<1> DEFINE Up(k) == 4 * a < (2 * k + 1) * (2 * k + 1) * b
           Low(k) == k = 0 \/ (2 * k - 1) * (2 * k - 1) * b <= 4 * a
           L == {k \in 0 .. a + 1 : Low(k)}
           t == Max(L)
<1>1. L \in SUBSET Int /\ L # {}
  OBVIOUS
<1>2. IsFiniteSet(L)
  <2>1. 0 \in Int /\ a + 1 \in Int
    OBVIOUS
  <2>2. IsFiniteSet(0 .. a + 1)
    BY <2>1, FS_Interval
  <2> QED
    BY <2>2, FS_Subset
<1>3. t \in L /\ \A k \in L : t >= k
  <2> HIDE DEF L
  <2> QED
    BY <1>1, <1>2, MaxMin
<1> HIDE DEF t
<1>4. Up(t)
  <2>1. t \in 0 .. a + 1 /\ t \in Nat
    BY <1>3
  <2>2. CASE t = a + 1
    <3>1. (2 * t + 1) * (2 * t + 1) >= 2 * t + 1
      BY <2>1
    <3> DEFINE m == (2 * t + 1) * (2 * t + 1)
    <3>2. m \in Nat /\ m >= 2 * t + 1
      BY <2>1, <3>1
    <3>3. m > 4 * a
      <4>1. m = 4 * (t * t) + 4 * t + 1 /\ t * t \in Nat
        BY <2>1
      <4> QED
        BY <2>2, <4>1
    <3> HIDE DEF m
    <3>4. m * b >= m
      BY <3>2
    <3>5. 4 * a < m * b
      <4>1. m * b \in Int
        BY <3>2
      <4> QED
        BY <3>2, <3>3, <3>4, <4>1
    <3> QED
      BY <3>5 DEF m
  <2>3. CASE t # a + 1
    <3>1. t + 1 \in 0 .. a + 1 /\ ~(t >= t + 1)
      BY <2>1, <2>3
    <3>2. t + 1 \notin L
      BY <1>3, <3>1
    <3>3. ~Low(t + 1)
      BY <3>1, <3>2
    <3>4. 2 * (t + 1) - 1 = 2 * t + 1 /\ t + 1 # 0
      BY <2>1
    <3> DEFINE m == (2 * t + 1) * (2 * t + 1) * b
    <3>5. ~(m <= 4 * a)
      BY <3>3, <3>4
    <3>6. m \in Int
      BY <2>1
    <3> HIDE DEF m
    <3>7. 4 * a < m
      BY <3>5, <3>6
    <3> QED
      BY <3>7 DEF m
  <2> QED
    BY <2>2, <2>3
<1>5. t \in 0 .. a + 1 /\ Low(t)
  BY <1>3
<1> HIDE DEF Up, Low
<1>6. \E k \in 0 .. a + 1 : Up(k) /\ Low(k)
  BY <1>4, <1>5
<1> DEFINE k == RoundSqrt(a, b)
<1>7. k = CHOOSE j \in 0 .. a + 1 : Up(j) /\ Low(j)
  BY Zenon DEF RoundSqrt, Up, Low
<1> HIDE DEF k
<1>8. k \in 0 .. a + 1 /\ Up(k) /\ Low(k)
  BY <1>6, <1>7, Zenon
<1> QED
  BY <1>8 DEF Up, Low, k

\* q are the squares of the numbers p of T.
Squares(q, p, T) == \A i \in T : p[i] \in Int /\ q[i] = p[i] * p[i]

\* The squares of numbers whose sum is S, less those of their mean, N at a time.
LEMMA MeanSquares ==
  ASSUME NEW T, IsFiniteSet(T), NEW p, NEW q, Squares(q, p, T)
  PROVE  LET N == Cardinality(T)
             S == SumFunctionOnSet(p, T)
             Q == SumFunctionOnSet(q, T) IN
         /\ N \in Nat /\ S \in Int /\ Q \in Int
         /\ N * Q - S * S \in Nat
<1> DEFINE N == Cardinality(T)
           S == SumFunctionOnSet(p, T)
           Q == SumFunctionOnSet(q, T)
           N2 == N * N
           NS == (-2) * (N * S)
           S2 == S * S
           one == [i \in T |-> 1]
           d == [i \in T |-> N2 * q[i] + NS * p[i] + S2 * one[i]]
           zero == [i \in T |-> 0 * one[i]]
           v == N * Q - S * S
<1>1. N \in Nat /\ S \in Int /\ Q \in Int /\ \A i \in T : p[i] \in Int /\ q[i] \in Int
  <2>1. \A i \in T : p[i] \in Int /\ q[i] \in Int
    BY DEF Squares
  <2> QED
    BY <2>1, CountIsNat, SumInt
<1> HIDE DEF N, S, Q
<1>2. N2 \in Int /\ NS \in Int /\ S2 \in Int
  BY <1>1
<1>3. \A i \in T : one[i] \in Int /\ one[i] = 1
  OBVIOUS
<1>4. /\ \A i \in T : d[i] = N2 * q[i] + NS * p[i] + S2 * one[i] /\ zero[i] = 0 * one[i]
      /\ Combines(d, N2, q, NS, p, S2, one, T)
  BY Zenon DEF Combines
<1> HIDE DEF one, d, zero
<1>5. SumFunctionOnSet(one, T) = N
  BY <1>3, SumCounts DEF N
<1>6. \A i \in T : d[i] \in Nat
  <2> SUFFICES ASSUME NEW i \in T PROVE d[i] \in Nat
    OBVIOUS
  <2> DEFINE a == p[i]
             b == N * a - S
  <2>1. a \in Int /\ q[i] = a * a
    BY DEF Squares
  <2> HIDE DEF a
  <2>2. b \in Int /\ b * b \in Nat
    BY <1>1, <2>1, Square
  <2>3. b * b = N2 * (a * a) + NS * a + S2
    BY <1>1, <2>1
  <2>4. d[i] = N2 * (a * a) + NS * a + S2
    BY <1>2, <1>3, <1>4, <2>1 DEF a
  <2> QED
    BY <2>2, <2>3, <2>4
<1>7. SumFunctionOnSet(d, T) = N2 * Q + NS * S + S2 * N
  <2> HIDE DEF N2, NS, S2, v
  <2>1. Ints(q, T) /\ Ints(p, T) /\ Ints(one, T)
    BY <1>1, <1>3 DEF Ints
  <2>2. SumFunctionOnSet(d, T) = N2 * SumFunctionOnSet(q, T) + NS * SumFunctionOnSet(p, T)
                                 + S2 * SumFunctionOnSet(one, T)
    BY <1>2, <1>4, <2>1, SumLinear
  <2> QED
    BY <1>5, <2>2 DEF S, Q
<1>8. SumFunctionOnSet(d, T) >= 0 /\ SumFunctionOnSet(d, T) \in Int
  <2>1. SumFunctionOnSet(zero, T) = 0 * N
    BY <1>3, <1>4, <1>5, SumTimes
  <2>2. SumFunctionOnSet(zero, T) <= SumFunctionOnSet(d, T)
    BY <1>3, <1>4, <1>6, SumMonotone
  <2>3. SumFunctionOnSet(d, T) \in Int
    BY <1>6, SumInt
  <2> QED
    BY <1>1, <2>1, <2>2, <2>3
<1>9. N2 * Q + NS * S + S2 * N = N * v
  BY <1>1
<1>10. v \in Int /\ N * v >= 0
  BY <1>1, <1>7, <1>8, <1>9
<1>11. v \in Nat
  <2>1. CASE N = 0
    <3>1. T = {}
      BY <2>1, FS_EmptySet DEF N
    <3>2. S = 0 /\ Q = 0
      BY <3>1, SumEmpty DEF S, Q
    <3> QED
      BY <2>1, <3>2
  <2>2. CASE N # 0
    <3> HIDE DEF v
    <3>1. N \in Nat \ {0}
      BY <1>1, <2>2
    <3>2. CASE v < 0
      <4>1. v * N <= (-1) * N
        BY <1>10, <3>1, <3>2, Product
      <4>2. v * N = N * v /\ N * v \in Int
        BY <1>10, <3>1
      <4> QED
        BY <1>10, <3>1, <4>1, <4>2
    <3> QED
      BY <1>10, <3>2
  <2> QED
    BY <2>1, <2>2
<1> QED
  BY <1>1, <1>11 DEF N, S, Q

\* The deviation y of a part, in hundredths, from the sum s of its n numbers and of their
\* squares q: about the mean S / N of the whole it is not smaller.
Spread(n, s, q, y) == (y * y) * (n * n) <= 40000 * (n * q - s * s)

AboutMean(N, S, n, s, q, y) ==
  (N * N) * (n * (y * y)) <= 40000 * ((N * N) * q + ((-2) * (N * S)) * s + (S * S) * n)

LEMMA SpreadAboutMean ==
  ASSUME NEW N \in Nat, NEW S \in Int, NEW n \in Nat \ {0}, NEW s \in Int, NEW q \in Int,
         NEW y \in Int, Spread(n, s, q, y)
  PROVE  AboutMean(N, S, n, s, q, y)
<1> DEFINE N2 == N * N
           y2 == y * y
           v == n * q - s * s
           R == N2 * q + ((-2) * (N * S)) * s + (S * S) * n
           L == N2 * (n * y2)
           d == N * s - S * n
<1>1. N2 \in Nat /\ y2 \in Nat /\ v \in Int /\ R \in Int /\ L \in Int /\ d \in Int
  BY Square
<1>2. d * d = N2 * (s * s) + ((-2) * (N * S)) * (s * n) + (S * S) * (n * n)
  OBVIOUS
<1>3. n * R = N2 * (n * q) + ((-2) * (N * S)) * (s * n) + (S * S) * (n * n)
  OBVIOUS
<1>4. N2 * v = N2 * (n * q) - N2 * (s * s)
  <2> DEFINE a == n * q
             b == s * s
  <2>1. a \in Int /\ b \in Int
    OBVIOUS
  <2> HIDE DEF a, b, N2
  <2>2. N2 * (a - b) = N2 * a - N2 * b
    BY <1>1, <2>1
  <2> QED
    BY <2>2 DEF a, b
<1>5. N2 * v <= n * R
  <2> DEFINE a == N2 * (n * q)
             b == N2 * (s * s)
             c == ((-2) * (N * S)) * (s * n)
             e == (S * S) * (n * n)
  <2>1. a \in Int /\ b \in Int /\ c \in Int /\ e \in Int /\ d * d \in Nat
    BY <1>1, Square
  <2>2. d * d = b + c + e /\ n * R = a + c + e /\ N2 * v = a - b
    BY <1>2, <1>3, <1>4
  <2> DEFINE f == d * d
             g == n * R
             h == N2 * v
  <2> HIDE DEF a, b, c, e, f, g, h
  <2>3. f = b + c + e /\ g = a + c + e /\ h = a - b /\ f \in Nat
    BY <2>1, <2>2 DEF f, g, h
  <2>4. h <= g
    BY <2>1, <2>3
  <2> QED
    BY <2>4 DEF g, h
<1>6. n * L = N2 * (y2 * (n * n))
  <2> HIDE DEF N2, y2
  <2> QED
    BY <1>1
<1>7. N2 * (y2 * (n * n)) <= N2 * (40000 * v)
  <2>1. y2 * (n * n) <= 40000 * v
    BY DEF Spread
  <2> DEFINE a == y2 * (n * n)
             b == 40000 * v
  <2>2. a \in Int /\ b \in Int
    BY <1>1
  <2> HIDE DEF a, b, N2
  <2>3. a * N2 <= b * N2
    BY <1>1, <2>1, <2>2, Product DEF a, b
  <2>4. a * N2 = N2 * a /\ b * N2 = N2 * b
    BY <1>1, <2>2
  <2> QED
    BY <2>3, <2>4 DEF a, b
<1>8. n * L <= n * (40000 * R)
  <2> HIDE DEF N2, v, R, L
  <2>1. N2 * (40000 * v) = 40000 * (N2 * v) /\ n * (40000 * R) = 40000 * (n * R)
    BY <1>1
  <2> DEFINE a == N2 * v
             b == n * R
             c == n * L
  <2>2. a \in Int /\ b \in Int /\ c \in Int
    BY <1>1
  <2>3. c <= 40000 * a /\ a <= b
    BY <1>5, <1>6, <1>7, <2>1
  <2> HIDE DEF a, b, c
  <2>4. c <= 40000 * b
    BY <2>2, <2>3
  <2> QED
    BY <2>1, <2>4 DEF b, c
<1>9. L <= 40000 * R
  <2> DEFINE z == 40000 * R
  <2>1. z \in Int /\ n * L <= n * z
    BY <1>1, <1>8
  <2> HIDE DEF L, z, R
  <2>2. CASE L >= z + 1
    <3>1. (z + 1) * n <= L * n /\ (z + 1) * n = z * n + n
      BY <1>1, <2>1, <2>2, Product
    <3>2. L * n = n * L /\ z * n = n * z /\ n * L \in Int /\ n * z \in Int
      BY <1>1, <2>1
    <3> QED
      BY <2>1, <3>1, <3>2
  <2>3. L <= z
    BY <1>1, <2>1, <2>2
  <2> QED
    BY <2>3 DEF z
<1> QED
  BY <1>9 DEF AboutMean

\* Parts of sizes n with the sums s, those of squares q and the deviations y.
Parts(I, n, s, q, y) ==
  \A i \in I : /\ n[i] \in Nat \ {0} /\ s[i] \in Int /\ q[i] \in Int /\ y[i] \in Int
               /\ Spread(n[i], s[i], q[i], y[i])

\* w are the squares of the numbers y, each of them n times.
Weighted(w, n, y, I) == \A i \in I : w[i] = n[i] * (y[i] * y[i])

\* The spread within the parts is not larger than that of the whole.
LEMMA SpreadsAddUp ==
  ASSUME NEW I, IsFiniteSet(I), NEW n, NEW s, NEW q, NEW y, Parts(I, n, s, q, y),
         NEW w, Weighted(w, n, y, I),
         NEW N \in Nat, N = SumFunctionOnSet(n, I),
         NEW S, S = SumFunctionOnSet(s, I), NEW Q, Q = SumFunctionOnSet(q, I)
  PROVE  LET Y == SumFunctionOnSet(w, I) IN
         /\ Y \in Int /\ S \in Int /\ Q \in Int
         /\ (N * N) * Y <= 40000 * (N * (N * Q - S * S))
<1> DEFINE Y == SumFunctionOnSet(w, I)
           N2 == N * N
           NS == (-2) * (N * S)
           S2 == S * S
           l == [i \in I |-> N2 * w[i]]
           d == [i \in I |-> N2 * q[i] + NS * s[i] + S2 * n[i]]
           u == [i \in I |-> 40000 * d[i]]
<1>1. S \in Int /\ Q \in Int /\ \A i \in I : n[i] \in Int /\ s[i] \in Int /\ q[i] \in Int
  <2>1. \A i \in I : n[i] \in Int /\ s[i] \in Int /\ q[i] \in Int
    BY DEF Parts
  <2> QED
    BY <2>1, SumInt
<1>2. N2 \in Int /\ NS \in Int /\ S2 \in Int
  BY <1>1
<1>3. /\ \A i \in I : l[i] = N2 * w[i]
      /\ \A i \in I : d[i] = N2 * q[i] + NS * s[i] + S2 * n[i]
      /\ \A i \in I : u[i] = 40000 * d[i]
  <2> HIDE DEF N2, NS, S2
  <2>1. \A i \in I : d[i] = N2 * q[i] + NS * s[i] + S2 * n[i]
    BY Zenon
  <2>2. \A i \in I : l[i] = N2 * w[i]
    BY Zenon
  <2> HIDE DEF d
  <2>3. \A i \in I : u[i] = 40000 * d[i]
    OBVIOUS
  <2> QED
    BY <2>1, <2>2, <2>3
<1> HIDE DEF l, d, u
<1>4. \A i \in I : w[i] \in Int
  <2> SUFFICES ASSUME NEW i \in I PROVE w[i] \in Int
    OBVIOUS
  <2> DEFINE a == n[i]
             b == y[i]
  <2>1. a \in Int /\ b \in Int /\ w[i] = a * (b * b)
    BY DEF Parts, Weighted
  <2> HIDE DEF a, b
  <2>2. a * (b * b) \in Int
    BY <2>1
  <2> QED
    BY <2>1, <2>2
<1>5. \A i \in I : l[i] <= u[i]
  <2> SUFFICES ASSUME NEW i \in I PROVE l[i] <= u[i]
    OBVIOUS
  <2> DEFINE a == n[i]
             b == s[i]
             c == q[i]
             e == y[i]
  <2>1. a \in Nat \ {0} /\ b \in Int /\ c \in Int /\ e \in Int /\ Spread(a, b, c, e) /\ w[i] = a * (e * e)
    BY DEF Parts, Weighted
  <2>2. l[i] = N2 * w[i] /\ u[i] = 40000 * d[i] /\ d[i] = N2 * c + NS * b + S2 * a
    BY <1>3
  <2> HIDE DEF a, b, c, e
  <2>3. N2 * (a * (e * e)) <= 40000 * (N2 * c + NS * b + S2 * a)
    <3>1. AboutMean(N, S, a, b, c, e)
      BY <1>1, <2>1, SpreadAboutMean
    <3> QED
      BY <3>1 DEF AboutMean
  <2> HIDE DEF N2, NS, S2
  <2>4. l[i] = N2 * (a * (e * e)) /\ u[i] = 40000 * (N2 * c + NS * b + S2 * a)
    BY <2>1, <2>2
  <2> QED
    BY <2>3, <2>4
<1> HIDE DEF N2, NS, S2, Y
<1>6. Y \in Int /\ SumFunctionOnSet(l, I) = N2 * Y /\ \A i \in I : l[i] \in Int
  <2>1. \A i \in I : w[i] \in Int
    BY <1>4
  <2>2. \A i \in I : l[i] = N2 * w[i]
    BY <1>3
  <2>3. \A i \in I : l[i] \in Int
    BY <1>2, <2>1, <2>2
  <2> QED
    BY <1>2, <2>1, <2>2, <2>3, SumTimes, SumInt DEF Y
<1>7. SumFunctionOnSet(d, I) = N2 * Q + NS * S + S2 * N /\ \A i \in I : d[i] \in Int
  <2>1. Ints(q, I) /\ Ints(s, I) /\ Ints(n, I)
    BY <1>1 DEF Ints
  <2>2. Combines(d, N2, q, NS, s, S2, n, I)
    BY <1>3 DEF Combines
  <2>3. /\ Ints(d, I)
        /\ SumFunctionOnSet(d, I) = N2 * SumFunctionOnSet(q, I) + NS * SumFunctionOnSet(s, I)
                                    + S2 * SumFunctionOnSet(n, I)
    BY <1>2, <2>1, <2>2, SumLinear
  <2> QED
    BY <2>3 DEF Ints
<1>8. SumFunctionOnSet(u, I) = 40000 * SumFunctionOnSet(d, I) /\ \A i \in I : u[i] \in Int
  <2>1. \A i \in I : d[i] \in Int /\ u[i] = 40000 * d[i]
    BY <1>3, <1>7
  <2> QED
    BY <2>1, SumTimes
<1>9. SumFunctionOnSet(l, I) <= SumFunctionOnSet(u, I)
  BY <1>5, <1>6, <1>8, SumMonotone
<1>10. N2 * Q + NS * S + S2 * N = N * (N * Q - S * S)
  BY <1>1 DEF N2, NS, S2
<1>11. N2 * Y <= 40000 * (N * (N * Q - S * S))
  <2>1. N2 * Y <= 40000 * SumFunctionOnSet(d, I)
    BY <1>6, <1>8, <1>9
  <2> QED
    BY <1>7, <1>10, <2>1
<1> QED
  BY <1>1, <1>6, <1>11 DEF Y, N2

LEMMA Cancel ==
  ASSUME NEW a \in Int, NEW b \in Int, NEW c \in Nat \ {0}
  PROVE  /\ c * a <= c * b => a <= b
         /\ c * a < c * b => a < b
<1>1. c * a = a * c /\ c * b = b * c /\ a * c \in Int /\ b * c \in Int
  OBVIOUS
<1>2. a >= b + 1 => a * c >= b * c + c
  <2> SUFFICES ASSUME a >= b + 1 PROVE a * c >= b * c + c
    OBVIOUS
  <2>1. (b + 1) * c <= a * c /\ (b + 1) * c = b * c + c
    BY Product
  <2> QED
    BY <2>1
<1>3. a >= b => a * c >= b * c
  BY Product
<1> QED
  BY <1>1, <1>2, <1>3

\* The deviation is less than k and a half.
Rounded(k, N, S, Q) == 40000 * (N * Q - S * S) < ((2 * k + 1) * (2 * k + 1)) * (N * N)

\* Whatever each y is rounded from is less than y + 1: so the deviation within the parts, 2k + 1
\* half units when it is rounded down from k, is less than 2k + 2 half units put together.
LEMMA RootsAddUp ==
  ASSUME NEW I, IsFiniteSet(I), NEW n, NEW s, NEW q, NEW y, Parts(I, n, s, q, y),
         NEW up, \A i \in I : up[i] = y[i] + 1, NEW z, Weighted(z, n, up, I),
         NEW N \in Nat \ {0}, N = SumFunctionOnSet(n, I),
         NEW S, S = SumFunctionOnSet(s, I), NEW Q, Q = SumFunctionOnSet(q, I),
         NEW k \in Nat, Rounded(k, N, S, Q)
  PROVE  /\ SumFunctionOnSet(z, I) \in Int /\ \A i \in I : z[i] \in Int
         /\ SumFunctionOnSet(z, I) < ((2 * k + 2) * (2 * k + 2)) * N
<1> DEFINE m == 2 * k + 1
           w == [i \in I |-> n[i] * (y[i] * y[i])]
           Y == SumFunctionOnSet(w, I)
           Z == SumFunctionOnSet(z, I)
           V == N * Q - S * S
           a == m + 1
           b == m * (m + 1)
           d == [i \in I |-> a * w[i] + b * n[i] + 0 * n[i]]
           mz == [i \in I |-> m * z[i]]
<1>1. m \in Nat \ {0} /\ a \in Nat \ {0} /\ b \in Nat
  OBVIOUS
<1>2. Weighted(w, n, y, I)
  BY DEF Weighted
<1> HIDE DEF w
<1>3. Y \in Int /\ S \in Int /\ Q \in Int /\ (N * N) * Y <= 40000 * (N * (N * Q - S * S))
  <2>1. N \in Nat
    OBVIOUS
  <2> QED
    BY <1>2, <2>1, SpreadsAddUp
<1>4. \A i \in I : n[i] \in Nat \ {0} /\ y[i] \in Int
  BY DEF Parts
<1> HIDE DEF Y, Z, m
<1>5. Y < (m * m) * N
  <2>1. V \in Int /\ N * Y \in Int /\ m * m \in Int /\ (m * m) * N \in Int
    BY <1>1, <1>3
  <2>2. (N * N) * Y = N * (N * Y) /\ 40000 * (N * V) = N * (40000 * V)
    BY <1>3, <2>1
  <2>3. 40000 * V < (m * m) * (N * N)
    BY DEF m, Rounded
  <2> DEFINE l == N * Y
             r == 40000 * V
  <2>4. l \in Int /\ r \in Int /\ N * l <= N * r
    BY <1>3, <2>1, <2>2
  <2> HIDE DEF l, r
  <2>5. l <= r
    BY <2>4, Cancel
  <2> DEFINE t == (m * m) * N
  <2>6. (m * m) * (N * N) = N * t
    BY <2>1
  <2>7. N * Y < N * t /\ t \in Int
    <3> DEFINE o == N * t
    <3>1. o \in Int /\ r < o
      BY <2>1, <2>3, <2>6 DEF r
    <3> HIDE DEF o, t
    <3>2. l < o
      BY <2>4, <2>5, <3>1
    <3> QED
      BY <2>1, <3>2 DEF l, o, t
  <2> HIDE DEF t
  <2>8. Y < t
    BY <1>3, <2>7, Cancel
  <2> QED
    BY <2>8 DEF t
<1>6. /\ \A i \in I : w[i] \in Int /\ z[i] \in Int
      /\ \A i \in I : m * z[i] <= a * w[i] + b * n[i]
  <2> SUFFICES ASSUME NEW i \in I
               PROVE  w[i] \in Int /\ z[i] \in Int /\ m * z[i] <= a * w[i] + b * n[i]
    OBVIOUS
  <2> DEFINE e == y[i]
             c == n[i]
  <2>1. e \in Int /\ c \in Nat \ {0} /\ up[i] = e + 1
    BY <1>4
  <2>2. w[i] = c * (e * e) /\ z[i] = c * ((e + 1) * (e + 1))
    BY <1>2, <2>1 DEF Weighted
  <2> HIDE DEF e, c
  <2>3. c * (e * e) \in Int /\ c * ((e + 1) * (e + 1)) \in Int
    BY <2>1
  <2>4. m * ((e + 1) * (e + 1)) <= a * (e * e) + b
    <3>1. (e - m) * (e - m) \in Nat
      BY <1>1, <2>1, Square
    <3>2. a * (e * e) + b - m * ((e + 1) * (e + 1)) = (e - m) * (e - m)
      BY <1>1, <2>1
    <3> DEFINE l == m * ((e + 1) * (e + 1))
               r == a * (e * e) + b
               f == (e - m) * (e - m)
    <3>3. l \in Int /\ r \in Int /\ f \in Nat /\ r - l = f
      BY <1>1, <2>1, <3>1, <3>2
    <3> HIDE DEF l, r, f
    <3>4. l <= r
      BY <3>3
    <3> QED
      BY <3>4 DEF l, r
  <2>5. m * (c * ((e + 1) * (e + 1))) <= a * (c * (e * e)) + b * c
    <3> DEFINE l == m * ((e + 1) * (e + 1))
               r == a * (e * e) + b
    <3>1. l \in Int /\ r \in Int /\ l <= r
      BY <1>1, <2>1, <2>4
    <3>2. l * c = m * (c * ((e + 1) * (e + 1)))
      BY <1>1, <2>1
    <3>3. r * c = a * (c * (e * e)) + b * c
      <4> HIDE DEF a, b
      <4> QED
        BY <1>1, <2>1
    <3> HIDE DEF l, r
    <3>4. l * c <= r * c
      BY <2>1, <3>1, Product
    <3> QED
      BY <3>2, <3>3, <3>4
  <2> QED
    BY <2>2, <2>3, <2>5 DEF c
<1> HIDE DEF a, b, V
<1>7. Z \in Int /\ m * Z <= a * Y + b * N
  <2>1. /\ \A i \in I : d[i] = a * w[i] + b * n[i] + 0 * n[i]
        /\ \A i \in I : mz[i] = m * z[i]
    <3>1. \A i \in I : d[i] = a * w[i] + b * n[i] + 0 * n[i]
      OBVIOUS
    <3>2. \A i \in I : mz[i] = m * z[i]
      OBVIOUS
    <3> QED
      BY <3>1, <3>2
  <2>2. Combines(d, a, w, b, n, 0, n, I)
    BY <2>1 DEF Combines
  <2> HIDE DEF d, mz
  <2>3. Ints(w, I) /\ Ints(n, I)
    BY <1>4, <1>6 DEF Ints
  <2>4. Ints(d, I) /\ SumFunctionOnSet(d, I) = a * SumFunctionOnSet(w, I) + b * SumFunctionOnSet(n, I)
                                               + 0 * SumFunctionOnSet(n, I)
    BY <1>1, <2>2, <2>3, SumLinear
  <2>5. SumFunctionOnSet(d, I) = a * Y + b * N
    <3>1. SumFunctionOnSet(d, I) = a * Y + b * N + 0 * N
      BY <2>4 DEF Y
    <3>2. a * Y \in Int /\ b * N \in Int
      BY <1>1, <1>3
    <3> QED
      BY <3>1, <3>2
  <2>6. Z \in Int /\ SumFunctionOnSet(mz, I) = m * Z
    <3>1. \A i \in I : z[i] \in Int
      BY <1>6
    <3> QED
      BY <1>1, <2>1, <3>1, SumTimes, SumInt DEF Z
  <2>7. \A i \in I : mz[i] \in Int /\ d[i] \in Int /\ mz[i] <= d[i]
    <3> SUFFICES ASSUME NEW i \in I PROVE mz[i] \in Int /\ d[i] \in Int /\ mz[i] <= d[i]
      OBVIOUS
    <3>1. w[i] \in Int /\ z[i] \in Int /\ n[i] \in Int /\ m * z[i] <= a * w[i] + b * n[i]
      BY <1>4, <1>6
    <3>2. mz[i] = m * z[i] /\ d[i] = a * w[i] + b * n[i]
      BY <1>1, <2>1, <3>1
    <3> QED
      BY <1>1, <3>1, <3>2
  <2>8. SumFunctionOnSet(mz, I) <= SumFunctionOnSet(d, I)
    BY <2>7, SumMonotone
  <2> QED
    BY <2>5, <2>6, <2>8
<1>8. Z < (a * a) * N
  <2> DEFINE t == (m * m) * N
             r == (a * a) * N
  <2>1. t \in Int /\ r \in Int /\ Y < t
    BY <1>1, <1>5
  <2>2. a * t + b * N = m * r
    BY <1>1 DEF a, b
  <2>3. a * Y < a * t
    <3> HIDE DEF t
    <3>1. Y + 1 <= t
      BY <1>3, <2>1
    <3>2. (Y + 1) * a <= t * a /\ (Y + 1) * a = Y * a + a
      BY <1>1, <1>3, <2>1, <3>1, Product
    <3>3. Y * a = a * Y /\ t * a = a * t /\ a * Y \in Int /\ a * t \in Int
      BY <1>1, <1>3, <2>1
    <3> QED
      BY <1>1, <3>2, <3>3
  <2>4. m * Z < m * r
    <3> HIDE DEF t, r
    <3>1. a * Y \in Int /\ a * t \in Int /\ b * N \in Int /\ m * Z \in Int
      BY <1>1, <1>3, <1>7, <2>1
    <3> QED
      BY <1>7, <2>2, <2>3, <3>1
  <2> HIDE DEF r
  <2>5. Z < r
    BY <1>1, <1>7, <2>1, <2>4, Cancel
  <2> QED
    BY <2>5 DEF r
<1>9. a = 2 * k + 2
  BY DEF a, m
<1> QED
  BY <1>6, <1>7, <1>8, <1>9 DEF Z


\* x is the deviation of n numbers with the sum S, whose squares have the sum Q.
IsDeviation(x, n, S, Q) ==
  /\ n \in Nat \ {0} /\ S \in Int /\ Q \in Int /\ n * Q - S * S \in Nat
  /\ x = RoundSqrt(10000 * (n * Q - S * S), n * n)

\* The squares of the points of students.
SquaresOf(v, s) == [st \in Students |-> Points(v, s, st) * Points(v, s, st)]

LEMMA DeviationIs ==
  ASSUME NEW v, TookView(v), NEW s, NEW U \in SUBSET Students, U # {}
  PROVE  LET p == [st \in Students |-> Points(v, s, st)]
             n == Cardinality(U)
             S == SumFunctionOnSet(p, U)
             Q == SumFunctionOnSet(SquaresOf(v, s), U) IN
         IsDeviation(RowOf(v, s, U).std, n, S, Q)
<1> DEFINE p == [st \in Students |-> Points(v, s, st)]
           q == SquaresOf(v, s)
           f == [st \in U |-> Points(v, s, st)]
           g == [st \in U |-> Points(v, s, st) * Points(v, s, st)]
           n == Cardinality(U)
           S == SumFunctionOnSet(p, U)
           Q == SumFunctionOnSet(q, U)
<1>1. IsFiniteSet(U) /\ n \in Nat \ {0}
  BY FS_Subset, ScoresAssumption, FS_EmptySet, CountIsNat
<1>2. \A st \in U : /\ p[st] \in Int /\ f[st] = p[st]
                    /\ q[st] = p[st] * p[st] /\ g[st] = q[st]
  BY PointsInt DEF TookView, SquaresOf
<1>3. RowOf(v, s, U).std
        = RoundSqrt(10000 * (n * SumFunctionOnSet(g, U) - SumFunctionOnSet(f, U) * SumFunctionOnSet(f, U)), n * n)
  BY <1>1 DEF RowOf, Row, SumOver, SumFunction
<1> HIDE DEF f, g, p, q
<1>4. \A st \in U : q[st] \in Int
  BY <1>2
<1>5. SumFunctionOnSet(f, U) = S
  BY <1>1, <1>2, SumEqual
<1>6. SumFunctionOnSet(g, U) = Q
  BY <1>1, <1>2, <1>4, SumEqual
<1>7. S \in Int /\ Q \in Int /\ n * Q - S * S \in Nat
  <2>1. Squares(q, p, U)
    BY <1>2 DEF Squares
  <2> QED
    BY <1>1, <2>1, MeanSquares
<1>8. RowOf(v, s, U).std = RoundSqrt(10000 * (n * Q - S * S), n * n)
  BY <1>3, <1>5, <1>6
<1>9. IsDeviation(RowOf(v, s, U).std, n, S, Q)
  BY <1>1, <1>7, <1>8 DEF IsDeviation
<1> QED
  BY <1>9 DEF n, S, Q, p, q

\* A deviation x is rounded from one of y half units at least, and of less than y + 2.
Halves(x) == IF x = 0 THEN 0 ELSE 2 * x - 1

LEMMA DeviationFrom ==
  ASSUME NEW x, NEW n, NEW S, NEW Q, IsDeviation(x, n, S, Q)
  PROVE  x \in Nat /\ Halves(x) \in Int /\ Spread(n, S, Q, Halves(x)) /\ Rounded(x, n, S, Q)
<1> DEFINE V == n * Q - S * S
           a == 10000 * V
           b == n * n
           y == Halves(x)
<1>1. a \in Nat /\ b \in Nat \ {0} /\ 4 * a = 40000 * V /\ V \in Nat
  <2>1. b \in Nat \ {0}
    BY DEF IsDeviation
  <2> HIDE DEF V
  <2>2. V \in Nat
    BY DEF V, IsDeviation
  <2> QED
    BY <2>1, <2>2
<1>2. x = RoundSqrt(a, b)
  BY DEF IsDeviation
<1> HIDE DEF a, b, V
<1>3. /\ x \in Nat
      /\ 4 * a < ((2 * x + 1) * (2 * x + 1)) * b
      /\ x = 0 \/ ((2 * x - 1) * (2 * x - 1)) * b <= 4 * a
  BY <1>1, <1>2, RoundSqrtIs
<1>4. y \in Int
  BY <1>3 DEF Halves
<1>5. (y * y) * b <= 4 * a
  <2>1. CASE x = 0
    <3>1. y = 0
      BY <2>1 DEF Halves
    <3>2. (y * y) * b = 0
      BY <1>1, <3>1
    <3> QED
      BY <1>1, <3>2
  <2>2. CASE x # 0
    <3>1. y = 2 * x - 1
      BY <2>2 DEF Halves
    <3> QED
      BY <1>3, <2>2, <3>1
  <2> QED
    BY <2>1, <2>2
<1> HIDE DEF y
<1>6. (y * y) * b <= 40000 * V
  BY <1>1, <1>5
<1>7. 40000 * V < ((2 * x + 1) * (2 * x + 1)) * b
  BY <1>1, <1>3
<1>8. Spread(n, S, Q, y)
  BY <1>6 DEF Spread, b, V
<1>9. Rounded(x, n, S, Q)
  BY <1>7 DEF Rounded, b, V
<1> QED
  BY <1>3, <1>4, <1>8, <1>9 DEF y


LEMMA RootBelow ==
  ASSUME NEW g \in Nat, NEW k \in Nat, NEW N \in Nat \ {0}, NEW t \in Int,
         g = 0 \/ ((2 * g - 1) * (2 * g - 1)) * N <= t, t < ((2 * k + 2) * (2 * k + 2)) * N
  PROVE  g <= k + 1
<1> SUFFICES ASSUME g >= k + 2 PROVE FALSE
  OBVIOUS
<1> DEFINE u == 2 * k + 2
           w == 2 * g - 1
<1>1. u \in Nat /\ w \in Nat /\ w >= u /\ g # 0
  OBVIOUS
<1>2. (w * w) * N <= t /\ t < (u * u) * N
  BY <1>1
<1> HIDE DEF u, w
<1>3. u * u <= w * w
  <2>1. u * w <= w * w
    BY <1>1, Product
  <2>2. u * u <= w * u /\ w * u = u * w
    BY <1>1, Product
  <2>3. u * u \in Int /\ w * w \in Int /\ u * w \in Int
    BY <1>1
  <2> QED
    BY <2>1, <2>2, <2>3
<1> DEFINE a == u * u
           b == w * w
<1>4. a \in Int /\ b \in Int /\ a <= b /\ b * N <= t /\ t < a * N
  BY <1>1, <1>2, <1>3
<1> HIDE DEF a, b
<1>5. a * N <= b * N /\ a * N \in Int /\ b * N \in Int
  BY <1>4, Product
<1> QED
  BY <1>4, <1>5

\* The squares a grade row averages.
AllSquares(row) == SumOver(DOMAIN row, LAMBDA c : row[c].std * row[c].std * row[c].n)

\* The deviation of a grade row, from those of its classes, is larger than the true one
\* by a hundredth at most.
LEMMA GradeDeviation ==
  ASSUME NEW v, TookView(v), NEW s, NEW T \in SUBSET Students, T # {}
  PROVE  LET row == [c \in ClassesOf(T) |-> RowOf(v, s, InClass(T, c))] IN
         GradeRow(row, Cardinality(T)).std <= RowOf(v, s, T).std + 1
<1> DEFINE I == ClassesOf(T)
           row == [c \in I |-> RowOf(v, s, InClass(T, c))]
           p == [st \in Students |-> Points(v, s, st)]
           q == SquaresOf(v, s)
           f == [c \in DOMAIN row |-> row[c].std * row[c].std * row[c].n]
           x == [c \in I |-> row[c].std]
           n == [c \in I |-> Cardinality(InClass(T, c))]
           S == [c \in I |-> SumFunctionOnSet(p, InClass(T, c))]
           Q == [c \in I |-> SumFunctionOnSet(q, InClass(T, c))]
           y == [c \in I |-> Halves(x[c])]
           up == [c \in I |-> y[c] + 1]
           z == [c \in I |-> n[c] * (up[c] * up[c])]
           f4 == [c \in I |-> 4 * f[c]]
           N == Cardinality(T)
           k == RowOf(v, s, T).std
           g == GradeRow(row, N).std
           F == SumFunctionOnSet(f, I)
<1>1. IsFiniteSet(I) /\ IsFiniteSet(T)
  BY ClassesFinite, InClassOf
<1>2. \A st \in T : p[st] \in Int /\ q[st] \in Int
  <2>1. \A st \in T : p[st] \in Int /\ q[st] = p[st] * p[st]
    BY PointsInt DEF TookView, SquaresOf
  <2> QED
    BY <2>1
<1>3. \A c \in I : /\ n[c] = Cardinality(InClass(T, c)) /\ n[c] \in Nat \ {0}
                   /\ S[c] = SumFunctionOnSet(p, InClass(T, c)) /\ S[c] \in Int
                   /\ Q[c] = SumFunctionOnSet(q, InClass(T, c)) /\ Q[c] \in Int
                   /\ x[c] \in Nat /\ y[c] = Halves(x[c]) /\ y[c] \in Int
                   /\ Spread(n[c], S[c], Q[c], y[c])
                   /\ f[c] = x[c] * x[c] * n[c]
  <2> SUFFICES ASSUME NEW c \in I
               PROVE  /\ n[c] = Cardinality(InClass(T, c)) /\ n[c] \in Nat \ {0}
                      /\ S[c] = SumFunctionOnSet(p, InClass(T, c)) /\ S[c] \in Int
                      /\ Q[c] = SumFunctionOnSet(q, InClass(T, c)) /\ Q[c] \in Int
                      /\ x[c] \in Nat /\ y[c] = Halves(x[c]) /\ y[c] \in Int
                      /\ Spread(n[c], S[c], Q[c], y[c])
                      /\ f[c] = x[c] * x[c] * n[c]
    BY Zenon
  <2> DEFINE C == InClass(T, c)
             m == n[c]
             a == S[c]
             b == Q[c]
  <2>1. C # {} /\ C \in SUBSET Students
    BY ClassCount
  <2>2. /\ m = Cardinality(C) /\ a = SumFunctionOnSet(p, C) /\ b = SumFunctionOnSet(q, C)
        /\ row[c] = RowOf(v, s, C) /\ x[c] = row[c].std /\ y[c] = Halves(x[c])
        /\ f[c] = row[c].std * row[c].std * row[c].n
    OBVIOUS
  <2> HIDE DEF C, n, S, Q, row, x, y, f
  <2>3. IsDeviation(x[c], m, a, b)
    BY <2>1, <2>2, DeviationIs DEF p, q
  <2> HIDE DEF m, a, b
  <2>4. x[c] \in Nat /\ Halves(x[c]) \in Int /\ Spread(m, a, b, Halves(x[c]))
    BY <2>3, DeviationFrom
  <2>5. m \in Nat \ {0} /\ a \in Int /\ b \in Int
    BY <2>3 DEF IsDeviation
  <2>6. row[c].n = m
    BY <2>1, <2>2, RowIs
  <2> QED
    BY <2>2, <2>4, <2>5, <2>6 DEF m, a, b, C
<1>4. (\A c \in I : up[c] = y[c] + 1) /\ Weighted(z, n, up, I)
  BY Zenon DEF Weighted
<1>5. g = RoundSqrt(AllSquares(row), AtLeast1(N)) /\ AllSquares(row) = F
  <2>1. g = RoundSqrt(AllSquares(row), AtLeast1(N))
    BY Zenon DEF GradeRow, AllSquares
  <2>2. AllSquares(row) = F
    BY DEF AllSquares, SumOver, SumFunction
  <2> QED
    BY <2>1, <2>2
<1>6. \A c \in I : f4[c] = 4 * f[c]
  OBVIOUS
<1>7. IsDeviation(k, N, SumFunctionOnSet(p, T), SumFunctionOnSet(q, T))
  BY DeviationIs
<1> HIDE DEF p, q, n, S, Q, x, y, up, z, f, f4, row, N, k, F, g
<1>8. Parts(I, n, S, Q, y)
  BY <1>3 DEF Parts
<1>9. /\ N = SumFunctionOnSet(n, I)
      /\ SumFunctionOnSet(p, T) = SumFunctionOnSet(S, I)
      /\ SumFunctionOnSet(q, T) = SumFunctionOnSet(Q, I)
  <2>1. \A c \in I : n[c] = Cardinality(InClass(T, c))
    BY <1>3
  <2>2. \A c \in I : S[c] = SumFunctionOnSet(p, InClass(T, c))
    BY <1>3
  <2>3. \A c \in I : Q[c] = SumFunctionOnSet(q, InClass(T, c))
    BY <1>3
  <2>4. N = SumFunctionOnSet(n, I)
    BY <2>1, ClassesAddUp DEF N
  <2>5. SumFunctionOnSet(p, T) = SumFunctionOnSet(S, I)
    BY <1>2, <2>2, ClassSumsAddUp
  <2>6. SumFunctionOnSet(q, T) = SumFunctionOnSet(Q, I)
    BY <1>2, <2>3, ClassSumsAddUp
  <2> QED
    BY <2>4, <2>5, <2>6
<1> DEFINE A == SumFunctionOnSet(p, T)
           B == SumFunctionOnSet(q, T)
           Z == SumFunctionOnSet(z, I)
<1>10. k \in Nat /\ N \in Nat \ {0} /\ Rounded(k, N, A, B)
  <2>1. IsDeviation(k, N, A, B)
    BY <1>7
  <2> HIDE DEF A, B
  <2>2. N \in Nat \ {0}
    BY <2>1 DEF IsDeviation
  <2> QED
    BY <2>1, <2>2, DeviationFrom
<1>11. Z \in Int /\ (\A c \in I : z[c] \in Int) /\ Z < ((2 * k + 2) * (2 * k + 2)) * N
  <2> HIDE DEF I
  <2>1. A = SumFunctionOnSet(S, I) /\ B = SumFunctionOnSet(Q, I)
    BY <1>9
  <2>2. \A c \in I : up[c] = y[c] + 1
    BY <1>4
  <2>3. Weighted(z, n, up, I)
    BY <1>4
  <2>4. N = SumFunctionOnSet(n, I)
    BY <1>9
  <2> HIDE DEF A, B
  <2> QED
    BY <1>1, <1>8, <1>10, <2>1, <2>2, <2>3, <2>4, RootsAddUp
<1> HIDE DEF A, B, Z
<1>12. \A c \in I : f[c] \in Nat /\ f4[c] <= z[c]
  <2> SUFFICES ASSUME NEW c \in I PROVE f[c] \in Nat /\ f4[c] <= z[c]
    OBVIOUS
  <2> DEFINE e == x[c]
             m == n[c]
             h == y[c]
  <2>1. /\ e \in Nat /\ m \in Nat \ {0} /\ h = Halves(e) /\ f[c] = e * e * m /\ f4[c] = 4 * f[c]
        /\ z[c] = m * (up[c] * up[c]) /\ up[c] = h + 1
    BY <1>3, <1>4, <1>6 DEF Weighted
  <2> HIDE DEF e, m, h
  <2>2. CASE e = 0
    <3>1. h = 0 /\ f[c] = 0 /\ z[c] = m
      BY <2>1, <2>2 DEF Halves
    <3> QED
      BY <2>1, <3>1
  <2>3. CASE e # 0
    <3>1. up[c] = 2 * e
      BY <2>1, <2>3 DEF Halves
    <3>2. z[c] = m * ((2 * e) * (2 * e))
      BY <2>1, <3>1
    <3>3. z[c] = 4 * (e * e * m) /\ e * e * m \in Nat
      BY <2>1, <3>2
    <3> QED
      BY <2>1, <3>3
  <2> QED
    BY <2>2, <2>3
<1>13. F \in Nat /\ 4 * F <= Z
  <2> HIDE DEF I
  <2>1. (\A c \in I : f[c] \in Int) /\ SumFunctionOnSet(f4, I) = 4 * F /\ \A c \in I : f4[c] \in Int
    <3>1. \A c \in I : f[c] \in Int
      BY <1>12
    <3>2. SumFunctionOnSet(f4, I) = 4 * F
      BY <1>1, <1>6, <3>1, SumTimes DEF F
    <3> QED
      BY <1>6, <3>1, <3>2
  <2>2. \A c \in I : f4[c] <= z[c]
    BY <1>12
  <2>3. \A c \in I : z[c] \in Int
    BY <1>11
  <2>4. SumFunctionOnSet(f4, I) <= Z
    BY <1>1, <2>1, <2>2, <2>3, SumMonotone DEF Z
  <2>5. F \in Int
    BY <1>1, <2>1, SumInt DEF F
  <2>6. F >= 0
    <3> DEFINE o == [c \in I |-> 0 * f[c]]
    <3>1. \A c \in I : o[c] = 0 * f[c]
      OBVIOUS
    <3> HIDE DEF o
    <3>2. \A c \in I : o[c] \in Int /\ o[c] <= f[c]
      BY <1>12, <3>1
    <3>3. SumFunctionOnSet(o, I) = 0 * F
      BY <1>1, <2>1, <3>1, SumTimes DEF F
    <3>4. SumFunctionOnSet(o, I) <= F
      BY <1>1, <2>1, <3>2, SumMonotone DEF F
    <3> QED
      BY <2>5, <3>3, <3>4
  <2> QED
    BY <2>1, <2>4, <2>5, <2>6
<1>14. AtLeast1(N) = N
  BY <1>10, MaxOfTwo
<1>15. g \in Nat /\ (g = 0 \/ ((2 * g - 1) * (2 * g - 1)) * N <= 4 * F)
  <2>1. g = RoundSqrt(F, N)
    BY <1>5, <1>14
  <2> QED
    BY <1>10, <1>13, <2>1, RoundSqrtIs
<1>16. g <= k + 1
  <2>1. g = 0 \/ ((2 * g - 1) * (2 * g - 1)) * N <= Z
    <3> DEFINE l == ((2 * g - 1) * (2 * g - 1)) * N
    <3>1. l \in Int
      BY <1>10, <1>15
    <3>2. g = 0 \/ l <= 4 * F
      BY <1>15
    <3> HIDE DEF l
    <3>3. g = 0 \/ l <= Z
      BY <1>11, <1>13, <3>1, <3>2
    <3> QED
      BY <3>3 DEF l
  <2> QED
    BY <1>10, <1>11, <1>15, <2>1, RootBelow
<1> QED
  BY <1>16 DEF g, k, N, row


LEMMA OneMore ==
  ASSUME NEW S, IsFiniteSet(S), NEW x
  PROVE  IsFiniteSet({x} \cup S)
<1>1. {x} \cup S = S \cup {x}
  OBVIOUS
<1> QED
  BY <1>1, FS_AddElement

\* The extremes of a grade row are the true ones, if the search for them starts outside.
LEMMA GradeExtremes ==
  ASSUME NEW v, TookView(v), NEW s, NEW T \in SUBSET Students, T # {},
         \A st \in T : Points(v, s, st) \in 0 .. 999
  PROVE  LET row == [c \in ClassesOf(T) |-> RowOf(v, s, InClass(T, c))]
             g == GradeRow(row, Cardinality(T)) IN
         g.high = RowOf(v, s, T).high /\ g.low = RowOf(v, s, T).low
<1> DEFINE I == ClassesOf(T)
           row == [c \in I |-> RowOf(v, s, InClass(T, c))]
           g == GradeRow(row, Cardinality(T))
           H == PointsOf(v, s, T)
           Highs == {row[c].high : c \in I}
           Lows == {row[c].low : c \in I}
           A == {0} \cup Highs
           B == {999} \cup Lows
<1>1. H \in SUBSET Int /\ IsFiniteSet(H) /\ H # {} /\ \A h \in H : h \in 0 .. 999
  BY PointsFinite DEF PointsOf
<1>2. RowOf(v, s, T).high = Max(H) /\ RowOf(v, s, T).low = Min(H)
  BY RowIs
<1>3. g.high = Max(A) /\ g.low = Min(B)
  BY Zenon DEF GradeRow
<1>4. \A c \in I : /\ row[c].high = Max(PointsOf(v, s, InClass(T, c)))
                   /\ row[c].low = Min(PointsOf(v, s, InClass(T, c)))
                   /\ PointsOf(v, s, InClass(T, c)) \subseteq H
                   /\ PointsOf(v, s, InClass(T, c)) \in SUBSET Int
                   /\ IsFiniteSet(PointsOf(v, s, InClass(T, c)))
                   /\ PointsOf(v, s, InClass(T, c)) # {}
  <2> SUFFICES ASSUME NEW c \in I
               PROVE  LET C == InClass(T, c) IN
                      /\ RowOf(v, s, C).high = Max(PointsOf(v, s, C))
                      /\ RowOf(v, s, C).low = Min(PointsOf(v, s, C))
                      /\ PointsOf(v, s, C) \subseteq H
                      /\ PointsOf(v, s, C) \in SUBSET Int
                      /\ IsFiniteSet(PointsOf(v, s, C))
                      /\ PointsOf(v, s, C) # {}
    BY Zenon
  <2> DEFINE C == InClass(T, c)
  <2>1. C # {} /\ C \in SUBSET Students /\ C \subseteq T
    BY ClassCount, InClassOf
  <2> HIDE DEF C
  <2>2. PointsOf(v, s, C) \subseteq H /\ PointsOf(v, s, C) # {}
    BY <2>1 DEF PointsOf
  <2> QED
    BY <2>1, <2>2, RowIs, PointsFinite DEF C
<1>5. \A st \in T : ClassOf[st] \in I /\ Points(v, s, st) \in PointsOf(v, s, InClass(T, ClassOf[st]))
  BY DEF ClassesOf, InClass, PointsOf
<1>6. IsFiniteSet(I)
  BY ClassesFinite
<1>7. A \in SUBSET Int /\ IsFiniteSet(A) /\ A # {} /\ B \in SUBSET Int /\ IsFiniteSet(B) /\ B # {}
  <2> DEFINE f == [c \in I |-> row[c].high]
             e == [c \in I |-> row[c].low]
  <2>1. f \in Surjection(I, Highs) /\ e \in Surjection(I, Lows)
    BY DEF Surjection
  <2>2. IsFiniteSet(Highs) /\ IsFiniteSet(Lows)
    <3> HIDE DEF f, e, Highs, Lows, I
    <3> QED
      BY <1>6, <2>1, FS_Surjection
  <2>3. IsFiniteSet(A) /\ IsFiniteSet(B)
    <3> HIDE DEF Highs, Lows
    <3> QED
      BY <2>2, OneMore
  <2>4. \A c \in I : row[c].high \in Int /\ row[c].low \in Int
    <3> SUFFICES ASSUME NEW c \in I PROVE row[c].high \in Int /\ row[c].low \in Int
      OBVIOUS
    <3> HIDE DEF row
    <3>1. Max(PointsOf(v, s, InClass(T, c))) \in Int /\ Min(PointsOf(v, s, InClass(T, c))) \in Int
      BY <1>4, MaxMin
    <3> QED
      BY <1>4, <3>1
  <2> QED
    BY <2>3, <2>4
<1>8. /\ \A c \in I : row[c].high \in H /\ row[c].low \in H
      /\ \A h \in H : \E c \in I : row[c].high >= h /\ row[c].low <= h
  <2> HIDE DEF row, I, H
  <2>1. \A c \in I : row[c].high \in H /\ row[c].low \in H
    <3> SUFFICES ASSUME NEW c \in I PROVE row[c].high \in H /\ row[c].low \in H
      OBVIOUS
    <3> DEFINE P == PointsOf(v, s, InClass(T, c))
    <3>1. P \subseteq H /\ P \in SUBSET Int /\ IsFiniteSet(P) /\ P # {} /\ row[c].high = Max(P) /\ row[c].low = Min(P)
      BY <1>4
    <3> HIDE DEF P
    <3>2. Max(P) \in P /\ Min(P) \in P
      BY <3>1, MaxMin
    <3> QED
      BY <3>1, <3>2
  <2>2. ASSUME NEW h \in H
        PROVE  \E c \in I : row[c].high >= h /\ row[c].low <= h
    <3>1. PICK st \in T : h = Points(v, s, st)
      BY DEF H, PointsOf
    <3> DEFINE c == ClassOf[st]
               P == PointsOf(v, s, InClass(T, c))
    <3>2. c \in I /\ h \in P
      BY <1>5, <3>1
    <3>3. P \in SUBSET Int /\ IsFiniteSet(P) /\ P # {} /\ row[c].high = Max(P) /\ row[c].low = Min(P)
      BY <1>4, <3>2
    <3> HIDE DEF P, c
    <3>4. Max(P) >= h /\ Min(P) <= h
      BY <3>2, <3>3, MaxMin
    <3>5. row[c].high >= h /\ row[c].low <= h
      BY <3>3, <3>4
    <3> QED
      BY <3>2, <3>5
  <2> QED
    BY <2>1, <2>2
<1>9. /\ \A h \in H : (\E a \in A : a >= h) /\ (\E b \in B : b <= h)
      /\ \A a \in A : a = 0 \/ a \in H
      /\ \A b \in B : b = 999 \/ b \in H
  <2> HIDE DEF H, row, I
  <2>1. ASSUME NEW h \in H
        PROVE  (\E a \in A : a >= h) /\ (\E b \in B : b <= h)
    <3>1. PICK c \in I : row[c].high >= h /\ row[c].low <= h
      BY <1>8
    <3>2. row[c].high \in A /\ row[c].low \in B
      OBVIOUS
    <3> HIDE DEF A, B
    <3> QED
      BY <3>1, <3>2
  <2>2. \A a \in A : a = 0 \/ a \in H
    BY <1>8
  <2>3. \A b \in B : b = 999 \/ b \in H
    BY <1>8
  <2> QED
    BY <2>1, <2>2, <2>3
<1> HIDE DEF A, B, H, I, row, g
<1>10. Max(A) = Max(H)
  <2>1. /\ Max(A) \in A /\ \A a \in A : Max(A) >= a
        /\ Max(H) \in H /\ \A h \in H : Max(H) >= h
    BY <1>1, <1>7, MaxMin
  <2>2. Max(A) >= Max(H)
    <3>1. PICK a \in A : a >= Max(H)
      BY <1>9, <2>1
    <3>2. Max(A) >= a /\ a \in Int /\ Max(A) \in Int /\ Max(H) \in Int
      BY <1>1, <1>7, <2>1
    <3> QED
      BY <3>1, <3>2
  <2>3. Max(A) <= Max(H)
    <3>1. Max(H) \in 0 .. 999 /\ (Max(A) = 0 \/ Max(A) \in H)
      BY <1>1, <1>9, <2>1
    <3>2. Max(A) \in H => Max(H) >= Max(A) /\ Max(A) \in Int
      BY <1>1, <2>1
    <3> QED
      BY <3>1, <3>2
  <2>4. Max(A) \in Int /\ Max(H) \in Int
    BY <1>1, <1>7, <2>1
  <2> QED
    BY <2>2, <2>3, <2>4
<1>11. Min(B) = Min(H)
  <2>1. /\ Min(B) \in B /\ \A b \in B : Min(B) <= b
        /\ Min(H) \in H /\ \A h \in H : Min(H) <= h
    BY <1>1, <1>7, MaxMin
  <2>2. Min(B) <= Min(H)
    <3>1. PICK b \in B : b <= Min(H)
      BY <1>9, <2>1
    <3>2. Min(B) <= b /\ b \in Int /\ Min(B) \in Int /\ Min(H) \in Int
      BY <1>1, <1>7, <2>1
    <3> QED
      BY <3>1, <3>2
  <2>3. Min(B) >= Min(H)
    <3>1. Min(H) \in 0 .. 999 /\ (Min(B) = 999 \/ Min(B) \in H)
      BY <1>1, <1>9, <2>1
    <3>2. Min(B) \in H => Min(H) <= Min(B) /\ Min(B) \in Int
      BY <1>1, <2>1
    <3> QED
      BY <3>1, <3>2
  <2>4. Min(B) \in Int /\ Min(H) \in Int
    BY <1>1, <1>7, <2>1
  <2> QED
    BY <2>2, <2>3, <2>4
<1>12. g.high = RowOf(v, s, T).high /\ g.low = RowOf(v, s, T).low
  BY <1>2, <1>3, <1>10, <1>11
<1> QED
  BY <1>12 DEF g, row, I


\* The four things a grade row promises, from the view v of the rows of the classes.
GradeRowFor(g, rows, v, s) ==
  LET T == Takers(v, s)
      true == RowOf(v, s, T)
      points(st) == Points(v, s, st)
      sum == SumOver(T, points) IN
  /\ g.n = SumOver(DOMAIN rows, LAMBDA c : rows[c].stats.n)
  /\ T # {} /\ (\A st \in T : points(st) \in 0 .. 999) => g.high = true.high /\ g.low = true.low
  /\ g.n * g.avg - 100 * sum \in -g.n .. g.n
  /\ g.std <= true.std + 1

LEMMA GradeNobody ==
  ASSUME NEW v, NEW s
  PROVE  LET g == GradeRow([c \in ClassesOf({}) |-> RowOf(v, s, InClass({}, c))], 0) IN
         g.n = 0 /\ g.avg = 0 /\ g.std = 0 /\ RowOf(v, s, {}).std = 0
<1> DEFINE row == [c \in ClassesOf({}) |-> RowOf(v, s, InClass({}, c))]
           g == GradeRow(row, 0)
<1>1. DOMAIN row = {}
  BY DEF ClassesOf
<1>2. AllPoints(row) = 0 /\ AllSquares(row) = 0
  BY <1>1, SumEmpty DEF AllPoints, AllSquares, SumOver, SumFunction
<1>3. AtLeast1(0) = 1
  BY MaxOfTwo
<1>4. g.n = 0 /\ g.avg = RoundDiv(AllPoints(row), AtLeast1(0)) /\ g.std = RoundSqrt(AllSquares(row), AtLeast1(0))
  BY Zenon DEF GradeRow, AllPoints, AllSquares
<1> HIDE DEF row, g
<1>5. RoundDiv(0, 1) = 0
  BY DEF RoundDiv
<1>6. RoundSqrt(0, 1) = 0
  <2> DEFINE k == RoundSqrt(0, 1)
  <2>1. k \in Nat /\ (k = 0 \/ ((2 * k - 1) * (2 * k - 1)) * 1 <= 4 * 0)
    BY RoundSqrtIs
  <2> HIDE DEF k
  <2>2. CASE k # 0
    <3> DEFINE w == 2 * k - 1
    <3>1. w \in Nat /\ w >= 1 /\ (w * w) * 1 <= 0
      BY <2>1, <2>2
    <3> HIDE DEF w
    <3>2. 1 * w <= w * w
      BY <3>1, Product
    <3>3. w * w \in Int
      BY <3>1
    <3> QED
      BY <3>1, <3>2, <3>3
  <2> QED
    BY <2>2 DEF k
<1>7. RowOf(v, s, {}).std = 0
  <2>1. Cardinality({}) = 0
    BY FS_EmptySet
  <2> QED
    BY <2>1 DEF RowOf, Row, SumOver, SumFunction
<1>8. g.n = 0 /\ g.avg = 0 /\ g.std = 0 /\ RowOf(v, s, {}).std = 0
  BY <1>2, <1>3, <1>4, <1>5, <1>6, <1>7
<1> QED
  BY <1>8 DEF g, row

LEMMA GradeRowProved ==
  ASSUME NEW x, NEW v, v = x.rows, TookView(v), NEW s, Takers(x.count, s) = Takers(v, s)
  PROVE  GradeRowFor(ClassSummary(x, s).grade.stats, ClassSummary(x, s).classes, v, s)
<1> DEFINE T == Takers(v, s)
           I == ClassesOf(T)
           row == [c \in I |-> RowOf(v, s, InClass(T, c))]
           N == Cardinality(T)
           rows == ClassSummary(x, s).classes
           g == ClassSummary(x, s).grade.stats
           p == [st \in Students |-> Points(v, s, st)]
           P == SumFunctionOnSet(p, T)
           m == [c \in DOMAIN rows |-> rows[c].stats.n]
           points(st) == Points(v, s, st)
           sum == SumOver(T, points)
           f == [st \in T |-> Points(v, s, st)]
<1>1. g = GradeRow(row, N) /\ DOMAIN rows = I /\ \A c \in I : rows[c].stats = RowOf(v, s, InClass(T, c))
  BY GradeRowIs
<1>2. T \in SUBSET Students /\ IsFiniteSet(T) /\ N \in Nat
  BY TakersFinite, CountIsNat
<1>3. sum = P /\ P \in Int
  <2>1. \A st \in T : p[st] \in Int /\ f[st] = p[st]
    BY <1>2, PointsInt DEF TookView
  <2>2. sum = SumFunctionOnSet(f, T)
    BY DEF SumOver, SumFunction
  <2> HIDE DEF f, p, T, sum
  <2>3. SumFunctionOnSet(f, T) = P
    BY <1>2, <2>1, SumEqual
  <2>4. P \in Int
    BY <1>2, <2>1, SumInt
  <2> QED
    BY <2>2, <2>3, <2>4
<1>4. SumOver(DOMAIN rows, LAMBDA c : rows[c].stats.n) = SumFunctionOnSet(m, I)
  BY <1>1 DEF SumOver, SumFunction
<1>5. \A c \in I : m[c] = Cardinality(InClass(T, c))
  <2> SUFFICES ASSUME NEW c \in I PROVE m[c] = Cardinality(InClass(T, c))
    OBVIOUS
  <2> DEFINE C == InClass(T, c)
  <2>1. C \in SUBSET Students
    BY <1>2, InClassOf
  <2>2. m[c] = RowOf(v, s, C).n
    BY <1>1
  <2> HIDE DEF C, m
  <2>3. RowOf(v, s, C).n = Cardinality(C)
    BY <2>1, RowIs
  <2> QED
    BY <2>2, <2>3 DEF C
<1>6. GradeRow(row, N).n = N
  BY Zenon DEF GradeRow
<1> HIDE DEF m, rows, g
<1>7. SumFunctionOnSet(m, I) = N
  <2> HIDE DEF T
  <2> QED
    BY <1>2, <1>5, ClassesAddUp
<1>8. ASSUME T # {}, \A st \in T : points(st) \in 0 .. 999
      PROVE  g.high = RowOf(v, s, T).high /\ g.low = RowOf(v, s, T).low
  <2>1. \A st \in T : Points(v, s, st) \in 0 .. 999
    BY <1>8
  <2> HIDE DEF T
  <2>2. GradeRow(row, N).high = RowOf(v, s, T).high /\ GradeRow(row, N).low = RowOf(v, s, T).low
    BY <1>2, <1>8, <2>1, GradeExtremes
  <2> QED
    BY <1>1, <2>2
<1>9. GradeRow(row, N).std <= RowOf(v, s, T).std + 1 /\ N * GradeRow(row, N).avg - 100 * P \in -N .. N
  <2>1. CASE T = {}
    <3>1. N = 0
      BY <2>1, FS_EmptySet
    <3> DEFINE h == GradeRow(row, N)
    <3>2. h.avg = 0 /\ h.std = 0 /\ RowOf(v, s, T).std = 0
      BY <2>1, <3>1, GradeNobody
    <3>3. P = 0
      BY <2>1, SumEmpty
    <3> HIDE DEF h, N, P, T
    <3>4. h.std <= RowOf(v, s, T).std + 1 /\ N * h.avg - 100 * P \in -N .. N
      BY <3>1, <3>2, <3>3
    <3> QED
      BY <3>4 DEF h
  <2>2. CASE T # {}
    <3> HIDE DEF T
    <3>1. GradeRow(row, N).std <= RowOf(v, s, T).std + 1
      BY <1>2, <2>2, GradeDeviation
    <3> DEFINE W == AllPoints(row)
               a == GradeRow(row, N).avg
    <3>2. W \in Int /\ 2 * W <= 200 * P + N /\ 200 * P - N <= 2 * W
      BY <1>2, GradeSum
    <3>3. N \in Nat \ {0}
      BY <1>2, <2>2, FS_EmptySet
    <3>4. AtLeast1(N) = N
      <4> HIDE DEF N
      <4> QED
        BY <3>3, MaxOfTwo
    <3>5. a = RoundDiv(W, AtLeast1(N))
      BY Zenon DEF GradeRow, AllPoints
    <3> HIDE DEF W, a, N, P, row
    <3>6. a \in Int /\ 2 * (N * a) <= 2 * W + N /\ 2 * W - N <= 2 * (N * a)
      <4>1. a \in Int /\ 2 * (a * N) <= 2 * W + N /\ 2 * W - N <= 2 * (a * N)
        BY <3>2, <3>3, <3>4, <3>5, RoundDivIs
      <4>2. a * N = N * a
        BY <3>3, <4>1
      <4> QED
        BY <4>1, <4>2
    <3> DEFINE e == N * a
    <3>7. e \in Int
      BY <3>3, <3>6
    <3>8. e - 100 * P \in -N .. N
      <4> HIDE DEF e
      <4> QED
        BY <1>3, <3>2, <3>3, <3>6, <3>7 DEF e
    <3> QED
      BY <3>1, <3>8 DEF a
  <2> QED
    BY <2>1, <2>2
<1>10. g.n = N /\ SumOver(DOMAIN rows, LAMBDA c : rows[c].stats.n) = N
  BY <1>1, <1>4, <1>6, <1>7
<1>11. g.std <= RowOf(v, s, T).std + 1 /\ N * g.avg - 100 * sum \in -N .. N
  BY <1>1, <1>3, <1>9
<1> HIDE DEF N, T, sum
<1>12. GradeRowFor(g, rows, v, s)
  BY <1>8, <1>10, <1>11, Zenon DEF GradeRowFor, T, sum
<1> QED
  BY <1>12 DEF g, rows

\* The grade row of a class summary, put together from the rounded rows of its classes,
\* is true up to rounding when nothing changed meanwhile.
THEOREM GradeRowHolds == Spec => []GradeRowTrue
<1>1. Told => GradeRowTrue
  <2> SUFFICES ASSUME Told, NEW r \in Requests, Answered(r, "class"), Quiet(r)
               PROVE  LET rep == GetClassSummary(ask[r], seen[r]).report IN
                      GradeRowFor(rep.grade.stats, rep.classes, seen[r].rows, ask[r].subject)
    BY Zenon DEF GradeRowTrue, GradeRowFor
  <2> DEFINE s == ask[r].subject
             v == seen[r].rows
  <2>1. /\ {"count", "rows"} \subseteq DOMAIN seen[r]
        /\ \A q \in {"count", "rows"} : /\ DOMAIN seen[r][q] = Reads("class", q)
                                        /\ \A t \in Reads("class", q) : Found(t, seen[r][q][t])
    <3>1. /\ ask[r] \in Asks /\ ask[r].kind = "class"
          /\ ToSet(QueriesOf(ask[r])) \subseteq DOMAIN seen[r]
          /\ \A q \in DOMAIN seen[r] : /\ DOMAIN seen[r][q] = Reads("class", q)
                                       /\ \A t \in Reads("class", q) : Found(t, seen[r][q][t])
      BY Reading
    <3>2. QueriesOf(ask[r]) = <<"count", "full", "rows", "overall", "marks", "name">>
      BY <3>1 DEF QueriesOf, Queries, ClassQueries
    <3>3. {"count", "rows"} \subseteq ToSet(<<"count", "full", "rows", "overall", "marks", "name">>)
      BY DEF ToSet
    <3> QED
      BY <3>1, <3>2, <3>3
  <2>2. TookView(v) /\ seen[r].count.took = v.took
    <3>1. "took" \in DOMAIN seen[r].count \cap DOMAIN seen[r].rows
      BY <2>1, ReadsIs
    <3>2. seen[r].count.took = v.took
      BY <2>1, <3>1 DEF Quiet
    <3> QED
      BY <2>1, <3>2, ReadsIs DEF TookView, Found, Scores
  <2>3. Takers(seen[r].count, s) = Takers(v, s)
    BY <2>2 DEF Takers
  <2>4. GetClassSummary(ask[r], seen[r]).report = ClassSummary(seen[r], s)
    BY DEF GetClassSummary, NamedReply
  <2> HIDE DEF s
  <2>5. GradeRowFor(ClassSummary(seen[r], s).grade.stats, ClassSummary(seen[r], s).classes, v, s)
    BY <2>2, <2>3, GradeRowProved
  <2> QED
    BY <2>4, <2>5, Zenon DEF s
<1> QED
  BY <1>1, Telling, PTL

=============================================================================
