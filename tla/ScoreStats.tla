---------------------------- MODULE ScoreStats ----------------------------
(***************************************************************************)
(* What the analyses of SEAS compute.  A report is made of the results of  *)
(* several SQL queries, run one after the other; here each result is a     *)
(* function of a view, the part of the tables about one exam, as it was    *)
(* when the query ran, and a report x is a record of views, one per query. *)
(* Averages, deviations and rates are in hundredths: ROUND(_, 2) in SQL    *)
(* and roundTo2Decimal in Go round the exact value, halves away from zero. *)
(* A subject has one question, with all its points.                        *)
(***************************************************************************)
EXTENDS Integers, Sequences, FiniteSetsExt

CONSTANTS
  Subjects,
  Students,   \* student ids
  Classes,    \* class ids
  ClassOf,    \* the class of each student
  Mark,       \* the points of each (student, subject)
  All,        \* subject id 0: every subject
  None,
  Unit,       \* a bound of a segment is a number of Unit-ths of a point: a float64 is,
              \* with a power of two for Unit,
  Floats,     \* and these are the float64s;
  Exact       \* up to here every whole number is one (2^53)

\* Ids are integers, a student is in one class, and 0, for all, is no subject's id: the
\* database counts them from 1.
ASSUME ScoresAssumption ==
  /\ All \notin Subjects
  /\ IsFiniteSet(Subjects) /\ IsFiniteSet(Students) /\ Students \subseteq Int /\ Classes \subseteq Int
  /\ ClassOf \in [Students -> Classes] /\ Mark \in [Students \X Subjects -> Int]

ASSUME FloatsAssumption ==
  /\ Unit \in Nat \ {0} /\ Exact \in Nat /\ Floats \subseteq Int
  /\ \A n \in 0 .. Exact : n * Unit \in Floats

\* What a query without a result leaves to a report.
\* name: whether the exam is there; full: the full score of each subject of the exam, or None;
\* took: the (student, subject) pairs with a score; asked: those with question rows.
Nothing == [name |-> FALSE, full |-> [s \in Subjects |-> None], took |-> {}, asked |-> {}]

-----------------------------------------------------------------------------
(* Arithmetic *)

SumOver(S, f(_)) == SumFunction([x \in S |-> f(x)])

RoundDiv(a, b) == IF a < 0 THEN -((b - 2 * a) \div (2 * b)) ELSE (2 * a + b) \div (2 * b)

\* The square root of a/b, rounded.
RoundSqrt(a, b) ==
  CHOOSE k \in 0 .. a + 1 :
    /\ 4 * a < (2 * k + 1) * (2 * k + 1) * b
    /\ k = 0 \/ (2 * k - 1) * (2 * k - 1) * b <= 4 * a

AtLeast1(n) == Max({1, n})

\* The float64s at the distance d from x.
Near(x, d) == {x - d, x + d} \cap Floats

\* The result x of an operation on float64s is rounded to the nearest; which one, when
\* there are two, is left open.
Fl(x) ==
  LET d == CHOOSE d \in 0 .. (IF x < 0 THEN -x ELSE x) :
             Near(x, d) # {} /\ \A c \in 0 .. d - 1 : Near(x, c) = {} IN
  CHOOSE y \in Near(x, d) : TRUE

-----------------------------------------------------------------------------
(* Students and their points *)

Scope(s) == IF s = All THEN Subjects ELSE {s}

Takers(v, s) == {st \in Students : \E t \in Scope(s) : <<st, t>> \in v.took}

\* The points of a student: of the subject, or in total.
Points(v, s, st) == SumOver({t \in Scope(s) : <<st, t>> \in v.took}, LAMBDA t : Mark[<<st, t>>])

InClass(T, c) == {st \in T : ClassOf[st] = c}

ClassesOf(T) == {ClassOf[st] : st \in T}

\* A row of GROUP BY: COUNT, ROUND(AVG), MAX, MIN and the deviation of the points
\* p(_) of the students T, n of whom it divides by; all 0 when there is none.
Row(T, p(_), div(_)) ==
  LET n == Cardinality(T)
      sum == SumOver(T, p)
      squares == SumOver(T, LAMBDA st : p(st) * p(st)) IN
  IF n = 0 THEN [n |-> 0, avg |-> 0, high |-> 0, low |-> 0, std |-> 0]
  ELSE [n |-> n,
        avg |-> RoundDiv(100 * sum, n),
        high |-> Max({p(st) : st \in T}),
        low |-> Min({p(st) : st \in T}),
        std |-> IF div(n) = 0 THEN 0 ELSE RoundSqrt(10000 * (n * squares - sum * sum), n * div(n))]

\* STDDEV_POP and calculateStdDev divide by n.
RowOf(v, s, T) == Row(T, LAMBDA st : Points(v, s, st), LAMBDA n : n)

FullScore(v, t) == IF v.full[t] = None THEN 0 ELSE v.full[t]

\* calculateOverallFullScore
OverallFullScore(v) == SumOver(Subjects, LAMBDA t : FullScore(v, t))

FullOf(v, s) == IF s = All THEN OverallFullScore(v) ELSE FullScore(v, s)

\* The average, here a / n in hundredths, as a percentage of the full score.
calculateDifficulty(a, n, full) == IF full = 0 THEN 0 ELSE RoundDiv(100 * a, n * full)

\* The mean of the best g of T less the mean of the worst g, in percent of the full score.
Discrimination(T, p(_), g, full) ==
  LET Below(a, b) == p(a) < p(b) \/ (p(a) = p(b) /\ a < b)
      best == {a \in T : Cardinality({b \in T : Below(a, b)}) < g}
      worst == {a \in T : Cardinality({b \in T : Below(b, a)}) < g} IN
  IF T = {} \/ full = 0 THEN 0
  ELSE RoundDiv(10000 * (SumOver(best, p) - SumOver(worst, p)), g * full)

\* Of 27 % of the students, rounded, but of one at least.
calculateDiscrimination(v, s, T, full) ==
  Discrimination(T, LAMBDA st : Points(v, s, st),
                 AtLeast1(RoundDiv(27 * Cardinality(T), 100)), full)

-----------------------------------------------------------------------------
(* GetSubjectSummary *)

SubjectsOf(v) == {t \in Subjects : v.full[t] # None}

\* Mutant: by the full score of all subjects.
SubjectItemOverall(x, t) ==
  LET T == IF x.rows.full[t] = None THEN {} ELSE Takers(x.rows, t)
      full == OverallFullScore(x.rows) IN
  [stats |-> RowOf(x.rows, t, T), full |-> full,
   difficulty |-> calculateDifficulty(RowOf(x.rows, t, T).avg, 1, full),
   discrimination |-> calculateDiscrimination(x[t], t, Takers(x[t], t), full)]

\* Subject t; the points of its students are asked for in a query of its own, x[t].
SubjectItem(x, t) ==
  LET T == IF x.rows.full[t] = None THEN {} ELSE Takers(x.rows, t)
      row == RowOf(x.rows, t, T)
      M == Takers(x[t], t)
      full == FullScore(x.rows, t) IN
  [stats |-> [row EXCEPT !.std = RowOf(x[t], t, M).std],
   full |-> full,
   difficulty |-> calculateDifficulty(row.avg, 1, full),
   discrimination |-> calculateDiscrimination(x[t], t, M, full)]

SubjectSummary(x, s) ==
  [participants |-> Cardinality(Takers(x.count, s)),
   classes |-> IF s = All THEN Cardinality(ClassesOf(Takers(x.classes, All))) ELSE 0,
   subjects |-> [t \in IF s = All THEN SubjectsOf(x.rows) ELSE {s} |-> SubjectItem(x, t)]]

-----------------------------------------------------------------------------
(* GetClassSummary *)

\* One subject: the LEFT JOIN hands STDDEV_POP a NULL for a student without the
\* score and for a class without students, which is an error.
NullInClassRows(v, s) ==
  /\ s # All
  /\ (\E st \in Students : <<st, s>> \notin v.took) \/ ClassesOf(Students) # Classes

\* Mutant: the mean of the classes' averages.
GradeRowUnweighted(row, total) ==
  [n |-> total,
   avg |-> RoundDiv(SumOver(DOMAIN row, LAMBDA c : row[c].avg), AtLeast1(Cardinality(DOMAIN row))),
   high |-> Max({0} \cup {row[c].high : c \in DOMAIN row}),
   low |-> Min({999} \cup {row[c].low : c \in DOMAIN row}),
   std |-> 0]

\* The row of the grade, from the rows of its classes and the participants counted
\* before; a total of 0 divides nothing.
GradeRow(row, total) ==
  LET D == AtLeast1(total) IN
  [n |-> total,
   avg |-> RoundDiv(SumOver(DOMAIN row, LAMBDA c : row[c].avg * row[c].n), D),
   high |-> Max({0} \cup {row[c].high : c \in DOMAIN row}),
   low |-> Min({999} \cup {row[c].low : c \in DOMAIN row}),
   std |-> RoundSqrt(SumOver(DOMAIN row, LAMBDA c : row[c].std * row[c].std * row[c].n), D)]

ClassSummary(x, s) ==
  LET total == Cardinality(Takers(x.count, s))
      T == Takers(x.rows, s)
      row == [c \in ClassesOf(T) |-> RowOf(x.rows, s, InClass(T, c))]
      grade == GradeRow(row, total)
      points == SumOver(DOMAIN row, LAMBDA c : row[c].avg * row[c].n)
      full == FullOf(x.full, s)
      gradeFull == OverallFullScore(x.overall)
      M == Takers(x.marks, s) IN
  [classes |-> [c \in DOMAIN row |->
     [stats |-> row[c],
      full |-> full,
      difficulty |-> calculateDifficulty(row[c].avg, 1, full),
      deviation |-> IF grade.avg > 0 THEN row[c].avg - grade.avg ELSE 0,
      discrimination |-> calculateDiscrimination(x.marks, s, InClass(M, c), full)]],
   grade |->
     [stats |-> grade,
      full |-> gradeFull,
      difficulty |-> calculateDifficulty(points, AtLeast1(total), gradeFull),
      deviation |-> 0,
      discrimination |-> calculateDiscrimination(x.marks, s, M, gradeFull)]]

(* GetSingleClassSummary *)

SingleClassSummary(x, s) ==
  LET T == Takers(x.rows, s)
      M == Takers(x.marks, s)
      row == [c \in ClassesOf(T) |-> RowOf(x.rows, s, InClass(T, c))]
      grade == RowOf(x.grade, s, Takers(x.grade, s))
      full == FullOf(x.full, s) IN
  [classes |-> [c \in DOMAIN row |->
     [stats |-> row[c],
      full |-> full,
      difficulty |-> calculateDifficulty(row[c].avg, 1, full),
      deviation |-> row[c].avg - grade.avg,
      discrimination |-> calculateDiscrimination(x.marks, s, InClass(M, c), full)]],
   grade |->
     [stats |-> grade, full |-> full, deviation |-> 0,
      difficulty |-> calculateDifficulty(grade.avg, 1, full),
      discrimination |-> calculateDiscrimination(x.marks, s, M, full)]]

-----------------------------------------------------------------------------
(* GetClassSubjectSummary: a class in each subject of the exam and in all *)

\* rankByClassID: by the exact average, best first, then by id; 0 for a class without.
ClassRank(v, s, c) ==
  LET T == Takers(v, s)
      n(d) == Cardinality(InClass(T, d))
      sum(d) == SumOver(InClass(T, d), LAMBDA st : Points(v, s, st))
      Better(d) == \/ sum(d) * n(c) > sum(c) * n(d)
                   \/ sum(d) * n(c) = sum(c) * n(d) /\ d < c IN
  IF c \notin ClassesOf(T) THEN 0 ELSE 1 + Cardinality({d \in ClassesOf(T) : Better(d)})

\* Class c in s, from the queries for the figures, the ranks and the points.  The
\* difficulty is a fraction here, not a percentage.
DrillItem(rows, ranks, marks, s, c) ==
  LET T == Takers(rows, s)
      C == InClass(T, c)
      M == InClass(Takers(marks, s), c)
      row == RowOf(rows, s, C)
      sum(U) == SumOver(U, LAMBDA st : Points(rows, s, st))
      full == FullOf(rows, s) IN
  [stats |-> [row EXCEPT !.n = IF s = All THEN Cardinality(M) ELSE row.n,
                         !.std = RowOf(marks, s, M).std],
   full |-> full,
   gradeAvg |-> RowOf(rows, s, T).avg,
   diff |-> IF C = {} THEN -RowOf(rows, s, T).avg
            ELSE RoundDiv(100 * (sum(C) * Cardinality(T) - sum(T) * row.n), Cardinality(T) * row.n),
   rank |-> ClassRank(ranks, s, c),
   ranked |-> Cardinality(ClassesOf(Takers(ranks, s))),
   difficulty |-> IF full = 0 THEN 0 ELSE RoundDiv(row.avg, full),
   discrimination |-> calculateDiscrimination(marks, s, M, full)]

ClassSubjectSummary(x, c) ==
  [subjects |-> [t \in SubjectsOf(x.rows) |-> DrillItem(x.rows, x.ranks, x[t], t, c)],
   overall |-> DrillItem(x.overall, x.overallRanks, x.marks, All, c)]

-----------------------------------------------------------------------------
(* GetRatingDistribution *)

Rates == {"excellent", "good", "medium", "pass", "low"}

\* A threshold of 0 means the default.
DefaultThreshold == [excellent |-> 85, good |-> 76, medium |-> 68, pass |-> 60, low |-> 40]
Threshold(th) == [k \in Rates |-> IF th[k] = 0 THEN DefaultThreshold[k] ELSE th[k]]

\* A student's rate is won / all percent; without a full score it is NULL.
All100(v, s, st) == SumOver({t \in Scope(s) : <<st, t>> \in v.took}, LAMBDA t : FullScore(v, t))
Won(v, s, st) ==
  SumOver({t \in Scope(s) : <<st, t>> \in v.took /\ FullScore(v, t) > 0}, LAMBDA t : Mark[<<st, t>>])

Reaches(v, s, st, t) == All100(v, s, st) > 0 /\ 100 * Won(v, s, st) >= t * All100(v, s, st)
Misses(v, s, st, t)  == All100(v, s, st) > 0 /\ 100 * Won(v, s, st) < t * All100(v, s, st)

\* Mutant: without the defaults.
CountedAsSent(v, s, T, k, th) ==
  Cardinality({st \in T : IF k = "low" THEN Misses(v, s, st, th[k]) ELSE Reaches(v, s, st, th[k])})

Counted(v, s, T, k, th) ==
  Cardinality({st \in T : IF k = "low" THEN Misses(v, s, st, Threshold(th)[k])
                                       ELSE Reaches(v, s, st, Threshold(th)[k])})

Percent(n, total) == IF total = 0 THEN 0 ELSE RoundDiv(10000 * n, total)

RatingDistribution(x, s, th) ==
  LET total == Cardinality(Takers(x.count, s))
      T == Takers(x.rows, s)
      Rating(n, U) == [n |-> n,
                       count |-> [k \in Rates |-> Counted(x.rows, s, U, k, th)],
                       percent |-> [k \in Rates |-> Percent(Counted(x.rows, s, U, k, th), n)]] IN
  [config |-> Threshold(th),
   classes |-> [c \in ClassesOf(T) |-> Rating(Cardinality(InClass(T, c)), InClass(T, c))],
   grade |-> Rating(total, T)]

-----------------------------------------------------------------------------
(* GetScoreSegment *)

\* Mutant: every range has its upper bound.
InRangeClosed(rg, p) == rg.min <= p /\ p <= rg.max

InRange(rg, p) == rg.min <= p /\ (p < rg.max \/ (rg.isLast /\ p = rg.max))

\* The ranges of each segment: Round((End - Start) / Step) of them, at least one,
\* the last of which ends where the segment ends.  Where a range ends and where the
\* next begins are computed, and rounded, each in its own way.
Steps(g) == AtLeast1(RoundDiv(Fl(g.end - g.start), g.step))

expandSegments(segs) ==
  [ki \in UNION {{k} \X (0 .. Steps(segs[k]) - 1) : k \in DOMAIN segs} |->
     LET g == segs[ki[1]]
         lo == Fl(g.start + Fl(ki[2] * g.step))
         hi == Fl(lo + g.step)
         isEnd == ki[2] = Steps(g) - 1 IN
     [min |-> lo,
      max |-> IF isEnd \/ hi > g.end THEN g.end ELSE hi,
      isLast |-> isEnd /\ ki[1] = Len(segs)]]

ScoreSegment(x, s, segs) ==
  LET ranges == expandSegments(segs)
      T == Takers(x.rows, s)
      Counts(U) == [i \in DOMAIN ranges |->
                      Cardinality({st \in U : InRange(ranges[i], Points(x.rows, s, st) * Unit)})] IN
  [classes |-> [c \in ClassesOf(T) |-> [n |-> Cardinality(InClass(T, c)), counts |-> Counts(InClass(T, c))]],
   grade |-> [n |-> Cardinality(Takers(x.count, s)), counts |-> Counts(T)]]

-----------------------------------------------------------------------------
(* GetRankSegment *)

\* RANK() OVER (ORDER BY points DESC): ties share the better rank.
RankIn(v, s, T, st) == 1 + Cardinality({u \in T : Points(v, s, u) > Points(v, s, st)})

RankSegment(x, s, segs) ==
  LET T == Takers(x.rows, s)
      Counts(U) == [i \in DOMAIN segs |->
        Cardinality({st \in U : RankIn(x.rows, s, T, st) \in segs[i].start + 1 .. segs[i].end})] IN
  [classes |-> [c \in ClassesOf(T) |-> [n |-> Cardinality(InClass(T, c)), counts |-> Counts(InClass(T, c))]],
   grade |-> [n |-> Cardinality(Takers(x.count, s)), counts |-> Counts(T)]]

-----------------------------------------------------------------------------
(* The question reports *)

\* The students with a row for the question of s.
AskedOf(v, s) == {st \in Students : <<st, s>> \in v.asked}

\* STDDEV_SAMP divides by n - 1, and is NULL, then 0, for one student.
QuestionRow(s, T) == Row(T, LAMBDA st : Mark[<<st, s>>], LAMBDA n : n - 1)

\* An import takes the best mark of a sheet for the question's full score, and 0 when
\* none is better.
QuestionFull(s, T) == Max({0} \cup {Mark[<<st, s>>] : st \in T})

\* GetSingleClassQuestions: the question, unless the class has no row for it.
SingleClassQuestions(x, s, c) ==
  LET A == AskedOf(x.rows, s)
      avg == QuestionRow(s, InClass(A, c)).avg
      full == QuestionFull(s, A) IN
  {[full |-> full, avg |-> avg, gradeAvg |-> QuestionRow(s, A).avg,
    rate |-> calculateDifficulty(avg, 1, full)] : st \in InClass(A, c)}

\* GetSingleQuestionSummary; its groups are 27 % of the students, rounded up.
SingleQuestionSummary(x, s) ==
  LET A == AskedOf(x.rows, s)
      B == AskedOf(x.breakdown, s)
      G == AskedOf(x.groups, s)
      row == QuestionRow(s, A) IN
  [stats |-> row,
   rate |-> calculateDifficulty(row.avg, 1, QuestionFull(s, A)),
   classes |-> [c \in ClassesOf(B) |-> QuestionRow(s, InClass(B, c))],
   discrimination |-> Discrimination(G, LAMBDA st : Mark[<<st, s>>],
                        (27 * Cardinality(G) + 99) \div 100, QuestionFull(s, G))]

\* Mutant: the lowest average first.
QuestionRankAscending(row, c) == Cardinality({d \in DOMAIN row : row[d].avg <= row[c].avg})

\* By the rounded average, best first, then by id.
QuestionRank(row, c) ==
  1 + Cardinality({d \in DOMAIN row :
        row[d].avg > row[c].avg \/ (row[d].avg = row[c].avg /\ d < c)})

SingleQuestionClassCompare(x, s) ==
  LET A == AskedOf(x.rows, s)
      B == AskedOf(x.breakdown, s)
      full == QuestionFull(s, A)
      grade == QuestionRow(s, A)
      row == [c \in ClassesOf(B) |-> QuestionRow(s, InClass(B, c))] IN
  [stats |-> grade,
   rate |-> calculateDifficulty(grade.avg, 1, full),
   classes |-> [c \in DOMAIN row |->
                  [stats |-> row[c], rate |-> calculateDifficulty(row[c].avg, 1, full),
                   diff |-> row[c].avg - grade.avg, rank |-> QuestionRank(row, c)]]]

\* GetSingleQuestionDetail: the students with a row for the question, of one class
\* or (class 0) of all; both ranks are positions in the list of these, best first,
\* then by id.  Their rates are left out.
AskedIn(v, s, c) == {st \in AskedOf(v, s) : c = 0 \/ ClassOf[st] = c}

Ahead(s, a, b) ==
  \/ Mark[<<a, s>>] > Mark[<<b, s>>]
  \/ Mark[<<a, s>>] = Mark[<<b, s>>] /\ a < b

Position(s, T, st) == 1 + Cardinality({u \in T : Ahead(s, u, st)})

SingleQuestionDetail(x, s, c) ==
  LET T == AskedIn(x.rows, s, c) IN
  [st \in T |-> [classRank |-> Position(s, T, st), gradeRank |-> Position(s, T, st)]]
=============================================================================
