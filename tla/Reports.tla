------------------------------ MODULE Reports ------------------------------
(***************************************************************************)
(* The analysis requests of SEAS over the store of ExamStore.  A request   *)
(* checks that its user may see the exam and then runs its queries one     *)
(* after the other, without a transaction: imports, updates and deletions  *)
(* commit between them, and the report puts together what its queries saw  *)
(* at different times.  ScoreStats says what it computes from that.        *)
(***************************************************************************)
EXTENDS Service, SequencesExt

CONSTANTS
  Users, Exams, PublicExams, FullScores, Unborn, Gone,
  Batches,    \* sets of scores an import may insert,
  Sheets,     \* and that a detail sheet may give question rows
  Requests,   \* the analysis requests
  Asks        \* what a request may ask for

QuestionKinds == {"questions", "summary", "compare", "detail"}
Kinds == QuestionKinds \cup {"subject", "class", "single", "drill", "rating", "segment", "rank"}

ASSUME ReportsAssumption ==
  /\ FullScores \subseteq Int
  /\ None \notin Asks /\ Unborn # Gone /\ {Unborn, Gone} \cap (Users \cup {Nobody}) = {}
  /\ \A a \in Asks : /\ a.kind \in Kinds /\ a.user \in Users \cup {Nobody}
                     /\ a.exam \in Exams /\ a.subject \in Subjects \cup {All}
                     /\ a.class \in Classes \cup {0}
                     /\ a.kind \in QuestionKinds \cup {"single"} => a.subject # All
                     /\ a.kind = "drill" => a.subject = All
                     /\ a.kind = "rating" => a.config \in [Rates -> Int]
                     /\ a.kind = "segment" => a.config \in Seq([start : Floats, end : Floats, step : Floats])
                     /\ a.kind = "rank" => a.config \in Seq([start : Int, end : Int])

VARIABLES
  exams, examSubjects, scores, items,   \* the store, as in ExamStore
  ask,      \* what a request asks for, once it has arrived
  state,    \* "check", "running", "answered" or "failed"
  todo,     \* the queries it has left
  seen      \* what each query saw of its exam

tables == <<exams, examSubjects, scores, items>>
vars   == <<tables, ask, state, todo, seen>>

Store == INSTANCE ExamStore

\* The rows about exam e.
ViewOf(e) ==
  [name  |-> Store!Live(e),
   full  |-> [s \in Subjects |-> examSubjects[<<e, s>>]],
   took  |-> {<<k.student, k.subject>> : k \in {j \in scores : j.exam = e}},
   asked |-> {<<k.student, k.subject>> : k \in {j \in scores : j.exam = e /\ items[j] > 0}}]

Init ==
  /\ Store!Init
  /\ ask = [r \in Requests |-> None]
  /\ state = [r \in Requests |-> "check"]
  /\ todo = [r \in Requests |-> <<>>]
  /\ seen = [r \in Requests |-> <<>>]

\* Bound: what happens to the store after the last report does not matter.
Waited == \E r \in Requests : state[r] \in {"check", "running"}

\* Whatever the other requests do to the store.
Write ==
  /\ Waited
  /\ \E e \in Exams :
       \/ Store!Create(e)
       \/ Store!LinkSubjects(e)
       \/ Store!SetFullScore(e)
       \/ \E K \in Batches : Store!RecordScores(e, K)
       \/ \E K \in Sheets : Store!RecordItems(e, K)
       \/ Store!Live(e) /\ Store!Delete(e)
  /\ UNCHANGED <<ask, state, todo, seen>>

(* The queries of each kind of report, in the order they run.  The last asks for the
   name of the exam; other queries for names are left out. *)
SubjectQueries  == <<"count", "rows", "classes", "name">>
ClassQueries    == <<"count", "full", "rows", "overall", "marks", "name">>
RatingQueries   == <<"count", "rows", "name">>
SegmentQueries  == <<"count", "rows", "name">>
QuestionQueries == <<"rows", "name">>
SummaryQueries  == <<"rows", "breakdown", "groups", "name">>
CompareQueries  == <<"rows", "breakdown", "name">>

\* Mutant: the grade before its classes.
GradeFirst    == <<"full", "grade", "rows", "marks", "name">>
SingleQueries == <<"full", "rows", "grade", "marks", "name">>

\* Mutant: the ranks of the classes in all subjects before their figures.
DrillRanksFirst == <<"rows", "ranks", "overallRanks", "overall", "marks", "name">>
DrillQueries    == <<"rows", "ranks", "overall", "overallRanks", "marks", "name">>

\* Mutant: the name first.
RankNameFirst == <<"name", "rows", "count">>
RankQueries   == <<"rows", "count", "name">>

Queries ==
  [subject |-> SubjectQueries, class |-> ClassQueries, single |-> SingleQueries,
   drill |-> DrillQueries, rating |-> RatingQueries, segment |-> SegmentQueries,
   rank |-> RankQueries, questions |-> QuestionQueries, summary |-> SummaryQueries,
   compare |-> CompareQueries, detail |-> QuestionQueries]

\* What a request saw is kept by the name of the query, or by its subject.
ASSUME QueriesNamed == \A k \in Kinds : ToSet(Queries[k]) \cap Subjects = {}

\* The queries a runs next, after q with the rows v.  A subject stands for the query
\* for the points of its students: a loop over the subjects the rows list.
Following(a, q, rows) ==
  CASE a.kind = "subject" /\ a.subject # All /\ q = "rows" -> <<a.subject>>
    [] a.kind = "subject" /\ a.subject = All /\ q = "classes" -> SetToSeq(SubjectsOf(rows))
    [] a.kind = "drill" /\ q = "ranks" -> SetToSeq(SubjectsOf(rows))
    [] OTHER -> <<>>

\* The classes of a summary of one subject are not counted.
QueriesOf(a) ==
  IF a.kind = "subject" /\ a.subject # All THEN <<"count", "rows", "name">>
  ELSE Queries[a.kind]

\* Their errors are dropped or only logged; the result is then empty.
Ignored(a, q) ==
  \/ q \in {"full", "marks", "classes", "name"} \cup Subjects
  \/ q = "overall" /\ a.kind = "class"

\* The tables a query reads.
Reads(kind, q) ==
  CASE q = "name"                                                      -> {"name"}
    [] q = "full" \/ (q = "overall" /\ kind = "class")                 -> {"full"}
    [] q \in {"rows", "overall"} /\ kind \in {"subject", "drill", "rating"} -> {"took", "full"}
    [] kind \in QuestionKinds                                          -> {"asked"}
    [] OTHER                                                           -> {"took"}

\* Mutant: never answers.
AdvanceOn(r, l) ==
  /\ todo' = [todo EXCEPT ![r] = l]
  /\ state' = [state EXCEPT ![r] = "running"]

Advance(r, l) ==
  /\ todo' = [todo EXCEPT ![r] = l]
  /\ state' = [state EXCEPT ![r] = IF l = <<>> THEN "answered" ELSE "running"]

Refuse(r) == state' = [state EXCEPT ![r] = "failed"] /\ UNCHANGED todo

Arrive(r, a) ==
  /\ state[r] = "check"
  /\ ask' = [ask EXCEPT ![r] = a]

\* Mutant: the exam has only to be there.
CheckExists(r, a) ==
  /\ Arrive(r, a)
  /\ IF Store!Live(a.exam) THEN Advance(r, QueriesOf(a)) ELSE Refuse(r)
  /\ UNCHANGED <<tables, seen>>

\* A report on segments that lists none asks for the name only.
CheckExamOwnership(r, a) ==
  /\ Arrive(r, a)
  /\ IF Store!Live(a.exam) /\ exams[a.exam] \in {Nobody, a.user}
     THEN Advance(r, IF a.kind \in {"segment", "rank"} /\ a.config = <<>>
                     THEN <<"name">> ELSE QueriesOf(a))
     ELSE Refuse(r)
  /\ UNCHANGED <<tables, seen>>

\* The query at the head of the list has the result it has on the view v.
See(r, v) ==
  LET q == Head(todo[r])
      result == [t \in Reads(ask[r].kind, q) |-> v[t]]
      all == [p \in DOMAIN seen[r] \cup {q} |-> IF p = q THEN result ELSE seen[r][p]] IN
  /\ seen' = [seen EXCEPT ![r] = all]
  /\ Advance(r, (IF "rows" \in DOMAIN all THEN Following(ask[r], q, all.rows) ELSE <<>>)
                 \o Tail(todo[r]))

\* The query for the classes of a summary of one subject can fail on its data.
NullAhead(r) ==
  /\ state[r] = "running" /\ ask[r].kind = "class" /\ Head(todo[r]) = "rows"
  /\ NullInClassRows(ViewOf(ask[r].exam), ask[r].subject)

Query(r) ==
  /\ state[r] = "running"
  /\ IF NullAhead(r) THEN Refuse(r) /\ UNCHANGED seen ELSE See(r, ViewOf(ask[r].exam))
  /\ UNCHANGED <<tables, ask>>

\* A query fails: the database is busy, or the request is cancelled.
FailQuery(r) ==
  /\ state[r] = "running"
  /\ IF Ignored(ask[r], Head(todo[r])) THEN See(r, Nothing) ELSE Refuse(r) /\ UNCHANGED seen
  /\ UNCHANGED <<tables, ask>>

\* Every request has been answered: nothing is left to do.
AllAnswered == (\A r \in Requests : state[r] \in {"answered", "failed"}) /\ UNCHANGED vars

Next ==
  \/ Write
  \/ \E r \in Requests, a \in Asks : CheckExamOwnership(r, a)
  \/ \E r \in Requests : Query(r) \/ FailQuery(r)
  \/ AllAnswered

Spec == Init /\ [][Next]_vars

-----------------------------------------------------------------------------
(* Properties *)

Answered(r, k) == state[r] = "answered" /\ ask[r].kind = k /\ "rows" \in DOMAIN seen[r]

\* The reply has the name of the exam: the last query found it.
Named(r) == seen[r]["name"].name

\* Nothing changed between the queries of r that read it, and none failed.
Quiet(r) ==
  \A q1, q2 \in DOMAIN seen[r] : \A t \in DOMAIN seen[r][q1] \cap DOMAIN seen[r][q2] :
     seen[r][q1][t] = seen[r][q2][t]

AskOrNone == Asks \cup {None}

\* Every request's record has its type, and it runs exactly while it has a query left.
TypeOK ==
  /\ ask \in [Requests -> AskOrNone]
  /\ state \in [Requests -> {"check", "running", "answered", "failed"}]
  /\ \A r \in Requests : ask[r] # None =>
       LET Q == ToSet(Queries[ask[r].kind]) \cup Subjects IN
       /\ todo[r] \in Seq(Q)
       /\ DOMAIN seen[r] \subseteq Q
       /\ state[r] = "running" => todo[r] # <<>>

\* Only the owner of an exam, or anybody while it is public, gets to read it: the
\* check is one statement and every query a later one.
OwnersRead ==
  \A r \in Requests : seen[r] # <<>> => exams[ask[r].exam] \in {Nobody, ask[r].user, Gone}

\* The grade row of a class summary is put together from rounded class rows: with
\* nothing changing meanwhile it counts everybody once, has the true extremes (when
\* all the points lie between 0 and 999, where the search for them starts), is
\* within a hundredth of the true average, and its deviation, which is the one
\* within the classes, is larger than the true one by a hundredth at most.
GradeRowTrue ==
  \A r \in Requests : Answered(r, "class") /\ Quiet(r) =>
    LET s == ask[r].subject
        T == Takers(seen[r].rows, s)
        true == RowOf(seen[r].rows, s, T)
        rep == GetClassSummary(ask[r], seen[r]).report
        rows == rep.classes
        g == rep.grade.stats
        points(st) == Points(seen[r].rows, s, st)
        sum == SumOver(T, points) IN
    /\ g.n = SumOver(DOMAIN rows, LAMBDA c : rows[c].stats.n)
    /\ T # {} /\ (\A st \in T : points(st) \in 0 .. 999) => g.high = true.high /\ g.low = true.low
    /\ g.n * g.avg - 100 * sum \in -g.n .. g.n
    /\ g.std <= true.std + 1

\* The counts of a rating are nested whatever happens between its two queries,
\* when its thresholds, defaults filled in, are; and nobody is both passed and low.
\* With nothing changing meanwhile no rate of the grade exceeds 100 %.
RatingSound ==
  \A r \in Requests : Answered(r, "rating") =>
    LET rep == GetRatingDistribution(ask[r], seen[r]).report
        th == rep.config
        Nested(row) == /\ row.count.excellent <= row.count.good
                       /\ row.count.good <= row.count.medium
                       /\ row.count.medium <= row.count.pass IN
    /\ th.excellent >= th.good /\ th.good >= th.medium /\ th.medium >= th.pass =>
         Nested(rep.grade) /\ \A c \in DOMAIN rep.classes : Nested(rep.classes[c])
    /\ th.pass >= th.low => \A c \in DOMAIN rep.classes :
         rep.classes[c].count.pass + rep.classes[c].count.low <= rep.classes[c].n
    /\ Quiet(r) => \A k \in Rates : rep.grade.percent[k] <= 10000

\* The whole numbers that float64 has.
WholeNumbers == {n * Unit : n \in 0 .. Exact}

\* Segments that follow on each other and hold the points of all the students T.
Covers(segs, v, s, T) ==
  /\ \A i \in DOMAIN segs : segs[i].start < segs[i].end /\ segs[i].step > 0
  /\ \A i \in 1 .. Len(segs) - 1 : segs[i].end = segs[i + 1].start
  /\ \A st \in T : Points(v, s, st) * Unit \in segs[1].start .. segs[Len(segs)].end

CountsOnce(rep) ==
  LET total(row) == SumOver(DOMAIN row.counts, LAMBDA i : row.counts[i]) IN
  /\ total(rep.grade) = rep.grade.n
  /\ \A c \in DOMAIN rep.classes : total(rep.classes[c]) = rep.classes[c].n

\* Segments of whole numbers that follow on each other and hold everybody's points count
\* everybody once: no student falls between two ranges, or into both, whether the
\* (positive) step divides the segment or not.
SegmentsPartition ==
  \A r \in Requests :
    /\ Answered(r, "segment") /\ Quiet(r)
    /\ \A i \in DOMAIN ask[r].config :
         {ask[r].config[i].start, ask[r].config[i].end, ask[r].config[i].step} \subseteq WholeNumbers
    /\ Covers(ask[r].config, seen[r].rows, ask[r].subject, Takers(seen[r].rows, ask[r].subject))
    => CountsOnce(GetScoreSegment(ask[r], seen[r]).report)

\* What the rows of a report list is a part of what its later query, for the number of
\* participants or for the grade, finds, even when imports commit between the two; and
\* when the exam is deleted between them, the reply does not name it.
LaterQuery == [rank |-> "count", single |-> "grade"]

RowsCovered ==
  \A r \in Requests, k \in DOMAIN LaterQuery : Answered(r, k) /\ Named(r) =>
    seen[r]["rows"].took \subseteq seen[r][LaterQuery[k]].took

\* Rank segments that do not overlap never hold more students than took part, even
\* when an import commits between the two queries: the ranks are read first.
RankSegmentsFit ==
  \A r \in Requests : Answered(r, "rank") /\ Named(r) =>
    LET segs == ask[r].config
        rep == GetRankSegment(ask[r], seen[r]).report IN
    (\A i, j \in DOMAIN segs : i < j => segs[i].end <= segs[j].start)
    => SumOver(DOMAIN segs, LAMBDA i : rep.grade.counts[i]) <= rep.grade.n

\* The grade row of the summary of one subject's classes covers its class rows,
\* even when imports commit between the two queries: the classes are read first.
GradeCoversClasses ==
  \A r \in Requests : Answered(r, "single") /\ Named(r) =>
    LET rep == GetSingleClassSummary(ask[r], seen[r]).report
        g == rep.grade.stats IN
    /\ SumOver(DOMAIN rep.classes, LAMBDA c : rep.classes[c].stats.n) <= g.n
    /\ \A c \in DOMAIN rep.classes :
         g.low <= rep.classes[c].stats.low /\ rep.classes[c].stats.high <= g.high

\* The drill-down of a class ranks it, in all and in every subject it has points in,
\* among as many classes as are ranked, even when imports commit between its queries:
\* the figures are read before the ranks.
DrillRanked ==
  \A r \in Requests : Answered(r, "drill") /\ Named(r) =>
    LET rep == GetClassSubjectSummary(ask[r], seen[r]).report IN
    \A item \in {rep.subjects[s] : s \in DOMAIN rep.subjects} \cup {rep.overall} :
      /\ item.rank <= item.ranked
      /\ item.stats.high > 0 => item.rank > 0

\* With nothing changing meanwhile the classes a question compares make up the grade:
\* their differences from its average balance out, up to rounding, and a class of a
\* better rank does not have the lower average.
CompareBalanced ==
  \A r \in Requests : Answered(r, "compare") /\ Quiet(r) =>
    LET rep == GetSingleQuestionClassCompare(ask[r], seen[r]).report
        C == DOMAIN rep.classes
        n(c) == rep.classes[c].stats.n
        total == rep.stats.n IN
    /\ SumOver(C, n) = total
    /\ SumOver(C, LAMBDA c : n(c) * rep.classes[c].diff) \in -total .. total
    /\ {rep.classes[c].rank : c \in C} = 1 .. Cardinality(C)
    /\ \A c, d \in C : rep.classes[c].rank < rep.classes[d].rank =>
          rep.classes[c].diff >= rep.classes[d].diff

\* Two reports on the same scores do not contradict each other: each of them asks the
\* database in a way of its own.  (About the store alone: it is enough to look at it
\* before the requests run.)
ReportsAgree ==
  \A e \in Exams : (\A r \in Requests : state[r] = "check") =>
    LET v == ViewOf(e)
        x == [q \in Subjects \cup {"count", "rows", "classes", "full", "grade", "overall",
                "ranks", "overallRanks", "marks", "breakdown", "groups"} |-> v]
        subjects == SubjectSummary(x, All).subjects IN
    /\ \A s \in DOMAIN subjects :
         LET single == SingleClassSummary(x, s)
             subject == subjects[s] IN
         /\ subject.stats = single.grade.stats
         /\ subject.difficulty = single.grade.difficulty
         /\ subject.discrimination = single.grade.discrimination
         /\ SubjectSummary(x, s).subjects[s] = subject
         /\ \A c \in DOMAIN single.classes :
              LET drill == ClassSubjectSummary(x, c).subjects[s] IN
              /\ drill.stats = single.classes[c].stats
              /\ drill.gradeAvg = single.grade.stats.avg
              /\ drill.discrimination = single.classes[c].discrimination
              /\ drill.diff - single.classes[c].deviation \in -1 .. 1
    /\ \A c \in DOMAIN ClassSummary(x, All).classes :
         LET all == ClassSummary(x, All)
             drill == ClassSubjectSummary(x, c).overall IN
         /\ drill.stats = all.classes[c].stats
         /\ drill.gradeAvg - all.grade.stats.avg \in -1 .. 1
    /\ \A s \in Subjects :
         LET summary == SingleQuestionSummary(x, s)
             compare == SingleQuestionClassCompare(x, s) IN
         /\ summary.stats = compare.stats /\ summary.rate = compare.rate
         /\ DOMAIN summary.classes = DOMAIN compare.classes
         /\ \A c \in DOMAIN compare.classes :
              /\ summary.classes[c] = compare.classes[c].stats
              /\ \A q \in SingleClassQuestions(x, s, c) :
                   /\ q.avg = summary.classes[c].avg /\ q.gradeAvg = summary.stats.avg
                   /\ q.rate = compare.classes[c].rate

-----------------------------------------------------------------------------
(* What the code or its interface says and a report does not do *)

\* stddevAgg.Step supposes that no query hands it a NULL.  (The summary of the
\* classes for one subject does as soon as a student lacks the score.)
NoNullToStdDev == \A r \in Requests : ~NullAhead(r)

\* The difficulty is average / full score, so that of the grade lies between those
\* of its classes.  (For one subject the grade row divides by the full score of
\* all subjects.)
GradeDifficultyBetween ==
  \A r \in Requests : Answered(r, "class") /\ Quiet(r) =>
    LET rep == GetClassSummary(ask[r], seen[r]).report
        D == {rep.classes[c].difficulty : c \in DOMAIN rep.classes} IN
    D # {} => rep.grade.difficulty \in Min(D) - 1 .. Max(D) + 1

\* The number of ranges is a whole one so that the precision of floating-point numbers
\* does no harm: neighbouring ranges leave no gap and do not overlap.  (They do when the
\* step is a fraction: where a range ends is not where the next begins.)
RangesMeet ==
  \A r \in Requests :
    /\ Answered(r, "segment") /\ Quiet(r)
    /\ Covers(ask[r].config, seen[r].rows, ask[r].subject, Takers(seen[r].rows, ask[r].subject))
    => CountsOnce(GetScoreSegment(ask[r], seen[r]).report)

\* The details of a question give a student's rank in the class and in the grade.
\* (Both are the rank among the students listed, those of the class.)
GradeRankOfGrade ==
  \A r \in Requests : Answered(r, "detail") =>
    LET s == ask[r].subject
        rep == GetSingleQuestionDetail(ask[r], seen[r]).report IN
    \A st \in DOMAIN rep : rep[st].gradeRank = Position(s, AskedIn(seen[r].rows, s, 0), st)
=============================================================================
