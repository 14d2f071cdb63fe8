------------------------------- MODULE Lists -------------------------------
(***************************************************************************)
(* The lists of SEAS: the exams a user may see and the subjects of an exam.*)
(* A request counts, reads one page and asks for what the page shows of    *)
(* each row, in statements of their own and without a transaction, while   *)
(* the store of ExamStore changes between them.                            *)
(***************************************************************************)
EXTENDS Integers, Sequences, FiniteSetsExt, SequencesExt, Api

CONSTANTS
  Users, Exams, PublicExams, Subjects, Students, FullScores,
  Unborn, Gone, None,
  Date,       \* the date of each exam
  Keywords,   \* what a client may search for; Unset searches for nothing
  Named,      \* the exams whose name holds a keyword
  Half,       \* half of the values of a page's number and size (2^31 in the code)
  Studied,    \* bound: the exams that get subjects, full scores and scores
  Batches,    \* sets of scores an import may insert
  Requests,
  Asks        \* what a request may ask for

Int32 == -Half .. Half - 1

ASSUME ListsAssumption ==
  /\ Half \in Nat \ {0} /\ Studied \subseteq Exams
  /\ IsFiniteSet(Exams) /\ IsFiniteSet(Subjects) /\ IsFiniteSet(Students)
  /\ Nobody \notin Users /\ Unborn # Gone /\ None \notin FullScores
  /\ {Unborn, Gone} \cap (Users \cup {Nobody}) = {}
  /\ Named \in [Keywords -> SUBSET Exams] /\ Date \in [Exams -> Int]
  /\ \A a \in Asks : /\ {"kind", "index", "size"} \subseteq DOMAIN a
                     /\ a.kind \in {"exams", "subjects"}
                     /\ a.user \in Users \cup {Nobody}
                     /\ a.kind = "exams" => a.keyword \in Keywords \cup {Unset}
                     /\ a.kind = "subjects" => a.exam \in Exams
                     /\ a.index \in Int32 /\ a.size \in Int32

VARIABLES
  exams, examSubjects, scores, items,   \* the store, as in ExamStore
  ask,      \* what a request asks for (never changes)
  state,    \* "count", "page", "rest", "answered" or "failed"
  total,    \* the rows the request counted
  page,     \* the rows of its page, in order
  shown,    \* what it shows of each: an exam's students, a subject's full score
  rows      \* history: all rows that were there, first for the count, then for the page

tables  == <<exams, examSubjects, scores, items>>
request == <<ask, state, total, page, shown, rows>>
vars    == <<tables, request>>

Store == INSTANCE ExamStore

Init ==
  /\ Store!Init
  /\ ask \in [Requests -> Asks]
  /\ state = [r \in Requests |-> "count"]
  /\ total = [r \in Requests |-> 0]
  /\ page = [r \in Requests |-> <<>>]
  /\ shown = [r \in Requests |-> <<>>]
  /\ rows = [r \in Requests |-> <<>>]

\* Bound: what happens to the store after the last answer does not matter.
Waited == \E r \in Requests : state[r] \notin {"answered", "failed"}

\* Whatever the other requests do to the store.
Write ==
  /\ Waited
  /\ \/ \E e \in Exams : Store!Create(e) \/ (Store!Live(e) /\ Store!Delete(e))
     \/ \E e \in Studied : \/ Store!LinkSubjects(e)
                           \/ Store!SetFullScore(e)
                           \/ \E K \in Batches : Store!RecordScores(e, K)
  /\ UNCHANGED request

-----------------------------------------------------------------------------
(* What a message asks for: no page is page 0 of 0 rows *)

Number(v) == IF v = Unset THEN 0 ELSE v

ListExamsAsk(u, m) ==
  [kind |-> "exams", user |-> u, keyword |-> m.keyword,
   index |-> Number(m.page_index), size |-> Number(m.page_size)]

ListSubjectsAsk(u, m) ==
  [kind |-> "subjects", user |-> u, exam |-> m.exam_id,
   index |-> Number(m.page_index), size |-> Number(m.page_size)]

-----------------------------------------------------------------------------
(* The rows of a list *)

\* Mutant: OR binds weaker than AND.
VisibleOrNamed(a) ==
  {e \in Exams : \/ exams[e] = Nobody /\ (a.keyword = Unset \/ e \in Named[a.keyword])
                 \/ exams[e] = a.user}

\* The exams of the user, the public ones included, whose name holds the keyword.
Visible(a) ==
  {e \in Exams : /\ exams[e] \in {Nobody, a.user}
                 /\ a.keyword = Unset \/ e \in Named[a.keyword]}

Linked(e) == {s \in Subjects : examSubjects[<<e, s>>] # None}

RowsOf(a) == IF a.kind = "exams" THEN Visible(a) ELSE Linked(a.exam)

Wrapped(n) == ((n + Half) % (2 * Half)) - Half

\* Mutant: pages numbered from 0.
OffsetFrom0(a) == Wrapped(a.index * a.size)

Offset(a) == Wrapped((a.index - 1) * a.size)

\* Any order the database may give the rows: exams by their date, latest first.
Orders(a, R) ==
  {o \in SetToSeqs(R) : a.kind = "exams" =>
     \A i, j \in DOMAIN o : i < j => Date[o[i]] >= Date[o[j]]}

\* OFFSET skips nothing if it is negative, LIMIT then takes everything.
Page(a, o) ==
  LET first == Max({0, Offset(a)}) + 1
      last == IF a.size < 0 THEN Len(o) ELSE Min({Len(o), first - 1 + a.size}) IN
  SubSeq(o, first, last)

\* Mutant: one for each score.
StudentsOfScores(e) == Cardinality({k \in scores : k.exam = e})

StudentCount(e) == Cardinality({k.student : k \in {j \in scores : j.exam = e}})

\* Mutant: only with a score.
FullScoreScored(e, s) ==
  IF \E k \in scores : k.exam = e /\ k.subject = s THEN examSubjects[<<e, s>>] ELSE 0

\* 0 when the relation has gone.
FullScore(e, s) == IF examSubjects[<<e, s>>] = None THEN 0 ELSE examSubjects[<<e, s>>]

-----------------------------------------------------------------------------
(* The statements of a request *)

Count(r) ==
  /\ state[r] = "count"
  /\ total' = [total EXCEPT ![r] = Cardinality(RowsOf(ask[r]))]
  /\ rows' = [rows EXCEPT ![r] = <<RowsOf(ask[r])>>]
  /\ state' = [state EXCEPT ![r] = "page"]
  /\ UNCHANGED <<tables, ask, page, shown>>

\* Mutant: an empty page is asked about too.
FindAnyway(r) ==
  /\ state[r] = "page"
  /\ \E o \in Orders(ask[r], RowsOf(ask[r])) : page' = [page EXCEPT ![r] = Page(ask[r], o)]
  /\ rows' = [rows EXCEPT ![r] = <<@[1], RowsOf(ask[r])>>]
  /\ state' = [state EXCEPT ![r] = "rest"]
  /\ UNCHANGED <<tables, ask, total, shown>>

\* An empty page needs nothing more.
Find(r) ==
  /\ state[r] = "page"
  /\ \E o \in Orders(ask[r], RowsOf(ask[r])) : page' = [page EXCEPT ![r] = Page(ask[r], o)]
  /\ rows' = [rows EXCEPT ![r] = <<@[1], RowsOf(ask[r])>>]
  /\ state' = [state EXCEPT ![r] = IF page'[r] = <<>> THEN "answered" ELSE "rest"]
  /\ UNCHANGED <<tables, ask, total, shown>>

\* One query for the students of all exams of the page; its error counts nobody.
GetExamStudentCounts(r) ==
  /\ state[r] = "rest" /\ ask[r].kind = "exams"
  /\ \/ shown' = [shown EXCEPT ![r] = [e \in ToSet(page[r]) |-> StudentCount(e)]]
     \/ shown' = [shown EXCEPT ![r] = [e \in ToSet(page[r]) |-> 0]]
  /\ state' = [state EXCEPT ![r] = "answered"]
  /\ UNCHANGED <<tables, ask, total, page, rows>>

\* One query for each subject of the page; its error means 100.
GetSubjectFullScore(r) ==
  LET s == page[r][Cardinality(DOMAIN shown[r]) + 1]
      Shows(v) == shown' = [shown EXCEPT ![r] = [t \in DOMAIN @ \cup {s} |-> IF t = s THEN v ELSE @[t]]] IN
  /\ state[r] = "rest" /\ ask[r].kind = "subjects"
  /\ Shows(FullScore(ask[r].exam, s)) \/ Shows(100)
  /\ state' = [state EXCEPT ![r] = IF s = Last(page[r]) THEN "answered" ELSE "rest"]
  /\ UNCHANGED <<tables, ask, total, page, rows>>

\* The count or the page fails.
Fail(r) ==
  /\ state[r] \in {"count", "page"}
  /\ state' = [state EXCEPT ![r] = "failed"]
  /\ UNCHANGED <<tables, ask, total, page, shown, rows>>

\* Every request has been answered: nothing is left to do.
AllAnswered == (\A r \in Requests : state[r] \in {"answered", "failed"}) /\ UNCHANGED vars

Next ==
  \/ Write
  \/ \E r \in Requests : Count(r) \/ Find(r) \/ GetExamStudentCounts(r)
                           \/ GetSubjectFullScore(r) \/ Fail(r)
  \/ AllAnswered

Spec == Init /\ [][Next]_vars

-----------------------------------------------------------------------------
(* Properties *)

HasPage(r) == state[r] \in {"rest", "answered"}

\* Every list keeps its type: a page holds no row twice and none that was not there,
\* and a request goes on only while it has a row to ask about.
TypeOK ==
  /\ ask \in [Requests -> Asks]
  /\ state \in [Requests -> {"count", "page", "rest", "answered", "failed"}]
  /\ \A r \in Requests :
       /\ total[r] \in Nat
       /\ state[r] = "rest" => DOMAIN shown[r] # ToSet(page[r])
       /\ HasPage(r) => /\ page[r] \in Seq(rows[r][2]) /\ IsInjective(page[r])
                        /\ DOMAIN shown[r] \subseteq ToSet(page[r])

\* A list shows public exams and the user's own only, and of these only those that
\* have the keyword: the owners are compared with OR, the name with AND.
VisibleListed ==
  \A r \in Requests : ask[r].kind = "exams" => \A e \in ToSet(page[r]) :
    /\ exams[e] \in {Nobody, ask[r].user, Gone}
    /\ ask[r].keyword # Unset => e \in Named[ask[r].keyword]

\* With nothing changing between the count and the page, the page and the total
\* fit: a client that pages on while index * size < total misses no row and does
\* not ask in vain.  (Unless the number of rows to skip overflows.)
PageFits ==
  \A r \in Requests :
    LET a == ask[r]
        skipped == (a.index - 1) * a.size IN
    HasPage(r) /\ a.index >= 1 /\ a.size >= 0 /\ skipped \in Int32 /\ rows[r][1] = rows[r][2]
    => Len(page[r]) = Max({0, Min({a.size, total[r] - skipped})})

\* Two pages that follow on each other are read at different times, and exams
\* created in between push others to later pages, exams deleted pull them forward.
\* When none was deleted no exam is missing between the pages, and when none was
\* created none is on both, if they can be told apart by their dates.
PagesTile ==
  \A r, q \in Requests :
    LET a == ask[r]
        V == rows[r][2]
        W == rows[q][2]
        On(p) == ToSet(page[p]) IN
    /\ HasPage(r) /\ HasPage(q) /\ a.kind = "exams" /\ a.index = 1 /\ a.size > 0
    /\ ask[q] = [a EXCEPT !.index = 2]
    /\ \A d, e \in V \cup W : Date[d] = Date[e] => d = e
    => /\ V \subseteq W /\ Cardinality(W) <= 2 * a.size => V \subseteq On(r) \cup On(q)
       /\ W \subseteq V => On(r) \cap On(q) = {}

\* A student counts once for an exam, in however many subjects: while the exam is
\* there the list does not show more students than it has, whenever it was read.
StudentsOnce ==
  \A r \in Requests : ask[r].kind = "exams" => \A e \in DOMAIN shown[r] :
    exams[e] # Gone =>
      shown[r][e] <= Cardinality({st \in Students : \E k \in scores : k.exam = e /\ k.student = st})

\* While the exam is there each subject of a list has a full score somebody gave
\* it, or 100 for a query that failed: a relation that the page has seen does not
\* disappear before its full score is asked for.
FullScoreShown ==
  \A r \in Requests : ask[r].kind = "subjects" /\ exams[ask[r].exam] # Gone =>
    \A s \in DOMAIN shown[r] : shown[r][s] \in FullScores \cup {100}
=============================================================================
