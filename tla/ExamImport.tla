----------------------------- MODULE ExamImport -----------------------------
(***************************************************************************)
(* The exam store of SEAS and the requests that change it: creating an     *)
(* exam, importing a workbook of scores, setting the full scores of its    *)
(* subjects and deleting it.  The tables of the SQLite database are the    *)
(* shared state.  A handler runs many statements and only Delete wraps     *)
(* them in a transaction, so one statement is one action and the           *)
(* statements of concurrent requests interleave (the connection pool has   *)
(* one connection: a statement, or a transaction, runs alone).             *)
(***************************************************************************)
EXTENDS Naturals, Sequences

CONSTANTS
  Users,        \* ids of logged-in users
  Nobody,       \* user id 0: an anonymous caller, and the owner of a public exam
  Exams,        \* exam ids; AUTOINCREMENT never reuses one
  PublicExams,  \* the exams with user_id = 0 the database starts with
  Subjects, Classes, Names,
  FullScores,   \* full scores a client may send
  DefaultFull,  \* 100: what an import gives a subject, and the column default
  Reqs,         \* the requests
  Jobs,         \* what a request may ask for
  Unborn, Gone, None

Kinds == {"create", "import", "full", "delete"}

Student == [name : Names, class : Classes]
Score   == [exam : Exams, student : Student, subject : Subjects]

\* One line of the summary sheet; class = None is a line cut short before the
\* class column (the reader drops trailing blanks).
Row == [name : Names, class : Classes \cup {None}, cells : SUBSET Subjects]

\* A parsed workbook: the subject columns of the summary sheet, its lines, and how
\* many lines with question marks the detail sheet of a subject has for a student.
Workbook == [cols : SUBSET Subjects, rows : Seq(Row),
             details : [Subjects \X Names -> Nat]]

Job == [kind : Kinds, user : Users \cup {Nobody}, exam : Exams,
        book : Workbook, full : UNION {[S -> FullScores] : S \in SUBSET Subjects}]

ASSUME ConstantsAssumption ==
  /\ Nobody \notin Users
  /\ PublicExams \subseteq Exams
  /\ {Unborn, Gone} \cap (Users \cup {Nobody}) = {}
  /\ Unborn # Gone
  /\ FullScores \subseteq Nat
  /\ DefaultFull \in FullScores
  /\ None \notin FullScores
  /\ None \notin Classes
  /\ None \notin Subjects
  /\ Jobs \subseteq Job
  /\ \A j \in Jobs : \A i \in DOMAIN j.book.rows : j.book.rows[i].cells \subseteq j.book.cols

VARIABLES
  \* the tables
  exams,         \* owner of each exam, or Unborn, or Gone
  subjects,      \* never deleted from; the name is also the unique code
  examSubjects,  \* full score per (exam, subject), or None
  classes,
  students,
  scores,
  items,         \* for each score, the lines of detail sheets stored as its question rows
  \* the requests
  job,           \* what the request asks for (never changes)
  pc,            \* its next statement, or how it ended
  todo,          \* the keys its current loop has left
  cur,           \* the subject its current statement is about
  missing,       \* subjects CreateExamSubjects found no relation for
  row,           \* the line of the summary sheet it is at
  written        \* scoreIDMap: the scores it has inserted

tables == <<exams, subjects, examSubjects, classes, students, scores, items>>
locals == <<todo, cur, missing, row, written>>
vars   == <<tables, job, pc, locals>>

Ended == {"ok", "failed", "aborted"}
PCs == Ended \cup
  {"create", "check", "subject", "newSubject", "link", "row", "newClass",
   "student", "newStudent", "items", "count", "update", "insert", "delete"}

Live(e) == exams[e] \in Users \cup {Nobody}
Linked(e, s) == examSubjects[<<e, s>>] # None

Exam(r) == job[r].exam
Book(r) == job[r].book
Line(r) == Book(r).rows[row[r]]
StudentAt(r) == [name |-> Line(r).name, class |-> Line(r).class]

Goto(r, l) == pc' = [pc EXCEPT ![r] = l]

-----------------------------------------------------------------------------
Init ==
  /\ exams = [e \in Exams |-> IF e \in PublicExams THEN Nobody ELSE Unborn]
  /\ subjects = {} /\ classes = {} /\ students = {} /\ scores = {}
  /\ examSubjects = [es \in Exams \X Subjects |-> None]
  /\ items = [k \in Score |-> 0]
  /\ job \in [Reqs -> Jobs]
  /\ pc = [r \in Reqs |-> IF job[r].kind = "create" THEN "create" ELSE "check"]
  /\ todo = [r \in Reqs |-> {}]
  /\ cur = [r \in Reqs |-> None]
  /\ missing = [r \in Reqs |-> {}]
  /\ row = [r \in Reqs |-> 1]
  /\ written = [r \in Reqs |-> {}]

\* CreateExam: one INSERT, for a logged-in user only.
CreateExam(r) ==
  /\ pc[r] = "create"
  /\ IF job[r].user = Nobody
     THEN Goto(r, "failed") /\ UNCHANGED exams
     ELSE \E e \in Exams :
            /\ exams[e] = Unborn
            /\ exams' = [exams EXCEPT ![e] = job[r].user]
            /\ Goto(r, "ok")
  /\ UNCHANGED <<subjects, examSubjects, classes, students, scores, items, job, locals>>

-----------------------------------------------------------------------------
(* What every request on an existing exam does first. *)

\* Mutant: any logged-in user may.
MayAccessLoggedIn(u, e) == Live(e) /\ (exams[e] = Nobody \/ u # Nobody)

MayAccess(u, e) == Live(e) /\ exams[e] \in {Nobody, u}

\* A workbook without subject columns is refused; no full scores is a success.
StartLoop(r, S, atonce) ==
  /\ todo' = [todo EXCEPT ![r] = S]
  /\ Goto(r, IF S = {} THEN atonce ELSE "subject")

CheckExamOwnership(r) ==
  LET allowed == MayAccess(job[r].user, Exam(r)) IN
  /\ pc[r] = "check"
  /\ \/ ~allowed /\ Goto(r, "failed") /\ UNCHANGED todo
     \/ allowed /\ job[r].kind = "delete" /\ Goto(r, "delete") /\ UNCHANGED todo
     \/ allowed /\ job[r].kind = "import" /\ StartLoop(r, Book(r).cols, "failed")
     \/ allowed /\ job[r].kind = "full" /\ StartLoop(r, DOMAIN job[r].full, "ok")
  /\ UNCHANGED <<tables, job, cur, missing, row, written>>

-----------------------------------------------------------------------------
(* subjectRepo.FindOrCreateByName, in the loops of both an import and an    *)
(* update of the full scores; both range over a Go map, in any order.       *)

\* The subject s is known: an import goes to its next subject, then to the
\* relations; an update of the full scores sets the one of s.
Resolved(r, s) ==
  IF job[r].kind = "import"
  THEN LET rest == todo[r] \ {s} IN
       /\ todo' = [todo EXCEPT ![r] = IF rest = {} THEN Book(r).cols ELSE rest]
       /\ cur' = [cur EXCEPT ![r] = None]
       /\ Goto(r, IF rest = {} THEN "link" ELSE "subject")
  ELSE /\ cur' = [cur EXCEPT ![r] = s]
       /\ Goto(r, "count")
       /\ UNCHANGED todo

FindSubject(r) ==
  /\ pc[r] = "subject"
  /\ \E s \in todo[r] :
       \/ s \in subjects /\ Resolved(r, s)
       \/ /\ s \notin subjects
          /\ cur' = [cur EXCEPT ![r] = s]
          /\ Goto(r, "newSubject")
          /\ UNCHANGED todo
  /\ UNCHANGED <<tables, job, missing, row, written>>

\* subjects.code is unique: the second of two concurrent creators fails.
CreateSubject(r) ==
  /\ pc[r] = "newSubject"
  /\ IF cur[r] \in subjects
     THEN Goto(r, "failed") /\ UNCHANGED <<subjects, todo, cur>>
     ELSE subjects' = subjects \cup {cur[r]} /\ Resolved(r, cur[r])
  /\ UNCHANGED <<exams, examSubjects, classes, students, scores, items,
                 job, missing, row, written>>

-----------------------------------------------------------------------------
(* ImportScoresFromExcel *)

\* CreateExamSubjects: one COUNT per subject, then one INSERT of the missing ones.
\* The error of a COUNT is dropped: the subject then seems to be missing.
CountExamSubject(r) ==
  /\ pc[r] = "link"
  /\ \E s \in todo[r] :
       /\ todo' = [todo EXCEPT ![r] = @ \ {s}]
       /\ \/ Linked(Exam(r), s) /\ UNCHANGED missing
          \/ missing' = [missing EXCEPT ![r] = @ \cup {s}]
  /\ UNCHANGED <<tables, job, pc, cur, row, written>>

\* Mutant: inserts a relation for every subject, over what is there.
CreateExamSubjectsUpsert(r) ==
  /\ pc[r] = "link" /\ todo[r] = {}
  /\ IF ~Live(Exam(r))
     THEN Goto(r, "failed") /\ UNCHANGED <<examSubjects, missing>>
     ELSE /\ examSubjects' = [es \in Exams \X Subjects |->
               IF es[1] = Exam(r) /\ es[2] \in Book(r).cols THEN DefaultFull ELSE examSubjects[es]]
          /\ missing' = [missing EXCEPT ![r] = {}]
          /\ Goto(r, "row")
  /\ UNCHANGED <<exams, subjects, classes, students, scores, items, job, todo, cur, row, written>>

\* Mutant: goes on when the INSERT hits a relation made meanwhile.
CreateExamSubjectsAnyway(r) ==
  LET clash == \E s \in missing[r] : Linked(Exam(r), s) IN
  /\ pc[r] = "link" /\ todo[r] = {} /\ Live(Exam(r))
  /\ examSubjects' = [es \in Exams \X Subjects |->
        IF ~clash /\ es[1] = Exam(r) /\ es[2] \in missing[r] THEN DefaultFull ELSE examSubjects[es]]
  /\ missing' = [missing EXCEPT ![r] = {}]
  /\ Goto(r, "row")
  /\ UNCHANGED <<exams, subjects, classes, students, scores, items, job, todo, cur, row, written>>

CreateExamSubjects(r) ==
  LET clash == \E s \in missing[r] : Linked(Exam(r), s) IN
  /\ pc[r] = "link" /\ todo[r] = {}
  /\ IF missing[r] # {} /\ (clash \/ ~Live(Exam(r)))
     THEN Goto(r, "failed") /\ UNCHANGED <<examSubjects, missing>>
     ELSE /\ examSubjects' = [es \in Exams \X Subjects |->
               IF es[1] = Exam(r) /\ es[2] \in missing[r] THEN DefaultFull ELSE examSubjects[es]]
          /\ missing' = [missing EXCEPT ![r] = {}]
          /\ Goto(r, "row")
  /\ UNCHANGED <<exams, subjects, classes, students, scores, items, job, todo, cur, row, written>>

MoreRows(r) == row[r] \in DOMAIN Book(r).rows

NextRow(r) == row' = [row EXCEPT ![r] = @ + 1] /\ Goto(r, "row")

\* Mutant: takes a missing class cell for a class.
FindClassUnchecked(r) ==
  /\ pc[r] = "row" /\ MoreRows(r)
  /\ Goto(r, IF Line(r).class \in classes THEN "student" ELSE "newClass")
  /\ UNCHANGED <<tables, job, locals>>

\* classRepo.FindOrCreateByName; a line without a class cell is an index out of
\* range, which ends the request there.
FindClass(r) ==
  /\ pc[r] = "row" /\ MoreRows(r)
  /\ \/ Line(r).class = None /\ Goto(r, "failed")
     \/ Line(r).class \in classes /\ Goto(r, "student")
     \/ Line(r).class \notin classes \cup {None} /\ Goto(r, "newClass")
  /\ UNCHANGED <<tables, job, locals>>

CreateClass(r) ==
  /\ pc[r] = "newClass"
  /\ classes' = classes \cup {Line(r).class}
  /\ Goto(r, IF Line(r).class \in classes THEN "failed" ELSE "student")
  /\ UNCHANGED <<exams, subjects, examSubjects, students, scores, items, job, locals>>

\* studentRepo.FindOrCreateByNameClass: looked up by name and class, created with
\* the name as the student number, which is unique.
FindStudent(r) ==
  /\ pc[r] = "student"
  /\ IF StudentAt(r) \in students
     THEN NextRow(r)
     ELSE Goto(r, "newStudent") /\ UNCHANGED row
  /\ UNCHANGED <<tables, job, todo, cur, missing, written>>

CreateStudent(r) ==
  /\ pc[r] = "newStudent"
  /\ IF \E st \in students : st.name = Line(r).name
     THEN Goto(r, "failed") /\ UNCHANGED <<students, row>>
     ELSE students' = students \cup {StudentAt(r)} /\ NextRow(r)
  /\ UNCHANGED <<exams, subjects, examSubjects, classes, scores, items,
                 job, todo, cur, missing, written>>

\* The scores of a workbook for exam e: one per non-blank cell.
ScoresOf(e, b) ==
  UNION { { [exam |-> e, student |-> [name |-> b.rows[i].name, class |-> b.rows[i].class],
             subject |-> s] : s \in b.rows[i].cells } : i \in DOMAIN b.rows }

\* Two lines of one student with a cell in the same column.
Repeats(b) ==
  \E i, j \in DOMAIN b.rows :
     /\ i # j
     /\ b.rows[i].name = b.rows[j].name /\ b.rows[i].class = b.rows[j].class
     /\ b.rows[i].cells \cap b.rows[j].cells # {}

DetailSheets(b) == {s \in b.cols : \E n \in Names : b.details[<<s, n>>] > 0}

\* Mutants of BatchCreateScores: no unique key; a conflict skips the score; a
\* failed INSERT is logged and the import goes on.
InsertScores(r, new) ==
  /\ pc[r] = "row" /\ ~MoreRows(r)
  /\ scores' = scores \cup new
  /\ written' = [written EXCEPT ![r] = new]
  /\ todo' = [todo EXCEPT ![r] = DetailSheets(Book(r))]
  /\ Goto(r, "items")
  /\ UNCHANGED <<exams, subjects, examSubjects, classes, students, items, job, cur, missing, row>>

NotUnique(r) == Live(Exam(r)) /\ InsertScores(r, ScoresOf(Exam(r), Book(r)))
SkipConflicts(r) == Live(Exam(r)) /\ InsertScores(r, ScoresOf(Exam(r), Book(r)) \ scores)
GoOn(r) == InsertScores(r, IF Repeats(Book(r)) \/ ~Live(Exam(r)) THEN {} ELSE ScoresOf(Exam(r), Book(r)))

\* scoreRepo.BatchCreate: all the scores or none, none when one of them exists,
\* is there twice, or has lost its exam.
BatchCreateScores(r) ==
  LET new == ScoresOf(Exam(r), Book(r)) IN
  /\ pc[r] = "row" /\ ~MoreRows(r)
  /\ IF new # {} /\ (new \cap scores # {} \/ Repeats(Book(r)) \/ ~Live(Exam(r)))
     THEN Goto(r, "failed") /\ UNCHANGED <<scores, written, todo>>
     ELSE /\ scores' = scores \cup new
          /\ written' = [written EXCEPT ![r] = new]
          /\ todo' = [todo EXCEPT ![r] = DetailSheets(Book(r))]
          /\ Goto(r, "items")
  /\ UNCHANGED <<exams, subjects, examSubjects, classes, students, items, job, cur, missing, row>>

\* The lines the workbook of r has for score k in its detail sheets.
Lines(r, k) == Book(r).details[<<k.subject, k.student.name>>]

\* The scores of sheet s that get question rows: those of this import, of the
\* students the sheet names.
Detailed(r, s) == {k \in written[r] : k.subject = s /\ Lines(r, k) > 0}

\* scoreItemRepo.BatchCreate, once per detail sheet, with the rows of every line of
\* it: nothing keeps the lines of one student apart.  It fails when a score is gone.
BatchCreateItems(r) ==
  /\ pc[r] = "items"
  /\ \E s \in todo[r] :
       IF Detailed(r, s) \subseteq scores
       THEN /\ items' = [k \in Score |->
                           IF k \in Detailed(r, s) THEN items[k] + Lines(r, k) ELSE items[k]]
            /\ todo' = [todo EXCEPT ![r] = @ \ {s}]
            /\ UNCHANGED pc
       ELSE Goto(r, "failed") /\ UNCHANGED <<items, todo>>
  /\ UNCHANGED <<exams, subjects, examSubjects, classes, students, scores,
                 job, cur, missing, row, written>>

ReplyImported(r) ==
  /\ pc[r] = "items" /\ todo[r] = {}
  /\ Goto(r, "ok")
  /\ UNCHANGED <<tables, job, locals>>

-----------------------------------------------------------------------------
(* UpdateSubjectFullScores, after the subject is known *)

\* UpdateExamSubjectFullScore: a COUNT, then an UPDATE or an INSERT.
CountForUpdate(r) ==
  /\ pc[r] = "count"
  /\ Goto(r, IF Linked(Exam(r), cur[r]) THEN "update" ELSE "insert")
  /\ UNCHANGED <<tables, job, locals>>

NextFullScore(r) ==
  /\ todo' = [todo EXCEPT ![r] = @ \ {cur[r]}]
  /\ cur' = [cur EXCEPT ![r] = None]
  /\ Goto(r, IF todo[r] = {cur[r]} THEN "ok" ELSE "subject")

\* Mutant: saves the row, which inserts it when it is not there.
SaveFullScore(r) ==
  /\ pc[r] = "update"
  /\ examSubjects' = [examSubjects EXCEPT ![<<Exam(r), cur[r]>>] = job[r].full[cur[r]]]
  /\ NextFullScore(r)
  /\ UNCHANGED <<exams, subjects, classes, students, scores, items, job, missing, row, written>>

\* An UPDATE that matches no row is not an error.
UpdateFullScore(r) ==
  LET es == <<Exam(r), cur[r]>> IN
  /\ pc[r] = "update"
  /\ examSubjects' = [examSubjects EXCEPT ![es] =
                        IF @ = None THEN None ELSE job[r].full[cur[r]]]
  /\ NextFullScore(r)
  /\ UNCHANGED <<exams, subjects, classes, students, scores, items, job, missing, row, written>>

\* The column has a default: the library writes it instead of a zero value.
Stored(v) == IF v = 0 THEN DefaultFull ELSE v

InsertFullScore(r) ==
  LET es == <<Exam(r), cur[r]>> IN
  /\ pc[r] = "insert"
  /\ IF Linked(Exam(r), cur[r]) \/ ~Live(Exam(r))
     THEN Goto(r, "failed") /\ UNCHANGED <<examSubjects, todo, cur>>
     ELSE /\ examSubjects' = [examSubjects EXCEPT ![es] = Stored(job[r].full[cur[r]])]
          /\ NextFullScore(r)
  /\ UNCHANGED <<exams, subjects, classes, students, scores, items, job, missing, row, written>>

-----------------------------------------------------------------------------
\* Mutant: deletes the scores first, so that it finds no question rows to delete.
DeleteExamScoresFirst(r) ==
  LET e == Exam(r) IN
  /\ pc[r] = "delete"
  /\ scores' = {k \in scores : k.exam # e}
  /\ examSubjects' = [es \in Exams \X Subjects |-> IF es[1] = e THEN None ELSE examSubjects[es]]
  /\ exams' = [exams EXCEPT ![e] = Gone]
  /\ Goto(r, "ok")
  /\ UNCHANGED <<subjects, classes, students, items, job, locals>>

\* examRepo.Delete: one transaction; an exam already gone is not an error.
DeleteExam(r) ==
  LET e == Exam(r) IN
  /\ pc[r] = "delete"
  /\ items' = [k \in Score |-> IF k \in scores /\ k.exam = e THEN 0 ELSE items[k]]
  /\ scores' = {k \in scores : k.exam # e}
  /\ examSubjects' = [es \in Exams \X Subjects |-> IF es[1] = e THEN None ELSE examSubjects[es]]
  /\ exams' = [exams EXCEPT ![e] = Gone]
  /\ Goto(r, "ok")
  /\ UNCHANGED <<subjects, classes, students, job, locals>>

\* The request ends between two statements: its context is cancelled (timeout,
\* client gone), the statement fails, or the process stops.
Abort(r) ==
  /\ pc[r] \notin Ended
  /\ Goto(r, "aborted")
  /\ UNCHANGED <<tables, job, locals>>

Step(r) ==
  \/ CreateExam(r)
  \/ CheckExamOwnership(r)
  \/ FindSubject(r)
  \/ CreateSubject(r)
  \/ CountExamSubject(r)
  \/ CreateExamSubjects(r)
  \/ FindClass(r)
  \/ CreateClass(r)
  \/ FindStudent(r)
  \/ CreateStudent(r)
  \/ BatchCreateScores(r)
  \/ BatchCreateItems(r)
  \/ ReplyImported(r)
  \/ CountForUpdate(r)
  \/ UpdateFullScore(r)
  \/ InsertFullScore(r)
  \/ DeleteExam(r)

\* Every request has been answered: nothing is left to do.
AllAnswered == (\A r \in Reqs : pc[r] \in Ended) /\ UNCHANGED vars

Next == (\E r \in Reqs : Step(r) \/ Abort(r)) \/ AllAnswered

Spec == Init /\ [][Next]_vars

-----------------------------------------------------------------------------
(* Properties *)

\* Every table and every request's record has its type.
TypeOK ==
  /\ exams \in [Exams -> Users \cup {Nobody, Unborn, Gone}]
  /\ subjects \in SUBSET Subjects
  /\ examSubjects \in [Exams \X Subjects -> FullScores \cup {None}]
  /\ classes \in SUBSET Classes
  /\ students \in SUBSET Student
  /\ scores \in SUBSET Score
  /\ items \in [Score -> Nat]
  /\ job \in [Reqs -> Jobs]
  /\ pc \in [Reqs -> PCs]
  /\ todo \in [Reqs -> SUBSET Subjects]
  /\ cur \in [Reqs -> Subjects \cup {None}]
  /\ missing \in [Reqs -> SUBSET Subjects]
  /\ row \in [Reqs -> Nat \ {0}]
  /\ written \in [Reqs -> SUBSET Score]

\* Whatever requests interleave, fail or are cut off, no row is left behind by
\* the row it refers to, and a student name means one student, as the detail
\* sheets, which give names only, need.
Integrity ==
  /\ \A e \in Exams, s \in Subjects : Linked(e, s) => Live(e) /\ s \in subjects
  /\ \A k \in scores : Live(k.exam) /\ k.student \in students /\ k.subject \in subjects
  /\ \A k \in Score : items[k] # 0 => k \in scores
  /\ \A st \in students : st.class \in classes
  /\ \A st1, st2 \in students : st1.name = st2.name => st1 = st2

\* A score's subject is a subject of its exam: without the relation every
\* analysis, which joins exam_subjects, would lose the score.  The import makes
\* the relation many statements before it inserts the score.
ScoresLinked == \A k \in scores : Linked(k.exam, k.subject)

\* The question rows of a score are those of one import, one for each line its detail
\* sheet has for the student: however often and in whatever interleaving workbooks are
\* imported, rows of several never add up, which no unique index of their own prevents.
\* (A student on two lines of one sheet does have the rows of both.)
ItemsOfOneImport ==
  \A k \in Score : items[k] # 0 =>
     \E r \in Reqs : k \in written[r] /\ items[k] = Lines(r, k)

\* The scores of a workbook arrive all together and stay all together: a score
\* in the table comes from exactly one import, all of whose scores are there.
ScoresAllOrNothing ==
  \A k \in scores : \E r \in Reqs :
     /\ k \in written[r]
     /\ written[r] = ScoresOf(Exam(r), Book(r))
     /\ written[r] \subseteq scores
     /\ \A q \in Reqs \ {r} : k \notin written[q]

\* An import answered with success has stored everything its workbook says,
\* unless the exam has been deleted since.
ReplyTruthful ==
  \A r \in Reqs :
     pc[r] = "ok" /\ job[r].kind = "import" /\ Live(Exam(r)) =>
       /\ \A s \in Book(r).cols : Linked(Exam(r), s)
       /\ ScoresOf(Exam(r), Book(r)) \subseteq scores
       /\ \A k \in ScoresOf(Exam(r), Book(r)) : items[k] = Lines(r, k)

\* The rows that make up exam e.
RowsOf(e) == <<exams[e], [s \in Subjects |-> examSubjects[<<e, s>>]],
               {k \in scores : k.exam = e}, [k \in {j \in Score : j.exam = e} |-> items[k]]>>

\* An exam changes only in a step of a request about it whose user owns it then,
\* or while it is public: the ownership check is a statement of its own, made
\* long before the writes it is for.
OnlyOwnersChange ==
  [][\A e \in Exams : exams[e] # Unborn /\ RowsOf(e)' # RowsOf(e) =>
        \E r \in Reqs :
           /\ <<pc[r], todo[r]>>' # <<pc[r], todo[r]>>
           /\ Exam(r) = e
           /\ exams[e] \in {Nobody, job[r].user}]_vars

\* A full score, once set, is changed only by an update request for it, to what that
\* asks for, or with the deletion of the exam: importing again, or a racing import, never puts it back
\* to the default.
FullScoreKept ==
  [][\A e \in Exams, s \in Subjects :
        Linked(e, s) /\ examSubjects'[<<e, s>>] # examSubjects[<<e, s>>] =>
          \/ exams'[e] = Gone
          \/ \E r \in Reqs : /\ job[r].kind = "full" /\ Exam(r) = e
                           /\ cur[r] = s /\ cur'[r] # s
                           /\ examSubjects'[<<e, s>>] = job[r].full[s]]_vars

\* Whether a score has its question rows.
HasItems == [k \in Score |-> IF items[k] > 0 THEN 1 ELSE 0]

\* The statements implement the store of ExamStore.
Store == INSTANCE ExamStore WITH Students <- Student, items <- HasItems

ImplementsStore == Store!Spec

-----------------------------------------------------------------------------
(* What the documentation says and the code does not do *)

\* FindOrCreateByNameClass supposes names unique within one class: creating a
\* student fails only when that class has that name already.  The student number
\* is the name and is unique in the whole school.
NamesakesAllowed ==
  [][\A r \in Reqs :
       pc[r] = "newStudent" /\ pc'[r] = "failed" => StudentAt(r) \in students]_vars
=============================================================================
