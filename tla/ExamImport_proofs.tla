-------------------------- MODULE ExamImport_proofs --------------------------
(* Proofs about ExamImport, for any users, exams, workbooks and requests.   *)
EXTENDS ExamImportInv, TLAPS

USE ConstantsAssumption

\* The types, and where a request is, which they depend on.
BaseInv == TypeOK /\ \A r \in Reqs : Placed(r) /\ SubjectsKept(r)

\* A job's parts have their types.
LEMMA JobParts ==
  ASSUME TypeOK, NEW r \in Reqs
  PROVE  /\ job[r].kind \in Kinds
         /\ job[r].user \in Users \cup {Nobody}
         /\ Exam(r) \in Exams
         /\ Book(r).cols \in SUBSET Subjects
         /\ Book(r).rows \in Seq(Row)
         /\ Book(r).details \in [Subjects \X Names -> Nat]
         /\ DOMAIN job[r].full \in SUBSET Subjects
         /\ \A s \in DOMAIN job[r].full : job[r].full[s] \in FullScores
<1>1. job[r] \in Job
  BY DEF TypeOK
<1>2. job[r].full \in UNION {[S -> FullScores] : S \in SUBSET Subjects}
  BY <1>1 DEF Job
<1>3. PICK S \in SUBSET Subjects : job[r].full \in [S -> FullScores]
  BY <1>2
<1>4. job[r].book \in Workbook
  BY <1>1 DEF Job
<1> QED
  BY <1>1, <1>3, <1>4 DEF Job, Workbook, Exam, Book

\* The lines a workbook has for a score are counted.
LEMMA LinesType ==
  ASSUME TypeOK, NEW r \in Reqs, NEW k \in Score
  PROVE  Lines(r, k) \in Nat
<1>1. k.subject \in Subjects /\ k.student.name \in Names
  BY DEF Score, Student
<1> QED
  BY <1>1, JobParts DEF Lines

\* The line a request is at, and the lines of its workbook.
LEMMA LineParts ==
  ASSUME TypeOK, NEW r \in Reqs, NEW i \in DOMAIN Book(r).rows
  PROVE  /\ Book(r).rows[i].name \in Names
         /\ Book(r).rows[i].class \in Classes \cup {None}
         /\ Book(r).rows[i].cells \subseteq Book(r).cols
         /\ i \in Nat \ {0}
<1>1. Book(r).rows \in Seq(Row)
  BY JobParts
<1>2. Book(r).rows[i] \in Row /\ i \in 1 .. Len(Book(r).rows)
  BY <1>1
<1>3. Book(r).rows[i].cells \subseteq Book(r).cols
  BY DEF TypeOK, Book
<1> QED
  BY <1>2, <1>3 DEF Row

LEMMA BaseInit == Init => BaseInv
<1> SUFFICES ASSUME Init PROVE BaseInv
  OBVIOUS
<1>1. TypeOK
  BY DEF Init, TypeOK, PCs, Ended
<1>2. \A r \in Reqs : pc[r] = "check" \/ (pc[r] = "create" /\ job[r].kind = "create")
  <2> TAKE r \in Reqs
  <2>1. pc[r] = IF job[r].kind = "create" THEN "create" ELSE "check"
    BY DEF Init
  <2> QED
    BY <2>1
<1> QED
  BY <1>1, <1>2 DEF BaseInv, Placed, SubjectsKept, Looking, Importing, Updating, Imported

\* What a step of r leaves alone, whichever statement it is.
Others(r) ==
  /\ job' = job
  /\ \A q \in Reqs \ {r} :
       /\ pc'[q] = pc[q] /\ todo'[q] = todo[q] /\ cur'[q] = cur[q]
       /\ missing'[q] = missing[q] /\ row'[q] = row[q] /\ written'[q] = written[q]
  /\ subjects \subseteq subjects' /\ classes \subseteq classes' /\ students \subseteq students'
  /\ \A e \in Exams : \/ exams'[e] = exams[e]
                      \/ exams'[e] = Gone
                      \/ exams[e] = Unborn /\ exams'[e] \in Users

LEMMA StepOthers ==
  ASSUME TypeOK, NEW r \in Reqs, Step(r) \/ Abort(r)
  PROVE  Others(r)
<1> USE DEF TypeOK, Others, Goto, tables, locals, vars
<1>1. CASE CreateExam(r)
  <2>1. CASE job[r].user = Nobody
    BY <1>1, <2>1 DEF CreateExam
  <2>2. CASE job[r].user # Nobody
    <3>1. job[r].user \in Users
      BY <2>2, JobParts
    <3> QED
      BY <1>1, <2>2, <3>1 DEF CreateExam
  <2> QED
    BY <2>1, <2>2
<1>2. CASE CheckExamOwnership(r)
  BY <1>2 DEF CheckExamOwnership, StartLoop
<1>3. CASE FindSubject(r)
  BY <1>3 DEF FindSubject, Resolved
<1>4. CASE CreateSubject(r)
  BY <1>4 DEF CreateSubject, Resolved
<1>5. CASE CountExamSubject(r)
  BY <1>5 DEF CountExamSubject
<1>6. CASE CreateExamSubjects(r)
  BY <1>6 DEF CreateExamSubjects
<1>7. CASE FindClass(r)
  BY <1>7 DEF FindClass
<1>8. CASE CreateClass(r)
  BY <1>8 DEF CreateClass
<1>9. CASE FindStudent(r)
  BY <1>9 DEF FindStudent, NextRow
<1>10. CASE CreateStudent(r)
  BY <1>10 DEF CreateStudent, NextRow
<1>11. CASE BatchCreateScores(r)
  BY <1>11 DEF BatchCreateScores
<1>12. CASE BatchCreateItems(r)
  BY <1>12 DEF BatchCreateItems
<1>13. CASE ReplyImported(r)
  BY <1>13 DEF ReplyImported
<1>14. CASE CountForUpdate(r)
  BY <1>14 DEF CountForUpdate
<1>15. CASE UpdateFullScore(r)
  BY <1>15 DEF UpdateFullScore, NextFullScore
<1>16. CASE InsertFullScore(r)
  BY <1>16 DEF InsertFullScore, NextFullScore
<1>17. CASE DeleteExam(r)
  BY <1>17 DEF DeleteExam
<1>18. CASE Abort(r)
  BY <1>18 DEF Abort
<1> QED
  BY <1>1, <1>2, <1>3, <1>4, <1>5, <1>6, <1>7, <1>8, <1>9, <1>10, <1>11, <1>12,
     <1>13, <1>14, <1>15, <1>16, <1>17, <1>18 DEF Step

\* A step of r keeps another request where its job leads.
LEMMA BaseOthers ==
  ASSUME BaseInv, NEW r \in Reqs, Others(r), NEW q \in Reqs \ {r}
  PROVE  (Placed(q) /\ SubjectsKept(q))'
<1>1. Exam(q) \in Exams /\ job[q].user \in Users \cup {Nobody}
  BY JobParts DEF BaseInv
<1>2. Placed(q) /\ SubjectsKept(q)
  BY DEF BaseInv
<1>3. Placed(q)'
  BY <1>1, <1>2 DEF Placed, Others, Exam, Imported
<1>4. SubjectsKept(q)'
  BY <1>2 DEF SubjectsKept, Others, Book
<1> QED
  BY <1>3, <1>4

\* The first statements of a request: the check and the loop over its subjects.
LEMMA BaseFirst ==
  ASSUME BaseInv, NEW r \in Reqs,
         CreateExam(r) \/ CheckExamOwnership(r) \/ FindSubject(r) \/ CreateSubject(r)
  PROVE  TypeOK' /\ (Placed(r) /\ SubjectsKept(r))'
<1> USE DEF BaseInv, Goto, tables, locals
<1>0. TypeOK /\ Placed(r) /\ SubjectsKept(r)
  OBVIOUS
<1>a. Book(r).cols \subseteq Subjects /\ DOMAIN job[r].full \subseteq Subjects
  BY <1>0, JobParts
<1>1. CASE CreateExam(r)
  <2>1. TypeOK'
    BY <1>0, <1>1, JobParts DEF CreateExam, TypeOK, PCs, Ended
  <2>2. pc'[r] \in {"ok", "failed"} /\ job' = job /\ pc[r] = "create"
    BY <1>0, <1>1 DEF CreateExam, TypeOK
  <2>3. Placed(r)'
    BY <1>0, <1>1, <2>2, JobParts DEF Placed, Looking, Importing, Updating, Imported
  <2> QED
    BY <2>1, <2>2, <2>3 DEF SubjectsKept, Looking, Importing, Updating
<1>2. CASE CheckExamOwnership(r)
  <2>1. TypeOK'
    <3>1. pc' \in [Reqs -> PCs]
      BY <1>0, <1>2 DEF CheckExamOwnership, StartLoop, TypeOK, PCs, Ended
    <3>2. todo' \in [Reqs -> SUBSET Subjects]
      BY <1>0, <1>2, <1>a DEF CheckExamOwnership, StartLoop, TypeOK
    <3> QED
      BY <1>0, <1>2, <3>1, <3>2 DEF CheckExamOwnership, TypeOK
  <2>2. Placed(r)'
    BY <1>0, <1>2, JobParts DEF CheckExamOwnership, StartLoop, TypeOK, Placed, MayAccess, Exam, Live,
       Looking, Importing, Updating, Imported, Kinds
  <2>3. SubjectsKept(r)'
    BY <1>0, <1>2 DEF CheckExamOwnership, StartLoop, TypeOK, SubjectsKept, Book, Looking, Importing, Updating
  <2> QED
    BY <2>1, <2>2, <2>3
<1>3. CASE FindSubject(r)
  <2>1. TypeOK'
    <3>1. pc' \in [Reqs -> PCs]
      BY <1>0, <1>3 DEF FindSubject, Resolved, TypeOK, PCs, Ended
    <3>2. todo' \in [Reqs -> SUBSET Subjects] /\ cur' \in [Reqs -> Subjects \cup {None}]
      BY <1>0, <1>3, <1>a DEF FindSubject, Resolved, TypeOK
    <3> QED
      BY <1>0, <1>3, <3>1, <3>2 DEF FindSubject, TypeOK
  <2>2. Placed(r)'
    BY <1>0, <1>3 DEF FindSubject, Resolved, TypeOK, Placed, Exam,
       Looking, Importing, Updating, Imported
  <2>3. SubjectsKept(r)'
    BY <1>0, <1>3 DEF FindSubject, Resolved, TypeOK, Placed, SubjectsKept, Book, Looking, Importing, Updating
  <2> QED
    BY <2>1, <2>2, <2>3
<1>4. CASE CreateSubject(r)
  <2>1. cur[r] \in todo[r] /\ cur[r] \in Subjects
    BY <1>0, <1>4 DEF CreateSubject, SubjectsKept, TypeOK
  <2>2. TypeOK'
    <3>1. pc' \in [Reqs -> PCs]
      BY <1>0, <1>4 DEF CreateSubject, Resolved, TypeOK, PCs, Ended
    <3>2. todo' \in [Reqs -> SUBSET Subjects] /\ cur' \in [Reqs -> Subjects \cup {None}]
      BY <1>0, <1>4, <2>1, <1>a DEF CreateSubject, Resolved, TypeOK
    <3> QED
      BY <1>0, <1>4, <2>1, <3>1, <3>2 DEF CreateSubject, TypeOK
  <2>3. Placed(r)'
    BY <1>0, <1>4 DEF CreateSubject, Resolved, TypeOK, Placed, Exam,
       Looking, Importing, Updating, Imported
  <2>4. SubjectsKept(r)'
    BY <1>0, <1>4, <2>1 DEF CreateSubject, Resolved, TypeOK, Placed, SubjectsKept, Book,
       Looking, Importing, Updating
  <2> QED
    BY <2>2, <2>3, <2>4
<1> QED
  BY <1>1, <1>2, <1>3, <1>4

\* The statements of an import after the subject loop.
LEMMA BaseImport ==
  ASSUME BaseInv, NEW r \in Reqs,
         \/ CountExamSubject(r) \/ CreateExamSubjects(r) \/ FindClass(r) \/ CreateClass(r)
         \/ FindStudent(r) \/ CreateStudent(r) \/ BatchCreateItems(r) \/ ReplyImported(r)
  PROVE  /\ RowsKept(r) => TypeOK'
         /\ (Placed(r) /\ SubjectsKept(r))'
<1> USE DEF BaseInv, Goto, tables, locals
<1>0. TypeOK /\ Placed(r) /\ SubjectsKept(r)
  OBVIOUS
<1>a. Book(r).cols \subseteq Subjects /\ DOMAIN job[r].full \subseteq Subjects
  BY <1>0, JobParts
<1>1. job' = job /\ exams' = exams /\ subjects' = subjects
  BY DEF CountExamSubject, CreateExamSubjects, FindClass, CreateClass, FindStudent,
     CreateStudent, BatchCreateItems, ReplyImported
<1>2. pc[r] \in Importing /\ pc'[r] \in Importing \cup {"failed", "ok"}
  BY <1>0 DEF CountExamSubject, CreateExamSubjects, FindClass, CreateClass, FindStudent, NextRow,
     CreateStudent, BatchCreateItems, ReplyImported, Importing, TypeOK
<1>3. (Placed(r) /\ SubjectsKept(r))'
  <2>1. exams[Exam(r)] # Unborn
    BY <1>0, <1>2, JobParts DEF Placed
  <2>2. Placed(r)'
    BY <1>0, <1>1, <1>2, <2>1 DEF Placed, Exam, Importing, Looking, Updating, Imported
  <2>3. SubjectsKept(r)'
    BY <1>0, <1>1, <1>2 DEF Placed, SubjectsKept, Book, Importing, Looking, Updating
  <2> QED
    BY <2>2, <2>3
<1>4. CASE CountExamSubject(r)
  BY <1>0, <1>3, <1>4 DEF CountExamSubject, TypeOK
<1>5. CASE CreateExamSubjects(r)
  BY <1>0, <1>3, <1>5 DEF CreateExamSubjects, TypeOK, PCs, Ended
<1>6. CASE FindClass(r)
  BY <1>0, <1>3, <1>6 DEF FindClass, TypeOK, PCs, Ended
<1>7. CASE CreateClass(r)
  <2>1. RowsKept(r) => Line(r).class \in Classes
    BY <1>0, <1>7, LineParts DEF CreateClass, RowsKept, MoreRows, Line
  <2> QED
    BY <1>0, <1>3, <1>7, <2>1 DEF CreateClass, TypeOK, PCs, Ended
<1>8. CASE FindStudent(r)
  BY <1>0, <1>3, <1>8 DEF FindStudent, NextRow, TypeOK, PCs, Ended
<1>9. CASE CreateStudent(r)
  <2>1. RowsKept(r) => StudentAt(r) \in Student
    BY <1>0, <1>9, LineParts DEF CreateStudent, RowsKept, MoreRows, Line, StudentAt, Student
  <2> QED
    BY <1>0, <1>3, <1>9, <2>1 DEF CreateStudent, NextRow, TypeOK, PCs, Ended
<1>10. CASE BatchCreateItems(r)
  <2>1. items' \in [Score -> Nat]
    BY <1>0, <1>10, LinesType DEF BatchCreateItems, TypeOK
  <2> QED
    BY <1>0, <1>3, <1>10, <2>1 DEF BatchCreateItems, TypeOK, PCs, Ended
<1>11. CASE ReplyImported(r)
  BY <1>0, <1>3, <1>11 DEF ReplyImported, TypeOK, PCs, Ended
<1> QED
  BY <1>4, <1>5, <1>6, <1>7, <1>8, <1>9, <1>10, <1>11

\* The scores of a workbook whose lines all have their student are scores.
LEMMA NewScores ==
  ASSUME BaseInv, NEW r \in Reqs, RowsKept(r), pc[r] = "row", ~MoreRows(r)
  PROVE  /\ ScoresOf(Exam(r), Book(r)) \in SUBSET Score
         /\ \A k \in ScoresOf(Exam(r), Book(r)) :
              k.exam = Exam(r) /\ k.student \in students /\ k.subject \in Book(r).cols
<1> USE DEF BaseInv
<1>1. \A i \in DOMAIN Book(r).rows : i < row[r]
  BY JobParts DEF MoreRows, TypeOK
<1> SUFFICES ASSUME NEW k \in ScoresOf(Exam(r), Book(r))
             PROVE  /\ k \in Score /\ k.exam = Exam(r)
                    /\ k.student \in students /\ k.subject \in Book(r).cols
  OBVIOUS
<1>2. PICK i \in DOMAIN Book(r).rows : \E s \in Book(r).rows[i].cells :
        k = [exam |-> Exam(r), subject |-> s,
             student |-> [name |-> Book(r).rows[i].name, class |-> Book(r).rows[i].class]]
  BY DEF ScoresOf
<1>3. PICK s \in Book(r).rows[i].cells :
        k = [exam |-> Exam(r), subject |-> s,
             student |-> [name |-> Book(r).rows[i].name, class |-> Book(r).rows[i].class]]
  BY <1>2
<1>4. k.student \in students
  BY <1>1, <1>3 DEF RowsKept, AfterLink, Importing
<1>5. k.student \in Student /\ s \in Book(r).cols /\ Exam(r) \in Exams /\ s \in Subjects
  BY <1>3, <1>4, LineParts, JobParts DEF TypeOK
<1> QED
  BY <1>3, <1>4, <1>5 DEF Score

\* The other statements.
LEMMA BaseLast ==
  ASSUME BaseInv, NEW r \in Reqs,
         \/ BatchCreateScores(r) \/ CountForUpdate(r) \/ UpdateFullScore(r)
         \/ InsertFullScore(r) \/ DeleteExam(r) \/ Abort(r)
  PROVE  /\ RowsKept(r) => TypeOK'
         /\ (Placed(r) /\ SubjectsKept(r))'
<1> USE DEF BaseInv, Goto, tables, locals
<1>0. TypeOK /\ Placed(r) /\ SubjectsKept(r)
  OBVIOUS
<1>a. Book(r).cols \subseteq Subjects /\ DOMAIN job[r].full \subseteq Subjects
  BY <1>0, JobParts
<1>1. CASE BatchCreateScores(r)
  <2>1. RowsKept(r) => TypeOK'
    <3>1. pc' \in [Reqs -> PCs]
      BY <1>0, <1>1 DEF BatchCreateScores, TypeOK, PCs, Ended
    <3>2. todo' \in [Reqs -> SUBSET Subjects]
      BY <1>0, <1>1, <1>a DEF BatchCreateScores, TypeOK, DetailSheets
    <3>3. RowsKept(r) => scores' \in SUBSET Score /\ written' \in [Reqs -> SUBSET Score]
      BY <1>0, <1>1, NewScores DEF BatchCreateScores, TypeOK
    <3> QED
      BY <1>0, <1>1, <3>1, <3>2, <3>3 DEF BatchCreateScores, TypeOK
  <2>2. Placed(r)'
    BY <1>0, <1>1 DEF BatchCreateScores, Placed, TypeOK, Exam, Importing, Looking, Updating, Imported
  <2>3. SubjectsKept(r)'
    BY <1>0, <1>1 DEF BatchCreateScores, SubjectsKept, TypeOK, Book, Importing, Looking, Updating
  <2> QED
    BY <2>1, <2>2, <2>3
<1>2. CASE CountForUpdate(r)
  BY <1>0, <1>2 DEF CountForUpdate, TypeOK, PCs, Ended, Placed, SubjectsKept, Exam, Book,
     Importing, Looking, Updating, Imported
<1>3. CASE UpdateFullScore(r) \/ InsertFullScore(r)
  <2>1. /\ cur[r] \in todo[r] /\ cur[r] \in Subjects /\ job[r].kind = "full"
        /\ cur[r] \in DOMAIN job[r].full
    BY <1>0, <1>3 DEF UpdateFullScore, InsertFullScore, SubjectsKept, Placed, Updating, TypeOK
  <2>2. job[r].full[cur[r]] \in FullScores /\ Stored(job[r].full[cur[r]]) \in FullScores
    BY <1>0, <2>1, JobParts DEF Stored
  <2>3. TypeOK'
    <3>1. pc' \in [Reqs -> PCs]
      BY <1>0, <1>3 DEF UpdateFullScore, InsertFullScore, NextFullScore, TypeOK, PCs, Ended
    <3>2. examSubjects' \in [Exams \X Subjects -> FullScores \cup {None}]
      BY <1>0, <1>3, <2>2 DEF UpdateFullScore, InsertFullScore, TypeOK
    <3> QED
      BY <1>0, <1>3, <3>1, <3>2 DEF UpdateFullScore, InsertFullScore, NextFullScore, TypeOK
  <2>4. (Placed(r) /\ SubjectsKept(r))'
    BY <1>0, <1>3, <2>1 DEF UpdateFullScore, InsertFullScore, NextFullScore, TypeOK, Placed,
       SubjectsKept, Exam, Book, Importing, Looking, Updating, Imported
  <2> QED
    BY <2>3, <2>4
<1>4. CASE DeleteExam(r)
  <2>1. TypeOK'
    BY <1>0, <1>4, JobParts DEF DeleteExam, TypeOK, PCs, Ended
  <2> QED
    BY <1>0, <1>4, <2>1, JobParts DEF DeleteExam, TypeOK, Placed, SubjectsKept, Exam, Book,
       Importing, Looking, Updating, Imported
<1>5. CASE Abort(r)
  BY <1>0, <1>5 DEF Abort, TypeOK, PCs, Ended, Placed, SubjectsKept, Exam, Book,
     Importing, Looking, Updating, Imported
<1> QED
  BY <1>1, <1>2, <1>3, <1>4, <1>5

-----------------------------------------------------------------------------
\* What a step of r does to the rows others rely on: none is lost while its exam
\* lives, and only the question rows of r's own scores change.
Frame(r) ==
  /\ \A e \in Exams, s \in Subjects : Linked(e, s) => Linked(e, s)' \/ exams'[e] = Gone
  /\ \A k \in scores : k \in scores' \/ exams'[k.exam] = Gone
  /\ \A k \in Score \ written[r] :
       items'[k] = items[k] \/ (items'[k] = 0 /\ exams'[k.exam] = Gone)

LEMMA StepFrame ==
  ASSUME IInv, NEW r \in Reqs, Step(r) \/ Abort(r)
  PROVE  Frame(r)
<1> USE DEF Frame, tables, Linked
<1>0. /\ TypeOK /\ Placed(r) /\ SubjectsKept(r) /\ Exam(r) \in Exams
      /\ \A k \in Score : k.exam \in Exams
  BY JobParts DEF IInv, Score
<1>1. CASE CreateExam(r)
  BY <1>1 DEF CreateExam
<1>2. CASE \/ CheckExamOwnership(r) \/ FindSubject(r) \/ CreateSubject(r) \/ CountExamSubject(r)
           \/ FindClass(r) \/ CreateClass(r) \/ FindStudent(r) \/ CreateStudent(r)
           \/ ReplyImported(r) \/ CountForUpdate(r) \/ Abort(r)
  <2>1. examSubjects' = examSubjects /\ scores' = scores /\ items' = items
    BY <1>2 DEF CheckExamOwnership, FindSubject, CreateSubject, CountExamSubject, FindClass,
       CreateClass, FindStudent, CreateStudent, ReplyImported, CountForUpdate, Abort
  <2> QED
    BY <2>1
<1>3. CASE CreateExamSubjects(r)
  <2>1. scores' = scores /\ items' = items
    BY <1>3 DEF CreateExamSubjects
  <2>2. \A es \in Exams \X Subjects : examSubjects'[es] \in {examSubjects[es], DefaultFull}
    BY <1>3 DEF CreateExamSubjects
  <2> QED
    BY <2>1, <2>2
<1>4. CASE BatchCreateScores(r)
  BY <1>4 DEF BatchCreateScores
<1>5. CASE BatchCreateItems(r)
  <2>1. scores' = scores /\ examSubjects' = examSubjects
    BY <1>5 DEF BatchCreateItems
  <2>2. \A k \in Score \ written[r] : items'[k] = items[k]
    BY <1>5 DEF BatchCreateItems, Detailed
  <2> QED
    BY <2>1, <2>2
<1>6. CASE UpdateFullScore(r) \/ InsertFullScore(r)
  <2>1. scores' = scores /\ items' = items
    BY <1>6 DEF UpdateFullScore, InsertFullScore
  <2>2. /\ job[r].full[cur[r]] \in FullScores
        /\ Stored(job[r].full[cur[r]]) \in FullScores
    BY <1>0, <1>6, JobParts DEF Stored, UpdateFullScore, InsertFullScore, SubjectsKept, Placed, Updating
  <2>3. \A es \in Exams \X Subjects : examSubjects[es] # None => examSubjects'[es] # None
    BY <1>0, <1>6, <2>2 DEF UpdateFullScore, InsertFullScore, TypeOK
  <2> QED
    BY <2>1, <2>3
<1>7. CASE DeleteExam(r)
  <2>1. exams'[Exam(r)] = Gone
    BY <1>0, <1>7 DEF DeleteExam, TypeOK
  <2>2. \A es \in Exams \X Subjects : es[1] = Exam(r) \/ examSubjects'[es] = examSubjects[es]
    BY <1>7 DEF DeleteExam
  <2>3. \A k \in scores : k.exam = Exam(r) \/ k \in scores'
    BY <1>7 DEF DeleteExam
  <2>4. \A k \in Score : items'[k] = items[k] \/ (items'[k] = 0 /\ k.exam = Exam(r))
    BY <1>7 DEF DeleteExam
  <2> QED
    BY <2>1, <2>2, <2>3, <2>4
<1> QED
  BY <1>1, <1>2, <1>3, <1>4, <1>5, <1>6, <1>7 DEF Step

\* The scores of a workbook are all of its exam.
LEMMA ScoresOfExam ==
  ASSUME NEW e, NEW b, NEW k \in ScoresOf(e, b)
  PROVE  k.exam = e
BY DEF ScoresOf

\* A live exam is neither unborn nor gone.
LEMMA LiveExam ==
  ASSUME NEW e, Live(e)
  PROVE  exams[e] # Unborn /\ exams[e] # Gone
BY DEF Live

\* A step of r keeps what another request relies on.
LEMMA KeptOthers ==
  ASSUME IInv, NEW r \in Reqs, Others(r), Frame(r), NEW q \in Reqs \ {r}
  PROVE  (LinksKept(q) /\ RowsKept(q) /\ WritesKept(q) /\ ItemsKept(q))'
<1>0. /\ TypeOK /\ Placed(q) /\ SubjectsKept(q)
      /\ LinksKept(q) /\ RowsKept(q) /\ WritesKept(q) /\ ItemsKept(q)
      /\ written[q] \cap written[r] = {}
  BY DEF IInv
<1>1. /\ Exam(q) \in Exams /\ Exam(q)' = Exam(q) /\ Book(q)' = Book(q)
      /\ Book(q).cols \subseteq Subjects
      /\ job'[q] = job[q] /\ pc'[q] = pc[q] /\ todo'[q] = todo[q] /\ cur'[q] = cur[q]
      /\ missing'[q] = missing[q] /\ row'[q] = row[q] /\ written'[q] = written[q]
      /\ written[q] \subseteq Score
  BY <1>0, JobParts DEF Others, Exam, Book, TypeOK
<1>2. exams[Exam(q)] # Unborn /\ Live(Exam(q))' => Live(Exam(q)) /\ exams'[Exam(q)] # Gone
  BY <1>1 DEF Others, Live
<1>3. \A k \in written[q] : k.exam = Exam(q)
  BY <1>0, ScoresOfExam DEF WritesKept
<1>4. Importing \subseteq Looking \cup Importing \cup Updating \cup {"delete"}
  OBVIOUS
<1>5. (pc[q] \in Importing \/ Imported(q)) => exams[Exam(q)] # Unborn
  BY <1>0, <1>1, JobParts DEF Placed
<1>6. LinksKept(q)'
  <2>1. \A s \in Subjects : Live(Exam(q))' /\ exams[Exam(q)] # Unborn /\ Linked(Exam(q), s)
          => Linked(Exam(q), s)'
    BY <1>1, <1>2 DEF Frame, Linked
  <2> QED
    BY <1>0, <1>1, <1>2, <1>5, <2>1 DEF LinksKept, Importing, AfterLink, Imported
<1>7. RowsKept(q)'
  BY <1>0, <1>1 DEF RowsKept, Others, MoreRows, Line
<1>8. WritesKept(q)'
  <2>1. exams'[Exam(q)] # Unborn \/ written[q] = {}
    BY <1>0, <1>1 DEF Others, WritesKept
  <2>2. Live(Exam(q))' => written[q] \subseteq scores'
    BY <1>0, <1>1, <1>2, <1>3 DEF WritesKept, Frame
  <2> QED
    BY <1>0, <1>1, <2>1, <2>2 DEF WritesKept, Imported
<1>9. ItemsKept(q)'
  <2>0. \A k : Lines(q, k)' = Lines(q, k)
    BY <1>1 DEF Lines
  <2>1. \A k \in written[q] : items'[k] = items[k] \/ (items'[k] = 0 /\ exams'[Exam(q)] = Gone)
    BY <1>0, <1>1, <1>3 DEF Frame
  <2>2. Live(Exam(q))' => exams'[Exam(q)] # Gone
    BY <1>1 DEF Live
  <2> QED
    BY <1>0, <1>1, <1>2, <1>5, <2>0, <2>1, <2>2 DEF ItemsKept, Imported, Importing
<1> QED
  BY <1>6, <1>7, <1>8, <1>9

-----------------------------------------------------------------------------
\* What a step of r does to what r itself relies on: one lemma for each part.
LEMMA LinksOwn ==
  ASSUME IInv, NEW r \in Reqs, Others(r), Frame(r), Step(r) \/ Abort(r)
  PROVE  LinksKept(r)'
<1> USE DEF Goto, tables, locals
<1>0. TypeOK /\ Placed(r) /\ SubjectsKept(r) /\ LinksKept(r)
  BY DEF IInv
<1>1. /\ Exam(r) \in Exams /\ Exam(r)' = Exam(r) /\ Book(r)' = Book(r)
      /\ Book(r).cols \subseteq Subjects /\ job' = job
  BY <1>0, JobParts DEF Others, Exam, Book
<1>2. pc[r] \in Looking \cup Importing \/ Imported(r) =>
        (Live(Exam(r))' => Live(Exam(r)) /\ exams'[Exam(r)] # Gone)
  <2>1. Live(Exam(r))' => exams'[Exam(r)] # Gone
    BY <1>1 DEF Live
  <2>2. pc[r] \in Looking \cup Importing \/ Imported(r) => exams[Exam(r)] # Unborn
    BY <1>0, <1>1, JobParts DEF Placed
  <2> QED
    BY <1>1, <2>1, <2>2 DEF Others, Live
<1>3. \A s \in Subjects : pc[r] \in Looking \cup Importing /\ Live(Exam(r))' /\ Linked(Exam(r), s)
        => Linked(Exam(r), s)'
  BY <1>1, <1>2 DEF Frame, Linked
<1>4. CASE FindSubject(r) \/ CreateSubject(r)
  BY <1>0, <1>1, <1>4 DEF FindSubject, CreateSubject, Resolved, LinksKept, TypeOK,
     Looking, Importing, Updating, AfterLink, Imported
<1>5. CASE CountExamSubject(r)
  <2>1. PICK s \in todo[r] :
          /\ todo'[r] = todo[r] \ {s}
          /\ \/ Linked(Exam(r), s) /\ missing'[r] = missing[r]
             \/ missing'[r] = missing[r] \cup {s}
    BY <1>0, <1>5 DEF CountExamSubject, TypeOK
  <2>2. pc[r] = "link" /\ pc' = pc /\ exams' = exams /\ examSubjects' = examSubjects
    BY <1>5 DEF CountExamSubject
  <2>3. todo[r] \subseteq Book(r).cols /\ missing[r] \subseteq Book(r).cols
    BY <1>0, <2>2 DEF LinksKept
  <2>4. todo'[r] \subseteq Book(r).cols /\ missing'[r] \subseteq Book(r).cols
    BY <2>1, <2>3
  <2>5. ASSUME Live(Exam(r))', NEW t \in Book(r).cols \ todo'[r]
        PROVE  t \in missing'[r] \/ Linked(Exam(r), t)
    <3>1. t = s \/ t \in Book(r).cols \ todo[r]
      BY <2>1, <2>5
    <3>2. Live(Exam(r))
      BY <1>1, <1>2, <2>2, <2>5 DEF Importing
    <3> QED
      BY <1>0, <2>1, <2>2, <3>1, <3>2 DEF LinksKept
  <2>6. \A t : Linked(Exam(r), t)' <=> Linked(Exam(r), t)
    BY <1>1, <2>2 DEF Linked
  <2> QED
    BY <1>1, <2>2, <2>4, <2>5, <2>6 DEF LinksKept, Looking, Importing, Updating, AfterLink, Imported
<1>6. CASE CreateExamSubjects(r)
  <2>1. pc[r] = "link" /\ todo[r] = {} /\ todo' = todo /\ exams' = exams
    BY <1>6 DEF CreateExamSubjects
  <2>2. pc'[r] = "failed" \/ pc'[r] = "row"
    BY <1>0, <1>6 DEF CreateExamSubjects, TypeOK
  <2>3. ASSUME pc'[r] = "row", Live(Exam(r)), NEW s \in Book(r).cols
        PROVE  examSubjects'[<<Exam(r), s>>] # None
    <3>1. s \in missing[r] \/ Linked(Exam(r), s)
      BY <1>0, <2>1, <2>3 DEF LinksKept
    <3>2. examSubjects' = [es \in Exams \X Subjects |->
            IF es[1] = Exam(r) /\ es[2] \in missing[r] THEN DefaultFull ELSE examSubjects[es]]
      BY <1>0, <1>6, <2>3 DEF CreateExamSubjects, TypeOK
    <3> QED
      BY <1>1, <3>1, <3>2 DEF Linked
  <2>4. \A s \in Book(r).cols : pc'[r] = "row" /\ Live(Exam(r)) => Linked(Exam(r), s)'
    BY <1>1, <2>3 DEF Linked
  <2>5. Live(Exam(r))' => Live(Exam(r))
    BY <1>1, <2>1 DEF Live
  <2> QED
    BY <1>1, <2>1, <2>2, <2>4, <2>5 DEF LinksKept, Looking, Importing, Updating, AfterLink, Imported
<1>7. CASE \/ FindClass(r) \/ CreateClass(r) \/ FindStudent(r) \/ CreateStudent(r)
           \/ BatchCreateScores(r) \/ BatchCreateItems(r) \/ ReplyImported(r)
  <2>1. /\ pc[r] \in AfterLink
        /\ pc'[r] \in AfterLink \cup {"failed", "ok"}
    BY <1>0, <1>7 DEF FindClass, CreateClass, FindStudent, CreateStudent, NextRow,
       BatchCreateScores, BatchCreateItems, ReplyImported, TypeOK, AfterLink, Importing
  <2>2. \A s \in Book(r).cols : Live(Exam(r))' => Linked(Exam(r), s)'
    BY <1>0, <1>1, <1>2, <1>3, <2>1 DEF LinksKept, AfterLink
  <2> QED
    BY <1>1, <2>1, <2>2 DEF LinksKept, Looking, Importing, Updating, AfterLink
<1>8. CASE \/ CreateExam(r) \/ CheckExamOwnership(r)
           \/ CountForUpdate(r) \/ UpdateFullScore(r) \/ InsertFullScore(r) \/ DeleteExam(r)
  <2>1. missing'[r] = missing[r]
    BY <1>8 DEF CreateExam, CheckExamOwnership, CountForUpdate, UpdateFullScore,
       InsertFullScore, DeleteExam
  <2>2. pc'[r] \in {"failed", "ok", "subject", "delete", "update", "insert"}
    BY <1>0, <1>8 DEF CreateExam, CheckExamOwnership, StartLoop, CountForUpdate, UpdateFullScore,
       InsertFullScore, NextFullScore, DeleteExam, TypeOK
  <2>3. pc'[r] \in {"subject", "update", "insert"} => missing[r] = {}
    BY <1>0, <1>8 DEF CreateExam, CheckExamOwnership, CountForUpdate, UpdateFullScore,
       InsertFullScore, NextFullScore, DeleteExam, TypeOK, LinksKept, Updating
  <2>4. ~Imported(r)'
    BY <1>0, <1>8, <1>1 DEF CreateExam, CheckExamOwnership, StartLoop, CountForUpdate, UpdateFullScore,
       InsertFullScore, NextFullScore, DeleteExam, TypeOK, Imported, Placed, Updating
  <2> QED
    BY <2>1, <2>2, <2>3, <2>4 DEF LinksKept, Looking, Importing, Updating, AfterLink
<1>9. CASE Abort(r)
  BY <1>0, <1>9 DEF Abort, LinksKept, TypeOK, Looking, Importing, Updating, AfterLink, Imported
<1> QED
  BY <1>4, <1>5, <1>6, <1>7, <1>8, <1>9 DEF Step

LEMMA RowsOwn ==
  ASSUME IInv, NEW r \in Reqs, Others(r), Step(r) \/ Abort(r)
  PROVE  RowsKept(r)'
<1> USE DEF Goto, tables, locals
<1>0. TypeOK /\ Placed(r) /\ SubjectsKept(r) /\ LinksKept(r) /\ RowsKept(r)
  BY DEF IInv
<1>1. Exam(r)' = Exam(r) /\ Book(r)' = Book(r) /\ job' = job
  BY <1>0 DEF Others, Exam, Book
<1>2. row[r] \in Nat \ {0} /\ \A i \in DOMAIN Book(r).rows : i \in Nat \ {0}
  BY <1>0, LineParts DEF TypeOK
<1>3. CASE \/ CreateExam(r) \/ CheckExamOwnership(r) \/ FindSubject(r) \/ CreateSubject(r)
           \/ CountForUpdate(r) \/ UpdateFullScore(r) \/ InsertFullScore(r) \/ DeleteExam(r)
           \/ CountExamSubject(r)
  <2>1. row' = row /\ pc[r] \in {"create", "check", "link", "delete"} \cup Looking \cup Updating
    BY <1>3 DEF CreateExam, CheckExamOwnership, FindSubject, CreateSubject, CountForUpdate,
       UpdateFullScore, InsertFullScore, DeleteExam, CountExamSubject, Looking, Updating
  <2>2. pc'[r] \in {"check", "link", "delete", "ok", "failed"} \cup Looking \cup Updating
    BY <1>0, <1>3 DEF CreateExam, CheckExamOwnership, StartLoop, FindSubject, CreateSubject, Resolved,
       CountForUpdate, UpdateFullScore, InsertFullScore, NextFullScore, DeleteExam,
       CountExamSubject, TypeOK, Looking, Updating
  <2>3. pc[r] = "delete" => pc'[r] = "ok"
    BY <1>0, <1>3 DEF CreateExam, CheckExamOwnership, FindSubject, CreateSubject, CountForUpdate,
       UpdateFullScore, InsertFullScore, DeleteExam, CountExamSubject, TypeOK
  <2> QED
    BY <1>0, <2>1, <2>2, <2>3 DEF RowsKept, AfterLink, Importing, Looking, Updating
<1>4. CASE CreateExamSubjects(r)
  <2>1. row' = row /\ row[r] = 1 /\ pc'[r] \in {"row", "failed"}
    BY <1>0, <1>4 DEF CreateExamSubjects, TypeOK, RowsKept
  <2> QED
    BY <1>1, <1>2, <2>1 DEF RowsKept, AfterLink, Importing, Looking, Updating
<1>5. CASE FindClass(r)
  <2>1. /\ row' = row /\ students' = students /\ classes' = classes /\ MoreRows(r)
        /\ pc[r] = "row" /\ pc'[r] \in {"failed", "student", "newClass"}
        /\ pc'[r] = "student" => Line(r).class \in classes
        /\ pc'[r] \in {"student", "newClass"} => Line(r).class # None
    BY <1>0, <1>5 DEF FindClass, TypeOK
  <2> QED
    BY <1>0, <1>1, <2>1 DEF RowsKept, AfterLink, Importing, Looking, Updating, MoreRows, Line
<1>6. CASE CreateClass(r)
  <2>1. /\ row' = row /\ students' = students /\ Line(r).class \in classes'
        /\ pc[r] = "newClass" /\ pc'[r] \in {"failed", "student"}
    BY <1>0, <1>6 DEF CreateClass, TypeOK
  <2> QED
    BY <1>0, <1>1, <2>1 DEF RowsKept, AfterLink, Importing, Looking, Updating, MoreRows, Line
<1>7. CASE FindStudent(r) \/ CreateStudent(r)
  <2>1. /\ pc[r] \in {"student", "newStudent"} /\ pc'[r] \in {"row", "newStudent", "failed"}
        /\ students \subseteq students' /\ classes' = classes
        /\ pc'[r] = "newStudent" => row' = row
        /\ pc'[r] = "row" => row'[r] = row[r] + 1 /\ StudentAt(r) \in students'
    BY <1>0, <1>7 DEF FindStudent, CreateStudent, NextRow, TypeOK
  <2>2. MoreRows(r) /\ Line(r).class # None /\ Line(r).class \in classes
    BY <1>0, <2>1 DEF RowsKept
  <2>3. \A i \in DOMAIN Book(r).rows : i < row[r] =>
          [name |-> Book(r).rows[i].name, class |-> Book(r).rows[i].class] \in students
    BY <1>0, <2>1 DEF RowsKept, AfterLink, Importing
  <2>4. CASE pc'[r] = "row"
    <3>1. \A i \in DOMAIN Book(r).rows : i < row'[r] => i < row[r] \/ i = row[r]
      BY <1>2, <2>1, <2>4
    <3>2. \A i \in DOMAIN Book(r).rows : i < row'[r] =>
            [name |-> Book(r).rows[i].name, class |-> Book(r).rows[i].class] \in students'
      BY <2>1, <2>3, <2>4, <3>1 DEF StudentAt, Line
    <3> QED
      BY <1>1, <2>4, <3>2 DEF RowsKept, AfterLink, Importing, Looking, Updating
  <2>5. CASE pc'[r] # "row"
    BY <1>1, <2>1, <2>2, <2>3, <2>5 DEF RowsKept, AfterLink, Importing, Looking, Updating, MoreRows, Line
  <2> QED
    BY <2>4, <2>5
<1>8. CASE BatchCreateScores(r) \/ BatchCreateItems(r) \/ ReplyImported(r) \/ Abort(r)
  <2>1. pc'[r] \in {"items", "failed", "ok", "aborted"}
    BY <1>0, <1>8 DEF BatchCreateScores, BatchCreateItems, ReplyImported, Abort, TypeOK
  <2> QED
    BY <2>1 DEF RowsKept, AfterLink, Importing, Looking, Updating
<1> QED
  BY <1>3, <1>4, <1>5, <1>6, <1>7, <1>8 DEF Step

\* A batch is inserted when none of its scores is there and the exam is.
LEMMA BatchEffect ==
  ASSUME IInv, NEW r \in Reqs, BatchCreateScores(r)
  PROVE  LET new == ScoresOf(Exam(r), Book(r)) IN
         /\ pc[r] = "row" /\ written[r] = {} /\ exams[Exam(r)] # Unborn
         /\ exams' = exams /\ items' = items /\ pc'[r] \in {"items", "failed"}
         /\ pc'[r] = "failed" => written'[r] = {} /\ scores' = scores
         /\ pc'[r] = "items" => /\ written'[r] = new /\ scores' = scores \cup new
                                /\ new # {} => new \cap scores = {} /\ Live(Exam(r))
                                /\ todo'[r] = DetailSheets(Book(r))
<1> USE DEF Goto
<1>1. TypeOK /\ Placed(r) /\ WritesKept(r) /\ Exam(r) \in Exams
  BY JobParts DEF IInv
<1>2. pc[r] = "row"
  BY DEF BatchCreateScores
<1>3. written[r] = {}
  BY <1>1, <1>2 DEF WritesKept, Ended
<1>4. exams[Exam(r)] # Unborn
  BY <1>1, <1>2, JobParts DEF Placed, Importing
<1> QED
  BY <1>1, <1>2, <1>3, <1>4 DEF BatchCreateScores, TypeOK

\* A statement before the batch of scores inserts none, and is not the last.
LEMMA Early ==
  ASSUME IInv, NEW r \in Reqs,
         \/ CreateExam(r) \/ CheckExamOwnership(r) \/ FindSubject(r) \/ CreateSubject(r)
         \/ CountForUpdate(r) \/ UpdateFullScore(r) \/ InsertFullScore(r) \/ DeleteExam(r)
         \/ CountExamSubject(r) \/ CreateExamSubjects(r) \/ FindClass(r) \/ CreateClass(r)
         \/ FindStudent(r) \/ CreateStudent(r)
  PROVE  written' = written /\ written[r] = {} /\ pc'[r] # "items" /\ ~Imported(r)'
<1> USE DEF Goto, tables, locals
<1>0. TypeOK /\ Placed(r) /\ WritesKept(r)
  BY DEF IInv
<1>1. written' = written /\ pc[r] \notin {"items"} \cup Ended
  BY DEF CreateExam, CheckExamOwnership, FindSubject, CreateSubject, CountForUpdate,
     UpdateFullScore, InsertFullScore, DeleteExam, CountExamSubject, CreateExamSubjects,
     FindClass, CreateClass, FindStudent, CreateStudent, Ended
<1>2. written[r] = {}
  BY <1>0, <1>1 DEF WritesKept
<1>3. pc'[r] # "items"
  BY <1>0 DEF CreateExam, CheckExamOwnership, StartLoop, FindSubject, CreateSubject, Resolved,
     CountForUpdate, UpdateFullScore, InsertFullScore, NextFullScore, DeleteExam,
     CountExamSubject, CreateExamSubjects, FindClass, CreateClass, FindStudent, CreateStudent,
     NextRow, TypeOK
<1>4. ~Imported(r)'
  BY <1>0 DEF CreateExam, CheckExamOwnership, StartLoop, FindSubject, CreateSubject,
     Resolved, CountForUpdate, UpdateFullScore, InsertFullScore, NextFullScore, DeleteExam,
     CountExamSubject, CreateExamSubjects, FindClass, CreateClass, FindStudent, CreateStudent,
     NextRow, TypeOK, Imported, Placed, Updating
<1> QED
  BY <1>1, <1>2, <1>3, <1>4

LEMMA WritesOwn ==
  ASSUME IInv, NEW r \in Reqs, Others(r), Frame(r), Step(r) \/ Abort(r)
  PROVE  WritesKept(r)'
<1> USE DEF Goto, tables, locals
<1>0. TypeOK /\ Placed(r) /\ WritesKept(r)
  BY DEF IInv
<1>1. /\ Exam(r) \in Exams /\ Exam(r)' = Exam(r) /\ Book(r)' = Book(r) /\ job' = job
      /\ \A k \in written[r] : k.exam = Exam(r)
  BY <1>0, JobParts, ScoresOfExam DEF Others, Exam, Book, WritesKept
<1>2. exams[Exam(r)] # Unborn => exams'[Exam(r)] # Unborn
  BY <1>1 DEF Others
<1>3. exams[Exam(r)] # Unborn /\ Live(Exam(r))' => Live(Exam(r)) /\ exams'[Exam(r)] # Gone
  BY <1>1 DEF Others, Live
<1>4. CASE BatchCreateScores(r)
  <2>1. Live(Exam(r))' => written'[r] \subseteq scores'
    BY <1>4, BatchEffect
  <2> QED
    BY <1>1, <1>2, <1>4, <2>1, BatchEffect DEF WritesKept, Ended, Imported
<1>5. CASE BatchCreateItems(r) \/ ReplyImported(r) \/ Abort(r)
  <2>1. /\ written' = written /\ scores' = scores /\ exams' = exams
        /\ pc'[r] \in {"items"} \cup Ended
        /\ pc'[r] \in {"items", "ok"} => pc[r] = "items"
    BY <1>0, <1>5 DEF BatchCreateItems, ReplyImported, Abort, TypeOK, Ended
  <2> QED
    BY <1>0, <1>1, <1>2, <1>3, <2>1 DEF WritesKept, Imported
<1>6. CASE \/ CreateExam(r) \/ CheckExamOwnership(r) \/ FindSubject(r) \/ CreateSubject(r)
           \/ CountForUpdate(r) \/ UpdateFullScore(r) \/ InsertFullScore(r) \/ DeleteExam(r)
           \/ CountExamSubject(r) \/ CreateExamSubjects(r) \/ FindClass(r) \/ CreateClass(r)
           \/ FindStudent(r) \/ CreateStudent(r)
  BY <1>6, Early DEF WritesKept
<1> QED
  BY <1>4, <1>5, <1>6 DEF Step

LEMMA ItemsOwn ==
  ASSUME IInv, NEW r \in Reqs, Others(r), Step(r) \/ Abort(r)
  PROVE  ItemsKept(r)'
<1> USE DEF Goto, tables, locals
<1>0. TypeOK /\ WritesKept(r) /\ RowsKept(r) /\ ItemsKept(r) /\ BaseInv /\ Integrity
  BY DEF IInv, BaseInv
<1>1. /\ Exam(r) \in Exams /\ Exam(r)' = Exam(r) /\ Book(r)' = Book(r) /\ job' = job
      /\ Book(r).details \in [Subjects \X Names -> Nat]
      /\ \A k : Lines(r, k)' = Lines(r, k)
  BY <1>0, JobParts DEF Others, Exam, Book, Lines
<1>2. CASE BatchCreateScores(r)
  <2>1. CASE pc'[r] = "failed"
    BY <2>1 DEF ItemsKept, Imported
  <2>2. CASE pc'[r] = "items"
    <3>1. /\ written'[r] = ScoresOf(Exam(r), Book(r)) /\ todo'[r] = DetailSheets(Book(r))
          /\ items' = items /\ written'[r] \cap scores = {}
      BY <1>2, <2>2, BatchEffect
    <3>2. \A k \in written'[r] : k \in Score /\ k.subject \in Book(r).cols
      BY <1>0, <1>2, <3>1, NewScores DEF BatchCreateScores
    <3>3. \A k \in written'[r] : items'[k] = 0
      BY <1>0, <3>1, <3>2 DEF Integrity
    <3>4. ASSUME NEW k \in written'[r], k.subject \notin todo'[r]
          PROVE  Lines(r, k) = 0
      <4>1. k.student.name \in Names /\ k.subject \in Book(r).cols
        BY <3>2 DEF Score, Student
      <4>2. ~(Lines(r, k) > 0)
        BY <3>1, <3>4, <4>1 DEF DetailSheets, Lines
      <4> QED
        BY <1>0, <3>2, <4>2, LinesType
    <3> QED
      BY <1>1, <2>2, <3>1, <3>3, <3>4 DEF ItemsKept, Imported
  <2> QED
    BY <1>2, <2>1, <2>2, BatchEffect
<1>3. CASE BatchCreateItems(r)
  <2>1. /\ pc[r] = "items" /\ written' = written /\ exams' = exams
        /\ written[r] \subseteq Score
    BY <1>0, <1>3 DEF BatchCreateItems, TypeOK
  <2>2. CASE pc'[r] = "failed"
    BY <2>2 DEF ItemsKept, Imported
  <2>3. CASE pc'[r] # "failed"
    <3>1. PICK s \in todo[r] :
            /\ items' = [k \in Score |->
                          IF k \in Detailed(r, s) THEN items[k] + Lines(r, k) ELSE items[k]]
            /\ todo'[r] = todo[r] \ {s}
            /\ pc' = pc
      BY <1>0, <1>3, <2>3 DEF BatchCreateItems, TypeOK
    <3>2. \A k \in written[r] : k.subject \in todo'[r] => items'[k] = 0
      BY <1>0, <2>1, <3>1 DEF ItemsKept, Detailed
    <3>3. ASSUME NEW k \in written[r], Live(Exam(r)), k.subject \notin todo'[r]
          PROVE  items'[k] = Lines(r, k)
      <4>0. Lines(r, k) \in Nat /\ k \in Score
        BY <1>0, <2>1, LinesType
      <4>1. CASE k.subject = s
        BY <1>0, <2>1, <3>1, <4>0, <4>1 DEF ItemsKept, Detailed
      <4>2. CASE k.subject # s
        BY <1>0, <2>1, <3>1, <3>3, <4>2 DEF ItemsKept, Detailed
      <4> QED
        BY <4>1, <4>2
    <3>4. Live(Exam(r))' <=> Live(Exam(r))
      BY <1>1, <2>1 DEF Live
    <3>5. todo'[r] \subseteq DetailSheets(Book(r))
      BY <1>0, <2>1, <3>1 DEF ItemsKept
    <3> QED
      BY <1>1, <2>1, <3>1, <3>2, <3>3, <3>4, <3>5 DEF ItemsKept, Imported
  <2> QED
    BY <2>2, <2>3
<1>4. CASE ReplyImported(r)
  <2>1. /\ pc[r] = "items" /\ todo[r] = {} /\ written' = written /\ items' = items
        /\ exams' = exams /\ pc'[r] = "ok"
    BY <1>0, <1>4 DEF ReplyImported, TypeOK
  <2>2. Live(Exam(r))' <=> Live(Exam(r))
    BY <1>1, <2>1 DEF Live
  <2> QED
    BY <1>0, <1>1, <2>1, <2>2 DEF ItemsKept, Imported
<1>5. CASE Abort(r)
  BY <1>0, <1>5 DEF Abort, TypeOK, ItemsKept, Imported
<1>6. CASE \/ CreateExam(r) \/ CheckExamOwnership(r) \/ FindSubject(r) \/ CreateSubject(r)
           \/ CountForUpdate(r) \/ UpdateFullScore(r) \/ InsertFullScore(r) \/ DeleteExam(r)
           \/ CountExamSubject(r) \/ CreateExamSubjects(r) \/ FindClass(r) \/ CreateClass(r)
           \/ FindStudent(r) \/ CreateStudent(r)
  BY <1>6, Early DEF ItemsKept
<1> QED
  BY <1>2, <1>3, <1>4, <1>5, <1>6 DEF Step

-----------------------------------------------------------------------------
\* The invariants of the tables.

\* Only a deletion ends an exam.
LEMMA Survive ==
  ASSUME IInv, NEW r \in Reqs, Others(r), Step(r) \/ Abort(r), ~DeleteExam(r), NEW e \in Exams, Live(e)
  PROVE  Live(e)'
<1>1. TypeOK
  BY DEF IInv
<1>2. CASE CreateExam(r)
  BY <1>1, <1>2, LiveExam DEF CreateExam, Live, TypeOK
<1>3. CASE ~CreateExam(r)
  <2>1. exams' = exams
    BY <1>3 DEF Step, Abort, tables, CheckExamOwnership, FindSubject, CreateSubject, CountExamSubject,
       CreateExamSubjects, FindClass, CreateClass, FindStudent, CreateStudent, BatchCreateScores,
       BatchCreateItems, ReplyImported, CountForUpdate, UpdateFullScore, InsertFullScore
  <2> QED
    BY <2>1 DEF Live
<1> QED
  BY <1>2, <1>3

\* A deletion takes every row of its exam, and no other.
LEMMA DeleteEffect ==
  ASSUME TypeOK, NEW r \in Reqs, DeleteExam(r)
  PROVE  /\ \A es \in Exams \X Subjects :
              examSubjects'[es] = IF es[1] = Exam(r) THEN None ELSE examSubjects[es]
         /\ scores' = {k \in scores : k.exam # Exam(r)}
         /\ \A k \in Score : items'[k] = IF k \in scores /\ k.exam = Exam(r) THEN 0 ELSE items[k]
         /\ \A e \in Exams : exams'[e] = IF e = Exam(r) THEN Gone ELSE exams[e]
         /\ subjects' = subjects /\ classes' = classes /\ students' = students
         /\ written' = written
BY JobParts DEF DeleteExam, TypeOK, locals

LEMMA LinkStep ==
  ASSUME IInv, NEW r \in Reqs, Others(r), Step(r) \/ Abort(r)
  PROVE  (\A e \in Exams, s \in Subjects : Linked(e, s) => Live(e) /\ s \in subjects)'
<1>0. TypeOK /\ Integrity /\ SubjectsKept(r) /\ Placed(r) /\ LinksKept(r) /\ Exam(r) \in Exams
  BY JobParts DEF IInv
<1>1. SUFFICES ASSUME NEW e \in Exams, NEW s \in Subjects, Linked(e, s)'
               PROVE  Live(e)' /\ s \in subjects'
  OBVIOUS
<1>2. CASE DeleteExam(r)
  <2>1. Linked(e, s) /\ exams'[e] = exams[e]
    BY <1>0, <1>1, <1>2, DeleteEffect DEF Linked
  <2> QED
    BY <1>0, <1>2, <2>1, DeleteEffect DEF Integrity, Live
<1>3. CASE ~DeleteExam(r)
  <2>1. CASE Linked(e, s)
    BY <1>0, <1>3, <2>1, Survive DEF Integrity, Others
  <2>2. CASE ~Linked(e, s)
    <3>1. CreateExamSubjects(r) \/ UpdateFullScore(r) \/ InsertFullScore(r)
      BY <1>1, <1>3, <2>2 DEF Linked, Step, Abort, tables, CreateExam, CheckExamOwnership, FindSubject,
         CreateSubject, CountExamSubject, FindClass, CreateClass, FindStudent, CreateStudent,
         BatchCreateScores, BatchCreateItems, ReplyImported, CountForUpdate
    <3>2. CASE CreateExamSubjects(r)
      <4>1. pc[r] = "link" /\ subjects' = subjects
        BY <3>2 DEF CreateExamSubjects
      <4>2. e = Exam(r) /\ s \in missing[r] /\ Live(Exam(r))
        BY <1>1, <2>2, <3>2 DEF CreateExamSubjects, Linked
      <4>3. s \in subjects
        BY <1>0, <4>1, <4>2 DEF LinksKept, SubjectsKept, Importing
      <4> QED
        BY <1>3, <4>1, <4>2, <4>3, Survive
    <3>3. CASE UpdateFullScore(r)
      BY <1>0, <1>1, <2>2, <3>3 DEF UpdateFullScore, Linked, TypeOK
    <3>4. CASE InsertFullScore(r)
      <4>1. e = Exam(r) /\ s = cur[r] /\ Live(Exam(r)) /\ subjects' = subjects /\ pc[r] = "insert"
        BY <1>0, <1>1, <2>2, <3>4 DEF InsertFullScore, Linked, TypeOK
      <4> QED
        BY <1>0, <1>3, <4>1, Survive DEF SubjectsKept, Updating
    <3> QED
      BY <3>1, <3>2, <3>3, <3>4
  <2> QED
    BY <2>1, <2>2
<1> QED
  BY <1>2, <1>3

\* A score is there, or comes with a batch whose exam is live and whose subjects
\* are linked to it.
LEMMA ScoreStep ==
  ASSUME IInv, NEW r \in Reqs, Others(r), Frame(r), Step(r) \/ Abort(r)
  PROVE  /\ (\A k \in scores : Live(k.exam) /\ k.student \in students /\ k.subject \in subjects)'
         /\ ScoresLinked'
         /\ (\A k \in scores : \E q \in Reqs : k \in written[q])'
<1>0. /\ TypeOK /\ Integrity /\ ScoresLinked /\ SubjectsKept(r) /\ Placed(r) /\ LinksKept(r)
      /\ WritesKept(r) /\ RowsKept(r) /\ BaseInv /\ Exam(r) \in Exams
      /\ \A k \in scores : \E q \in Reqs : k \in written[q]
  BY JobParts DEF IInv, BaseInv
<1>1. SUFFICES ASSUME NEW k \in scores'
               PROVE  /\ Live(k.exam)' /\ k.student \in students' /\ k.subject \in subjects'
                      /\ Linked(k.exam, k.subject)'
                      /\ \E q \in Reqs : k \in written'[q]
  BY DEF ScoresLinked
<1>2. \A q \in Reqs : written[q] \subseteq written'[q]
  <2>1. written'[r] = written[r] \/ written[r] = {}
    BY <1>0, BatchEffect, Early DEF Step, Abort, BatchCreateItems, ReplyImported, locals
  <2> QED
    BY <2>1 DEF Others
<1>3. CASE k \in scores
  <2>1. /\ Live(k.exam) /\ k.student \in students /\ k.subject \in subjects
        /\ Linked(k.exam, k.subject) /\ \E q \in Reqs : k \in written[q]
    BY <1>0, <1>3 DEF Integrity, ScoresLinked
  <2>2. k.exam \in Exams /\ k.subject \in Subjects
    BY <1>0, <1>3 DEF TypeOK, Score
  <2>3. Live(k.exam)' /\ Linked(k.exam, k.subject)'
    <3>1. CASE DeleteExam(r)
      BY <1>0, <1>1, <2>1, <2>2, <3>1, DeleteEffect DEF Live, Linked
    <3>2. CASE ~DeleteExam(r)
      <4>1. Live(k.exam)'
        BY <2>1, <2>2, <3>2, Survive
      <4> QED
        BY <2>1, <2>2, <4>1 DEF Frame, Live
    <3> QED
      BY <3>1, <3>2
  <2> QED
    BY <1>2, <2>1, <2>3 DEF Others
<1>4. CASE k \notin scores
  <2>1. BatchCreateScores(r)
    BY <1>1, <1>4 DEF Step, Abort, tables, CreateExam, CheckExamOwnership, FindSubject,
       CreateSubject, CountExamSubject, CreateExamSubjects, FindClass, CreateClass, FindStudent,
       CreateStudent, BatchCreateItems, ReplyImported, CountForUpdate, UpdateFullScore,
       InsertFullScore, DeleteExam
  <2>2. /\ k \in ScoresOf(Exam(r), Book(r)) /\ Live(Exam(r)) /\ exams' = exams
        /\ written'[r] = ScoresOf(Exam(r), Book(r)) /\ pc[r] = "row" /\ ~MoreRows(r)
    BY <1>1, <1>4, <2>1, BatchEffect DEF BatchCreateScores
  <2>3. k.exam = Exam(r) /\ k.student \in students /\ k.subject \in Book(r).cols
    BY <1>0, <2>2, NewScores
  <2>4. k.subject \in subjects /\ Linked(Exam(r), k.subject)
    BY <1>0, <2>2, <2>3 DEF SubjectsKept, LinksKept, AfterLink, Importing
  <2>5. examSubjects' = examSubjects
    BY <2>1 DEF BatchCreateScores
  <2> QED
    BY <2>2, <2>3, <2>4, <2>5 DEF Others, Live, Linked
<1> QED
  BY <1>3, <1>4

\* Question rows are of scores that are there, and of one import.
LEMMA ItemsStep ==
  ASSUME IInv, NEW r \in Reqs, Others(r), Frame(r), Step(r) \/ Abort(r)
  PROVE  /\ (\A k \in Score : items[k] # 0 => k \in scores)'
         /\ ItemsOfOneImport'
<1>0. /\ TypeOK /\ Integrity /\ ItemsOfOneImport /\ ItemsKept(r) /\ WritesKept(r)
  BY DEF IInv
<1>1. \A q \in Reqs : /\ written[q] \subseteq written'[q]
                       /\ \A k : Lines(q, k)' = Lines(q, k)
  <2>1. written'[r] = written[r] \/ written[r] = {}
    BY <1>0, BatchEffect, Early DEF Step, Abort, BatchCreateItems, ReplyImported, locals
  <2> QED
    BY <2>1 DEF Others, Lines, Book
<1>2. SUFFICES ASSUME NEW k \in Score, items'[k] # 0
               PROVE  /\ k \in scores'
                      /\ \E q \in Reqs : k \in written'[q] /\ items'[k] = Lines(q, k)'
  BY DEF ItemsOfOneImport
<1>3. ASSUME items'[k] = items[k]
      PROVE  k \in scores /\ \E q \in Reqs : k \in written'[q] /\ items'[k] = Lines(q, k)'
  BY <1>0, <1>1, <1>2, <1>3 DEF Integrity, ItemsOfOneImport
<1>4. CASE BatchCreateItems(r)
  <2>1. scores' = scores /\ pc[r] = "items" /\ written' = written
    BY <1>4 DEF BatchCreateItems
  <2>2. CASE items' = items
    BY <1>3, <2>1, <2>2
  <2>3. CASE items' # items
    <3>1. PICK s \in todo[r] :
            /\ Detailed(r, s) \subseteq scores
            /\ items'[k] = IF k \in Detailed(r, s) THEN items[k] + Lines(r, k) ELSE items[k]
      BY <1>4, <2>3 DEF BatchCreateItems
    <3>2. CASE k \notin Detailed(r, s)
      BY <1>3, <2>1, <3>1, <3>2
    <3>3. CASE k \in Detailed(r, s)
      <4>1. k \in written[r] /\ items[k] = 0 /\ k \in scores
        BY <1>0, <2>1, <3>1, <3>3 DEF ItemsKept, Detailed
      <4>2. items'[k] = Lines(r, k)
        BY <1>0, <3>1, <3>3, <4>1, LinesType
      <4> QED
        BY <1>1, <2>1, <4>1, <4>2
    <3> QED
      BY <3>2, <3>3
  <2> QED
    BY <2>2, <2>3
<1>5. CASE DeleteExam(r)
  <2>1. items'[k] = items[k] /\ (k \in scores => k \in scores')
    BY <1>0, <1>2, <1>5, DeleteEffect
  <2> QED
    BY <1>3, <2>1
<1>6. CASE ~BatchCreateItems(r) /\ ~DeleteExam(r)
  <2>1. items' = items /\ scores \subseteq scores'
    BY <1>6 DEF Step, Abort, tables, CreateExam, CheckExamOwnership, FindSubject,
       CreateSubject, CountExamSubject, CreateExamSubjects, FindClass, CreateClass, FindStudent,
       CreateStudent, BatchCreateScores, ReplyImported, CountForUpdate, UpdateFullScore, InsertFullScore
  <2> QED
    BY <1>3, <2>1
<1> QED
  BY <1>4, <1>5, <1>6

\* Students keep their class and their unique name.
LEMMA StudentStep ==
  ASSUME IInv, NEW r \in Reqs, Others(r), Step(r) \/ Abort(r)
  PROVE  (/\ \A st \in students : st.class \in classes
          /\ \A st1, st2 \in students : st1.name = st2.name => st1 = st2)'
<1>0. TypeOK /\ Integrity /\ RowsKept(r)
  BY DEF IInv
<1>1. CASE CreateStudent(r)
  <2>1. Line(r).class \in classes /\ classes' = classes
    BY <1>0, <1>1 DEF CreateStudent, RowsKept
  <2>2. CASE students' = students
    BY <1>0, <2>1, <2>2 DEF Integrity
  <2>3. CASE students' # students
    <3>1. /\ students' = students \cup {StudentAt(r)}
          /\ \A st \in students : st.name # StudentAt(r).name
      BY <1>1, <2>3 DEF CreateStudent, StudentAt
    <3> QED
      BY <1>0, <2>1, <3>1 DEF Integrity, StudentAt
  <2> QED
    BY <2>2, <2>3
<1>2. CASE ~CreateStudent(r)
  <2>1. students' = students
    BY <1>2 DEF Step, Abort, tables, CreateExam, CheckExamOwnership, FindSubject,
       CreateSubject, CountExamSubject, CreateExamSubjects, FindClass, CreateClass, FindStudent,
       BatchCreateScores, BatchCreateItems, ReplyImported, CountForUpdate, UpdateFullScore,
       InsertFullScore, DeleteExam
  <2> QED
    BY <1>0, <2>1 DEF Integrity, Others
<1> QED
  BY <1>1, <1>2

\* No two requests insert the same score: the second finds it there, or its exam
\* gone.
LEMMA DisjointStep ==
  ASSUME IInv, NEW r \in Reqs, Others(r), Step(r) \/ Abort(r), NEW q \in Reqs \ {r}
  PROVE  written'[r] \cap written'[q] = {}
<1>0. TypeOK /\ WritesKept(q) /\ written[r] \cap written[q] = {} /\ Exam(r) \in Exams
  BY JobParts DEF IInv
<1>1. written'[q] = written[q]
  BY DEF Others
<1>2. CASE BatchCreateScores(r)
  <2>1. CASE pc'[r] = "failed"
    BY <1>2, <2>1, BatchEffect
  <2>2. CASE pc'[r] = "items"
    <3>1. /\ written'[r] = ScoresOf(Exam(r), Book(r))
          /\ written'[r] # {} => written'[r] \cap scores = {} /\ Live(Exam(r))
      BY <1>2, <2>2, BatchEffect
    <3>2. SUFFICES ASSUME NEW k \in written'[r], k \in written[q]
                   PROVE  FALSE
      BY <1>1
    <3>3. k.exam = Exam(r) /\ k.exam = Exam(q)
      BY <1>0, <3>1, <3>2, ScoresOfExam DEF WritesKept
    <3> QED
      BY <1>0, <3>1, <3>2, <3>3 DEF WritesKept
  <2> QED
    BY <1>2, <2>1, <2>2, BatchEffect
<1>3. CASE ~BatchCreateScores(r)
  <2>1. written' = written
    BY <1>3, Early DEF Step, Abort, BatchCreateItems, ReplyImported, locals
  <2> QED
    BY <1>0, <2>1
<1> QED
  BY <1>2, <1>3

\* The invariant holds at first, and every step keeps it.
LEMMA IInvInit == Init => IInv
<1> SUFFICES ASSUME Init PROVE IInv
  OBVIOUS
<1>1. BaseInv
  BY BaseInit
<1>2. Integrity /\ ScoresLinked /\ ItemsOfOneImport
  BY DEF Init, Integrity, ScoresLinked, ItemsOfOneImport, Linked
<1>3. \A r \in Reqs : /\ pc[r] \in {"create", "check"} /\ written[r] = {}
                      /\ missing[r] = {} /\ row[r] = 1
  BY DEF Init
<1>4. \A r \in Reqs : LinksKept(r) /\ RowsKept(r) /\ WritesKept(r) /\ ItemsKept(r)
  BY <1>3 DEF LinksKept, RowsKept, WritesKept, ItemsKept, AfterLink, Importing, Looking,
     Updating, Imported, Ended
<1>5. scores = {}
  BY DEF Init
<1> QED
  BY <1>1, <1>2, <1>3, <1>4, <1>5 DEF IInv, BaseInv

LEMMA IInvStutter == IInv /\ UNCHANGED vars => IInv'
<1> SUFFICES ASSUME IInv, UNCHANGED vars PROVE IInv'
  OBVIOUS
<1> USE DEF vars, tables, locals
<1>1. \A r \in Reqs : Exam(r)' = Exam(r) /\ Book(r)' = Book(r)
  BY DEF Exam, Book
<1>2. (TypeOK /\ Integrity /\ ScoresLinked /\ ItemsOfOneImport)'
  BY DEF IInv, TypeOK, Integrity, ScoresLinked, ItemsOfOneImport, Linked, Live, Lines, Book
<1>3. \A r \in Reqs : (Placed(r) /\ SubjectsKept(r) /\ LinksKept(r))'
  BY DEF IInv, Placed, SubjectsKept, LinksKept, Imported, Exam, Book, Linked, Live
<1>4. \A r \in Reqs : (RowsKept(r) /\ WritesKept(r) /\ ItemsKept(r))'
  BY DEF IInv, RowsKept, WritesKept, ItemsKept, Imported, Exam, Book, Live, MoreRows, Line, Lines
<1> QED
  BY <1>2, <1>3, <1>4 DEF IInv

LEMMA IInvStep == IInv /\ [Next]_vars => IInv'
<1> SUFFICES ASSUME IInv, [Next]_vars PROVE IInv'
  OBVIOUS
<1>1. CASE UNCHANGED vars
  BY <1>1, IInvStutter
<1>2. ASSUME NEW r \in Reqs, Step(r) \/ Abort(r)
      PROVE  IInv'
  <2>0. BaseInv /\ TypeOK /\ RowsKept(r)
    BY DEF IInv, BaseInv
  <2>1. Others(r) /\ Frame(r)
    BY <1>2, <2>0, StepOthers, StepFrame
  <2>2. TypeOK' /\ (Placed(r) /\ SubjectsKept(r))'
    BY <1>2, <2>0, BaseFirst, BaseImport, BaseLast DEF Step
  <2>3. \A q \in Reqs \ {r} : (Placed(q) /\ SubjectsKept(q))'
    BY <2>0, <2>1, BaseOthers
  <2>4. \A q \in Reqs \ {r} : (LinksKept(q) /\ RowsKept(q) /\ WritesKept(q) /\ ItemsKept(q))'
    BY <2>1, KeptOthers
  <2>5. (LinksKept(r) /\ RowsKept(r) /\ WritesKept(r) /\ ItemsKept(r))'
    BY <1>2, <2>1, LinksOwn, RowsOwn, WritesOwn, ItemsOwn
  <2>6. Integrity' /\ ScoresLinked' /\ ItemsOfOneImport' /\ (\A k \in scores : \E q \in Reqs : k \in written[q])'
    BY <1>2, <2>1, LinkStep, ScoreStep, ItemsStep, StudentStep DEF Integrity
  <2>7. (\A p, q \in Reqs : p # q => written[p] \cap written[q] = {})'
    <3>1. SUFFICES ASSUME NEW p \in Reqs, NEW q \in Reqs, p # q
                   PROVE  written'[p] \cap written'[q] = {}
      OBVIOUS
    <3>2. CASE p = r \/ q = r
      BY <1>2, <2>1, <3>1, <3>2, DisjointStep
    <3>3. CASE p # r /\ q # r
      BY <2>1, <3>1, <3>3 DEF IInv, Others
    <3> QED
      BY <3>2, <3>3
  <2> QED
    BY <2>2, <2>3, <2>4, <2>5, <2>6, <2>7 DEF IInv
<1> QED
  BY <1>1, <1>2 DEF Next, AllAnswered

\* Every reachable state satisfies the inductive invariant.
THEOREM Invariance == Spec => []IInv
BY IInvInit, IInvStep, PTL DEF Spec

\* Types: whatever the users, workbooks and requests.
THEOREM TypeCorrect == Spec => []TypeOK
<1>1. IInv => TypeOK
  BY DEF IInv
<1> QED
  BY <1>1, Invariance, PTL

\* No row is left behind by the row it refers to.
THEOREM NoOrphans == Spec => []Integrity
<1>1. IInv => Integrity
  BY DEF IInv
<1> QED
  BY <1>1, Invariance, PTL

\* Every score is of a subject its exam has.
THEOREM AlwaysLinked == Spec => []ScoresLinked
<1>1. IInv => ScoresLinked
  BY DEF IInv
<1> QED
  BY <1>1, Invariance, PTL

\* Question rows of several imports never add up at one score.
THEOREM RowsOfOneImport == Spec => []ItemsOfOneImport
<1>1. IInv => ItemsOfOneImport
  BY DEF IInv
<1> QED
  BY <1>1, Invariance, PTL

\* The scores of an import come and stay together.
THEOREM AllOrNothing == Spec => []ScoresAllOrNothing
<1>1. ASSUME IInv PROVE ScoresAllOrNothing
  <2> SUFFICES ASSUME NEW k \in scores
               PROVE  \E r \in Reqs :
                        /\ k \in written[r]
                        /\ written[r] = ScoresOf(Exam(r), Book(r))
                        /\ written[r] \subseteq scores
                        /\ \A q \in Reqs \ {r} : k \notin written[q]
    BY DEF ScoresAllOrNothing
  <2>1. PICK r \in Reqs : k \in written[r]
    BY <1>1 DEF IInv
  <2>2. WritesKept(r) /\ Live(k.exam)
    BY <1>1 DEF IInv, Integrity
  <2>3. written[r] = ScoresOf(Exam(r), Book(r))
    BY <2>1, <2>2 DEF WritesKept
  <2>4. k.exam = Exam(r)
    BY <2>1, <2>3, ScoresOfExam
  <2>5. written[r] \subseteq scores
    BY <2>2, <2>4 DEF WritesKept
  <2>6. \A q \in Reqs \ {r} : k \notin written[q]
    BY <1>1, <2>1 DEF IInv
  <2> QED
    BY <2>1, <2>3, <2>5, <2>6
<1> QED
  BY <1>1, Invariance, PTL

\* A successful reply to an import tells the truth.
THEOREM TruthfulReplies == Spec => []ReplyTruthful
<1>1. ASSUME IInv PROVE ReplyTruthful
  <2> SUFFICES ASSUME NEW r \in Reqs, Imported(r), Live(Exam(r))
               PROVE  /\ \A s \in Book(r).cols : Linked(Exam(r), s)
                      /\ ScoresOf(Exam(r), Book(r)) \subseteq scores
                      /\ \A k \in ScoresOf(Exam(r), Book(r)) : items[k] = Lines(r, k)
    BY DEF ReplyTruthful, Imported
  <2>1. LinksKept(r) /\ WritesKept(r) /\ ItemsKept(r)
    BY <1>1 DEF IInv
  <2>2. written[r] = ScoresOf(Exam(r), Book(r)) /\ written[r] \subseteq scores
    BY <2>1 DEF WritesKept
  <2>3. pc[r] # "items"
    BY DEF Imported
  <2> QED
    BY <2>1, <2>2, <2>3 DEF LinksKept, ItemsKept
<1> QED
  BY <1>1, Invariance, PTL

-----------------------------------------------------------------------------
\* The rows of an exam are the same when each of them is.
LEMMA SameRows ==
  ASSUME NEW e \in Exams, exams'[e] = exams[e],
         \A s \in Subjects : examSubjects'[<<e, s>>] = examSubjects[<<e, s>>],
         \A k : k.exam = e => (k \in scores' <=> k \in scores),
         \A k \in Score : k.exam = e => items'[k] = items[k]
  PROVE  RowsOf(e)' = RowsOf(e)
<1>1. [s \in Subjects |-> examSubjects'[<<e, s>>]] = [s \in Subjects |-> examSubjects[<<e, s>>]]
  OBVIOUS
<1>2. {k \in scores' : k.exam = e} = {k \in scores : k.exam = e}
  OBVIOUS
<1>3. [k \in {j \in Score : j.exam = e} |-> items'[k]] = [k \in {j \in Score : j.exam = e} |-> items[k]]
  OBVIOUS
<1> QED
  BY <1>1, <1>2, <1>3 DEF RowsOf

\* Rows of an exam change only in a step of one of its owner's requests, which
\* leaves its statement or its loop key behind.
LEMMA OwnerStep ==
  ASSUME IInv, NEW r \in Reqs, Step(r) \/ Abort(r), NEW e \in Exams,
         exams[e] # Unborn, RowsOf(e)' # RowsOf(e)
  PROVE  /\ <<pc[r], todo[r]>>' # <<pc[r], todo[r]>>
         /\ Exam(r) = e
         /\ exams[e] \in {Nobody, job[r].user}
<1> USE DEF Goto, tables, locals
<1>0. /\ TypeOK /\ Integrity /\ Placed(r) /\ SubjectsKept(r) /\ LinksKept(r) /\ WritesKept(r)
      /\ Exam(r) \in Exams
      /\ \A k \in written[r] : k.exam = Exam(r)
  BY JobParts, ScoresOfExam DEF IInv, WritesKept
<1>1. CASE CreateExam(r)
  BY <1>0, <1>1, SameRows DEF CreateExam, TypeOK
<1>2. CASE CreateExamSubjects(r)
  <2>1. \A f \in Exams, s \in Subjects :
          \/ examSubjects'[<<f, s>>] = examSubjects[<<f, s>>]
          \/ f = Exam(r) /\ Live(Exam(r)) /\ pc[r] = "link" /\ pc'[r] = "row"
    BY <1>0, <1>2 DEF CreateExamSubjects, TypeOK
  <2>2. exams' = exams /\ scores' = scores /\ items' = items
    BY <1>2 DEF CreateExamSubjects
  <2>3. e = Exam(r) /\ Live(Exam(r)) /\ pc[r] = "link" /\ pc'[r] = "row"
    BY <2>1, <2>2, SameRows
  <2> QED
    BY <1>0, <2>3, LiveExam DEF Placed, Importing
<1>3. CASE BatchCreateScores(r)
  <2>1. pc[r] = "row" /\ pc'[r] \in {"items", "failed"} /\ exams' = exams /\ items' = items
    BY <1>3, BatchEffect
  <2>2. examSubjects' = examSubjects
    BY <1>3 DEF BatchCreateScores
  <2>3. \A k : k \in scores' => k \in scores \/ (k.exam = Exam(r) /\ Live(Exam(r)))
    BY <1>3, BatchEffect, ScoresOfExam
  <2>4. \A k : k \in scores => k \in scores'
    BY <1>3, BatchEffect
  <2>5. e = Exam(r) /\ Live(Exam(r))
    BY <2>1, <2>2, <2>3, <2>4, SameRows
  <2> QED
    BY <1>0, <2>1, <2>5, LiveExam DEF Placed, Importing
<1>4. CASE BatchCreateItems(r)
  <2>1. exams' = exams /\ scores' = scores /\ examSubjects' = examSubjects /\ pc[r] = "items"
    BY <1>4 DEF BatchCreateItems
  <2>2. CASE items' = items
    BY <2>1, <2>2, SameRows
  <2>3. CASE items' # items
    <3>1. PICK s \in todo[r] :
            /\ Detailed(r, s) \subseteq scores
            /\ items' = [k \in Score |->
                          IF k \in Detailed(r, s) THEN items[k] + Lines(r, k) ELSE items[k]]
            /\ todo'[r] = todo[r] \ {s}
      BY <1>0, <1>4, <2>3 DEF BatchCreateItems, TypeOK
    <3>2. \A k \in Detailed(r, s) : k \in scores /\ k.exam = Exam(r) /\ Live(Exam(r))
      BY <1>0, <3>1 DEF Detailed, Integrity
    <3>3. \A k \in Score : items'[k] = items[k] \/ (k.exam = Exam(r) /\ Live(Exam(r)))
      BY <3>1, <3>2
    <3>4. e = Exam(r) /\ Live(Exam(r))
      BY <2>1, <3>3, SameRows
    <3> QED
      BY <1>0, <2>1, <3>1, <3>4, LiveExam DEF Placed, Importing
  <2> QED
    BY <2>2, <2>3
<1>5. CASE UpdateFullScore(r) \/ InsertFullScore(r)
  <2>1. exams' = exams /\ scores' = scores /\ items' = items /\ pc[r] \in Updating
    BY <1>5 DEF UpdateFullScore, InsertFullScore, Updating
  <2>2. \A f \in Exams, s \in Subjects :
          \/ examSubjects'[<<f, s>>] = examSubjects[<<f, s>>]
          \/ f = Exam(r) /\ Live(Exam(r)) /\ todo'[r] = todo[r] \ {cur[r]}
    <3> SUFFICES ASSUME NEW f \in Exams, NEW s \in Subjects,
                        examSubjects'[<<f, s>>] # examSubjects[<<f, s>>]
                 PROVE  f = Exam(r) /\ Live(Exam(r)) /\ todo'[r] = todo[r] \ {cur[r]}
      OBVIOUS
    <3>1. CASE UpdateFullScore(r)
      <4>1. f = Exam(r) /\ todo'[r] = todo[r] \ {cur[r]} /\ examSubjects[<<f, s>>] # None
        BY <1>0, <3>1 DEF UpdateFullScore, NextFullScore, TypeOK
      <4> QED
        BY <1>0, <4>1 DEF Integrity, Linked
    <3>2. CASE InsertFullScore(r)
      BY <1>0, <3>2 DEF InsertFullScore, NextFullScore, TypeOK
    <3> QED
      BY <1>5, <3>1, <3>2
  <2>3. e = Exam(r) /\ Live(Exam(r)) /\ todo'[r] = todo[r] \ {cur[r]}
    BY <2>1, <2>2, SameRows
  <2>4. cur[r] \in todo[r]
    BY <1>0, <2>1 DEF SubjectsKept
  <2> QED
    BY <1>0, <2>1, <2>3, <2>4, LiveExam DEF Placed
<1>6. CASE DeleteExam(r)
  <2>1. pc[r] = "delete" /\ pc'[r] = "ok"
    BY <1>0, <1>6 DEF DeleteExam, TypeOK
  <2>2. CASE e # Exam(r)
    <3>1. \A s \in Subjects : examSubjects'[<<e, s>>] = examSubjects[<<e, s>>]
      BY <1>0, <1>6, <2>2, DeleteEffect
    <3>2. \A k : k.exam = e => (k \in scores' <=> k \in scores)
      BY <1>0, <1>6, <2>2, DeleteEffect
    <3>3. exams'[e] = exams[e] /\ \A k \in Score : k.exam = e => items'[k] = items[k]
      BY <1>0, <1>6, <2>2, DeleteEffect
    <3> QED
      BY <3>1, <3>2, <3>3, SameRows
  <2>3. CASE e = Exam(r) /\ ~Live(e)
    <3>1. \A s \in Subjects : examSubjects[<<e, s>>] = None
      BY <1>0, <2>3 DEF Integrity, Linked
    <3>2. \A k \in scores : k.exam # e
      BY <1>0, <2>3 DEF Integrity
    <3>3. exams[e] = Gone
      BY <1>0, <2>1, <2>3, JobParts DEF Placed, Live
    <3>4. \A s \in Subjects : examSubjects'[<<e, s>>] = examSubjects[<<e, s>>]
      BY <1>0, <1>6, <2>3, <3>1, DeleteEffect
    <3>5. \A k : k.exam = e => (k \in scores' <=> k \in scores)
      BY <1>0, <1>6, <3>2, DeleteEffect
    <3>6. exams'[e] = exams[e] /\ \A k \in Score : k.exam = e => items'[k] = items[k]
      BY <1>0, <1>6, <2>3, <3>2, <3>3, DeleteEffect
    <3> QED
      BY <3>4, <3>5, <3>6, SameRows
  <2>4. CASE e = Exam(r) /\ Live(e)
    BY <1>0, <2>1, <2>4, LiveExam DEF Placed
  <2> QED
    BY <2>2, <2>3, <2>4
<1>7. CASE \/ CheckExamOwnership(r) \/ FindSubject(r) \/ CreateSubject(r) \/ CountExamSubject(r)
           \/ FindClass(r) \/ CreateClass(r) \/ FindStudent(r) \/ CreateStudent(r)
           \/ ReplyImported(r) \/ CountForUpdate(r) \/ Abort(r)
  <2>1. exams' = exams /\ examSubjects' = examSubjects /\ scores' = scores /\ items' = items
    BY <1>7 DEF CheckExamOwnership, FindSubject, CreateSubject, CountExamSubject, FindClass,
       CreateClass, FindStudent, CreateStudent, ReplyImported, CountForUpdate, Abort
  <2> QED
    BY <2>1, SameRows
<1> QED
  BY <1>1, <1>2, <1>3, <1>4, <1>5, <1>6, <1>7 DEF Step

\* An exam changes only by the hand of its owner, or while it is public.
THEOREM OwnersOnly == Spec => OnlyOwnersChange
<1>1. ASSUME IInv, [Next]_vars
      PROVE  [\A e \in Exams : exams[e] # Unborn /\ RowsOf(e)' # RowsOf(e) =>
                \E r \in Reqs :
                  /\ <<pc[r], todo[r]>>' # <<pc[r], todo[r]>>
                  /\ Exam(r) = e
                  /\ exams[e] \in {Nobody, job[r].user}]_vars
  <2>1. CASE \E r \in Reqs : Step(r) \/ Abort(r)
    BY <1>1, <2>1, OwnerStep
  <2>2. CASE UNCHANGED vars
    BY <2>2
  <2> QED
    BY <1>1, <2>1, <2>2 DEF Next, AllAnswered
<1> QED
  BY <1>1, Invariance, PTL DEF Spec, OnlyOwnersChange

\* What a statement does to the full scores already set.
LEMMA FullStep ==
  ASSUME IInv, NEW r \in Reqs, Step(r) \/ Abort(r), NEW e \in Exams, NEW s \in Subjects,
         Linked(e, s), examSubjects'[<<e, s>>] # examSubjects[<<e, s>>]
  PROVE  \/ exams'[e] = Gone
         \/ /\ job[r].kind = "full" /\ Exam(r) = e
            /\ cur[r] = s /\ cur'[r] # s
            /\ examSubjects'[<<e, s>>] = job[r].full[s]
<1>0. TypeOK /\ Placed(r)
  BY DEF IInv
<1>1. CASE CreateExamSubjects(r)
  BY <1>1 DEF CreateExamSubjects, Linked
<1>2. CASE UpdateFullScore(r)
  <2>1. /\ Exam(r) = e /\ cur[r] = s /\ cur'[r] = None /\ pc[r] = "update"
        /\ examSubjects'[<<e, s>>] = job[r].full[s]
    BY <1>0, <1>2 DEF UpdateFullScore, NextFullScore, TypeOK
  <2> QED
    BY <1>0, <2>1, ConstantsAssumption DEF Placed, Updating
<1>3. CASE InsertFullScore(r)
  BY <1>0, <1>3 DEF InsertFullScore, Linked, TypeOK
<1>4. CASE DeleteExam(r)
  BY <1>0, <1>4, DeleteEffect
<1>5. CASE ~CreateExamSubjects(r) /\ ~UpdateFullScore(r) /\ ~InsertFullScore(r) /\ ~DeleteExam(r)
  <2>1. examSubjects' = examSubjects
    BY <1>5 DEF Step, Abort, tables, CreateExam, CheckExamOwnership, FindSubject,
       CreateSubject, CountExamSubject, FindClass, CreateClass, FindStudent,
       CreateStudent, BatchCreateScores, BatchCreateItems, ReplyImported, CountForUpdate
  <2> QED
    BY <2>1
<1> QED
  BY <1>1, <1>2, <1>3, <1>4, <1>5

\* Nothing but an update request, or the end of the exam, changes a full score.
THEOREM FullScoresStay == Spec => FullScoreKept
<1>1. ASSUME IInv, [Next]_vars
      PROVE  [\A e \in Exams, s \in Subjects :
                Linked(e, s) /\ examSubjects'[<<e, s>>] # examSubjects[<<e, s>>] =>
                  \/ exams'[e] = Gone
                  \/ \E r \in Reqs : /\ job[r].kind = "full" /\ Exam(r) = e
                                    /\ cur[r] = s /\ cur'[r] # s
                                    /\ examSubjects'[<<e, s>>] = job[r].full[s]]_vars
  <2>1. CASE \E r \in Reqs : Step(r) \/ Abort(r)
    BY <1>1, <2>1, FullStep
  <2>2. CASE UNCHANGED vars
    BY <2>2
  <2> QED
    BY <1>1, <2>1, <2>2 DEF Next, AllAnswered
<1> QED
  BY <1>1, Invariance, PTL DEF Spec, FullScoreKept

-----------------------------------------------------------------------------
\* The statements implement the abstract store: each is one change of it, or none.
LEMMA StoreInit == Init => Store!Init
BY DEF Init, Store!Init, Score, Store!Score, HasItems

LEMMA StoreStep ==
  ASSUME IInv, NEW r \in Reqs, Step(r) \/ Abort(r)
  PROVE  Store!Next \/ UNCHANGED Store!vars
<1> USE DEF tables, locals, Store!vars, Store!Score, Score
<1>i. items' = items => HasItems' = HasItems
  BY DEF HasItems
<1>0. /\ TypeOK /\ Integrity /\ Placed(r) /\ SubjectsKept(r) /\ LinksKept(r) /\ WritesKept(r)
      /\ BaseInv /\ RowsKept(r) /\ ItemsKept(r)
      /\ Exam(r) \in Exams
      /\ \A k \in written[r] : k.exam = Exam(r)
      /\ \A e : Store!Live(e) <=> Live(e)
  BY JobParts, ScoresOfExam DEF IInv, BaseInv, WritesKept, Live, Store!Live
<1>1. CASE CreateExam(r)
  <2>1. CASE exams' = exams
    BY <1>1, <1>i, <2>1 DEF CreateExam
  <2>2. CASE exams' # exams
    <3>1. PICK e \in Exams : exams[e] = Unborn /\ exams' = [exams EXCEPT ![e] = job[r].user]
      BY <1>1, <2>2 DEF CreateExam
    <3>2. job[r].user \in Users
      BY <1>0, <1>1, <2>2, JobParts DEF CreateExam
    <3>3. Store!Create(e)
      BY <1>1, <1>i, <3>1, <3>2 DEF CreateExam, Store!Create
    <3> QED
      BY <3>3 DEF Store!Next
  <2> QED
    BY <2>1, <2>2
<1>2. CASE CreateExamSubjects(r)
  <2>1. CASE missing[r] # {} /\ Live(Exam(r)) /\ \A s \in missing[r] : ~Linked(Exam(r), s)
    <3>1. missing[r] \in SUBSET Subjects /\ DefaultFull \in FullScores
      BY <1>0 DEF TypeOK
    <3>2. examSubjects' = [es \in Exams \X Subjects |->
             IF es[1] = Exam(r) /\ es[2] \in missing[r] THEN DefaultFull ELSE examSubjects[es]]
      BY <1>2, <2>1 DEF CreateExamSubjects
    <3>3. UNCHANGED <<exams, scores, HasItems>>
      BY <1>2, <1>i DEF CreateExamSubjects
    <3>4. Store!LinkSubjects(Exam(r))
      BY <1>0, <2>1, <3>1, <3>2, <3>3 DEF Store!LinkSubjects, Linked
    <3> QED
      BY <1>0, <3>4 DEF Store!Next
  <2>2. CASE ~(missing[r] # {} /\ Live(Exam(r)) /\ \A s \in missing[r] : ~Linked(Exam(r), s))
    <3>1. examSubjects' = examSubjects
      BY <1>0, <1>2, <2>2 DEF CreateExamSubjects, TypeOK
    <3> QED
      BY <1>2, <1>i, <3>1 DEF CreateExamSubjects
  <2> QED
    BY <2>1, <2>2
<1>3. CASE BatchCreateScores(r)
  <2>1. CASE scores' = scores
    BY <1>3, <1>i, <2>1 DEF BatchCreateScores
  <2>2. CASE scores' # scores
    <3> DEFINE new == ScoresOf(Exam(r), Book(r))
    <3>1. new \cap scores = {} /\ Live(Exam(r)) /\ scores' = scores \cup new
      BY <1>3, <2>2, BatchEffect
    <3>2. /\ new \in SUBSET Score
          /\ \A k \in new : k.exam = Exam(r) /\ k.subject \in Book(r).cols
      BY <1>0, <1>3, NewScores DEF BatchCreateScores
    <3>3. \A s \in Book(r).cols : Linked(Exam(r), s)
      BY <1>0, <1>3, <3>1 DEF BatchCreateScores, LinksKept, AfterLink, Importing
    <3>4. UNCHANGED <<exams, examSubjects, HasItems>>
      BY <1>3, <1>i DEF BatchCreateScores
    <3>5. scores' \ scores = new
      BY <3>1
    <3>6. Store!RecordScores(Exam(r), scores' \ scores)
      BY <1>0, <3>1, <3>2, <3>3, <3>4, <3>5 DEF Store!RecordScores, Linked
    <3> QED
      BY <1>0, <3>6 DEF Store!Next
  <2> QED
    BY <2>1, <2>2
<1>4. CASE BatchCreateItems(r)
  <2>1. CASE items' = items
    BY <1>4, <1>i, <2>1 DEF BatchCreateItems
  <2>2. CASE items' # items
    <3>1. PICK s \in todo[r] :
            /\ Detailed(r, s) \subseteq scores
            /\ items' = [k \in Score |->
                          IF k \in Detailed(r, s) THEN items[k] + Lines(r, k) ELSE items[k]]
      BY <1>4, <2>2 DEF BatchCreateItems
    <3>2. \A k \in Detailed(r, s) : k.exam = Exam(r) /\ k \in scores /\ items[k] = 0
      BY <1>0, <1>4, <3>1 DEF BatchCreateItems, Detailed, ItemsKept
    <3>3. \A k \in Detailed(r, s) : k \in Score /\ Lines(r, k) > 0
      BY <1>0 DEF TypeOK, Detailed
    <3>4. \A k \in Score : HasItems'[k] = IF k \in Detailed(r, s) THEN 1 ELSE HasItems[k]
      BY <1>0, <3>1, <3>2, <3>3, LinesType DEF HasItems
    <3>5. \A k \in Detailed(r, s) : k \in Score /\ HasItems[k] = 0
      BY <3>2, <3>3 DEF HasItems
    <3>6. {k \in Score : HasItems'[k] # HasItems[k]} = Detailed(r, s)
      BY <3>4, <3>5
    <3>7. HasItems' = [k \in Score |-> HasItems'[k]]
      BY DEF HasItems
    <3>8. HasItems' = [k \in Score |-> IF k \in Detailed(r, s) THEN 1 ELSE HasItems[k]]
      BY <3>4, <3>7
    <3>9. UNCHANGED <<exams, examSubjects, scores>>
      BY <1>4 DEF BatchCreateItems
    <3>10. Store!RecordItems(Exam(r), {k \in Score : HasItems'[k] # HasItems[k]})
      BY <3>2, <3>5, <3>6, <3>8, <3>9 DEF Store!RecordItems
    <3> QED
      BY <1>0, <3>10 DEF Store!Next
  <2> QED
    BY <2>1, <2>2
<1>5. CASE UpdateFullScore(r)
  <2>1. cur[r] \in Subjects /\ job[r].full[cur[r]] \in FullScores
    BY <1>0, <1>5, JobParts DEF UpdateFullScore, SubjectsKept, Placed, Updating, TypeOK
  <2>2. UNCHANGED <<exams, scores, HasItems>>
    BY <1>5, <1>i DEF UpdateFullScore
  <2>3. CASE Linked(Exam(r), cur[r])
    <3>1. examSubjects' = [examSubjects EXCEPT ![<<Exam(r), cur[r]>>] = job[r].full[cur[r]]]
      BY <1>5, <2>3 DEF UpdateFullScore, Linked
    <3>2. Store!SetFullScore(Exam(r))
      BY <1>0, <2>1, <2>2, <2>3, <3>1 DEF Store!SetFullScore, Integrity, Linked
    <3> QED
      BY <1>0, <3>2 DEF Store!Next
  <2>4. CASE ~Linked(Exam(r), cur[r])
    <3>1. examSubjects' = examSubjects
      BY <1>0, <1>5, <2>4 DEF UpdateFullScore, Linked, TypeOK
    <3> QED
      BY <2>2, <3>1
  <2> QED
    BY <2>3, <2>4
<1>6. CASE InsertFullScore(r)
  <2>1. cur[r] \in Subjects /\ job[r].full[cur[r]] \in FullScores
    BY <1>0, <1>6, JobParts DEF InsertFullScore, SubjectsKept, Placed, Updating, TypeOK
  <2>2. UNCHANGED <<exams, scores, HasItems>>
    BY <1>6, <1>i DEF InsertFullScore
  <2>3. CASE examSubjects' = examSubjects
    BY <2>2, <2>3
  <2>4. CASE examSubjects' # examSubjects
    <3> DEFINE v == Stored(job[r].full[cur[r]])
    <3>1. v \in FullScores
      BY <2>1 DEF Stored
    <3>2. /\ ~Linked(Exam(r), cur[r]) /\ Live(Exam(r))
          /\ examSubjects' = [examSubjects EXCEPT ![<<Exam(r), cur[r]>>] = v]
      BY <1>6, <2>4 DEF InsertFullScore
    <3> HIDE DEF v
    <3>3. examSubjects' = [es \in Exams \X Subjects |->
             IF es[1] = Exam(r) /\ es[2] \in {cur[r]} THEN v ELSE examSubjects[es]]
      <4>1. examSubjects' = [es \in Exams \X Subjects |->
               IF es = <<Exam(r), cur[r]>> THEN v ELSE examSubjects[es]]
        BY <1>0, <3>2 DEF TypeOK
      <4>2. \A es \in Exams \X Subjects :
               es = <<Exam(r), cur[r]>> <=> es[1] = Exam(r) /\ es[2] \in {cur[r]}
        OBVIOUS
      <4> QED
        BY <4>1, <4>2
    <3>4. {cur[r]} \in SUBSET Subjects /\ \A s \in {cur[r]} : examSubjects[<<Exam(r), s>>] = None
      BY <2>1, <3>2 DEF Linked
    <3>5. Store!LinkSubjects(Exam(r))
      BY <1>0, <2>2, <3>1, <3>2, <3>3, <3>4 DEF Store!LinkSubjects
    <3> QED
      BY <1>0, <3>5 DEF Store!Next
  <2> QED
    BY <2>3, <2>4
<1>7. CASE DeleteExam(r)
  <2>1. CASE Live(Exam(r))
    <3>1. \A k \in Score : items[k] # 0 => k \in scores
      BY <1>0 DEF Integrity
    <3>2. items' = [k \in Score |-> IF k.exam = Exam(r) THEN 0 ELSE items[k]]
      BY <1>7, <3>1 DEF DeleteExam
    <3>3. HasItems' = [k \in Score |-> IF k.exam = Exam(r) THEN 0 ELSE HasItems[k]]
      BY <3>2 DEF HasItems
    <3>4. Store!Delete(Exam(r))
      BY <1>7, <3>3 DEF DeleteExam, Store!Delete
    <3> QED
      BY <1>0, <2>1, <3>4 DEF Store!Next
  <2>2. CASE ~Live(Exam(r))
    <3>1. exams[Exam(r)] = Gone
      BY <1>0, <1>7, <2>2, JobParts DEF DeleteExam, Placed, Live
    <3>2. /\ \A s \in Subjects : examSubjects[<<Exam(r), s>>] = None
          /\ \A k \in scores : k.exam # Exam(r)
      BY <1>0, <2>2 DEF Integrity, Linked
    <3>3. exams' = exams
      BY <1>0, <1>7, <3>1 DEF DeleteExam, TypeOK
    <3>4. scores' = scores
      BY <1>0, <1>7, <3>2, DeleteEffect
    <3>5. items' = items
      BY <1>0, <1>7, <3>2 DEF DeleteExam, TypeOK
    <3>6. examSubjects' = examSubjects
      BY <1>0, <1>7, <3>2 DEF DeleteExam, TypeOK
    <3> QED
      BY <1>i, <3>3, <3>4, <3>5, <3>6
  <2> QED
    BY <2>1, <2>2
<1>8. CASE \/ CheckExamOwnership(r) \/ FindSubject(r) \/ CreateSubject(r) \/ CountExamSubject(r)
           \/ FindClass(r) \/ CreateClass(r) \/ FindStudent(r) \/ CreateStudent(r)
           \/ ReplyImported(r) \/ CountForUpdate(r) \/ Abort(r)
  BY <1>8, <1>i DEF CheckExamOwnership, FindSubject, CreateSubject, CountExamSubject, FindClass,
     CreateClass, FindStudent, CreateStudent, ReplyImported, CountForUpdate, Abort
<1> QED
  BY <1>1, <1>2, <1>3, <1>4, <1>5, <1>6, <1>7, <1>8 DEF Step

\* The handlers, statement by statement and interleaved, implement the store.
THEOREM Implements == Spec => ImplementsStore
<1>1. IInv /\ [Next]_vars => [Store!Next]_Store!vars
  <2> SUFFICES ASSUME IInv, [Next]_vars PROVE [Store!Next]_Store!vars
    OBVIOUS
  <2>1. CASE \E r \in Reqs : Step(r) \/ Abort(r)
    BY <2>1, StoreStep
  <2>2. CASE UNCHANGED vars
    BY <2>2 DEF vars, tables, Store!vars, HasItems
  <2> QED
    BY <2>1, <2>2 DEF Next, AllAnswered
<1> QED
  BY <1>1, StoreInit, Invariance, PTL DEF Spec, ImplementsStore, Store!Spec

=============================================================================
