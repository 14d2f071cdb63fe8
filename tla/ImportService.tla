--------------------------- MODULE ImportService ---------------------------
(***************************************************************************)
(* What the handlers that change exams ask for: the jobs of ExamImport that *)
(* a message of user u leads to, none when it is refused before the store   *)
(* is asked.                                                                *)
(***************************************************************************)
EXTENDS Api

CONSTANTS
  ExamIds,    \* what parses as the id of an exam
  AnyExam,    \* stands in a job that names none
  NoBook      \* stands in a job without a workbook

NewJob(k, u, e, b, f) == [kind |-> k, user |-> u, exam |-> e, book |-> b, full |-> f]

\* The date has to be one.
CreateExam(u, m) == {NewJob("create", u, AnyExam, NoBook, <<>>) : d \in {m.exam_date} \ {Unset}}

\* A file and the number of an exam.
ImportScoresFromMultipart(u, m) ==
  {NewJob("import", u, e, b, <<>>) : e \in {m.exam_id} \cap ExamIds, b \in {m.file} \ {Unset}}

UpdateSubjectFullScores(u, m) ==
  {NewJob("full", u, e, NoBook, IF m.full_scores = Unset THEN <<>> ELSE m.full_scores) :
     e \in {m.exam_id} \cap ExamIds}

\* Anything else is exam 0, which is never there.
DeleteExam(u, m) == {NewJob("delete", u, e, NoBook, <<>>) : e \in {m.exam_id} \cap ExamIds}
=============================================================================
