----------------------------- MODULE ExamStore -----------------------------
(***************************************************************************)
(* What the exam store promises its readers, each change in one step: the  *)
(* relations of an exam come before its scores, a score is recorded once   *)
(* and gets its question rows once, and an exam disappears with all of     *)
(* them and for good.  Students, classes and the requests are left out.    *)
(***************************************************************************)
EXTENDS Naturals

CONSTANTS Users, Nobody, Exams, PublicExams, Subjects, Students, FullScores,
          Unborn, Gone, None

Score == [exam : Exams, student : Students, subject : Subjects]

VARIABLES exams, examSubjects, scores, items

vars == <<exams, examSubjects, scores, items>>

Live(e) == exams[e] \in Users \cup {Nobody}

Init ==
  /\ exams = [e \in Exams |-> IF e \in PublicExams THEN Nobody ELSE Unborn]
  /\ examSubjects = [es \in Exams \X Subjects |-> None]
  /\ scores = {}
  /\ items = [k \in Score |-> 0]

Create(e) ==
  /\ exams[e] = Unborn
  /\ \E u \in Users : exams' = [exams EXCEPT ![e] = u]
  /\ UNCHANGED <<examSubjects, scores, items>>

\* The subjects S become subjects of e, all together.
LinkSubjects(e) ==
  /\ Live(e)
  /\ \E S \in SUBSET Subjects, v \in FullScores :
       /\ \A s \in S : examSubjects[<<e, s>>] = None
       /\ examSubjects' = [es \in Exams \X Subjects |->
                             IF es[1] = e /\ es[2] \in S THEN v ELSE examSubjects[es]]
  /\ UNCHANGED <<exams, scores, items>>

SetFullScore(e) ==
  /\ Live(e)
  /\ \E s \in Subjects, v \in FullScores :
       /\ examSubjects[<<e, s>>] # None
       /\ examSubjects' = [examSubjects EXCEPT ![<<e, s>>] = v]
  /\ UNCHANGED <<exams, scores, items>>

\* The scores K, all together, none of which is there and each of a subject of e.
RecordScores(e, K) ==
  /\ Live(e)
  /\ \A k \in K : k \in Score /\ k.exam = e /\ examSubjects[<<e, k.subject>>] # None
  /\ K \cap scores = {}
  /\ scores' = scores \cup K
  /\ UNCHANGED <<exams, examSubjects, items>>

\* The question rows of some scores of e, for the first time.
RecordItems(e, K) ==
  /\ \A k \in K : k.exam = e /\ k \in scores /\ items[k] = 0
  /\ items' = [k \in Score |-> IF k \in K THEN 1 ELSE items[k]]
  /\ UNCHANGED <<exams, examSubjects, scores>>

Delete(e) ==
  /\ exams' = [exams EXCEPT ![e] = Gone]
  /\ examSubjects' = [es \in Exams \X Subjects |-> IF es[1] = e THEN None ELSE examSubjects[es]]
  /\ scores' = {k \in scores : k.exam # e}
  /\ items' = [k \in Score |-> IF k.exam = e THEN 0 ELSE items[k]]

\* Any scores, and the question rows of any: those that are new.
Next ==
  \E e \in Exams :
    \/ Create(e)
    \/ LinkSubjects(e)
    \/ SetFullScore(e)
    \/ RecordScores(e, scores' \ scores)
    \/ RecordItems(e, {k \in Score : items'[k] # items[k]})
    \/ Live(e) /\ Delete(e)

Spec == Init /\ [][Next]_vars
=============================================================================
