---------------------------- MODULE MCExamImport ----------------------------
(* Small instances of ExamImport: two subjects, two names, two classes.     *)
EXTENDS ExamImportInv, TLC

CONSTANTS u1, u2, e1, e2, s1, s2, c1, c2, n1, n2, Unset, Secret

Line2(n, c, S) == [name |-> n, class |-> c, cells |-> S]
NoLines == [sn \in Subjects \X Names |-> 0]
NoBook == [cols |-> {}, rows |-> <<>>, details |-> NoLines]

\* Two students of one class with detail sheets, one of which names a student
\* without the score.
Full == [cols |-> {s1, s2}, rows |-> <<Line2(n1, c1, {s1, s2}), Line2(n2, c1, {s1})>>,
         details |-> (<<s1, n1>> :> 1) @@ (<<s1, n2>> :> 1) @@ (<<s2, n2>> :> 1) @@ NoLines]
\* One line that overlaps Full; two in the detail sheet.
Part == [cols |-> {s1}, rows |-> <<Line2(n1, c1, {s1})>>, details |-> (<<s1, n1>> :> 2) @@ NoLines]
\* The same name in another class, then a line without a class.
Odd  == [cols |-> {s2}, rows |-> <<Line2(n2, c2, {s2}), Line2(n1, None, {})>>, details |-> NoLines]
\* A student listed twice.
Twice == [cols |-> {s1}, rows |-> <<Line2(n1, c2, {s1}), Line2(n1, c2, {s1})>>,
          details |-> NoLines]

Service == INSTANCE ImportService WITH ExamIds <- Exams, AnyExam <- e1

\* A request of user u about exam e, or of nobody without a token.
Http(u, e, body) ==
  [token |-> IF u = Nobody THEN Service!NoToken ELSE Service!GenerateToken(u),
   path |-> "exam_id" :> e, query |-> <<>>, body |-> body]

CreateJobs(h) == Service!CreateExam(Service!Auth(h), Service!CreateExamRequest(h))
ImportJobs(h) == Service!ImportScoresFromMultipart(Service!Auth(h), Service!ImportScoresRequest(h))
FullJobs(h)   == Service!UpdateSubjectFullScores(Service!Auth(h), Service!UpdateSubjectFullScoresRequest(h))
DeleteJobs(h) == Service!DeleteExam(Service!Auth(h), Service!DeleteExamRequest(h))

Import(u, e, b)  == ImportJobs(Http(u, e, "file" :> b))
SetFull(u, e, f) == FullJobs(Http(u, e, "full_scores" :> f))
Delete(u, e)     == DeleteJobs(Http(u, e, <<>>))
Create(u)        == CreateJobs(Http(u, Unset, ("name" :> "exam") @@ ("exam_date" :> "2024-01-01")))

MCFullScores == {0, 60, 100}

\* Jobs on the public exam: imports that overlap, updates and a deletion.
PublicJobs ==
  UNION {Import(Nobody, e1, b) : b \in {Full, Part, Odd, Twice}} \cup
  SetFull(u1, e1, s1 :> 60) \cup SetFull(u2, e1, (s1 :> 0) @@ (s2 :> 60)) \cup Delete(u1, e1)

\* Jobs on an exam one of them creates: of its owner, of another user, of nobody.
PrivateJobs ==
  Create(u1) \cup Create(Nobody) \cup Delete(u1, e2) \cup Delete(u2, e2) \cup
  Import(u1, e2, Part) \cup Import(u2, e2, Part) \cup
  SetFull(u1, e2, s1 :> 60) \cup SetFull(Nobody, e2, s1 :> 60)

AllJobs == PublicJobs \cup PrivateJobs

Symmetry == Permutations(Reqs)
=============================================================================
