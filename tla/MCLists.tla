------------------------------ MODULE MCLists ------------------------------
(* A small instance of Lists: three exams, two of which share their date. *)
EXTENDS Lists, TLC

CONSTANTS u1, u2, e1, e2, e3, s1, s2, k1

MCDate  == (e1 :> 1) @@ (e2 :> 2) @@ (e3 :> 2)
MCNamed == k1 :> {e1, e2}

\* A student in two subjects.
MCBatches == {[exam : {e1}, student : {1}, subject : {s1, s2}], [exam : {e1}, student : {2}, subject : {s1}]}

Paging(i, n) == ("page_index" :> i) @@ ("page_size" :> n)
Http(t, path, query) == [token |-> t, path |-> path, query |-> query]

ExamsAsk(h) == ListExamsAsk(Auth(h), ListExamsRequest(h))
SubjectsAsk(h) == ListSubjectsAsk(Auth(h), ListSubjectsByExamRequest(h))

\* Pages that follow on each other, one whose offset overflows, one without a limit
\* and what a request without parameters asks for.
MCAsks ==
  {ExamsAsk(Http(GenerateToken(u1), <<>>, q @@ Paging(i, 1))) : i \in {1, 2}, q \in {<<>>, "keyword" :> k1}} \cup
  {ExamsAsk(Http(NoToken, <<>>, q)) : q \in {Paging(5, 2), Paging(1, -1), <<>>}} \cup
  {SubjectsAsk(Http(NoToken, "exam_id" :> e1, Paging(p[1], p[2]) @@ ("exam_id" :> e2))) : p \in {<<2, 1>>, <<1, 2>>}}

Symmetry == Permutations(Requests)
=============================================================================
