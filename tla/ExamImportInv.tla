---------------------------- MODULE ExamImportInv ----------------------------
(* The inductive invariant behind the safety properties of ExamImport, one *)
(* operator per thing a request keeps true.                                 *)
EXTENDS ExamImport

\* An import answered with success.
Imported(r) == pc[r] = "ok" /\ job[r].kind = "import"

Looking    == {"subject", "newSubject"}
Importing  == {"link", "row", "newClass", "student", "newStudent", "items"}
AfterLink  == Importing \ {"link"}
Updating   == {"count", "update", "insert"}

\* A request is only ever where its kind of job leads, and the check has passed:
\* its exam is public, or its user's, or has been deleted meanwhile.
Placed(r) ==
  /\ pc[r] \in {"create", "delete"} => job[r].kind = pc[r]
  /\ pc[r] \in Importing => job[r].kind = "import"
  /\ pc[r] \in Updating => job[r].kind = "full"
  /\ pc[r] \in Looking => job[r].kind \in {"import", "full"}
  /\ pc[r] \in Looking \cup Importing \cup Updating \cup {"delete"} =>
       exams[Exam(r)] \in {Nobody, job[r].user, Gone}
  /\ Imported(r) => exams[Exam(r)] # Unborn

\* What the subject loop has left is what it was given, less what it found.
SubjectsKept(r) ==
  /\ pc[r] \in Looking /\ job[r].kind = "import" =>
       todo[r] \subseteq Book(r).cols /\ Book(r).cols \ todo[r] \subseteq subjects
  /\ pc[r] \in Importing => Book(r).cols \subseteq subjects
  /\ pc[r] \in Looking \cup Updating /\ job[r].kind = "full" => todo[r] \subseteq DOMAIN job[r].full
  /\ pc[r] \in {"newSubject"} \cup Updating => cur[r] \in todo[r]
  /\ pc[r] \in Updating => cur[r] \in subjects

\* Once counted, a subject is linked, or about to be, for as long as the exam lives.
LinksKept(r) ==
  /\ pc[r] \in {"create", "check"} \cup Looking \cup Updating => missing[r] = {}
  /\ pc[r] = "link" =>
       /\ missing[r] \subseteq Book(r).cols
       /\ todo[r] \subseteq Book(r).cols
       /\ Live(Exam(r)) => \A s \in Book(r).cols \ todo[r] : s \in missing[r] \/ Linked(Exam(r), s)
  /\ pc[r] \in AfterLink \/ Imported(r) =>
       (Live(Exam(r)) => \A s \in Book(r).cols : Linked(Exam(r), s))

\* The lines behind the current one have their class and their student.
RowsKept(r) ==
  /\ pc[r] \in {"create", "check", "link"} \cup Looking \cup Updating => row[r] = 1
  /\ pc[r] \in AfterLink \ {"items"} =>
       \A i \in DOMAIN Book(r).rows : i < row[r] =>
          [name |-> Book(r).rows[i].name, class |-> Book(r).rows[i].class] \in students
  /\ pc[r] \in {"newClass", "student", "newStudent"} => MoreRows(r) /\ Line(r).class # None
  /\ pc[r] \in {"student", "newStudent"} => Line(r).class \in classes

\* A request has inserted all its scores or none, and they stay while the exam does.
WritesKept(r) ==
  /\ written[r] # {} => written[r] = ScoresOf(Exam(r), Book(r))
  /\ written[r] # {} => pc[r] \in {"items"} \cup Ended /\ exams[Exam(r)] # Unborn
  /\ pc[r] = "items" \/ Imported(r) =>
       written[r] = ScoresOf(Exam(r), Book(r))
  /\ Live(Exam(r)) => written[r] \subseteq scores

\* A score has the rows of its lines when its sheet has been stored, and none before.
ItemsKept(r) ==
  /\ pc[r] = "items" =>
       /\ todo[r] \subseteq DetailSheets(Book(r))
       /\ \A k \in written[r] : k.subject \in todo[r] => items[k] = 0
  /\ pc[r] = "items" \/ Imported(r) =>
       \A k \in written[r] :
          /\ Live(Exam(r))
          /\ pc[r] = "items" => k.subject \notin todo[r]
          => items[k] = Lines(r, k)

IInv ==
  /\ TypeOK
  /\ Integrity
  /\ ScoresLinked
  /\ ItemsOfOneImport
  /\ \A k \in scores : \E r \in Reqs : k \in written[r]
  /\ \A r, q \in Reqs : r # q => written[r] \cap written[q] = {}
  /\ \A r \in Reqs :
       /\ Placed(r)
       /\ SubjectsKept(r)
       /\ LinksKept(r)
       /\ RowsKept(r)
       /\ WritesKept(r)
       /\ ItemsKept(r)
=============================================================================
