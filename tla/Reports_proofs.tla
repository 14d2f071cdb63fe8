--------------------------- MODULE Reports_proofs ---------------------------
(* Proofs about Reports, for any store, any number of requests and any asks.  *)
EXTENDS Reports, FiniteSetTheorems, SequenceTheorems, TLAPS

-----------------------------------------------------------------------------
(* The queries of a report *)

\* What a request of kind k may ever have left to do.
MayQuery(k) == ToSet(Queries[k]) \cup Subjects

Names == {"name", "count", "rows", "classes", "full", "overall", "marks", "grade", "ranks",
          "overallRanks", "breakdown", "groups"}

LEMMA QueriesAreSeqs == \A k \in Kinds : Queries[k] \in Seq(Names) /\ Queries[k] # <<>>
<1> USE DEF Names
<1>1. SubjectQueries \in Seq(Names) /\ SubjectQueries # <<>>
  BY DEF SubjectQueries
<1>2. ClassQueries \in Seq(Names) /\ ClassQueries # <<>>
  BY DEF ClassQueries
<1>3. SingleQueries \in Seq(Names) /\ SingleQueries # <<>>
  BY DEF SingleQueries
<1>4. DrillQueries \in Seq(Names) /\ DrillQueries # <<>>
  BY DEF DrillQueries
<1>5. RatingQueries \in Seq(Names) /\ RatingQueries # <<>>
  BY DEF RatingQueries
<1>6. SegmentQueries \in Seq(Names) /\ SegmentQueries # <<>>
  BY DEF SegmentQueries
<1>7. RankQueries \in Seq(Names) /\ RankQueries # <<>>
  BY DEF RankQueries
<1>8. QuestionQueries \in Seq(Names) /\ QuestionQueries # <<>>
  BY DEF QuestionQueries
<1>9. SummaryQueries \in Seq(Names) /\ SummaryQueries # <<>>
  BY DEF SummaryQueries
<1>10. CompareQueries \in Seq(Names) /\ CompareQueries # <<>>
  BY DEF CompareQueries
<1> HIDE DEF Names
<1>11. \A k \in Kinds : Queries[k] \in {SubjectQueries, ClassQueries, SingleQueries, DrillQueries,
         RatingQueries, SegmentQueries, RankQueries, QuestionQueries, SummaryQueries, CompareQueries}
  BY DEF Kinds, QuestionKinds, Queries
<1> QED
  BY <1>1, <1>2, <1>3, <1>4, <1>5, <1>6, <1>7, <1>8, <1>9, <1>10, <1>11

LEMMA QueriesTyped == \A k \in Kinds : Queries[k] \in Seq(MayQuery(k))
<1> SUFFICES ASSUME NEW k \in Kinds PROVE Queries[k] \in Seq(MayQuery(k))
  OBVIOUS
<1>1. Queries[k] \in Seq(Names)
  BY QueriesAreSeqs
<1>2. Queries[k] \in Seq(ToSet(Queries[k]))
  BY <1>1, SeqOfRange DEF Range, ToSet
<1> QED
  BY <1>2, SeqMonotonic DEF MayQuery

LEMMA StartTyped ==
  ASSUME NEW a \in Asks
  PROVE  /\ QueriesOf(a) \in Seq(MayQuery(a.kind)) /\ QueriesOf(a) # <<>>
         /\ a.kind \in {"segment", "rank"} => <<"name">> \in Seq(MayQuery(a.kind))
<1>1. Queries[a.kind] \in Seq(MayQuery(a.kind)) /\ Queries[a.kind] # <<>>
  BY ReportsAssumption, QueriesAreSeqs, QueriesTyped
<1>2. ASSUME a.kind = "subject" PROVE {"count", "rows", "name"} \subseteq MayQuery(a.kind)
  <2>1. Queries[a.kind] = <<"count", "rows", "classes", "name">>
    BY <1>2 DEF Queries, SubjectQueries
  <2> QED
    BY <2>1 DEF MayQuery, ToSet
<1>3. ASSUME a.kind = "segment" PROVE "name" \in MayQuery(a.kind)
  <2>1. Queries[a.kind] = <<"count", "rows", "name">>
    BY <1>3 DEF Queries, SegmentQueries
  <2> QED
    BY <2>1 DEF MayQuery, ToSet
<1>4. ASSUME a.kind = "rank" PROVE "name" \in MayQuery(a.kind)
  <2>1. Queries[a.kind] = <<"rows", "count", "name">>
    BY <1>4 DEF Queries, RankQueries
  <2> QED
    BY <2>1 DEF MayQuery, ToSet
<1>5. ASSUME a.kind = "subject" PROVE <<"count", "rows", "name">> \in Seq(MayQuery(a.kind))
  BY <1>2, <1>5
<1>6. QueriesOf(a) \in Seq(MayQuery(a.kind)) /\ QueriesOf(a) # <<>>
  <2>1. CASE a.kind = "subject" /\ a.subject # All
    <3>1. QueriesOf(a) = <<"count", "rows", "name">>
      BY <2>1 DEF QueriesOf
    <3> QED
      BY <2>1, <3>1, <1>5
  <2>2. CASE ~(a.kind = "subject" /\ a.subject # All)
    <3>1. QueriesOf(a) = Queries[a.kind]
      BY <2>2, Zenon DEF QueriesOf
    <3> QED
      BY <3>1, <1>1
  <2> QED
    BY <2>1, <2>2
<1> QED
  BY <1>3, <1>4, <1>6

\* The loop over the subjects that a query listed is one over subjects.
LEMMA LoopTyped ==
  ASSUME NEW S \in SUBSET Subjects
  PROVE  SetToSeq(S) \in Seq(Subjects)
<1>1. IsFiniteSet(S)
  BY FS_Subset, ScoresAssumption
<1>2. Cardinality(S) \in Nat /\ ExistsBijection(1 .. Cardinality(S), S)
  BY <1>1, FS_CardinalityType
<1>3. \E f \in [1 .. Cardinality(S) -> S] : IsInjective(f)
  BY <1>2 DEF ExistsBijection, Bijection, Injection, IsInjective
<1>4. SetToSeq(S) \in [1 .. Cardinality(S) -> S]
  BY <1>3 DEF SetToSeq
<1> QED
  BY <1>2, <1>4

\* Only what a query lists is looped over, and no loop comes of a query of a loop.
LEMMA FollowingLoops ==
  ASSUME NEW a \in Asks, NEW q, NEW rows
  PROVE  /\ Following(a, q, rows) \in Seq(Subjects)
         /\ q \in Subjects => Following(a, q, rows) = <<>>
<1>1. SetToSeq(SubjectsOf(rows)) \in Seq(Subjects)
  BY LoopTyped DEF SubjectsOf
<1>2. a.subject # All => <<a.subject>> \in Seq(Subjects)
  BY ReportsAssumption
<1>3. <<>> \in Seq(Subjects)
  OBVIOUS
<1>4. Following(a, q, rows) \in Seq(Subjects)
  BY <1>1, <1>2, <1>3, Zenon DEF Following
<1>5. {"rows", "classes", "ranks"} \cap Subjects = {}
  <2>1. Queries["subject"] = <<"count", "rows", "classes", "name">> /\ 2 \in 1 .. 4 /\ 3 \in 1 .. 4
    BY DEF Queries, SubjectQueries
  <2>2. "rows" \in ToSet(Queries["subject"]) /\ "classes" \in ToSet(Queries["subject"])
    BY <2>1 DEF ToSet
  <2>3. Queries["drill"] = <<"rows", "ranks", "overall", "overallRanks", "marks", "name">> /\ 2 \in 1 .. 6
    BY DEF Queries, DrillQueries
  <2>4. "ranks" \in ToSet(Queries["drill"])
    BY <2>3 DEF ToSet
  <2> QED
    BY <2>2, <2>4, QueriesNamed DEF Kinds
<1>6. q \in Subjects => Following(a, q, rows) = <<>>
  <2>1. q \in Subjects => q # "rows" /\ q # "classes" /\ q # "ranks"
    BY <1>5
  <2> QED
    BY <2>1, Zenon DEF Following
<1> QED
  BY <1>4, <1>6

LEMMA FollowingTyped ==
  ASSUME NEW a \in Asks, NEW q, NEW rows
  PROVE  Following(a, q, rows) \in Seq(MayQuery(a.kind))
BY FollowingLoops, SeqMonotonic DEF MayQuery

-----------------------------------------------------------------------------
(* The requests *)

Placed ==
  /\ ask \in [Requests -> Asks \cup {None}]
  /\ state \in [Requests -> {"check", "running", "answered", "failed"}]
  /\ todo = [r \in Requests |-> todo[r]] /\ seen = [r \in Requests |-> seen[r]]

\* What a request has left and has done are queries of its report; it has none of
\* either before its check.
Ordered ==
  \A r \in Requests :
    /\ state[r] = "check" => todo[r] = <<>> /\ seen[r] = <<>>
    /\ state[r] \in {"running", "answered"} \/ seen[r] # <<>> => ask[r] \in Asks
    /\ state[r] = "running" => todo[r] # <<>>
    /\ ask[r] \in Asks => todo[r] \in Seq(MayQuery(ask[r].kind)) /\ DOMAIN seen[r] \subseteq MayQuery(ask[r].kind)

\* Who passed the check may read the exam as long as it is there.
Checked ==
  \A r \in Requests :
    state[r] \in {"running", "answered"} \/ seen[r] # <<>> =>
      exams[ask[r].exam] \in {Nobody, ask[r].user, Gone}

ReportsInv == DOMAIN exams = Exams /\ Placed /\ Ordered /\ Checked

LEMMA ReportsInit == Init => ReportsInv
BY DEF Init, Store!Init, ReportsInv, Placed, Ordered, Checked

LEMMA WriteStep ==
  ASSUME ReportsInv, Write
  PROVE  ReportsInv'
<1>1. /\ UNCHANGED <<ask, state, todo, seen>> /\ DOMAIN exams' = Exams
      /\ \A e \in Exams : exams'[e] # exams[e] => exams[e] = Unborn \/ exams'[e] = Gone
  BY DEF ReportsInv, Write, Store!Create, Store!LinkSubjects, Store!SetFullScore,
         Store!RecordScores, Store!RecordItems, Store!Delete
<1>2. Placed' /\ Ordered'
  BY <1>1 DEF ReportsInv, Placed, Ordered
<1>3. Checked'
  <2> SUFFICES ASSUME NEW r \in Requests, state[r] \in {"running", "answered"} \/ seen[r] # <<>>
               PROVE  exams'[ask[r].exam] \in {Nobody, ask[r].user, Gone}
    BY <1>1 DEF Checked
  <2>1. ask[r] \in Asks
    BY DEF ReportsInv, Placed, Ordered
  <2>2. ask[r].exam \in Exams /\ ask[r].user \in Users \cup {Nobody}
    BY <2>1, ReportsAssumption
  <2>3. exams[ask[r].exam] \in {Nobody, ask[r].user, Gone}
    BY DEF ReportsInv, Checked
  <2>4. exams[ask[r].exam] # Unborn
    BY <2>2, <2>3, ReportsAssumption
  <2> QED
    BY <1>1, <2>2, <2>3, <2>4
<1> QED
  BY <1>1, <1>2, <1>3 DEF ReportsInv

LEMMA CheckStep ==
  ASSUME ReportsInv, NEW r \in Requests, NEW a \in Asks, CheckExamOwnership(r, a)
  PROVE  ReportsInv'
<1> USE DEF ReportsInv, Placed
<1>1. /\ state[r] = "check" /\ todo[r] = <<>> /\ seen[r] = <<>>
      /\ exams' = exams /\ seen' = seen /\ ask' = [ask EXCEPT ![r] = a]
  BY DEF CheckExamOwnership, Arrive, tables, Ordered
<1>2. PICK l \in Seq(MayQuery(a.kind)), x \in {"running", "answered", "failed"} :
        /\ todo' = [todo EXCEPT ![r] = l] /\ state' = [state EXCEPT ![r] = x]
        /\ x = "running" => l # <<>>
        /\ x # "failed" => exams[a.exam] \in {Nobody, a.user}
  <2>1. CASE Store!Live(a.exam) /\ exams[a.exam] \in {Nobody, a.user}
    <3>1. CASE a.kind \in {"segment", "rank"} /\ a.config = <<>>
      <4>1. Advance(r, <<"name">>) /\ <<"name">> \in Seq(MayQuery(a.kind))
        BY <2>1, <3>1, StartTyped DEF CheckExamOwnership
      <4> QED
        BY <2>1, <4>1 DEF Advance
    <3>2. CASE ~(a.kind \in {"segment", "rank"} /\ a.config = <<>>)
      <4>1. Advance(r, QueriesOf(a)) /\ QueriesOf(a) \in Seq(MayQuery(a.kind))
        BY <2>1, <3>2, StartTyped DEF CheckExamOwnership
      <4> QED
        BY <2>1, <4>1 DEF Advance
    <3> QED
      BY <3>1, <3>2
  <2>2. CASE ~(Store!Live(a.exam) /\ exams[a.exam] \in {Nobody, a.user})
    <3>1. Refuse(r)
      BY <2>2 DEF CheckExamOwnership
    <3>2. todo' = [todo EXCEPT ![r] = <<>>] /\ <<>> \in Seq(MayQuery(a.kind))
      BY <1>1, <3>1 DEF Refuse
    <3> QED
      BY <3>1, <3>2 DEF Refuse
  <2> QED
    BY <2>1, <2>2
<1>3. Placed'
  BY <1>1, <1>2
<1>4. /\ ask'[r] = a /\ state'[r] = x /\ x # "check" /\ todo'[r] = l
      /\ \A q \in Requests \ {r} : ask'[q] = ask[q] /\ state'[q] = state[q] /\ todo'[q] = todo[q]
  BY <1>1, <1>2
<1>5. Ordered'
  <2> SUFFICES ASSUME NEW q \in Requests
               PROVE  /\ state'[q] = "check" => todo'[q] = <<>> /\ seen'[q] = <<>>
                      /\ state'[q] \in {"running", "answered"} \/ seen'[q] # <<>> => ask'[q] \in Asks
                      /\ state'[q] = "running" => todo'[q] # <<>>
                      /\ ask'[q] \in Asks => /\ todo'[q] \in Seq(MayQuery(ask'[q].kind))
                                              /\ DOMAIN seen'[q] \subseteq MayQuery(ask'[q].kind)
    BY DEF Ordered
  <2>1. CASE q = r
    BY <1>1, <1>2, <1>4, <2>1
  <2>2. CASE q # r
    BY <1>1, <1>4, <2>2 DEF Ordered
  <2> QED
    BY <2>1, <2>2
<1>6. Checked'
  BY <1>1, <1>2, <1>4 DEF Checked
<1> QED
  BY <1>1, <1>3, <1>5, <1>6

\* A query that is answered: it and what follows are queries of the report.
LEMMA SeeStep ==
  ASSUME ReportsInv, NEW r \in Requests, state[r] = "running", NEW v, See(r, v), UNCHANGED <<tables, ask>>
  PROVE  ReportsInv'
<1> USE DEF ReportsInv, Placed, tables
<1>1. /\ ask[r] \in Asks /\ todo[r] # <<>> /\ todo[r] \in Seq(MayQuery(ask[r].kind))
      /\ DOMAIN seen[r] \subseteq MayQuery(ask[r].kind)
  BY DEF Ordered
<1>2. Head(todo[r]) \in MayQuery(ask[r].kind) /\ Tail(todo[r]) \in Seq(MayQuery(ask[r].kind))
  BY <1>1, HeadTailProperties
<1>3. PICK l \in Seq(MayQuery(ask[r].kind)), y \in {"running", "answered"} :
        /\ todo' = [todo EXCEPT ![r] = l] /\ state' = [state EXCEPT ![r] = y]
        /\ y = "running" => l # <<>>
  <2> DEFINE all == [p \in DOMAIN seen[r] \cup {Head(todo[r])} |->
                       IF p = Head(todo[r]) THEN [t \in Reads(ask[r].kind, Head(todo[r])) |-> v[t]] ELSE seen[r][p]]
             more == IF "rows" \in DOMAIN all THEN Following(ask[r], Head(todo[r]), all.rows) ELSE <<>>
  <2>1. more \in Seq(MayQuery(ask[r].kind))
    <3>1. Following(ask[r], Head(todo[r]), all.rows) \in Seq(MayQuery(ask[r].kind))
      BY <1>1, FollowingTyped
    <3>2. <<>> \in Seq(MayQuery(ask[r].kind))
      OBVIOUS
    <3> HIDE DEF all
    <3> QED
      BY <3>1, <3>2
  <2>2. Advance(r, more \o Tail(todo[r]))
    BY Zenon DEF See
  <2> HIDE DEF more
  <2>3. more \o Tail(todo[r]) \in Seq(MayQuery(ask[r].kind))
    BY <1>2, <2>1, ConcatProperties
  <2> QED
    BY <2>2, <2>3 DEF Advance
<1>4. PICK w : seen' = [seen EXCEPT ![r] = w] /\ DOMAIN w = DOMAIN seen[r] \cup {Head(todo[r])}
  BY DEF See
<1>5. Placed' /\ exams' = exams
  BY <1>3, <1>4
<1>6. /\ ask' = ask /\ state'[r] = y /\ todo'[r] = l /\ seen'[r] = w
      /\ \A q \in Requests \ {r} : state'[q] = state[q] /\ todo'[q] = todo[q] /\ seen'[q] = seen[q]
  BY <1>3, <1>4
<1>7. Ordered'
  <2> SUFFICES ASSUME NEW q \in Requests
               PROVE  /\ state'[q] = "check" => todo'[q] = <<>> /\ seen'[q] = <<>>
                      /\ state'[q] \in {"running", "answered"} \/ seen'[q] # <<>> => ask'[q] \in Asks
                      /\ state'[q] = "running" => todo'[q] # <<>>
                      /\ ask'[q] \in Asks => /\ todo'[q] \in Seq(MayQuery(ask'[q].kind))
                                              /\ DOMAIN seen'[q] \subseteq MayQuery(ask'[q].kind)
    BY DEF Ordered
  <2>1. CASE q = r
    BY <1>1, <1>2, <1>3, <1>4, <1>6, <2>1
  <2>2. CASE q # r
    BY <1>6, <2>2 DEF Ordered
  <2> QED
    BY <2>1, <2>2
<1>8. Checked'
  BY <1>5, <1>6 DEF Checked
<1> QED
  BY <1>5, <1>7, <1>8

LEMMA RefuseStep ==
  ASSUME ReportsInv, NEW r \in Requests, state[r] = "running", Refuse(r), UNCHANGED <<tables, ask, seen>>
  PROVE  ReportsInv'
<1> USE DEF ReportsInv, Placed, Refuse, tables
<1>1. Placed' /\ exams' = exams
  OBVIOUS
<1>2. \A q \in Requests : state'[q] # "failed" => state'[q] = state[q]
  OBVIOUS
<1>3. \A q \in Requests : state'[q] = "failed" => state[q] = "failed" \/ q = r
  OBVIOUS
<1>4. Ordered' /\ Checked'
  BY <1>2, <1>3 DEF Ordered, Checked
<1> QED
  BY <1>1, <1>4

LEMMA QueryStep ==
  ASSUME ReportsInv, NEW r \in Requests, Query(r) \/ FailQuery(r)
  PROVE  ReportsInv'
BY SeeStep, RefuseStep DEF Query, FailQuery

LEMMA ReportsStep == ReportsInv /\ [Next]_vars => ReportsInv'
<1> SUFFICES ASSUME ReportsInv, [Next]_vars PROVE ReportsInv'
  OBVIOUS
<1>1. CASE Write
  BY <1>1, WriteStep
<1>2. CASE \E r \in Requests, a \in Asks : CheckExamOwnership(r, a)
  BY <1>2, CheckStep
<1>3. CASE \E r \in Requests : Query(r) \/ FailQuery(r)
  BY <1>3, QueryStep
<1>4. CASE AllAnswered \/ UNCHANGED vars
  BY <1>4 DEF AllAnswered, vars, tables, ReportsInv, Placed, Ordered, Checked
<1> QED
  BY <1>1, <1>2, <1>3, <1>4 DEF Next

-----------------------------------------------------------------------------
(* How far a report has come *)

\* The queries that the check of a request a sets out.
Plan(a) == IF a.kind \in {"segment", "rank"} /\ a.config = <<>> THEN <<"name">> ELSE QueriesOf(a)

\* Of the queries Q the first n have been answered, so that D have; c queries of a loop
\* over subjects come before the rest of Q, and this is what is left, t.
At(t, D, Q, n, c) ==
  /\ n \in 0 .. Len(Q) /\ c \in Nat
  /\ Len(t) = c + Len(Q) - n
  /\ \A i \in 1 .. c : t[i] \in Subjects
  /\ \A i \in n + 1 .. Len(Q) : t[c + i - n] = Q[i]
  /\ D \ Subjects = {Q[i] : i \in 1 .. n}

Under(r) == ask[r] \in Asks /\ state[r] \in {"running", "answered"}

StagedIn(r) ==
  Under(r) =>
    /\ \E n, c : At(todo[r], DOMAIN seen[r], Plan(ask[r]), n, c)
    /\ state[r] = "answered" => todo[r] = <<>>

Staged == \A r \in Requests : StagedIn(r)

LEMMA PlanNamed ==
  ASSUME NEW a \in Asks
  PROVE  /\ Plan(a) \in Seq(Names) /\ Plan(a) # <<>>
         /\ \A i \in DOMAIN Plan(a) : Plan(a)[i] \notin Subjects
<1>1. Queries[a.kind] \in Seq(Names) /\ Queries[a.kind] # <<>> /\ ToSet(Queries[a.kind]) \cap Subjects = {}
  BY ReportsAssumption, QueriesAreSeqs, QueriesNamed
<1>2. CASE Plan(a) = Queries[a.kind]
  BY <1>1, <1>2 DEF ToSet
<1>3. "name" \notin Subjects /\ "count" \notin Subjects /\ "rows" \notin Subjects
  <2>1. Queries["subject"] = <<"count", "rows", "classes", "name">>
    BY DEF Queries, SubjectQueries
  <2>2. {"count", "rows", "name"} \subseteq ToSet(Queries["subject"])
    <3>1. {1, 2, 3, 4} = DOMAIN Queries["subject"]
      BY <2>1
    <3> QED
      BY <2>1, <3>1 DEF ToSet
  <2> QED
    BY <2>2, QueriesNamed DEF Kinds
<1>4. CASE Plan(a) = <<"name">>
  BY <1>3, <1>4 DEF Names
<1>5. CASE Plan(a) = <<"count", "rows", "name">>
  BY <1>3, <1>5 DEF Names
<1>6. Plan(a) \in {Queries[a.kind], <<"name">>, <<"count", "rows", "name">>}
  BY DEF Plan, QueriesOf
<1> QED
  BY <1>2, <1>4, <1>5, <1>6

\* What a request has seen after the query at the head of its list, and what that
\* query adds to the list.
Result(r, v) == [t \in Reads(ask[r].kind, Head(todo[r])) |-> v[t]]
SeenNext(r, v) ==
  [p \in DOMAIN seen[r] \cup {Head(todo[r])} |-> IF p = Head(todo[r]) THEN Result(r, v) ELSE seen[r][p]]
Loop(r, v) ==
  IF "rows" \in DOMAIN SeenNext(r, v) THEN Following(ask[r], Head(todo[r]), SeenNext(r, v).rows) ELSE <<>>

LEMMA SeeIs ==
  ASSUME ReportsInv, NEW r \in Requests, NEW v, See(r, v)
  PROVE  /\ seen'[r] = SeenNext(r, v) /\ todo'[r] = Loop(r, v) \o Tail(todo[r])
         /\ state'[r] = IF todo'[r] = <<>> THEN "answered" ELSE "running"
<1>1. seen' = [seen EXCEPT ![r] = SeenNext(r, v)] /\ Advance(r, Loop(r, v) \o Tail(todo[r]))
  BY Zenon DEF See, SeenNext, Loop, Result
<1> HIDE DEF Loop
<1> QED
  BY <1>1 DEF Advance, ReportsInv, Placed

\* One query further.
LEMMA AtNext ==
  ASSUME NEW Q \in Seq(Names), \A i \in DOMAIN Q : Q[i] \notin Subjects,
         NEW t \in Seq(Names \cup Subjects), t # <<>>, NEW D, NEW n, NEW c, At(t, D, Q, n, c),
         NEW F \in Seq(Subjects), c > 0 => F = <<>>
  PROVE  \/ /\ c > 0 /\ Head(t) \in Subjects
            /\ At(F \o Tail(t), D \cup {Head(t)}, Q, n, c - 1)
         \/ /\ c = 0 /\ n + 1 \in DOMAIN Q /\ Head(t) = Q[n + 1]
            /\ At(F \o Tail(t), D \cup {Head(t)}, Q, n + 1, Len(F))
<1> DEFINE u == F \o Tail(t)
<1>1. n \in 0 .. Len(Q) /\ c \in Nat /\ Len(t) = c + Len(Q) - n /\ Len(t) > 0 /\ Len(Q) \in Nat
  BY DEF At
<1>2. Head(t) = t[1] /\ Tail(t) \in Seq(Names \cup Subjects) /\ Len(Tail(t)) = Len(t) - 1
      /\ \A i \in 1 .. Len(t) - 1 : Tail(t)[i] = t[i + 1]
  BY HeadTailProperties
<1>3. /\ Len(u) = Len(F) + Len(t) - 1
      /\ \A i \in 1 .. Len(F) : u[i] = F[i]
      /\ \A i \in 1 .. Len(t) - 1 : u[Len(F) + i] = t[i + 1]
  <2>1. Len(F) \in Nat
    OBVIOUS
  <2>2. \A i \in 1 .. Len(t) - 1 : u[Len(F) + i] = Tail(t)[i]
    BY <1>2, <2>1
  <2> QED
    BY <1>2, <2>1, <2>2
<1> HIDE DEF u
<1>4. CASE c > 0
  <2>1. Len(F) = 0 /\ t[1] \in Subjects
    BY <1>1, <1>4 DEF At
  <2>0. \A i \in 1 .. Len(t) - 1 : u[i] = t[i + 1]
    <3> SUFFICES ASSUME NEW i \in 1 .. Len(t) - 1 PROVE u[i] = t[i + 1]
      OBVIOUS
    <3>1. u[Len(F) + i] = t[i + 1]
      BY <1>3
    <3>2. Len(F) + i = i
      BY <2>1
    <3> QED
      BY <3>1, <3>2
  <2>2. \A i \in 1 .. c - 1 : u[i] \in Subjects
    <3> SUFFICES ASSUME NEW i \in 1 .. c - 1 PROVE u[i] \in Subjects
      OBVIOUS
    <3>1. i \in 1 .. Len(t) - 1 /\ i + 1 \in 1 .. c
      BY <1>1, <1>4
    <3>2. t[i + 1] \in Subjects
      BY <3>1 DEF At
    <3> QED
      BY <2>0, <3>1, <3>2
  <2>3. \A i \in n + 1 .. Len(Q) : u[(c - 1) + i - n] = Q[i]
    <3> SUFFICES ASSUME NEW i \in n + 1 .. Len(Q) PROVE u[(c - 1) + i - n] = Q[i]
      OBVIOUS
    <3> DEFINE j == (c - 1) + i - n
    <3>1. j \in 1 .. Len(t) - 1 /\ j + 1 = c + i - n
      BY <1>1, <1>4
    <3>2. t[c + i - n] = Q[i]
      BY DEF At
    <3> HIDE DEF j
    <3>3. u[j] = Q[i]
      BY <2>0, <3>1, <3>2
    <3> QED
      BY <3>3 DEF j
  <2>4. (D \cup {Head(t)}) \ Subjects = {Q[i] : i \in 1 .. n}
    BY <1>2, <2>1 DEF At
  <2>5. Len(u) = (c - 1) + Len(Q) - n
    BY <1>1, <1>3, <1>4, <2>1
  <2>6. At(u, D \cup {Head(t)}, Q, n, c - 1)
    BY <1>1, <1>4, <2>2, <2>3, <2>4, <2>5 DEF At
  <2> QED
    BY <1>2, <1>4, <2>1, <2>6 DEF u
<1>5. CASE c = 0
  <2>1. n + 1 \in 1 .. Len(Q) /\ t[1] = Q[n + 1]
    BY <1>1, <1>5 DEF At
  <2>2. \A i \in 1 .. Len(F) : u[i] \in Subjects
    BY <1>3
  <2>3. \A i \in n + 2 .. Len(Q) : u[Len(F) + i - (n + 1)] = Q[i]
    <3> SUFFICES ASSUME NEW i \in n + 2 .. Len(Q) PROVE u[Len(F) + i - (n + 1)] = Q[i]
      OBVIOUS
    <3> DEFINE j == i - (n + 1)
    <3>1. /\ j \in 1 .. Len(t) - 1 /\ j + 1 = c + i - n /\ i \in n + 1 .. Len(Q)
          /\ Len(F) + i - (n + 1) = Len(F) + j
      <4>1. Len(F) \in Nat
        OBVIOUS
      <4> QED
        BY <1>1, <1>5, <4>1
    <3>2. t[c + i - n] = Q[i]
      BY <3>1 DEF At
    <3> HIDE DEF j
    <3>3. u[Len(F) + j] = Q[i]
      <4>1. u[Len(F) + j] = t[j + 1]
        BY <1>3, <3>1
      <4> QED
        BY <3>1, <3>2, <4>1
    <3> QED
      BY <3>1, <3>3
  <2>4. (D \cup {Head(t)}) \ Subjects = {Q[i] : i \in 1 .. n + 1}
    <3>1. (D \cup {Head(t)}) \ Subjects = {Q[i] : i \in 1 .. n} \cup {Q[n + 1]}
      <4>1. Head(t) = Q[n + 1] /\ Q[n + 1] \notin Subjects
        BY <1>2, <2>1
      <4> QED
        BY <4>1 DEF At
    <3>2. 1 .. n + 1 = (1 .. n) \cup {n + 1}
      <4>1. n \in Nat
        BY <1>1
      <4> QED
        BY <4>1
    <3> QED
      BY <3>1, <3>2
  <2>5. Len(u) = Len(F) + Len(Q) - (n + 1) /\ Len(F) \in Nat
    BY <1>1, <1>3, <1>5
  <2>6. At(u, D \cup {Head(t)}, Q, n + 1, Len(F))
    BY <1>1, <2>1, <2>2, <2>3, <2>4, <2>5 DEF At
  <2> QED
    BY <1>2, <1>5, <2>1, <2>6 DEF u
<1> QED
  BY <1>1, <1>4, <1>5

\* A request that nothing happens to.
Same(r) ==
  /\ ask'[r] = ask[r] /\ state'[r] \in {state[r], "failed"}
  /\ todo'[r] = todo[r] /\ seen'[r] = seen[r]

\* The steps, as one request sees them.
StepOf(r) ==
  \/ Same(r)
  \/ \E a \in Asks : CheckExamOwnership(r, a)
  \/ /\ state[r] = "running" /\ ask[r] \in Asks /\ UNCHANGED <<tables, ask>>
     /\ \E v : /\ See(r, v)
               /\ v = ViewOf(ask[r].exam) \/ (v = Nothing /\ Ignored(ask[r], Head(todo[r])))

LEMMA StepsOf ==
  ASSUME ReportsInv, [Next]_vars, NEW r \in Requests
  PROVE  StepOf(r) /\ (UNCHANGED tables \/ (Write /\ UNCHANGED <<ask, state, todo, seen>>))
<1>1. CASE Write
  BY <1>1 DEF Write, StepOf, Same
<1>2. ASSUME NEW q \in Requests, NEW a \in Asks, CheckExamOwnership(q, a)
      PROVE  StepOf(r) /\ UNCHANGED tables
  <2>1. CASE q = r
    BY <1>2, <2>1 DEF StepOf, CheckExamOwnership
  <2>2. CASE q # r
    <3>1. Same(r)
      BY <1>2, <2>2 DEF Same, CheckExamOwnership, Arrive, Advance, Refuse, ReportsInv, Placed
    <3> QED
      BY <1>2, <3>1 DEF StepOf, CheckExamOwnership
  <2> QED
    BY <2>1, <2>2
<1>3. ASSUME NEW q \in Requests, Query(q) \/ FailQuery(q)
      PROVE  StepOf(r) /\ UNCHANGED tables
  <2>1. UNCHANGED <<tables, ask>> /\ state[q] = "running"
    BY <1>3 DEF Query, FailQuery
  <2>2. CASE Refuse(q) /\ UNCHANGED seen
    <3>1. Same(r)
      BY <2>1, <2>2 DEF Same, Refuse, ReportsInv, Placed
    <3> QED
      BY <2>1, <3>1 DEF StepOf
  <2>3. ASSUME NEW v, See(q, v), v = ViewOf(ask[q].exam) \/ (v = Nothing /\ Ignored(ask[q], Head(todo[q])))
        PROVE  StepOf(r)
    <3>1. CASE q = r
      <4>1. ask[r] \in Asks
        BY <2>1, <3>1 DEF ReportsInv, Ordered
      <4> QED
        BY <2>1, <2>3, <3>1, <4>1 DEF StepOf
    <3>2. CASE q # r
      <4>1. Same(r)
        BY <2>1, <2>3, <3>2 DEF Same, See, Advance, ReportsInv, Placed
      <4> QED
        BY <4>1 DEF StepOf
    <3> QED
      BY <3>1, <3>2
  <2> QED
    BY <1>3, <2>1, <2>2, <2>3 DEF Query, FailQuery
<1>4. CASE AllAnswered \/ UNCHANGED vars
  BY <1>4 DEF AllAnswered, vars, StepOf, Same
<1> QED
  BY <1>1, <1>2, <1>3, <1>4 DEF Next

\* A request that passes the check starts with its plan.
LEMMA CheckIs ==
  ASSUME ReportsInv, NEW r \in Requests, NEW a \in Asks, CheckExamOwnership(r, a)
  PROVE  /\ ask'[r] = a /\ seen'[r] = <<>> /\ DOMAIN seen'[r] = {}
         /\ state'[r] # "failed" => todo'[r] = Plan(a) /\ state'[r] = "running"
<1>1. ask'[r] = a /\ seen'[r] = <<>> /\ DOMAIN seen'[r] = {}
  BY DEF CheckExamOwnership, Arrive, ReportsInv, Placed, Ordered
<1>2. Advance(r, Plan(a)) \/ Refuse(r)
  BY DEF CheckExamOwnership, Plan
<1>3. Plan(a) # <<>>
  BY PlanNamed
<1> QED
  BY <1>1, <1>2, <1>3 DEF Advance, Refuse, ReportsInv, Placed

LEMMA StagedInit == Init => Staged
BY DEF Init, Staged, StagedIn, Under

LEMMA SeenFurther ==
  ASSUME ReportsInv, NEW r \in Requests, Under(r), StagedIn(r), state[r] = "running", NEW v,
         NEW n, NEW c, At(todo[r], DOMAIN seen[r], Plan(ask[r]), n, c)
  PROVE  LET q == Head(todo[r])
             t2 == Loop(r, v) \o Tail(todo[r])
             D2 == DOMAIN SeenNext(r, v) IN
         \/ c > 0 /\ q \in Subjects /\ At(t2, D2, Plan(ask[r]), n, c - 1)
         \/ c = 0 /\ n + 1 \in DOMAIN Plan(ask[r]) /\ q = Plan(ask[r])[n + 1]
            /\ At(t2, D2, Plan(ask[r]), n + 1, Len(Loop(r, v)))
<1>1. PICK a \in Asks : a = ask[r]
  BY DEF Under
<1>2. Plan(a) \in Seq(Names) /\ \A i \in DOMAIN Plan(a) : Plan(a)[i] \notin Subjects
  BY PlanNamed
<1>3. todo[r] \in Seq(MayQuery(a.kind)) /\ todo[r] # <<>>
  BY <1>1 DEF ReportsInv, Ordered
<1>4. MayQuery(a.kind) \subseteq Names \cup Subjects
  <2>1. Queries[a.kind] \in Seq(Names)
    BY ReportsAssumption, QueriesAreSeqs
  <2> QED
    BY <2>1 DEF MayQuery, ToSet
<1>5. todo[r] \in Seq(Names \cup Subjects)
  BY <1>3, <1>4, SeqMonotonic
<1>6. /\ Loop(r, v) \in Seq(Subjects)
      /\ Head(todo[r]) \in Subjects => Loop(r, v) = <<>>
  <2>1. \A rows : Following(a, Head(todo[r]), rows) \in Seq(Subjects)
                 /\ (Head(todo[r]) \in Subjects => Following(a, Head(todo[r]), rows) = <<>>)
    BY FollowingLoops
  <2>2. <<>> \in Seq(Subjects)
    OBVIOUS
  <2> QED
    BY <1>1, <2>1, <2>2, Zenon DEF Loop
<1>7. c > 0 => Loop(r, v) = <<>>
  <2>1. c > 0 => Head(todo[r]) \in Subjects
    BY <1>5 DEF At
  <2> QED
    BY <1>6, <2>1
<1>8. DOMAIN SeenNext(r, v) = DOMAIN seen[r] \cup {Head(todo[r])}
  BY DEF SeenNext
<1> DEFINE F == Loop(r, v)
           t == todo[r]
<1>9. F \in Seq(Subjects) /\ (c > 0 => F = <<>>) /\ t \in Seq(Names \cup Subjects) /\ t # <<>>
      /\ At(t, DOMAIN seen[r], Plan(a), n, c)
  BY <1>1, <1>3, <1>5, <1>6, <1>7
<1> HIDE DEF F, t
<1>10. \/ /\ c > 0 /\ Head(t) \in Subjects
          /\ At(F \o Tail(t), DOMAIN seen[r] \cup {Head(t)}, Plan(a), n, c - 1)
       \/ /\ c = 0 /\ n + 1 \in DOMAIN Plan(a) /\ Head(t) = Plan(a)[n + 1]
          /\ At(F \o Tail(t), DOMAIN seen[r] \cup {Head(t)}, Plan(a), n + 1, Len(F))
  BY <1>2, <1>9, AtNext
<1> QED
  BY <1>1, <1>8, <1>10 DEF F, t

LEMMA StagedStep == ReportsInv /\ Staged /\ [Next]_vars => Staged'
<1> SUFFICES ASSUME ReportsInv, Staged, [Next]_vars, NEW r \in Requests PROVE StagedIn(r)'
  BY DEF Staged
<1>0. StagedIn(r) /\ StepOf(r)
  BY StepsOf DEF Staged
<1>1. CASE Same(r)
  BY <1>0, <1>1 DEF Same, StagedIn, Under
<1>2. ASSUME NEW a \in Asks, CheckExamOwnership(r, a) PROVE StagedIn(r)'
  <2>1. /\ ask'[r] = a /\ DOMAIN seen'[r] = {}
        /\ state'[r] # "failed" => todo'[r] = Plan(a) /\ state'[r] = "running"
    BY <1>2, CheckIs
  <2>2. Plan(a) \in Seq(Names)
    BY PlanNamed
  <2>3. At(Plan(a), {}, Plan(a), 0, 0)
    BY <2>2 DEF At
  <2> QED
    BY <2>1, <2>3 DEF StagedIn, Under
<1>3. ASSUME state[r] = "running", ask[r] \in Asks, UNCHANGED <<tables, ask>>, NEW v, See(r, v)
      PROVE  StagedIn(r)'
  <2>1. /\ seen'[r] = SeenNext(r, v) /\ todo'[r] = Loop(r, v) \o Tail(todo[r])
        /\ state'[r] = IF todo'[r] = <<>> THEN "answered" ELSE "running"
    BY <1>3, SeeIs
  <2>2. PICK n, c : At(todo[r], DOMAIN seen[r], Plan(ask[r]), n, c)
    BY <1>0, <1>3 DEF StagedIn, Under
  <2>3. \E n2, c2 : At(todo'[r], DOMAIN seen'[r], Plan(ask[r]), n2, c2)
    <3>1. \/ At(Loop(r, v) \o Tail(todo[r]), DOMAIN SeenNext(r, v), Plan(ask[r]), n, c - 1)
          \/ At(Loop(r, v) \o Tail(todo[r]), DOMAIN SeenNext(r, v), Plan(ask[r]), n + 1, Len(Loop(r, v)))
      BY <1>0, <1>3, <2>2, SeenFurther DEF Under
    <3> QED
      BY <2>1, <3>1
  <2> QED
    BY <1>3, <2>1, <2>3 DEF StagedIn, Under
<1> QED
  BY <1>0, <1>1, <1>2, <1>3 DEF StepOf

\* A report that is answered and has rows has run all its queries.
LEMMA AllQueriesRun ==
  ASSUME Staged, NEW r \in Requests, ask[r] \in Asks, state[r] = "answered", "rows" \in DOMAIN seen[r]
  PROVE  ToSet(QueriesOf(ask[r])) \subseteq DOMAIN seen[r]
<1>1. PICK a \in Asks : a = ask[r]
  OBVIOUS
<1>2. PICK n, c : At(<<>>, DOMAIN seen[r], Plan(a), n, c)
  BY <1>1 DEF Staged, StagedIn, Under
<1>3. Plan(a) \in Seq(Names) /\ \A i \in DOMAIN Plan(a) : Plan(a)[i] \notin Subjects
  BY PlanNamed
<1>4. n = Len(Plan(a))
  BY <1>2, <1>3 DEF At
<1>5. ToSet(Plan(a)) = DOMAIN seen[r] \ Subjects
  BY <1>2, <1>3, <1>4 DEF At, ToSet
<1>6. "rows" \notin Subjects
  <2>1. Queries["rating"] = <<"count", "rows", "name">> /\ 2 \in 1 .. 3
    BY DEF Queries, RatingQueries
  <2>2. "rows" \in ToSet(Queries["rating"])
    BY <2>1 DEF ToSet
  <2> QED
    BY <2>2, QueriesNamed DEF Kinds
<1>7. Plan(a) # <<"name">>
  <2>1. "rows" \in ToSet(Plan(a))
    BY <1>5, <1>6
  <2> QED
    BY <2>1 DEF ToSet
<1> QED
  BY <1>1, <1>5, <1>7 DEF Plan

-----------------------------------------------------------------------------
(* What a report reads twice *)

\* What the scores S hold of exam e.
Took(S, e) == {<<k.student, k.subject>> : k \in {j \in S : j.exam = e}}

\* The pairs of queries of a report of kind k of which the second has to cover the first.
Twice(k) ==
  CASE k = "rank"   -> {<<"rows", "count">>}
    [] k = "single" -> {<<"rows", "grade">>}
    [] k = "drill"  -> {<<"rows", "ranks">>, <<"overall", "overallRanks">>}
    [] OTHER        -> {}

\* As long as the exam is there the rows stay, so that the later query finds them; and
\* once the exam has been named nothing is left to read.
CoveredIn(r, p) ==
  LET e == ask[r].exam
      s == seen[r] IN
  /\ p[1] \in DOMAIN s /\ exams[e] # Gone => s[p[1]].took \subseteq Took(scores, e)
  /\ p[2] \in DOMAIN s /\ (exams[e] # Gone \/ ("name" \in DOMAIN s /\ s["name"].name)) =>
       s[p[1]].took \subseteq s[p[2]].took

Covered == \A r \in Requests : Under(r) => \A p \in Twice(ask[r].kind) : CoveredIn(r, p)

LEMMA TwiceIs ==
  /\ Twice("rank") = {<<"rows", "count">>}
  /\ Twice("single") = {<<"rows", "grade">>}
  /\ Twice("drill") = {<<"rows", "ranks">>, <<"overall", "overallRanks">>}
  /\ \A k \in Kinds \ {"rank", "single", "drill"} : Twice(k) = {}
<1>1. \A k : k = "rank" => Twice(k) = {<<"rows", "count">>}
  <2>1. "rank" # "single" /\ "rank" # "drill"
    OBVIOUS
  <2> QED
    BY <2>1, Zenon DEF Twice
<1>2. \A k : k = "single" => Twice(k) = {<<"rows", "grade">>}
  <2>1. "rank" # "single" /\ "single" # "drill"
    OBVIOUS
  <2> QED
    BY <2>1, Zenon DEF Twice
<1>3. \A k : k = "drill" => Twice(k) = {<<"rows", "ranks">>, <<"overall", "overallRanks">>}
  <2>1. "rank" # "drill" /\ "single" # "drill"
    OBVIOUS
  <2> QED
    BY <2>1, Zenon DEF Twice
<1>4. \A k : k # "rank" /\ k # "single" /\ k # "drill" => Twice(k) = {}
  BY Zenon DEF Twice
<1> QED
  BY <1>1, <1>2, <1>3, <1>4

\* Both queries are in the plan once, the first before the second and the name last.
InOrder(Q, p) ==
  \E i, j, l \in DOMAIN Q :
    /\ i < j /\ j < l
    /\ \A x \in DOMAIN Q :
         (Q[x] = p[1] <=> x = i) /\ (Q[x] = p[2] <=> x = j) /\ (Q[x] = "name" <=> x = l)

LEMMA TwicePlaced ==
  ASSUME NEW a \in Asks, NEW p \in Twice(a.kind)
  PROVE  /\ Plan(a) = <<"name">> \/ InOrder(Plan(a), p)
         /\ "took" \in Reads(a.kind, p[1]) /\ "took" \in Reads(a.kind, p[2])
         /\ ~Ignored(a, p[1]) /\ ~Ignored(a, p[2])
         /\ p[1] # "name" /\ p[2] # "name" /\ p[1] # p[2]
         /\ Reads(a.kind, "name") = {"name"}
<1>0. a.kind \in Kinds
  BY ReportsAssumption
<1>1. a.kind \in {"rank", "single", "drill"}
  BY <1>0, TwiceIs
<1>2. /\ Queries["rank"] = <<"rows", "count", "name">>
      /\ Queries["single"] = <<"full", "rows", "grade", "marks", "name">>
      /\ Queries["drill"] = <<"rows", "ranks", "overall", "overallRanks", "marks", "name">>
  BY DEF Queries, RankQueries, SingleQueries, DrillQueries
<1>3. Plan(a) \in {<<"name">>, Queries[a.kind]}
  BY <1>1 DEF Plan, QueriesOf
<1>4. a.kind = "rank" => p = <<"rows", "count">>
  BY TwiceIs
<1>5. a.kind = "single" => p = <<"rows", "grade">>
  BY TwiceIs
<1>6. a.kind = "drill" => p \in {<<"rows", "ranks">>, <<"overall", "overallRanks">>}
  BY TwiceIs
<1>7. InOrder(Queries[a.kind], p)
  <2>1. CASE a.kind = "rank"
    <3> DEFINE Q == Queries["rank"]
    <3>1. DOMAIN Q = {1, 2, 3} /\ Q[1] = "rows" /\ Q[2] = "count" /\ Q[3] = "name"
      BY <1>2
    <3> HIDE DEF Q
    <3>2. p[1] = "rows" /\ p[2] = "count"
      BY <1>4, <2>1
    <3>3. InOrder(Q, p)
      BY <3>1, <3>2 DEF InOrder
    <3> QED
      BY <2>1, <3>3 DEF Q
  <2>2. CASE a.kind = "single"
    <3> DEFINE Q == Queries["single"]
    <3>1. DOMAIN Q = {1, 2, 3, 4, 5} /\ Q[1] = "full" /\ Q[2] = "rows" /\ Q[3] = "grade" /\ Q[4] = "marks" /\ Q[5] = "name"
      BY <1>2
    <3> HIDE DEF Q
    <3>2. p[1] = "rows" /\ p[2] = "grade"
      BY <1>5, <2>2
    <3>3. InOrder(Q, p)
      BY <3>1, <3>2 DEF InOrder
    <3> QED
      BY <2>2, <3>3 DEF Q
  <2>3. CASE a.kind = "drill"
    <3> DEFINE Q == Queries["drill"]
    <3>1. DOMAIN Q = {1, 2, 3, 4, 5, 6} /\ Q[1] = "rows" /\ Q[2] = "ranks" /\ Q[3] = "overall" /\ Q[4] = "overallRanks"
          /\ Q[5] = "marks" /\ Q[6] = "name"
      BY <1>2
    <3> HIDE DEF Q
    <3>2. CASE p = <<"rows", "ranks">>
      <4>1. p[1] = "rows" /\ p[2] = "ranks"
        BY <3>2
      <4>2. InOrder(Q, p)
        BY <3>1, <4>1 DEF InOrder
      <4> QED
        BY <2>3, <4>2 DEF Q
    <3>3. CASE p = <<"overall", "overallRanks">>
      <4>1. p[1] = "overall" /\ p[2] = "overallRanks"
        BY <3>3
      <4>2. InOrder(Q, p)
        BY <3>1, <4>1 DEF InOrder
      <4> QED
        BY <2>3, <4>2 DEF Q
    <3> QED
      BY <1>6, <2>3, <3>2, <3>3
  <2> QED
    BY <1>1, <2>1, <2>2, <2>3
<1>8. /\ p[1] \in {"rows", "overall"} /\ p[2] \in {"count", "grade", "ranks", "overallRanks"}
      /\ p[1] = "overall" => a.kind = "drill"
  BY <1>1, <1>4, <1>5, <1>6
<1>9. a.kind # "class" /\ a.kind \notin QuestionKinds /\ a.kind \notin {"subject", "rating"}
  BY <1>1 DEF QuestionKinds
<1>10. "took" \in Reads(a.kind, p[1])
  <2>1. p[1] # "name" /\ p[1] # "full" /\ ~(p[1] = "overall" /\ a.kind = "class")
    BY <1>8, <1>9
  <2>2. CASE a.kind = "drill"
    <3>1. p[1] \in {"rows", "overall"} /\ a.kind \in {"subject", "drill", "rating"}
      BY <1>8, <2>2
    <3>2. Reads(a.kind, p[1]) = {"took", "full"}
      BY <1>9, <2>1, <3>1, Zenon DEF Reads
    <3> QED
      BY <3>2
  <2>3. CASE a.kind # "drill"
    <3>1. a.kind \notin {"subject", "drill", "rating"}
      BY <1>9, <2>3
    <3>2. Reads(a.kind, p[1]) = {"took"}
      BY <1>9, <2>1, <3>1, Zenon DEF Reads
    <3> QED
      BY <3>2
  <2> QED
    BY <2>2, <2>3
<1>11. "took" \in Reads(a.kind, p[2])
  <2>1. p[2] # "name" /\ p[2] # "full" /\ p[2] # "overall" /\ p[2] \notin {"rows", "overall"}
    BY <1>8
  <2>2. Reads(a.kind, p[2]) = {"took"}
    BY <1>9, <2>1, Zenon DEF Reads
  <2> QED
    BY <2>2
<1>12. p[1] \notin Subjects /\ p[2] \notin Subjects
  <2>1. PICK i, j \in DOMAIN Queries[a.kind] : Queries[a.kind][i] = p[1] /\ Queries[a.kind][j] = p[2]
    BY <1>7 DEF InOrder
  <2> QED
    BY <1>0, <2>1, QueriesNamed DEF ToSet
<1>13. ~Ignored(a, p[1]) /\ ~Ignored(a, p[2])
  BY <1>8, <1>9, <1>12 DEF Ignored
<1>14. Reads(a.kind, "name") = {"name"}
  <2>1. "name" # "full" /\ "name" # "overall" /\ "name" # "rows" /\ "name" \notin {"rows", "overall"}
    OBVIOUS
  <2> QED
    BY <1>9, <2>1, Zenon DEF Reads
<1> QED
  BY <1>3, <1>7, <1>8, <1>10, <1>11, <1>13, <1>14

\* So the second is answered after the first, and the name after both.
LEMMA TwiceOrdered ==
  ASSUME NEW a \in Asks, NEW p \in Twice(a.kind), NEW t, t # <<>>, NEW D, NEW n, NEW c,
         At(t, D, Plan(a), n, c),
         (c > 0 /\ Head(t) \in Subjects) \/ (c = 0 /\ n + 1 \in DOMAIN Plan(a) /\ Head(t) = Plan(a)[n + 1])
  PROVE  /\ Head(t) = p[1] => p[2] \notin D /\ "name" \notin D
         /\ Head(t) = p[2] => p[1] \in D /\ "name" \notin D
         /\ Head(t) = "name" => "name" \notin D
         /\ p[2] \in D => p[1] \in D
<1> DEFINE Q == Plan(a)
<1>1. Q \in Seq(Names) /\ \A i \in DOMAIN Q : Q[i] \notin Subjects
  BY PlanNamed
<1>2. p[1] # "name" /\ p[2] # "name" /\ p[1] # p[2] /\ ~Ignored(a, p[1]) /\ ~Ignored(a, p[2])
  BY TwicePlaced
<1>3. p[1] \notin Subjects /\ p[2] \notin Subjects /\ "name" \notin Subjects
  <2>1. "name" \notin Subjects
    <3>1. Queries["rating"] = <<"count", "rows", "name">> /\ 3 \in 1 .. 3
      BY DEF Queries, RatingQueries
    <3>2. "name" \in ToSet(Queries["rating"])
      BY <3>1 DEF ToSet
    <3> QED
      BY <3>2, QueriesNamed DEF Kinds
  <2> QED
    BY <1>2, <2>1 DEF Ignored
<1>4. /\ n \in Nat /\ n <= Len(Q) /\ DOMAIN Q = 1 .. Len(Q) /\ Len(Q) \in Nat
      /\ D \ Subjects = {Q[i] : i \in 1 .. n}
      /\ Head(t) \in Subjects \/ (n + 1 \in 1 .. Len(Q) /\ Head(t) = Q[n + 1])
  BY <1>1 DEF At
<1>5. CASE Q = <<"name">>
  <2>1. Len(Q) = 1 /\ Q[1] = "name"
    BY <1>5
  <2> HIDE DEF Q
  <2> QED
    BY <1>2, <1>3, <1>4, <2>1
<1>6. CASE InOrder(Q, p)
  <2> HIDE DEF Q
  <2>1. PICK i, j, l \in DOMAIN Q :
          /\ i < j /\ j < l
          /\ \A x \in DOMAIN Q :
               (Q[x] = p[1] <=> x = i) /\ (Q[x] = p[2] <=> x = j) /\ (Q[x] = "name" <=> x = l)
    BY <1>6 DEF InOrder
  <2>2. (p[1] \in D <=> i <= n) /\ (p[2] \in D <=> j <= n) /\ ("name" \in D <=> l <= n)
    BY <1>3, <1>4, <2>1
  <2> QED
    BY <1>3, <1>4, <2>1, <2>2
<1> QED
  BY <1>5, <1>6, TwicePlaced

LEMMA CoveredInit == Init => Covered
BY DEF Init, Covered, Under

\* The scores of an exam that has not gone only become more.
LEMMA ScoresStay ==
  ASSUME ReportsInv, Write, NEW e \in Exams, exams'[e] # Gone
  PROVE  exams[e] # Gone /\ Took(scores, e) \subseteq Took(scores', e)
<1>1. PICK d \in Exams :
        \/ Store!Create(d)
        \/ Store!LinkSubjects(d)
        \/ Store!SetFullScore(d)
        \/ \E K \in Batches : Store!RecordScores(d, K)
        \/ \E K \in Sheets : Store!RecordItems(d, K)
        \/ Store!Delete(d)
  BY DEF Write
<1>2. exams[e] # Gone
  BY <1>1, ReportsAssumption DEF ReportsInv, Store!Create, Store!LinkSubjects, Store!SetFullScore,
         Store!RecordScores, Store!RecordItems, Store!Delete
<1>3. {j \in scores : j.exam = e} \subseteq {j \in scores' : j.exam = e}
  BY <1>1 DEF ReportsInv, Store!Create, Store!LinkSubjects, Store!SetFullScore,
         Store!RecordScores, Store!RecordItems, Store!Delete
<1> QED
  BY <1>2, <1>3 DEF Took

LEMMA CoveredWrite ==
  ASSUME ReportsInv, Covered, Write
  PROVE  Covered'
<1>1. UNCHANGED <<ask, state, todo, seen>>
  BY DEF Write
<1> SUFFICES ASSUME NEW r \in Requests, Under(r), NEW p \in Twice(ask[r].kind) PROVE CoveredIn(r, p)'
  BY <1>1 DEF Covered, Under
<1>2. CoveredIn(r, p)
  BY DEF Covered
<1>3. PICK e \in Exams : e = ask[r].exam
  BY ReportsAssumption DEF Under
<1>4. exams'[e] # Gone => exams[e] # Gone /\ Took(scores, e) \subseteq Took(scores', e)
  BY ScoresStay
<1> QED
  BY <1>1, <1>2, <1>3, <1>4 DEF CoveredIn

LEMMA CoveredSee ==
  ASSUME ReportsInv, NEW r \in Requests, Under(r), StagedIn(r), state[r] = "running",
         UNCHANGED <<tables, ask>>, NEW p \in Twice(ask[r].kind), CoveredIn(r, p),
         NEW v, See(r, v), v = ViewOf(ask[r].exam) \/ (v = Nothing /\ Ignored(ask[r], Head(todo[r])))
  PROVE  CoveredIn(r, p)'
<1> DEFINE a == ask[r]
           e == a.exam
           q == Head(todo[r])
           s == seen[r]
           s2 == SeenNext(r, v)
           w == Result(r, v)
<1>1. a \in Asks /\ e \in Exams /\ p \in Twice(a.kind)
  BY ReportsAssumption DEF Under
<1>2. seen'[r] = s2 /\ ask' = ask /\ exams' = exams /\ scores' = scores
  BY SeeIs DEF tables
<1>3. /\ DOMAIN s2 = DOMAIN s \cup {q} /\ s2[q] = w
      /\ \A x \in DOMAIN s : x # q => s2[x] = s[x]
  BY DEF SeenNext
<1>4. /\ q = p[1] => p[2] \notin DOMAIN s /\ "name" \notin DOMAIN s
      /\ q = p[2] => p[1] \in DOMAIN s /\ "name" \notin DOMAIN s
      /\ q = "name" => "name" \notin DOMAIN s
      /\ p[2] \in DOMAIN s => p[1] \in DOMAIN s
  <2>1. PICK n, c : At(todo[r], DOMAIN seen[r], Plan(ask[r]), n, c)
    BY DEF StagedIn
  <2>2. (c > 0 /\ q \in Subjects) \/ (c = 0 /\ n + 1 \in DOMAIN Plan(a) /\ q = Plan(a)[n + 1])
    BY <2>1, SeenFurther
  <2>3. todo[r] # <<>>
    BY DEF ReportsInv, Ordered
  <2> QED
    BY <1>1, <2>1, <2>2, <2>3, TwiceOrdered
<1>5. /\ "took" \in Reads(a.kind, p[1]) /\ "took" \in Reads(a.kind, p[2])
      /\ ~Ignored(a, p[1]) /\ ~Ignored(a, p[2])
      /\ p[1] # "name" /\ p[2] # "name" /\ p[1] # p[2]
      /\ Reads(a.kind, "name") = {"name"}
  BY <1>1, TwicePlaced
<1>6. q \in {p[1], p[2]} => w.took = Took(scores, e)
  <2> SUFFICES ASSUME q \in {p[1], p[2]} PROVE w.took = Took(scores, e)
    OBVIOUS
  <2>1. v = ViewOf(e)
    BY <1>5
  <2>2. w.took = v.took
    BY <1>5 DEF Result
  <2> QED
    BY <2>1, <2>2 DEF ViewOf, Took
<1>7. q = "name" /\ w.name => exams[e] # Gone
  <2> SUFFICES ASSUME q = "name", w.name PROVE exams[e] # Gone
    OBVIOUS
  <2>1. v.name
    BY <1>5 DEF Result
  <2>2. v = ViewOf(e)
    BY <2>1 DEF Nothing
  <2> QED
    BY <2>1, <2>2, ReportsAssumption DEF ViewOf, Store!Live
<1>8. /\ p[1] \in DOMAIN s /\ exams[e] # Gone => s[p[1]].took \subseteq Took(scores, e)
      /\ p[2] \in DOMAIN s /\ (exams[e] # Gone \/ ("name" \in DOMAIN s /\ s["name"].name)) =>
           s[p[1]].took \subseteq s[p[2]].took
  BY DEF CoveredIn
<1> HIDE DEF s, s2, w, q, a, e
<1>9. p[1] \in DOMAIN s2 /\ exams[e] # Gone => s2[p[1]].took \subseteq Took(scores, e)
  BY <1>3, <1>6, <1>8
<1>10. p[2] \in DOMAIN s2 /\ (exams[e] # Gone \/ ("name" \in DOMAIN s2 /\ s2["name"].name)) =>
         s2[p[1]].took \subseteq s2[p[2]].took
  <2> SUFFICES ASSUME p[2] \in DOMAIN s2, exams[e] # Gone \/ ("name" \in DOMAIN s2 /\ s2["name"].name)
               PROVE  s2[p[1]].took \subseteq s2[p[2]].took
    OBVIOUS
  <2>1. CASE q = p[2]
    <3>1. exams[e] # Gone
      BY <1>3, <1>4, <1>5, <2>1
    <3>2. s2[p[1]] = s[p[1]] /\ p[1] \in DOMAIN s /\ s2[p[2]] = w /\ w.took = Took(scores, e)
      BY <1>3, <1>4, <1>5, <1>6, <2>1
    <3> QED
      BY <1>8, <3>1, <3>2
  <2>2. CASE q # p[2]
    <3>1. p[2] \in DOMAIN s /\ q # p[1] /\ p[1] \in DOMAIN s
      BY <1>3, <1>4, <2>2
    <3>2. s2[p[1]] = s[p[1]] /\ s2[p[2]] = s[p[2]]
      BY <1>3, <2>2, <3>1
    <3>3. exams[e] # Gone \/ ("name" \in DOMAIN s /\ s["name"].name)
      BY <1>3, <1>7
    <3> QED
      BY <1>8, <3>1, <3>2, <3>3
  <2> QED
    BY <2>1, <2>2
<1>11. s = seen[r] /\ s2 = seen'[r] /\ a = ask[r] /\ e = ask[r].exam
  BY <1>2 DEF s, s2, a, e
<1> QED
  BY <1>2, <1>9, <1>10, <1>11 DEF CoveredIn

LEMMA CoveredStep == ReportsInv /\ Staged /\ Covered /\ [Next]_vars => Covered'
<1> SUFFICES ASSUME ReportsInv, Staged, Covered, [Next]_vars PROVE Covered'
  OBVIOUS
<1>1. CASE Write
  BY <1>1, CoveredWrite
<1>2. CASE ~Write
  <2> SUFFICES ASSUME NEW r \in Requests, Under(r)', NEW p \in Twice(ask'[r].kind) PROVE CoveredIn(r, p)'
    BY DEF Covered
  <2>1. StagedIn(r) /\ StepOf(r) /\ exams' = exams /\ scores' = scores
    BY <1>2, StepsOf DEF Staged, tables
  <2>2. CASE Same(r)
    <3>1. Under(r) /\ CoveredIn(r, p)
      BY <2>2 DEF Same, Under, Covered
    <3> QED
      BY <2>1, <2>2, <3>1 DEF Same, CoveredIn
  <2>3. ASSUME NEW a \in Asks, CheckExamOwnership(r, a) PROVE CoveredIn(r, p)'
    <3>1. DOMAIN seen'[r] = {}
      BY <2>3, CheckIs
    <3> QED
      BY <3>1 DEF CoveredIn
  <2>4. ASSUME state[r] = "running", ask[r] \in Asks, UNCHANGED <<tables, ask>>, NEW v, See(r, v),
               v = ViewOf(ask[r].exam) \/ (v = Nothing /\ Ignored(ask[r], Head(todo[r])))
        PROVE  CoveredIn(r, p)'
    <3>1. Under(r) /\ p \in Twice(ask[r].kind)
      BY <2>4 DEF Under
    <3>2. CoveredIn(r, p)
      BY <3>1 DEF Covered
    <3> QED
      BY <2>1, <2>4, <3>1, <3>2, CoveredSee
  <2> QED
    BY <2>1, <2>2, <2>3, <2>4 DEF StepOf
<1> QED
  BY <1>1, <1>2

-----------------------------------------------------------------------------
(* What a query has seen *)

StoreTyped ==
  /\ scores \subseteq Store!Score
  /\ examSubjects \in [Exams \X Subjects -> FullScores \cup {None}]

\* What a query finds in table t.
Found(t, x) ==
  /\ t \in {"took", "asked"} => x \subseteq Students \X Subjects
  /\ t = "full" => x \in [Subjects -> FullScores \cup {None}]

SeenTypedIn(r) ==
  ask[r] \in Asks => \A q \in DOMAIN seen[r] :
    /\ DOMAIN seen[r][q] = Reads(ask[r].kind, q)
    /\ \A t \in Reads(ask[r].kind, q) : Found(t, seen[r][q][t])

SeenTyped == \A r \in Requests : SeenTypedIn(r)

LEMMA StoreTypedInit == Init => StoreTyped
BY DEF Init, Store!Init, StoreTyped

LEMMA StoreTypedStep == StoreTyped /\ [Next]_vars => StoreTyped'
<1> SUFFICES ASSUME StoreTyped, [Next]_vars PROVE StoreTyped'
  OBVIOUS
<1>1. CASE Write
  <2>1. PICK d \in Exams :
          \/ Store!Create(d)
          \/ Store!LinkSubjects(d)
          \/ Store!SetFullScore(d)
          \/ \E K \in Batches : Store!RecordScores(d, K)
          \/ \E K \in Sheets : Store!RecordItems(d, K)
          \/ Store!Delete(d)
    BY <1>1 DEF Write
  <2>2. scores' \subseteq Store!Score
    BY <2>1 DEF StoreTyped, Store!Create, Store!LinkSubjects, Store!SetFullScore,
         Store!RecordScores, Store!RecordItems, Store!Delete
  <2>3. examSubjects' \in [Exams \X Subjects -> FullScores \cup {None}]
    BY <2>1 DEF StoreTyped, Store!Create, Store!LinkSubjects, Store!SetFullScore,
         Store!RecordScores, Store!RecordItems, Store!Delete
  <2> QED
    BY <2>2, <2>3 DEF StoreTyped
<1>2. CASE ~Write
  <2>1. scores' = scores /\ examSubjects' = examSubjects
    BY <1>2 DEF Next, CheckExamOwnership, Query, FailQuery, AllAnswered, vars, tables
  <2> QED
    BY <2>1 DEF StoreTyped
<1> QED
  BY <1>1, <1>2

LEMMA ViewTyped ==
  ASSUME StoreTyped, NEW e \in Exams, NEW v \in {ViewOf(e), Nothing}, NEW t
  PROVE  Found(t, v[t])
<1>1. CASE v = Nothing
  BY <1>1 DEF Nothing, Found
<1>2. CASE v = ViewOf(e)
  <2>1. ViewOf(e).took \subseteq Students \X Subjects /\ ViewOf(e).asked \subseteq Students \X Subjects
    BY DEF StoreTyped, ViewOf, Store!Score
  <2>2. ViewOf(e).full \in [Subjects -> FullScores \cup {None}]
    BY DEF StoreTyped, ViewOf
  <2> QED
    BY <1>2, <2>1, <2>2 DEF Found
<1> QED
  BY <1>1, <1>2

LEMMA SeenTypedInit == Init => SeenTyped
BY DEF Init, SeenTyped, SeenTypedIn

LEMMA SeenTypedStep == ReportsInv /\ StoreTyped /\ SeenTyped /\ [Next]_vars => SeenTyped'
<1> SUFFICES ASSUME ReportsInv, StoreTyped, SeenTyped, [Next]_vars, NEW r \in Requests PROVE SeenTypedIn(r)'
  BY DEF SeenTyped
<1>0. SeenTypedIn(r) /\ StepOf(r)
  BY StepsOf DEF SeenTyped
<1>1. CASE Same(r)
  BY <1>0, <1>1 DEF Same, SeenTypedIn
<1>2. ASSUME NEW a \in Asks, CheckExamOwnership(r, a) PROVE SeenTypedIn(r)'
  BY <1>2, CheckIs DEF SeenTypedIn
<1>3. ASSUME state[r] = "running", ask[r] \in Asks, UNCHANGED <<tables, ask>>, NEW v, See(r, v),
             v = ViewOf(ask[r].exam) \/ v = Nothing
      PROVE  SeenTypedIn(r)'
  <2>1. seen'[r] = SeenNext(r, v) /\ ask'[r] = ask[r]
    BY <1>3, SeeIs
  <2>2. \A t : Found(t, v[t])
    BY <1>3, ViewTyped, ReportsAssumption
  <2>3. SeenTypedIn(r)
    BY <1>0
  <2> QED
    BY <1>3, <2>1, <2>2, <2>3 DEF SeenTypedIn, SeenNext, Result
<1> QED
  BY <1>0, <1>1, <1>2, <1>3 DEF StepOf

-----------------------------------------------------------------------------

\* The inductive invariant: queries left are queries of the report, and who passed
\* the check may read its exam as long as that is there.
THEOREM Invariance == Spec => []ReportsInv
BY ReportsInit, ReportsStep, PTL DEF Spec

\* Every request keeps its type and has a query left exactly while it runs.
THEOREM TypeCorrect == Spec => []TypeOK
<1>1. ReportsInv => TypeOK
  BY DEF ReportsInv, Placed, Ordered, TypeOK, AskOrNone, MayQuery
<1> QED
  BY <1>1, Invariance, PTL

\* Whatever commits between the check and the queries, a request reads only exams
\* that are public or its user's, or have gone.
THEOREM ReadByOwners == Spec => []OwnersRead
<1>1. ReportsInv => OwnersRead
  BY DEF ReportsInv, Checked, OwnersRead
<1> QED
  BY <1>1, Invariance, PTL

\* A report that is put together from what its queries saw.
Told == ReportsInv /\ Staged /\ Covered /\ StoreTyped /\ SeenTyped

LEMMA Telling == Spec => []Told
<1>1. Init => ReportsInv /\ Staged /\ Covered /\ StoreTyped /\ SeenTyped
  BY ReportsInit, StagedInit, CoveredInit, StoreTypedInit, SeenTypedInit
<1>2. /\ ReportsInv /\ Staged /\ Covered /\ StoreTyped /\ SeenTyped
      /\ [Next]_vars
      => (ReportsInv /\ Staged /\ Covered /\ StoreTyped /\ SeenTyped)'
  BY ReportsStep, StagedStep, CoveredStep, StoreTypedStep, SeenTypedStep
<1> QED
  BY <1>1, <1>2, PTL DEF Spec, Told

\* An answered report with the name of its exam: the second of two queries covers the first.
LEMMA TwiceCovered ==
  ASSUME Told, NEW r \in Requests, ask[r] \in Asks, state[r] = "answered", "rows" \in DOMAIN seen[r],
         Named(r), NEW p \in Twice(ask[r].kind)
  PROVE  seen[r][p[1]].took \subseteq seen[r][p[2]].took
<1>1. ToSet(QueriesOf(ask[r])) \subseteq DOMAIN seen[r]
  BY AllQueriesRun DEF Told
<1>2. ask[r].kind \in {"rank", "single", "drill"}
  BY TwiceIs, ReportsAssumption
<1>3. QueriesOf(ask[r]) = Queries[ask[r].kind]
  BY <1>2 DEF QueriesOf
<1>4. {p[2], "name"} \subseteq ToSet(QueriesOf(ask[r]))
  <2>1. CASE ask[r].kind = "rank"
    <3>1. QueriesOf(ask[r]) = <<"rows", "count", "name">> /\ p[2] = "count"
      BY <1>3, <2>1, TwiceIs DEF Queries, RankQueries
    <3> QED
      BY <3>1 DEF ToSet
  <2>2. CASE ask[r].kind = "single"
    <3>1. QueriesOf(ask[r]) = <<"full", "rows", "grade", "marks", "name">> /\ p[2] = "grade"
      BY <1>3, <2>2, TwiceIs DEF Queries, SingleQueries
    <3> QED
      BY <3>1 DEF ToSet
  <2>3. CASE ask[r].kind = "drill"
    <3>1. QueriesOf(ask[r]) = <<"rows", "ranks", "overall", "overallRanks", "marks", "name">>
          /\ p[2] \in {"ranks", "overallRanks"}
      BY <1>3, <2>3, TwiceIs DEF Queries, DrillQueries
    <3> QED
      BY <3>1 DEF ToSet
  <2> QED
    BY <1>2, <2>1, <2>2, <2>3
<1> QED
  BY <1>1, <1>4 DEF Told, Covered, CoveredIn, Under, Named

\* A report of ranks counts, and a summary of one subject has in its grade, everybody
\* its rows list, however many imports commit between its queries; a deletion shows.
THEOREM RowsAreCovered == Spec => []RowsCovered
<1>1. Told => RowsCovered
  <2> SUFFICES ASSUME Told, NEW r \in Requests, NEW k \in DOMAIN LaterQuery,
                      Answered(r, k), Named(r)
               PROVE  seen[r]["rows"].took \subseteq seen[r][LaterQuery[k]].took
    BY DEF RowsCovered
  <2>1. k \in {"rank", "single"} /\ state[r] = "answered" /\ k = ask[r].kind /\ "rows" \in DOMAIN seen[r]
    BY DEF LaterQuery, Answered
  <2>2. ask[r] \in Asks
    BY <2>1 DEF Told, ReportsInv, Ordered
  <2>3. <<"rows", LaterQuery[k]>> \in Twice(k)
    BY <2>1, TwiceIs DEF LaterQuery
  <2> QED
    BY <2>1, <2>2, <2>3, TwiceCovered
<1> QED
  BY <1>1, Telling, PTL
=============================================================================
