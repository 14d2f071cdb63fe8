----------------------------- MODULE MCReports -----------------------------
(* Small instances of Reports: three students in two classes, two subjects. *)
EXTENDS Reports, TLC

CONSTANTS u1, u2, e1, e2, s1, s2

MCClassOf == <<1, 1, 2>>

\* Ties within and between classes, in each subject and in total.
MCMark == [ss \in Students \X Subjects |->
             IF ss[2] = s1 THEN <<9, 4, 9>>[ss[1]] ELSE <<3, 8, 10>>[ss[1]]]

MCFullScores == {0, 10}
PositiveFullScores == {10, 12}

Keys(S, T) == [exam : {e1}, student : S, subject : T]

\* One class at a time; student 3 misses a subject.
MCBatches == {Keys({1, 2}, {s1, s2}), Keys({3}, {s1})}
MCSheets == {Keys({1, 2}, {s1}), Keys({3}, {s1})}

\* A request of u1 with what it puts in the path, the query and the body.
Http(path, query, body) == [token |-> GenerateToken(u1), path |-> path, query |-> query, body |-> body]

Exam1 == "exam_id" :> e1
Of(s) == "subject_id" :> s
In(c) == "class_id" :> c
Question == "question_id" :> "1"
NoFields == <<>>

\* The subject is left out, or the path names one and the query another.
InQuery == {NoFields, Of(s1)}
Thresholds == {NoFields, ("excellent" :> 90) @@ ("pass" :> 50) @@ ("low" :> 40)}

\* Numbers of five significant bits, in quarters of a point.
MCFloats == UNION {{m * p, -m * p} : m \in 0 .. 31, p \in {1, 2, 4, 8}}

Segment(a, b, st) == [start |-> a * Unit, end |-> b * Unit, step |-> st * Unit]
\* By 5/4: a range ends at 11 1/4, the next begins at the sum rounded otherwise.
Fraction == [start |-> 0, end |-> 20 * Unit, step |-> 5]
Ranks(a, b) == [start |-> a, end |-> b]
ScoreSegments == {<<Segment(0, 20, 3)>>, <<Segment(0, 9, 5), Segment(9, 20, 11)>>, <<Fraction>>}
RankSegments == {<<Ranks(0, 1), Ranks(1, 3)>>}

Asked(k, h, m) == AskOf(k, Auth(h), m)

ReportAsks ==
  LET Gets == {Http(Exam1, q, NoFields) : q \in InQuery}
      OfPath == Http(Exam1 @@ Of(s1), Of(s2), NoFields)
      OfClass == Http(Exam1 @@ Of(s1) @@ In(1), NoFields, NoFields)
      OfQuestion == [OfPath EXCEPT !.path = @ @@ Question]
      Posts(S) == {Http(Exam1, NoFields, q @@ ("segments" :> segs)) : q \in InQuery, segs \in S} IN
  {Asked("class", h, GetClassSummaryRequest(h)) : h \in Gets} \cup
  {Asked("subject", h, GetSubjectSummaryRequest(h)) : h \in Gets} \cup
  {Asked("rating", h, GetRatingDistributionRequest(h)) :
     h \in {[g EXCEPT !.query = @ @@ th] : g \in Gets, th \in Thresholds}} \cup
  {Asked("drill", OfClass, GetClassSubjectSummaryRequest([OfClass EXCEPT !.path = Exam1 @@ In(1)])),
   Asked("single", OfPath, GetSingleClassSummaryRequest(OfPath)),
   Asked("questions", OfClass, GetSingleClassQuestionsRequest(OfClass)),
   Asked("summary", OfPath, GetSingleQuestionSummaryRequest(OfPath)),
   Asked("compare", OfQuestion, GetSingleQuestionClassCompareRequest(OfQuestion)),
   Asked("detail", OfClass, GetSingleQuestionDetailRequest([OfClass EXCEPT !.path = @ @@ Question])),
   \* The token has expired.
   Asked("class", [OfPath EXCEPT !.token.expired = TRUE], GetClassSummaryRequest(OfPath))} \cup
  {Asked("segment", h, GetScoreSegmentRequest(h)) : h \in Posts(ScoreSegments)} \cup
  {Asked("rank", h, GetRankSegmentRequest(h)) :
     h \in Posts(RankSegments) \cup {Http(Exam1, NoFields, NoFields)}}
=============================================================================
