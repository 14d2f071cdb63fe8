------------------------------ MODULE Service ------------------------------
(***************************************************************************)
(* AnalysisService of SEAS: what each handler asks the use cases for, given *)
(* a message, and what it replies.  A reply holds the figures of ScoreStats *)
(* as they are and the name of the exam, which is asked for last.           *)
(***************************************************************************)
EXTENDS ScoreStats, Api

\* 0 for what is not a number.
parseInt64(m, f, Ids, zero) == IF f \in DOMAIN m /\ m[f] \in Ids THEN m[f] ELSE zero

\* The thresholds of a rating, the segments of a distribution.
ConfigOf(k, m) ==
  CASE k = "rating" -> [t \in Rates |-> IF m[t] = Unset THEN 0 ELSE m[t]]
    [] k \in {"segment", "rank"} -> IF m.segments = Unset THEN <<>> ELSE m.segments
    [] OTHER -> <<>>

\* The report a message for handler k asks for.  Its scope is only copied to the reply.
AskOf(k, u, m) ==
  [kind |-> k, user |-> u, exam |-> m.exam_id,
   subject |-> parseInt64(m, "subject_id", Subjects, All),
   class |-> parseInt64(m, "class_id", Classes, 0),
   config |-> ConfigOf(k, m)]

-----------------------------------------------------------------------------
(* The replies, from what the queries saw *)

\* Without its name the exam is an unknown one.
NamedReply(x, report) == [named |-> x["name"].name, report |-> report]

GetSubjectSummary(a, x)       == NamedReply(x, SubjectSummary(x, a.subject))
GetClassSummary(a, x)         == NamedReply(x, ClassSummary(x, a.subject))
GetClassSubjectSummary(a, x)  == NamedReply(x, ClassSubjectSummary(x, a.class))
GetSingleClassSummary(a, x)   == NamedReply(x, SingleClassSummary(x, a.subject))
GetSingleClassQuestions(a, x) == NamedReply(x, SingleClassQuestions(x, a.subject, a.class))
GetSingleQuestionSummary(a, x) == NamedReply(x, SingleQuestionSummary(x, a.subject))
GetSingleQuestionDetail(a, x) == NamedReply(x, SingleQuestionDetail(x, a.subject, a.class))
GetSingleQuestionClassCompare(a, x) == NamedReply(x, SingleQuestionClassCompare(x, a.subject))

GetRatingDistribution(a, x) == NamedReply(x, RatingDistribution(x, a.subject, a.config))

\* Without segments there is nothing to count.
Unsegmented == [classes |-> <<>>, grade |-> [n |-> 0, counts |-> <<>>]]

GetScoreSegment(a, x) ==
  NamedReply(x, IF a.config = <<>> THEN Unsegmented ELSE ScoreSegment(x, a.subject, a.config))

GetRankSegment(a, x) ==
  NamedReply(x, IF a.config = <<>> THEN Unsegmented ELSE RankSegment(x, a.subject, a.config))
=============================================================================
