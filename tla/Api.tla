-------------------------------- MODULE Api --------------------------------
(***************************************************************************)
(* How an HTTP request of SEAS becomes a message to a service and gets its *)
(* user.  A request is a record: token, and path, query and body, each a   *)
(* function from the names of fields to values.  A field nobody sets is    *)
(* Unset: "" or 0 in the code.                                             *)
(***************************************************************************)
CONSTANTS
  Nobody,   \* user id 0
  Unset,
  Secret    \* the key of the process that signs and checks tokens

-----------------------------------------------------------------------------
(* The user of a request *)

NoToken == [user |-> Nobody, key |-> Unset, expired |-> FALSE]

GenerateToken(u) == [user |-> u, key |-> Secret, expired |-> FALSE]

ParseToken(t) == t.key = Secret /\ ~t.expired

\* A request without a valid token is not refused: it goes on as nobody's.
Auth(h) == IF ParseToken(h.token) THEN h.token.user ELSE Nobody

-----------------------------------------------------------------------------
(* Messages *)

\* The fields of m with those given set.
Bind(m, given) == [f \in DOMAIN m |-> IF f \in DOMAIN given THEN given[f] ELSE m[f]]

Message(fields) == [f \in fields |-> Unset]

\* What is bound later wins: a client that names an exam in the query or the body too
\* gets the one of the path, for the ownership check and for the report.
Get(fields, h)  == Bind(Bind(Message(fields), h.query), h.path)
Post(fields, h) == Bind(Bind(Bind(Message(fields), h.body), h.query), h.path)

(* Analysis *)
ListExamsRequest(h)               == Bind(Message({"page_index", "page_size", "keyword"}), h.query)
ListSubjectsByExamRequest(h)      == Get({"exam_id", "page_index", "page_size"}, h)
GetSubjectSummaryRequest(h)       == Get({"exam_id", "scope", "subject_id"}, h)
GetClassSummaryRequest(h)         == Get({"exam_id", "scope", "subject_id"}, h)
GetRatingDistributionRequest(h)   ==
  Get({"exam_id", "scope", "subject_id", "excellent", "good", "medium", "pass", "low"}, h)
GetClassSubjectSummaryRequest(h)  == Get({"exam_id", "class_id"}, h)
GetSingleClassSummaryRequest(h)   == Get({"exam_id", "subject_id"}, h)
GetSingleClassQuestionsRequest(h) == Get({"exam_id", "subject_id", "class_id"}, h)
GetSingleQuestionSummaryRequest(h) == Get({"exam_id", "subject_id"}, h)
GetSingleQuestionDetailRequest(h) == Get({"exam_id", "subject_id", "class_id", "question_id"}, h)
GetSingleQuestionClassCompareRequest(h) == Get({"exam_id", "subject_id", "question_id"}, h)
GetScoreSegmentRequest(h)         == Post({"exam_id", "scope", "subject_id", "segments"}, h)
GetRankSegmentRequest(h)          == Post({"exam_id", "scope", "subject_id", "segments"}, h)
DeleteExamRequest(h)              == Get({"exam_id"}, h)

(* Import: the route for a file is registered before the generated one and takes its
   place; it reads the path and the token itself. *)
CreateExamRequest(h)              == Bind(Bind(Message({"name", "exam_date"}), h.body), h.query)
ImportScoresRequest(h)            == Bind(Bind(Message({"exam_id", "file"}), h.body), h.path)
UpdateSubjectFullScoresRequest(h) == Post({"exam_id", "full_scores"}, h)
=============================================================================
