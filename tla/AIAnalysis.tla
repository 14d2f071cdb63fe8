----------------------------- MODULE AIAnalysis -----------------------------
(***************************************************************************)
(* The AI interpretation of SEAS.  A call runs one of the reports, as      *)
(* nobody's, to build a prompt; it then takes the chat model, which the     *)
(* first call that gets there makes for all (sync.Once), and cuts what the *)
(* model says into segments.  The process that serves the calls starts,    *)
(* may stop at any time and is started again.                              *)
(***************************************************************************)
EXTENDS Reports, Segments

CONSTANTS
  Calls,         \* what the clients send: [method, body]
  Sayings,       \* what the model may say
  MaxRestarts    \* bound: how often the process stops

VARIABLES
  llm,       \* the configuration of the model: "complete" or "unusable"
  server,    \* "down", "migrating", "connecting" or "up"
  restarts,
  call,      \* what a client sends (never changes)
  phase,     \* where its call is, or its answer
  said,      \* what the model said to a call
  once,      \* modelOnce: "unused", "making" or "done"
  model,     \* the number of models made since the start
  modelErr

process == <<llm, server, restarts>>
chat    == <<once, model, modelErr>>
aiVars  == <<process, call, phase, said, chat>>
allVars == <<vars, aiVars>>

Busy  == {"prompt", "making", "generate", "reply"}
Ended == {"no content", "method not allowed", "bad request", "unavailable", "cut", "ok"}

-----------------------------------------------------------------------------
(* Starting and stopping *)

AIInit ==
  /\ Init
  /\ llm \in {"complete", "unusable"}
  /\ server = "down"
  /\ restarts = 0
  /\ call \in [Requests -> Calls]
  /\ phase = [r \in Requests |-> "sent"]
  /\ said = [r \in Requests |-> <<>>]
  /\ once = "unused" /\ model = 0 /\ modelErr = FALSE

Become(from, to) ==
  /\ server = from
  /\ server' = to
  /\ UNCHANGED <<vars, llm, restarts, call, phase, said, chat>>

\* NewData.  An error panics and the container is started again.
OpenDatabase == Become("down", "migrating")
AutoMigrate  == Become("migrating", "connecting")
ConnectRedis == Become("connecting", "up")
FailStart    == Become("migrating", "down") \/ Become("connecting", "down")

\* The process stops: its calls are cut off and what it had in memory is gone.
Stop ==
  /\ server = "up" /\ restarts < MaxRestarts
  /\ server' = "down" /\ restarts' = restarts + 1
  /\ phase' = [r \in Requests |-> IF phase[r] \in Busy THEN "cut" ELSE phase[r]]
  /\ state' = [r \in Requests |-> IF phase[r] \in Busy THEN "failed" ELSE state[r]]
  /\ todo' = [r \in Requests |-> <<>>]
  /\ seen' = [r \in Requests |-> <<>>]
  /\ said' = [r \in Requests |-> <<>>]
  /\ once' = "unused" /\ model' = 0 /\ modelErr' = FALSE
  /\ UNCHANGED <<tables, ask, llm, call>>

-----------------------------------------------------------------------------
(* The prompt of each view: the report it is built from, and the params it needs *)

buildClassSummaryPrompt          == [kind |-> "class", needs |-> {}]
buildSubjectSummaryPrompt        == [kind |-> "subject", needs |-> {}]
buildRatingAnalysisPrompt        == [kind |-> "rating", needs |-> {}]
buildClassSubjectSummaryPrompt   == [kind |-> "drill", needs |-> {"class_id"}]
buildSingleClassSummaryPrompt    == [kind |-> "single", needs |-> {"subject_id"}]
buildSingleClassQuestionPrompt   == [kind |-> "questions", needs |-> {"subject_id", "class_id"}]
buildSingleQuestionSummaryPrompt == [kind |-> "summary", needs |-> {"subject_id"}]
buildSingleQuestionDetailPrompt  == [kind |-> "detail", needs |-> {"subject_id", "class_id", "question_id"}]

Builders(view) ==
  CASE view = "class-summary"           -> {buildClassSummaryPrompt}
    [] view = "subject-summary"         -> {buildSubjectSummaryPrompt}
    [] view = "rating-analysis"         -> {buildRatingAnalysisPrompt}
    [] view = "class-subject-summary"   -> {buildClassSubjectSummaryPrompt}
    [] view = "single-class-summary"    -> {buildSingleClassSummaryPrompt}
    [] view = "single-class-question"   -> {buildSingleClassQuestionPrompt}
    [] view = "single-question-summary" -> {buildSingleQuestionSummaryPrompt}
    [] view = "single-question-detail"  -> {buildSingleQuestionDetailPrompt}
    [] OTHER                            -> {}

\* The report a body asks for: none for another view or without a param it needs.
buildPrompt(body) ==
  {AskOf(b.kind, Nobody,
         Bind(Message({"exam_id", "class_id", "subject_id"} \cup Rates),
              [f \in {"exam_id"} \cup b.needs |-> IF f = "exam_id" THEN body.examId ELSE body.params[f]])) :
     b \in {d \in Builders(body.view) : \A f \in d.needs : f \in DOMAIN body.params}}

ASSUME CallsAssumption ==
  /\ MaxRestarts \in Nat
  /\ \A t \in Sayings : t \in Seq(ToSet(t))
  /\ \A c \in Calls : c.body # Unset => buildPrompt(c.body) \subseteq Asks

-----------------------------------------------------------------------------
(* A call *)

Goes(r, to) == phase' = [phase EXCEPT ![r] = to]

ServeHTTP(r) ==
  /\ server = "up" /\ phase[r] = "sent"
  /\ Goes(r, CASE call[r].method = "OPTIONS" -> "no content"
               [] call[r].method \notin {"OPTIONS", "POST"} -> "method not allowed"
               [] call[r].method = "POST" /\ (call[r].body = Unset \/ Unset \in {call[r].body.view, call[r].body.examId})
                    -> "bad request"
               [] OTHER -> IF buildPrompt(call[r].body) = {} THEN "unavailable" ELSE "prompt")
  /\ UNCHANGED <<vars, process, call, said, chat>>

\* The report runs like any other.
Prompt(r) ==
  /\ phase[r] = "prompt"
  /\ \/ \E a \in buildPrompt(call[r].body) : CheckExamOwnership(r, a)
     \/ Query(r)
     \/ FailQuery(r)
  /\ UNCHANGED aiVars

\* Mutant: the model is asked whatever became of the prompt.
NoPromptAsked(r) ==
  /\ phase[r] = "prompt" /\ state[r] = "failed" /\ model = 1
  /\ Goes(r, "generate")
  /\ UNCHANGED <<vars, process, call, said, chat>>

NoPrompt(r) ==
  /\ phase[r] = "prompt" /\ state[r] = "failed"
  /\ Goes(r, "unavailable")
  /\ UNCHANGED <<vars, process, call, said, chat>>

Prompted(r) == phase[r] = "prompt" /\ state[r] = "answered"

\* Mutant: whoever finds no model makes one.
EnterMaking(r) ==
  /\ Prompted(r) /\ once # "done"
  /\ once' = "making"
  /\ Goes(r, "making")
  /\ UNCHANGED <<vars, process, call, said, model, modelErr>>

\* Once: the first makes the model, the others wait until that is done.
EnterOnce(r) ==
  /\ Prompted(r) /\ once = "unused"
  /\ once' = "making"
  /\ Goes(r, "making")
  /\ UNCHANGED <<vars, process, call, said, model, modelErr>>

\* Without a complete configuration no model is made, and making one may fail.
MakingFails == IF llm = "complete" THEN BOOLEAN ELSE {TRUE}

\* Mutant: an error leaves Once locked.
MakeOrLeave(r) ==
  /\ phase[r] = "making"
  /\ \E err \in MakingFails :
       /\ modelErr' = err
       /\ model' = IF err THEN model ELSE model + 1
       /\ once' = IF err THEN once ELSE "done"
       /\ Goes(r, IF err THEN "unavailable" ELSE "generate")
  /\ UNCHANGED <<vars, process, call, said>>

\* The model or the error is kept for the life of the process.
MakeModel(r) ==
  /\ phase[r] = "making"
  /\ \E err \in MakingFails :
       /\ modelErr' = err
       /\ model' = IF err THEN model ELSE model + 1
       /\ Goes(r, IF err THEN "unavailable" ELSE "generate")
  /\ once' = "done"
  /\ UNCHANGED <<vars, process, call, said>>

TakeModel(r) ==
  /\ Prompted(r) /\ once = "done"
  /\ Goes(r, IF modelErr THEN "unavailable" ELSE "generate")
  /\ UNCHANGED <<vars, process, call, said, chat>>

\* The model answers, or fails, or the call is over before it does.  The prompt is
\* not needed any more.
Generate(r) ==
  /\ phase[r] = "generate"
  /\ \/ Goes(r, "unavailable") /\ UNCHANGED said
     \/ Goes(r, "reply") /\ \E t \in Sayings : said' = [said EXCEPT ![r] = t]
  /\ seen' = [seen EXCEPT ![r] = <<>>]
  /\ UNCHANGED <<tables, ask, state, todo, process, call, chat>>

Answer(r) ==
  /\ phase[r] = "reply"
  /\ Goes(r, "ok")
  /\ said' = [said EXCEPT ![r] = <<>>]
  /\ UNCHANGED <<vars, process, call, chat>>

Call(r) ==
  \/ Prompt(r) \/ NoPrompt(r) \/ EnterOnce(r) \/ MakeModel(r) \/ TakeModel(r)
  \/ Generate(r) \/ Answer(r)

\* Bound: what happens to the store once no prompt will be built does not matter.
OtherWrites == server = "up" /\ (\E r \in Requests : phase[r] \in {"sent", "prompt"}) /\ Write /\ UNCHANGED aiVars

AllEnded == server = "up" /\ (\A r \in Requests : phase[r] \in Ended) /\ UNCHANGED allVars

AINext ==
  \/ OpenDatabase \/ AutoMigrate \/ ConnectRedis \/ FailStart \/ Stop
  \/ \E r \in Requests : ServeHTTP(r) \/ Call(r)
  \/ OtherWrites
  \/ AllEnded

AISpec == AIInit /\ [][AINext]_allVars

\* A handler runs to its end and, in the end, so does a start.
AIFairSpec ==
  /\ AISpec
  /\ \A r \in Requests : WF_allVars(Call(r)) /\ WF_allVars(ServeHTTP(r))
  /\ WF_allVars(OpenDatabase) /\ SF_allVars(AutoMigrate) /\ SF_allVars(ConnectRedis)

-----------------------------------------------------------------------------
(* Properties *)

\* Every call keeps its type; its report runs only while it builds its prompt, and the
\* model is asked only with one that was built.
AITypeOK ==
  /\ TypeOK
  /\ server \in {"down", "migrating", "connecting", "up"}
  /\ restarts \in 0 .. MaxRestarts
  /\ phase \in [Requests -> {"sent"} \cup Busy \cup Ended]
  /\ once \in {"unused", "making", "done"} /\ model \in Nat /\ modelErr \in BOOLEAN
  /\ \A r \in Requests : /\ phase[r] \in Busy => server = "up"
                         /\ state[r] = "running" => phase[r] = "prompt"
                         /\ phase[r] \in {"making", "generate", "reply", "ok"} => state[r] = "answered"
                         /\ said[r] # <<>> => phase[r] = "reply"

\* A process makes one model at most, however many calls need one at the same time,
\* and no call generates before it is made.
ModelMadeOnce ==
  /\ model <= 1
  /\ \A r \in Requests : phase[r] = "generate" => model = 1

\* A link the model wrote as it was asked to leads where it says.
LinksFollowed == \A r \in Requests : phase[r] = "reply" => LinksFound(said[r])

\* Whatever the model writes that is no link is shown, every word of it once and in its
\* place, and of the links the labels are; as long as what opens a link but has not the
\* form of one is not closed further on, by another link for example.
SegmentsKeep == \A r \in Requests : phase[r] = "reply" => WordsKept(said[r])

\* Every call is answered or cut off: whoever waits for the model gets it, or the
\* error, even when the process stops and starts in between and starting fails.
AIAnswered == \A r \in Requests : <>(phase[r] \in Ended)

-----------------------------------------------------------------------------
(* What the code says of a link and does not do *)

\* What is taken for a link has the form [[label|view|{params}]]: the words of anything
\* else are shown.  (From a "[[" of another form on, everything up to the end of the next
\* link becomes part of the view.)
OnlyLinksTaken == \A r \in Requests : phase[r] = "reply" => WordsShown(said[r])
=============================================================================
