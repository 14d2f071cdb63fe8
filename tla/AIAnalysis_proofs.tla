-------------------------- MODULE AIAnalysis_proofs --------------------------
(* Proofs about AIAnalysis: the model that sync.Once makes for all calls, for *)
(* any number of calls, any views and texts, and any number of restarts.      *)
EXTENDS AIAnalysis, Reports_proofs, Segments_proofs

Phases == {"sent"} \cup Busy \cup Ended

ChatType ==
  /\ phase \in [Requests -> Phases]
  /\ once \in {"unused", "making", "done"}
  /\ modelErr \in BOOLEAN
  /\ llm \in {"complete", "unusable"}

\* Until a call has made the model there is none and no error, and nobody generates.
Unmade ==
  once \in {"unused", "making"} =>
    model = 0 /\ modelErr = FALSE /\ \A r \in Requests : phase[r] # "generate"

\* One call makes it, while nobody has and nobody else does.
OneMaker ==
  /\ \A r \in Requests : phase[r] = "making" => once = "making"
  /\ \A r, q \in Requests : phase[r] = "making" /\ phase[q] = "making" => r = q

\* Then there is the model or the error, and only with a model a call generates.
Made ==
  once = "done" =>
    /\ modelErr = TRUE => model = 0 /\ \A r \in Requests : phase[r] # "generate"
    /\ modelErr = FALSE => model = 1

ChatInv == ChatType /\ Unmade /\ OneMaker /\ Made

LEMMA ChatInit == AIInit => ChatInv
BY DEF AIInit, ChatInv, ChatType, Unmade, OneMaker, Made, Phases, Busy, Ended

\* Steps that touch neither the calls nor the model.
LEMMA ElsewhereStep ==
  ASSUME ChatInv, UNCHANGED <<phase, once, model, modelErr, llm>>
  PROVE  ChatInv'
BY DEF ChatInv, ChatType, Unmade, OneMaker, Made

\* A call moves on without making the model: it generates only with one.
LEMMA MoveStep ==
  ASSUME ChatInv, NEW r \in Requests, NEW to \in Phases \ {"making"},
         phase' = [phase EXCEPT ![r] = to],
         to = "generate" => once = "done" /\ modelErr = FALSE,
         UNCHANGED <<once, model, modelErr, llm>>
  PROVE  ChatInv'
<1> USE DEF ChatInv, ChatType
<1>1. \A q \in Requests : phase'[q] = IF q = r THEN to ELSE phase[q]
  OBVIOUS
<1>2. ChatType'
  OBVIOUS
<1>3. Unmade' /\ Made'
  BY <1>1 DEF Unmade, Made
<1>4. OneMaker'
  BY <1>1 DEF OneMaker
<1> QED
  BY <1>2, <1>3, <1>4

LEMMA StopStep == ASSUME ChatInv, Stop PROVE ChatInv'
<1> USE DEF ChatInv, ChatType, Stop, process, chat
<1>1. \A q \in Requests : phase'[q] \in Phases \ Busy
  BY DEF Phases, Busy, Ended
<1>2. phase' \in [Requests -> Phases]
  BY DEF Phases, Busy, Ended
<1>3. ChatType'
  BY <1>2
<1>4. Unmade' /\ OneMaker' /\ Made'
  BY <1>1 DEF Unmade, OneMaker, Made, Busy
<1> QED
  BY <1>3, <1>4

LEMMA EnterStep == ASSUME ChatInv, NEW r \in Requests, EnterOnce(r) PROVE ChatInv'
<1> USE DEF ChatInv, ChatType, EnterOnce, Prompted, Goes, process
<1>1. /\ once = "unused" /\ once' = "making" /\ model' = model /\ modelErr' = modelErr /\ llm' = llm
      /\ \A q \in Requests : phase'[q] = IF q = r THEN "making" ELSE phase[q]
  OBVIOUS
<1>2. ChatType'
  BY DEF Phases, Busy
<1>3. Unmade' /\ Made'
  BY <1>1 DEF Unmade, Made
<1>4. OneMaker'
  BY <1>1 DEF OneMaker
<1> QED
  BY <1>2, <1>3, <1>4

LEMMA MakeStep == ASSUME ChatInv, NEW r \in Requests, MakeModel(r) PROVE ChatInv'
<1> USE DEF ChatInv, ChatType, MakeModel, Goes, process
<1>1. /\ once = "making" /\ model = 0 /\ llm' = llm
      /\ \A q \in Requests \ {r} : phase[q] \notin {"making", "generate"}
  BY DEF Unmade, OneMaker
<1>7. PICK err \in BOOLEAN :
        /\ modelErr' = err /\ model' = IF err THEN model ELSE model + 1
        /\ phase' = [phase EXCEPT ![r] = IF err THEN "unavailable" ELSE "generate"]
  <2>1. MakingFails \subseteq BOOLEAN
    BY DEF MakingFails
  <2> QED
    BY <2>1
<1>2. /\ once' = "done" /\ modelErr' \in BOOLEAN
      /\ modelErr' = TRUE => model' = 0
      /\ modelErr' = FALSE => model' = 1
  BY <1>1, <1>7
<1>3. /\ \A q \in Requests : phase'[q] = IF q = r THEN IF modelErr' THEN "unavailable" ELSE "generate"
                                         ELSE phase[q]
      /\ phase' \in [Requests -> Phases]
  BY <1>2, <1>7 DEF Phases, Busy, Ended
<1>4. ChatType'
  BY <1>1, <1>2, <1>3
<1>5. Unmade' /\ OneMaker'
  BY <1>1, <1>2, <1>3 DEF Unmade, OneMaker
<1>6. Made'
  BY <1>1, <1>2, <1>3 DEF Made
<1> QED
  BY <1>4, <1>5, <1>6

LEMMA CallStep == ASSUME ChatInv, NEW r \in Requests, ServeHTTP(r) \/ Call(r) PROVE ChatInv'
<1> USE DEF process, chat, Goes, Phases, Busy, Ended
<1>1. CASE ServeHTTP(r)
  <2>1. PICK to \in Phases \ {"making", "generate"} : phase' = [phase EXCEPT ![r] = to]
    BY <1>1 DEF ServeHTTP
  <2> QED
    BY <1>1, <2>1, MoveStep DEF ServeHTTP
<1>2. CASE Prompt(r)
  BY <1>2, ElsewhereStep DEF Prompt, aiVars
<1>3. CASE NoPrompt(r)
  BY <1>3, MoveStep DEF NoPrompt
<1>4. CASE EnterOnce(r)
  BY <1>4, EnterStep
<1>5. CASE MakeModel(r)
  BY <1>5, MakeStep
<1>6. CASE TakeModel(r)
  <2>1. once = "done" /\ UNCHANGED <<once, model, modelErr, llm>>
    BY <1>6 DEF TakeModel
  <2>2. CASE modelErr = TRUE
    <3>1. phase' = [phase EXCEPT ![r] = "unavailable"]
      BY <1>6, <2>2 DEF TakeModel
    <3> QED
      BY <2>1, <3>1, MoveStep
  <2>3. CASE modelErr = FALSE
    <3>1. phase' = [phase EXCEPT ![r] = "generate"]
      BY <1>6, <2>3 DEF TakeModel
    <3> QED
      BY <2>1, <2>3, <3>1, MoveStep
  <2> QED
    BY <2>2, <2>3 DEF ChatInv, ChatType
<1>7. CASE Generate(r)
  BY <1>7, MoveStep DEF Generate
<1>8. CASE Answer(r)
  BY <1>8, MoveStep DEF Answer
<1> QED
  BY <1>1, <1>2, <1>3, <1>4, <1>5, <1>6, <1>7, <1>8 DEF Call

LEMMA ChatStep == ChatInv /\ [AINext]_allVars => ChatInv'
<1> SUFFICES ASSUME ChatInv, [AINext]_allVars PROVE ChatInv'
  OBVIOUS
<1> USE DEF aiVars, process, chat
<1>1. CASE OpenDatabase \/ AutoMigrate \/ ConnectRedis \/ FailStart
  BY <1>1, ElsewhereStep DEF OpenDatabase, AutoMigrate, ConnectRedis, FailStart, Become
<1>2. CASE Stop
  BY <1>2, StopStep
<1>3. CASE \E r \in Requests : ServeHTTP(r) \/ Call(r)
  BY <1>3, CallStep
<1>4. CASE OtherWrites
  BY <1>4, ElsewhereStep DEF OtherWrites
<1>5. CASE AllEnded \/ UNCHANGED allVars
  BY <1>5, ElsewhereStep DEF AllEnded, allVars
<1> QED
  BY <1>1, <1>2, <1>3, <1>4, <1>5 DEF AINext

-----------------------------------------------------------------------------
(* The calls and their reports *)

CallInv ==
  /\ server \in {"down", "migrating", "connecting", "up"}
  /\ restarts \in 0 .. MaxRestarts /\ model \in Nat
  /\ call \in [Requests -> Calls]
  /\ said = [r \in Requests |-> said[r]]
  /\ \A r \in Requests :
       /\ phase[r] \in Busy => server = "up"
       /\ phase[r] = "prompt" => call[r].body # Unset
       /\ state[r] = "running" => phase[r] = "prompt"
       /\ phase[r] \in {"making", "generate", "reply", "ok"} => state[r] = "answered"
       /\ said[r] # <<>> => phase[r] = "reply"
       /\ ask[r] \in Asks => ask[r].user = Nobody

AIInv == ReportsInv /\ ChatInv /\ CallInv

LEMMA AIInvInit == AIInit => AIInv
<1> SUFFICES ASSUME AIInit PROVE AIInv
  OBVIOUS
<1>1. ReportsInv /\ ChatInv
  BY ReportsInit, ChatInit DEF AIInit
<1>2. CallInv
  BY CallsAssumption, ReportsAssumption DEF AIInit, Init, CallInv, Busy
<1> QED
  BY <1>1, <1>2 DEF AIInv

\* Start-up and the other requests leave the calls alone.
LEMMA OutsideStep ==
  ASSUME AIInv, OpenDatabase \/ AutoMigrate \/ ConnectRedis \/ FailStart \/ OtherWrites
  PROVE  ReportsInv' /\ CallInv'
<1> USE DEF aiVars, process, chat, vars, tables
<1>1. CASE OpenDatabase \/ AutoMigrate \/ ConnectRedis \/ FailStart
  <2>1. /\ UNCHANGED <<vars, restarts, call, phase, said, chat>> /\ server # "up"
        /\ server' \in {"down", "migrating", "connecting", "up"}
    BY <1>1 DEF OpenDatabase, AutoMigrate, ConnectRedis, FailStart, Become
  <2>2. CallInv'
    BY <2>1 DEF AIInv, CallInv
  <2>3. ReportsInv'
    BY <2>1 DEF AIInv, ReportsInv, Placed, Ordered, Checked
  <2> QED
    BY <2>2, <2>3
<1>2. CASE OtherWrites
  <2>1. Write /\ UNCHANGED <<aiVars, state, ask>>
    BY <1>2 DEF OtherWrites, Write
  <2> QED
    BY <2>1, WriteStep DEF AIInv, CallInv
<1> QED
  BY <1>1, <1>2

LEMMA CutOffStep == ASSUME AIInv, Stop PROVE ReportsInv' /\ CallInv'
<1> USE DEF AIInv, Stop, process, tables
<1>1. \A r \in Requests :
        /\ phase[r] \in Busy => phase'[r] = "cut" /\ state'[r] = "failed"
        /\ phase[r] \notin Busy => phase'[r] = phase[r] /\ state'[r] = state[r]
        /\ todo'[r] = <<>> /\ seen'[r] = <<>> /\ said'[r] = <<>>
  OBVIOUS
<1>2. \A r \in Requests : phase'[r] \notin Busy /\ state'[r] # "running"
  BY <1>1 DEF CallInv, Busy
<1>3. CallInv'
  <2>1. server' = "down" /\ restarts' \in 0 .. MaxRestarts /\ model' \in Nat /\ call' \in [Requests -> Calls]
    BY CallsAssumption DEF CallInv
  <2>2. \A r \in Requests : phase'[r] = "ok" => state'[r] = "answered"
    BY <1>1, <1>2 DEF CallInv, Busy
  <2>3. said' = [r \in Requests |-> said'[r]]
    OBVIOUS
  <2> QED
    BY <1>1, <1>2, <2>1, <2>2, <2>3 DEF CallInv, Busy
<1>4. Placed' /\ exams' = exams /\ ask' = ask
  BY DEF ReportsInv, Placed
<1>5. Ordered' /\ Checked'
  <2>1. \A r \in Requests : state'[r] = state[r] \/ state'[r] = "failed"
    BY <1>1
  <2>2. \A r \in Requests : seen'[r] = <<>> /\ todo'[r] = <<>> /\ DOMAIN seen'[r] = {}
    BY <1>1
  <2> QED
    BY <1>2, <1>4, <2>1, <2>2 DEF ReportsInv, Ordered, Checked
<1> QED
  BY <1>3, <1>4, <1>5 DEF ReportsInv

\* A call moves on: its report has run, and only with a report it asks the model.
LEMMA GoOnStep ==
  ASSUME AIInv, NEW r \in Requests, NEW to \in Phases, server = "up",
         phase' = [phase EXCEPT ![r] = to],
         state[r] # "running",
         to = "prompt" => call[r].body # Unset,
         to \in {"making", "generate", "reply", "ok"} => state[r] = "answered",
         said' = said \/ \E t : said' = [said EXCEPT ![r] = t],
         said'[r] # <<>> => to = "reply",
         model' \in Nat, UNCHANGED <<server, restarts, call, state, ask>>
  PROVE  CallInv'
<1> USE DEF AIInv, ChatInv, ChatType, CallInv
<1>1. /\ phase'[r] = to
      /\ \A q \in Requests \ {r} : phase'[q] = phase[q] /\ said'[q] = said[q]
  OBVIOUS
<1>2. said' = [q \in Requests |-> said'[q]]
  OBVIOUS
<1> QED
  BY <1>1, <1>2

LEMMA SameReports == ASSUME ReportsInv, UNCHANGED vars PROVE ReportsInv'
BY DEF vars, tables, ReportsInv, Placed, Ordered, Checked

LEMMA ServeStep == ASSUME AIInv, NEW r \in Requests, ServeHTTP(r) PROVE ReportsInv' /\ CallInv'
<1>1. ReportsInv'
  BY SameReports DEF ServeHTTP, AIInv
<1>2. PICK to \in {"no content", "method not allowed", "bad request", "unavailable", "prompt"} :
        phase' = [phase EXCEPT ![r] = to] /\ (to = "prompt" => call[r].body # Unset)
  <2>1. CASE call[r].method = "POST" /\ call[r].body = Unset
    <3>1. phase' = [phase EXCEPT ![r] = "bad request"]
      BY <2>1 DEF ServeHTTP, Goes
    <3> QED
      BY <3>1
  <2>2. CASE call[r].method = "OPTIONS"
    <3>1. phase' = [phase EXCEPT ![r] = "no content"]
      BY <2>2 DEF ServeHTTP, Goes
    <3> QED
      BY <3>1
  <2>3. CASE call[r].method \notin {"OPTIONS", "POST"}
    <3>1. phase' = [phase EXCEPT ![r] = "method not allowed"]
      BY <2>3 DEF ServeHTTP, Goes
    <3> QED
      BY <3>1
  <2>4. CASE call[r].method = "POST" /\ call[r].body # Unset
    <3>1. CASE Unset \in {call[r].body.view, call[r].body.examId}
      <4>1. phase' = [phase EXCEPT ![r] = "bad request"]
        BY <2>4, <3>1 DEF ServeHTTP, Goes
      <4> QED
        BY <4>1
    <3>2. CASE Unset \notin {call[r].body.view, call[r].body.examId}
      <4>1. phase' = [phase EXCEPT ![r] = IF buildPrompt(call[r].body) = {} THEN "unavailable" ELSE "prompt"]
        BY <2>4, <3>2 DEF ServeHTTP, Goes
      <4> QED
        BY <2>4, <4>1
    <3> QED
      BY <3>1, <3>2
  <2> QED
    BY <2>1, <2>2, <2>3, <2>4
<1>3. state[r] # "running" /\ said[r] = <<>>
  BY DEF ServeHTTP, AIInv, CallInv
<1>4. CallInv'
  BY <1>2, <1>3, GoOnStep DEF ServeHTTP, AIInv, CallInv, process, chat, vars, Phases, Busy, Ended
<1> QED
  BY <1>1, <1>4

LEMMA PromptStep == ASSUME AIInv, NEW r \in Requests, Prompt(r) PROVE ReportsInv' /\ CallInv'
<1>1. phase[r] = "prompt" /\ UNCHANGED aiVars
  BY DEF Prompt
<1>2. ASSUME NEW a \in buildPrompt(call[r].body), CheckExamOwnership(r, a)
      PROVE  /\ ReportsInv' /\ \A q \in Requests \ {r} : state'[q] = state[q]
             /\ ask' = ask \/ \E b : ask' = [ask EXCEPT ![r] = b] /\ b.user = Nobody
  <2>1. a \in Asks
    BY <1>1, <1>2, CallsAssumption DEF AIInv, CallInv
  <2>2. ask' = [ask EXCEPT ![r] = a] /\ a.user = Nobody
    <3>1. \E k, m : a = AskOf(k, Nobody, m)
      BY <1>2, Zenon DEF buildPrompt
    <3>2. a.user = Nobody
      BY <3>1 DEF AskOf
    <3> QED
      BY <1>2, <3>2 DEF CheckExamOwnership, Arrive
  <2> QED
    BY <1>2, <2>1, <2>2, CheckStep DEF AIInv, ReportsInv, Placed, CheckExamOwnership, Advance, Refuse
<1>3. ASSUME Query(r) \/ FailQuery(r)
      PROVE  /\ ReportsInv' /\ \A q \in Requests \ {r} : state'[q] = state[q]
             /\ ask' = ask
  BY <1>3, QueryStep DEF AIInv, ReportsInv, Placed, Query, FailQuery, See, Advance, Refuse
<1>4. /\ ReportsInv' /\ \A q \in Requests \ {r} : state'[q] = state[q]
      /\ ask' = ask \/ \E b : ask' = [ask EXCEPT ![r] = b] /\ b.user = Nobody
  BY <1>2, <1>3 DEF Prompt
<1>5. CallInv'
  <2>1. \A q \in Requests : ask'[q] \in Asks => ask'[q].user = Nobody
    BY <1>4 DEF AIInv, CallInv, ReportsInv, Placed
  <2> QED
    BY <1>1, <1>4, <2>1 DEF AIInv, CallInv, aiVars, process, chat
<1> QED
  BY <1>4, <1>5

LEMMA ModelStep ==
  ASSUME AIInv, NEW r \in Requests, EnterOnce(r) \/ MakeModel(r) \/ TakeModel(r)
  PROVE  ReportsInv' /\ CallInv'
<1> USE DEF process, chat, Goes, Phases, Busy, Ended
<1>1. ReportsInv'
  BY SameReports DEF EnterOnce, MakeModel, TakeModel, AIInv
<1>2. PICK to \in {"making", "generate", "unavailable"} : phase' = [phase EXCEPT ![r] = to]
  <2>1. CASE EnterOnce(r)
    BY <2>1 DEF EnterOnce
  <2>2. CASE MakeModel(r)
    BY <2>2 DEF MakeModel
  <2>3. CASE TakeModel(r)
    BY <2>3 DEF TakeModel
  <2> QED
    BY <2>1, <2>2, <2>3
<1>3. /\ phase[r] \in {"prompt", "making"} /\ state[r] = "answered" /\ model' \in Nat
      /\ UNCHANGED <<server, restarts, call, state, ask, said>>
  BY DEF EnterOnce, MakeModel, TakeModel, Prompted, AIInv, CallInv, vars
<1>4. server = "up" /\ said'[r] = <<>>
  BY <1>3 DEF AIInv, CallInv
<1>5. CallInv'
  BY <1>2, <1>3, <1>4, GoOnStep
<1> QED
  BY <1>1, <1>5

LEMMA EndStep ==
  ASSUME AIInv, NEW r \in Requests, NoPrompt(r) \/ Generate(r) \/ Answer(r)
  PROVE  ReportsInv' /\ CallInv'
<1> USE DEF process, chat, Goes, Phases, Busy, Ended
<1>1. CASE NoPrompt(r)
  <2>1. ReportsInv'
    BY <1>1, SameReports DEF NoPrompt, AIInv
  <2>2. said[r] = <<>> /\ server = "up"
    BY <1>1 DEF NoPrompt, AIInv, CallInv
  <2> QED
    BY <1>1, <2>1, <2>2, GoOnStep DEF NoPrompt, AIInv, CallInv, vars
<1>2. CASE Generate(r)
  <2>1. /\ phase[r] = "generate" /\ state[r] = "answered" /\ said[r] = <<>> /\ server = "up"
        /\ UNCHANGED <<server, restarts, call, state, model, tables, ask, todo>>
        /\ seen' = [seen EXCEPT ![r] = <<>>]
    BY <1>2 DEF Generate, AIInv, CallInv
  <2>2. ReportsInv'
    <3>1. seen'[r] = <<>> /\ DOMAIN seen'[r] = {} /\ \A q \in Requests \ {r} : seen'[q] = seen[q]
      BY <2>1 DEF AIInv, ReportsInv, Placed
    <3>2. Placed'
      BY <2>1 DEF AIInv, ReportsInv, Placed
    <3> QED
      BY <2>1, <3>1, <3>2 DEF AIInv, ReportsInv, Ordered, Checked, tables
  <2>3. CASE phase' = [phase EXCEPT ![r] = "unavailable"] /\ said' = said
    <3>1. said'[r] = <<>> /\ model' \in Nat
      BY <2>1, <2>3 DEF AIInv, CallInv
    <3> QED
      BY <2>1, <2>2, <2>3, <3>1, GoOnStep
  <2>4. CASE phase' = [phase EXCEPT ![r] = "reply"] /\ \E t \in Sayings : said' = [said EXCEPT ![r] = t]
    <3>1. model' \in Nat
      BY <2>1 DEF AIInv, CallInv
    <3> QED
      BY <2>1, <2>2, <2>4, <3>1, GoOnStep
  <2> QED
    BY <1>2, <2>2, <2>3, <2>4 DEF Generate
<1>3. CASE Answer(r)
  <2>1. ReportsInv'
    BY <1>3, SameReports DEF Answer, AIInv
  <2>2. server = "up" /\ state[r] = "answered" /\ said'[r] = <<>>
    BY <1>3 DEF Answer, AIInv, CallInv
  <2> QED
    BY <1>3, <2>1, <2>2, GoOnStep DEF Answer, AIInv, CallInv, vars
<1> QED
  BY <1>1, <1>2, <1>3

LEMMA AIStep == AIInv /\ [AINext]_allVars => AIInv'
<1> SUFFICES ASSUME AIInv, [AINext]_allVars PROVE AIInv'
  OBVIOUS
<1>1. ChatInv'
  BY ChatStep DEF AIInv
<1>2. CASE OpenDatabase \/ AutoMigrate \/ ConnectRedis \/ FailStart \/ OtherWrites
  BY <1>1, <1>2, OutsideStep DEF AIInv
<1>3. CASE Stop
  BY <1>1, <1>3, CutOffStep DEF AIInv
<1>4. CASE \E r \in Requests : ServeHTTP(r) \/ Call(r)
  BY <1>1, <1>4, ServeStep, PromptStep, ModelStep, EndStep DEF AIInv, Call
<1>5. CASE AllEnded \/ UNCHANGED allVars
  BY <1>1, <1>5, SameReports DEF AllEnded, allVars, aiVars, process, chat, vars, AIInv, CallInv
<1> QED
  BY <1>2, <1>3, <1>4, <1>5 DEF AINext

-----------------------------------------------------------------------------

\* The inductive invariant of the calls, their reports and the model.
THEOREM AIInvariance == AISpec => []AIInv
BY AIInvInit, AIStep, PTL DEF AISpec

\* Every call keeps its type, and the model is asked only with a prompt that was built.
THEOREM AITypeCorrect == AISpec => []AITypeOK
<1>1. ReportsInv => TypeOK
  BY DEF ReportsInv, Placed, Ordered, TypeOK, AskOrNone, MayQuery
<1>2. AIInv => AITypeOK
  BY <1>1 DEF AIInv, CallInv, ChatInv, ChatType, Phases, AITypeOK
<1> QED
  BY <1>2, AIInvariance, PTL

\* Prompts are built from public exams only: the exam of a report that has read
\* anything for a call is public, whoever owns other exams, or has gone.
THEOREM PromptsArePublic ==
  AISpec => [](\A r \in Requests : seen[r] # <<>> => exams[ask[r].exam] \in {Nobody, Gone})
<1>1. AIInv => \A r \in Requests : seen[r] # <<>> => exams[ask[r].exam] \in {Nobody, Gone}
  <2> SUFFICES ASSUME AIInv, NEW r \in Requests, seen[r] # <<>>
               PROVE  exams[ask[r].exam] \in {Nobody, Gone}
    OBVIOUS
  <2>1. ask[r].user = Nobody
    BY DEF AIInv, CallInv, ReportsInv, Placed, Ordered
  <2> QED
    BY <2>1 DEF AIInv, ReportsInv, Checked
<1> QED
  BY <1>1, AIInvariance, PTL

\* However many calls need a model at the same time, and however often the process is
\* started again: a process makes at most one, and none generates before it is made.
THEOREM MadeOnce == AISpec => []ModelMadeOnce
<1>1. ChatInv => ModelMadeOnce
  BY DEF ChatInv, ChatType, Unmade, Made, ModelMadeOnce
<1> QED
  BY <1>1, ChatInit, ChatStep, PTL DEF AISpec

-----------------------------------------------------------------------------
(* What becomes of the words of the model *)

\* What a call holds is nothing, or one of the texts the model may say.
SaidInv == said \in [Requests -> Sayings \cup {<<>>}]

LEMMA SaidStep == SaidInv /\ [AINext]_allVars => SaidInv'
<1> SUFFICES ASSUME SaidInv, [AINext]_allVars PROVE SaidInv'
  OBVIOUS
<1> USE DEF SaidInv, aiVars, process, chat
<1>1. CASE OpenDatabase \/ AutoMigrate \/ ConnectRedis \/ FailStart
  BY <1>1 DEF OpenDatabase, AutoMigrate, ConnectRedis, FailStart, Become
<1>2. CASE Stop
  BY <1>2 DEF Stop
<1>3. ASSUME NEW r \in Requests, ServeHTTP(r) \/ Call(r) PROVE SaidInv'
  <2>1. CASE ServeHTTP(r)
    BY <2>1 DEF ServeHTTP
  <2>2. CASE Prompt(r) \/ NoPrompt(r)
    BY <2>2 DEF Prompt, NoPrompt
  <2>3. CASE EnterOnce(r) \/ MakeModel(r) \/ TakeModel(r)
    BY <2>3 DEF EnterOnce, MakeModel, TakeModel
  <2>4. CASE Generate(r) \/ Answer(r)
    BY <2>4 DEF Generate, Answer
  <2> QED
    BY <1>3, <2>1, <2>2, <2>3, <2>4 DEF Call
<1>4. CASE OtherWrites
  BY <1>4 DEF OtherWrites
<1>5. CASE AllEnded \/ UNCHANGED allVars
  BY <1>5 DEF AllEnded, allVars
<1> QED
  BY <1>1, <1>2, <1>3, <1>4, <1>5 DEF AINext

\* It is a sequence of words.
LEMMA SaidIsText ==
  ASSUME SaidInv, NEW r \in Requests
  PROVE  said[r] \in Seq(ToSet(said[r]))
<1>1. CASE said[r] \in Sayings
  BY <1>1, CallsAssumption
<1>2. CASE said[r] = <<>>
  BY <1>2, EmptySeq
<1> QED
  BY <1>1, <1>2 DEF SaidInv

\* Whatever the model says to whichever call: the links it wrote as it was asked to are
\* the links of the answer, in their order.
THEOREM LinksAlwaysFound == AISpec => []LinksFollowed
<1>1. AIInit => SaidInv
  BY DEF AIInit, SaidInv
<1>2. SaidInv => LinksFollowed
  BY SaidIsText, LinksAreFound DEF LinksFollowed
<1> QED
  BY <1>1, <1>2, SaidStep, PTL DEF AISpec

\* Nor is any word of it that is no link lost, or of a link any label, when what opens a
\* link has the form of one or is never closed.
THEOREM LabelsAndTextAlwaysShown == AISpec => []SegmentsKeep
<1>1. AIInit => SaidInv
  BY DEF AIInit, SaidInv
<1>2. SaidInv => SegmentsKeep
  BY SaidIsText, LabelsAndTextShown DEF SegmentsKeep
<1> QED
  BY <1>1, <1>2, SaidStep, PTL DEF AISpec
=============================================================================
