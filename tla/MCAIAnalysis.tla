---------------------------- MODULE MCAIAnalysis ----------------------------
(* Small instances of AIAnalysis: two students of a class, one subject. *)
EXTENDS AIAnalysis, TLC

CONSTANTS u1, e1, s1, w1, w2, w3, v1, p1, rest

MCClassOf == <<1, 1>>
MCMark == [ss \in Students \X Subjects |-> <<9, 4>>[ss[1]]]

MCBatches == {[exam : {e1}, student : {1, 2}, subject : {s1}]}

Body(v, params) == [view |-> v, examId |-> e1, params |-> params]
Posted(b) == [method |-> "POST", body |-> b]

OfQuestion == ("subject_id" :> s1) @@ ("class_id" :> 1) @@ ("question_id" :> "1")

\* Two views that are built, one that lacks a param, one that is none, and calls
\* that are refused at once.
MCCalls ==
  {Posted(Body("rating-analysis", <<>>)), Posted(Body("single-question-detail", OfQuestion)),
   Posted(Body("single-class-summary", <<>>)), Posted(Body("score-segment", <<>>)),
   Posted(Body(Unset, <<>>)), Posted(Unset),
   [method |-> "OPTIONS", body |-> Unset], [method |-> "GET", body |-> Unset]}

PromptAsks == UNION {buildPrompt(c.body) : c \in {d \in Calls : d.body # Unset}}

\* What the model writes: prose, a bar, a link; a link without params, one that is
\* never closed, one whose params are no JSON.
Asked  == <<"[[", w1, "|", v1, "|{", p1, "}]]">>
Pieces == {<<w2>>, <<Blank>>, <<"|">>, Asked,
           <<"[[", w3, "|", v1, "]]">>, <<"[[", w3, "|{", p1, "}]]">>,
           <<"[[", w3, "|", v1, "|{", p1>>, <<"[[", w3, "|", v1, "|{", rest, "}]]">>}
Texts  == UNION {{p, p \o Asked, Asked \o p, Asked \o p \o Asked} : p \in Pieces}
MCSayings == {<<>>} \cup Texts
=============================================================================
