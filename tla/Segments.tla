------------------------------ MODULE Segments ------------------------------
(***************************************************************************)
(* How the text of the chat model is cut into segments: plain text and the *)
(* links it was asked to write as [[label|view|{params}]].  A text is a    *)
(* sequence of words and of the marks of linkPattern; "|{" is one mark.    *)
(***************************************************************************)
EXTENDS Integers, Sequences, FiniteSetsExt, SequencesExt

CONSTANTS
  Blank,    \* a word that TrimSpace removes
  Params    \* words that are JSON between braces

\* The marks of linkPattern, and what is left of "|{" when its bar ends a label.
Opens      == "[["
Bar        == "|"
BarAndOpen == "|{"
Closes     == "}]]"
OpenBrace  == "{"

Marks == {Opens, Bar, BarAndOpen, Closes}

\* A word that is JSON is no mark and none that is removed.
ASSUME WordsAssumption ==
  Blank \notin Marks \cup {OpenBrace} /\ Params \cap (Marks \cup {Blank, OpenBrace}) = {}

Trim(w) ==
  LET I == {i \in DOMAIN w : w[i] # Blank} IN
  IF I = {} THEN <<>> ELSE SubSeq(w, Min(I), Max(I))

\* The first n in S, 0 if there is none.
First(S) == IF S = {} THEN 0 ELSE Min(S)

\* Mutant: the pattern takes as much as it can.
GreedyEnd(t, j) == IF j = 0 THEN 0 ELSE Max({0} \cup {n \in j + 2 .. Len(t) : t[n] = Closes})

(* The marks that end the label, the view and the params of a link that starts at s.
   Each group takes at least one character, and as few as it can: when any link
   starts at s, one with the first mark for each group does. *)
LabelEnd(t, s) == First({n \in s + 2 .. Len(t) : t[n] \in {Bar, BarAndOpen}})
ViewEnd(t, i) ==
  IF i = 0 THEN 0
  ELSE First({n \in i + (IF t[i] = Bar THEN 2 ELSE 1) .. Len(t) : t[n] = BarAndOpen})
ParamsEnd(t, j) == IF j = 0 THEN 0 ELSE First({n \in j + 2 .. Len(t) : t[n] = Closes})

linkPattern(t, s) ==
  LET i == LabelEnd(t, s)
      j == ViewEnd(t, i) IN
  [start |-> s, label |-> i, view |-> j, end |-> ParamsEnd(t, j)]

Text(w) == [type |-> "text", content |-> w]

\* What follows a label without a bar of its own belongs to the view.
Link(t, m) ==
  LET bar == IF t[m.label] = Bar THEN <<>> ELSE <<OpenBrace>>
      params == Trim(SubSeq(t, m.view + 1, m.end - 1)) IN
  [type |-> "link",
   content |-> Trim(SubSeq(t, m.start + 1, m.label - 1)),
   view |-> Trim(bar \o SubSeq(t, m.label + 1, m.view - 1)),
   params |-> IF Len(params) = 1 /\ params[1] \in Params THEN params ELSE <<>>]

\* Mutant: drops what follows the last link.
RemainingDropped(w) == <<>>

\* The text after the last link.
Remaining(w) == IF Trim(w) = <<>> THEN <<>> ELSE <<Text(Trim(w))>>

\* The next link at p or after it, 0 if there is none.
NextLink(t, p) == First({n \in p .. Len(t) : t[n] = Opens /\ linkPattern(t, n).end # 0})

\* What stands between p and a link at s.
Preceding(t, p, s) == IF s > p THEN <<Text(Trim(SubSeq(t, p, s - 1)))>> ELSE <<>>

\* The segments of t from p on are those up to its next link, and those after it.
Cut(t) ==
  LET cut[p \in 1 .. Len(t) + 1] ==
        LET s == NextLink(t, p) IN
        IF s = 0 THEN Remaining(SubSeq(t, p, Len(t)))
        ELSE LET m == linkPattern(t, s) IN
             Preceding(t, p, s) \o <<Link(t, m)>> \o cut[m.end + 1] IN
  cut[1]

\* A text without segments is one as it is; no text is one that says so.
Placeholder == <<"no analysis">>
parseSegments(t) ==
  IF t = <<>> THEN <<Text(Placeholder)>>
  ELSE IF Cut(t) = <<>> THEN <<Text(t)>> ELSE Cut(t)

-----------------------------------------------------------------------------
(* What is expected of the segments, said without the pattern *)

\* [[label|view|{params}]] at s, and the same with params that are JSON, as the prompt
\* asks for.
OfForm(t, s) ==
  /\ s + 6 <= Len(t)
  /\ t[s] = Opens /\ t[s + 2] = Bar /\ t[s + 4] = BarAndOpen /\ t[s + 6] = Closes
  /\ {t[s + 1], t[s + 3], t[s + 5]} \cap (Marks \cup {Blank}) = {}

WellFormed(t, s) == OfForm(t, s) /\ t[s + 5] \in Params

LinkAsked(t, s) ==
  [type |-> "link", content |-> <<t[s + 1]>>, view |-> <<t[s + 3]>>, params |-> <<t[s + 5]>>]

LinksAsked(t) ==
  FlattenSeq([s \in 1 .. Len(t) |-> IF t[s] = Opens THEN <<LinkAsked(t, s)>> ELSE <<>>])

LinksOf(G) == FlattenSeq([n \in 1 .. Len(G) |-> IF G[n].type = "link" THEN <<G[n]>> ELSE <<>>])

\* When every link is well-formed, whatever stands between them, exactly these are
\* the links of the answer, in order.
LinksFound(t) ==
  (\A s \in DOMAIN t : t[s] = Opens => WellFormed(t, s)) => LinksOf(parseSegments(t)) = LinksAsked(t)

NoWords == Marks \cup Params \cup {Blank, OpenBrace}

Words(w) == FlattenSeq([n \in 1 .. Len(w) |-> IF w[n] \in NoWords THEN <<>> ELSE <<w[n]>>])

\* What a reader sees of an answer: of a link the label, not where it leads.
AllShown(G) == FlattenSeq([n \in 1 .. Len(G) |-> G[n].content])

\* Where the links of a text lead: the views and the params of what has their form.
Hidden(t) == UNION {{s + 3, s + 5} : s \in {n \in DOMAIN t : OfForm(t, n)}}

WordsToShow(t) ==
  FlattenSeq([n \in 1 .. Len(t) |-> IF t[n] \in NoWords \/ n \in Hidden(t) THEN <<>> ELSE <<t[n]>>])

\* No word of the text is lost, shown twice or out of its place.
WordsShown(t) == t # <<>> => Words(AllShown(parseSegments(t))) = WordsToShow(t)

\* What opens a link has the form of one, or nothing after it could end it.
NothingSwallowed(t) ==
  \A s \in DOMAIN t : t[s] = Opens => OfForm(t, s) \/ \A n \in s + 1 .. Len(t) : t[n] # Closes

WordsKept(t) == NothingSwallowed(t) => WordsShown(t)
=============================================================================
