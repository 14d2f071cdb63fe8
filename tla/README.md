# SEAS: specification and proofs

TLA+ specifications of SEAS, the exam analysis service of this repository: how
exams are imported, changed, listed and deleted by concurrent requests, what the
analysis reports compute from a store that changes under them, how they are interpreted
by a language model, and how users log in with a code. TLC checks them on small
instances; TLAPS proves the main results for every instance.

## The system

SEAS is one Go process (Kratos, served over HTTP) over one SQLite file and one Redis.
Requests run concurrently. The pool has one connection (`pkg/gorm/gorm.go:41-43`), so
a statement, or a transaction, runs alone; but only the deletion of an exam uses a
transaction, and every other handler is a sequence of statements between which those
of other requests run, and after any of which it can fail or be cancelled.

| Component | State | Operations | What is hard | What makes it correct |
|---|---|---|---|---|
| Exam store (`internal/biz/exam_import.go`, `internal/data/{exam,subject,class,student}.go`) | tables `exams`, `subjects`, `exam_subjects`, `classes`, `students`, `scores`, `score_items` | create an exam, import a workbook, set full scores, delete an exam | find-or-create races, count-then-insert, imports cut off half way, repeated imports, deletions in between | no dangling rows, scores all or nothing and of a subject of the exam, question rows of one import, truthful replies, owners only |
| Reports (`internal/biz/exam_analysis.go`, `internal/data/score.go`, `internal/data/score_item.go`) | none; reads the tables | eleven analyses, each of one to five queries plus one per subject | torn reads between queries, dropped errors, NULLs, rounding, boundaries of ranges, ties | grades cover their classes, ranks and counts fit, segments of whole numbers tile, reports agree with each other |
| Login (`internal/biz/auth.go`, `internal/server/auth.go`, `internal/data/auth.go`, `pkg/redis`) | a code in Redis with a life of five minutes, table `users` | a page asks for a code, listens on an event stream; WeChat calls back | codes drawn twice, callbacks delivered twice, stale reads, two clocks, Redis failing | the right user is logged in, streams end, nobody is told "expired" too early |
| Access (`CheckExamOwnership`, `internal/server/middleware`, `pkg/jwt`) | none | who may use an exam | checked in a statement before those it is for; a request without a valid token goes on as nobody's | only the owner, or anybody for a public exam |
| Lists (`internal/data/exam.go`, `internal/data/subject.go`, `internal/service/analysis.go`) | none; reads the tables | paged lists of exams and of an exam's subjects | count, page and the figures of its rows are separate queries; pages are read one after the other; offsets in 32 bits | only visible exams, pages that tile the list, students counted once, full scores somebody gave |
| AI interpretation (`internal/server/ai_analysis.go`) | the chat model and its error, made once per process | a report to a prompt, an answer to segments | first calls at the same time, a kept error, malformed links, restarts | one model, links that lead where they say, no text lost, every call ends |
| API (`api/seas/v1/*_http.pb.go`, `internal/service`, `internal/server/http.go`) | none | a request's path, query and body to a message, a message to a use case | what wins when a field comes twice; one route that replaces a generated one | the exam that is checked is the one that is used |
| Start-up (`cmd/seas`, `internal/data/data.go`) | what is up | open, migrate, connect; stop | each may fail | in the end it serves |
| Logging, metrics, tracing, codecs | none the data depends on | | | not modelled |

They meet in the database: the requests of the store, of the lists and of the reports
share its tables and nothing else. A call for an interpretation runs a report, and the
login hands out the tokens by which a request knows its user.

## Modules

| Module | Models |
|---|---|
| `Api` | How an HTTP request becomes a message and gets its user. |
| `ImportService` | What the handlers that change exams ask for. |
| `ExamStore` | What the store promises: each change of an exam in one step. Abstract specification. |
| `ExamImport` | The four kinds of requests that change the store, one action per statement. |
| `ExamImportInv` | The inductive invariant of `ExamImport`. |
| `ScoreStats` | What each report computes, as functions of what its queries saw. |
| `Service` | What the handlers of the reports ask for and reply. |
| `Reports` | The report requests, one action per query, over an instance of `ExamStore`. |
| `Lists` | The requests for lists, one action per query, over an instance of `ExamStore`. |
| `Segments` | How an answer of the chat model is cut into text and links. |
| `AIAnalysis` | The calls for an interpretation, each of which runs a request of `Reports`, and the process that serves them. |
| `LoginCode` | Codes, streams, callbacks, the clock, and the inductive invariant. |
| `ExamImport_proofs`, `Reports_proofs`, `Segments_proofs`, `AIAnalysis_proofs`, `Lists_proofs`, `LoginCode_proofs` | Theorems and their proofs. |
| `SumTheorems` | Induction over finite sets and the facts about sums that follow from it. |
| `ReportFigures_proofs` | The theorems about the figures of the reports, and about the ranges of a segment. |
| `MCExamImport`, `MCReports`, `MCLists`, `MCAIAnalysis`, `MCLoginCode` | Small instances for TLC. |

`ExamImport` implements `ExamStore`, and `Reports` and `Lists` run over `ExamStore`:
whatever interleaving of statements the handlers produce, a reader sees a store that
only changes in the steps of `ExamStore`. The mapping keeps of the question rows whether
a score has any (`HasItems`); a report takes a detail sheet to list a student once. `AIAnalysis` extends `Reports`: a prompt is
built by the very actions of a report. The instances make their jobs, asks and calls
with `Api`, `Service` and `ImportService` from HTTP requests. `PROJECT.json` maps each
definition to the lines it stands for. Operators marked "Mutant" are wrong variants of
the definition next to them, used to make sure that each property can fail.

### Api, Service and ImportService

A message is a function from its fields to values; `Bind` sets fields, and what is bound
later wins: the body, then the query, then the path. `Auth` gives the user of a token
that this process signed and that has not expired, and nobody for any other: such a
request is not refused but sees public exams. The import of a workbook has a route of
its own, which is registered before the generated one and reads path and token itself;
calls for an interpretation pass no middleware and are nobody's. `AskOf` and the jobs of
`ImportService` parse identifiers: for the reports what is no number is 0 (all
subjects), for imports and full scores it is an error, and a deletion of exam 0 finds
nothing.

### ExamImport

`exams[e]` is the owner of exam `e` (`Nobody` for `user_id = 0`), `Unborn`, or `Gone`;
ids are never reused. `examSubjects` holds full scores, or `None`; `items[k]` counts
the lines of detail sheets that are stored as question rows of score `k`; a student is the pair of name and class.
A request `r` has a job that never changes, `pc[r]` its next statement, `todo[r]` what
its loop over subjects has left (Go maps: any order), `cur`, `missing`, `row` and
`written` the handler's local variables of that meaning (`written` is `scoreIDMap`).

* Find-or-create is two actions (`FindSubject`/`CreateSubject`, and so on); the
  second of two creators hits the unique index and its request fails.
* `CountExamSubject` counts one subject, and drops an error as the code does;
  `CreateExamSubjects` inserts what was missing in one statement, or fails.
* `BatchCreateScores` inserts all scores or none; `BatchCreateItems` the question rows
  of every line of one sheet. No index keeps these apart: a student on two lines of a
  sheet has the rows of both.
* `UpdateFullScore` matches no row when the exam has gone, which is not an error;
  `InsertFullScore` writes the default for 0.
* `Abort` ends a request before any of its statements: an error, a cancelled context
  or a stopped process. What was committed stays.

A workbook is abstracted to its subject columns, its lines (name, class or a missing
class cell, the subjects with a mark) and how many lines with marks its detail sheets
have for each name. Marks themselves, the parsing of cells and warnings are left out.

### ScoreStats and Reports

A view is the part of the tables about one exam: full scores, who took what, who has
question rows. `Query` runs the query at the head of `todo[r]` and stores in `seen[r]`
those tables of the view that it reads; `FailQuery` makes it fail, which ends the
request, or gives an empty result where the code drops the error (`Ignored`). The
report of a request is then a function of `seen[r]`. Nothing ties the views of
different queries together: the store changes between them.

Averages, deviations, rates, difficulty and discrimination are in hundredths, rounded
as `ROUND(_, 2)` and `roundTo2Decimal` do, but from exact quotients instead of
floating-point ones. The mean of a class keeps its first rounding where the code
rounds twice (the grade row of a class summary). A subject has one question that holds
all its points.

The bounds of score segments are `float64`s in the code, and there it matters: where a
range ends (`min + Step`) and where the next begins (`Start + i * Step`) are computed
separately. A bound is an integer, a number of `Unit`-ths of a point; `Floats` is the set
of those that are `float64`s, and `Fl` rounds the result of an operation to a nearest one.
All whole numbers up to `Exact` are in it (2^53 for `float64`). The quotient from which
`Steps` takes the number of ranges is rounded to a whole number anyway, and not to a float
before. The query for the name of the exam is the last of each report, and is
answered with "unknown exam" when it has gone; other queries for names are left out.

### Lists

A request is `Count`, `Find` and what a page needs: one query for the students of all its
exams (`GetExamStudentCounts`, whose error counts nobody), or one query for the full
score of each subject (`GetSubjectFullScore`, whose error means 100). `Orders` are the
orders the database may give: exams by date, ties in any order, subjects in any. `Page`
cuts as `OFFSET` and `LIMIT` do, with the offset computed in 32 bits (`Half` is 8 in the
instance). `rows` is a history variable: the rows that matched when the request counted
and when it read its page. The code fills in no defaults, so that a request without page
parameters gets an empty page, although `api/seas/v1/analysis.proto:118-119` speaks of
page 1 and 20 rows.

### AIAnalysis and Segments

`server` is what `main` has reached; each step of the start may fail, which ends the
process, and the container starts it again. `Stop` cuts the calls off and forgets the
model. A call is `ServeHTTP` (refusals included), the actions of its report
(`Prompt`), `EnterOnce` and `MakeModel` or `TakeModel`, `Generate` and `Answer`. Calls
that find the model being made wait, as `sync.Once` has it. Making it fails without a
complete configuration, and may fail with one (`MakingFails`). The model says any of the
texts the instance lists, or fails.

In `Segments` a text is a sequence of words and marks, and `linkPattern` the regular
expression of the code on them: its groups take as little as they can, so that the first
mark that fits ends each. `NextLink` is where the pattern matches next, `Preceding` and
`Remaining` the text around the links. A word that is JSON is no mark and no blank
(`WordsAssumption`). Of a link the label is shown, the view is a route and the params are its
parameters. `LinksFound` and `WordsKept` say what is expected without using the pattern:
well-formed links are found exactly, and each label and each word outside a link is shown
once and in its place, as long as nothing that opens a link without having the form of one
is closed further on (`NothingSwallowed`); otherwise the pattern takes everything up to
there for one link (`OnlyLinksTaken`, below).

### LoginCode

`Tick` is two seconds. `login[c]` is what Redis has under code `c`; a user stands for
`success` with a token of that user. A stream has its timeout (`left`) and at most one
tick waiting (`due`); when both are ready, the `select` takes either. A callback is
`GetLoginCode`, `GetByOpenID`, `CreateUser` and `UpdateLoginCode`, each an action, and
every `SET` may happen with its answer lost. `answered[p]` is a history variable: the
users the code of page `p` was marked with since the page asked.

## Runs

| Run | Instance | Shows |
|---|---|---|
| `import_interleavings` | 3 requests out of 4 imports, 2 updates, 1 deletion on a public exam, and 8 on one that some of them create, by an owner, a stranger and anonymous users; 2 subjects, names, classes | types, integrity, scores linked, question rows of one import, scores all or none, truthful replies, full scores kept, only owners change an exam; the handlers implement `ExamStore` |
| `login` | 2 pages that share a code, 2 messages, 2 users, life of 2 ticks, fair | tokens of users who answered, users known, never expired too early, streams end, messages are replied to |
| `reports_sound` | one report request of eleven kinds; 3 students, 2 classes, 2 subjects, full scores 0 and 10; floats of five significant bits, in quarters | the eleven properties of reports |
| `lists` | 2 requests out of 9; 3 exams, two of one date, 2 subjects, 2 students | exams shown are visible, pages fit the count and each other, students counted once, full scores somebody gave |
| `ai` | 2 calls of eight kinds, short texts with every kind of broken link, one restart, fair | one model, links found, words kept, every call ends |
| `import_namesakes`, `login_late_success`, `reports_null`, `reports_difficulty`, `reports_grade_rank`, `reports_segments`, `ai_links` | the same instances, with fewer requests | the disagreements below |

The bounds. Two requests are enough for every race between a read and a write of the
store; the third lets a deletion or an update come between two imports. The four
workbooks overlap in a score, share a name between classes, list a student twice (on two
lines of the summary sheet, or of a detail sheet) or cut a line short. Two pages and one shared code give every reuse of a code, two
messages every double delivery; with a life of two ticks a code can expire before,
at and after a stream's end. Three students give ties within and between classes,
a class of one (no sample deviation), a student without a score, thresholds met
exactly and points on the borders of segments, whose steps divide them or not. Floats of
five bits in quarters have every whole number up to 32, as `float64`s have up to 2^53, and
round fractions from 8 on: segments by 5/4 show what those by 0.1 do in 53 bits. One
report request is enough because reports do not write. In `reports_sound` full scores
0 and 10, and students who have not taken a subject, give the divisions by zero.
Two list requests read two pages that follow on each other; three exams, one public,
give pages that are full, short and empty, and let an exam come before, between and
after others; 16 values for a page's number and size let the offset overflow. Two calls
race for the model and leave one to wait; one restart cuts off both. A
third call or list request would wait or read like the second; the theorems named below
cover any number.

### Fairness

`LoginCode`: time passes, a
callback runs to its end, and a `select` whose timeout stays ready takes it in the end,
as Go chooses at random among ready cases. Polls need no fairness and may fail each
time, no page has to ask and no user to answer. `AIAnalysis`: a handler and the model run to
their end (a cancelled or failed generation is an end), calls that arrive are served,
and a start that is tried again and again succeeds at last (`SF` on the migration and on
the connection to Redis: both are up in the end, and `docker-compose.yml` restarts the
process). `Stop` has no fairness and a bound on its number. `ExamImport`, `Reports` and
`Lists` state safety only.

## Proofs

All theorems are for any constants that satisfy the modules' assumptions (distinct
special values; a positive life; well-formed jobs and asks; queries that are not named like
subjects; texts of the model that are sequences, of words of which none that is JSON is a
mark or a blank). Those of the figures are: finitely many students and subjects, ids and points
that are integers, each student in one class, 0 no subject's id (it stands for all of
them), thresholds of integers, and floats among which are the whole numbers up to `Exact`
(`FloatsAssumption`). Points may be negative and larger than
the full score, full scores 0 or missing.

**ExamImport.** `IInv` (`ExamImportInv`) says of each request what its place in the
handler implies: it got there by a kind of job that leads there, with the check
passed (`Placed`); the subjects it has found stay (`SubjectsKept`); each subject it
has counted is linked or about to be, while the exam lives (`LinksKept`); the lines
behind it have class and student (`RowsKept`); its scores are all written or none, and
stay (`WritesKept`); sheets not stored yet have no rows (`ItemsKept`). To these it adds
that written sets of different requests are disjoint and cover the scores. None of the
properties is inductive alone: that a score's subject is linked needs `LinksKept` at
the moment of the insert, which needs what the loop before it has seen; that question
rows are those of one import needs that no two requests wrote one score. `IInvStep` shows each
conjunct for each action, with facts about frames (what one request does not
disturb of another) as lemmas. From `[]IInv` follow `TypeCorrect`, `NoOrphans`,
`AlwaysLinked`, `RowsOfOneImport`, `AllOrNothing`, `TruthfulReplies`, and the action
properties `OwnersOnly` and `FullScoresStay`. `Implements` maps every statement to a
step of `ExamStore` or to a stutter; the mapping is the identity on the shared tables
except that it keeps of the question rows whether there are any, and it is the invariant that enables the abstract step (scores are new and linked,
question rows are first ones).

**LoginCode.** `IInv` adds to the properties that the mark on a listening page's code
is newer than its request (`MarkedSince`), that a waiting code of one page does not
outlive its stream (`StreamOutlives`, the reason why two clocks do not disagree), and
that a callback knows its user before it marks (`CallsPlaced`). From it:
`TokensAnswered`, `UsersKnown`, `NeverTooEarly`; `TypeCorrect` adds that a code is in Redis
exactly while it has time left.

**ScoreStats** (the first section of `ReportFigures_proofs`). `SegmentTiled`: when start, end and step
are whole numbers (up to `Exact`), a segment's ranges hold each number, fractions
included, from its start up to but not including its end, exactly once. A whole number is
a float and is not rounded (`FlExact`), and all bounds up to the end are whole numbers
(`WholeExact`), so ranges meet; of steps that are fractions this is false
(`RangesMeet`). The number of ranges is `(end - start) / step` rounded, so the last may
be longer or shorter than a step; the lemmas bound it from both sides. How
segments follow on each other, and the last upper bound, is in `SegmentsHold` below.

**Reports.** The invariant says of each request that it has no query before it arrives
and only queries of its kind after, and that what it has seen, or may still see, is of
an exam that was public or its user's when it was checked, and since then has only kept
its owner or gone. `ReadByOwners` follows although the ownership is never read again:
exams never change hands, and ids are not used twice. `TypeCorrect` needs that the loops
over the subjects only add queries for subjects of the store. Four more
invariants (together with it `Told`) say what a report is made of: `Staged`, that what is
seen and what is left to do are the first and the last queries of its kind, so an answered
report has run them all; `StoreTyped` and `SeenTyped`, that the store and what was seen of
it are scores of students and full scores; and `Covered`, which follows the reports that
read the scores twice, ranks and single-subject summaries, through their queries
(`Places`): what the rows listed stays in the store as long as the exam is there, so the
later query finds it, and the query for the name comes last and does not find an exam that
has gone. From it `RowsAreCovered`.

**SumTheorems.** The figures are sums over students, classes or segments, by
`SumFunctionOnSet` of the community modules, which is a recursive function on sets.
`ElementInduction` is induction over a finite set, with the set of the subsets for which a
fact holds in place of a predicate (the provers take no operator as a parameter); it
follows from a finite set's subsets being well-founded. From it come the only facts the
other proofs use: a sum is an integer, monotone, linear (`SumPlus`, `SumTimes`,
`SumLinear`), and that of a union of disjoint parts is the sum of theirs (`SumParts`,
`CountParts`).

**The figures** (`ReportFigures_proofs`). `Told` gives what an answered report has seen;
the rest is about the definitions of `ScoreStats`, for any views.

* `RatingHolds`: a threshold that is higher counts a subset; a count of a part is at most
  the whole.
* `RanksHold` and `GradeCovers`: `Covered` makes the students of the rows a part of those
  of the later query; ranks are of disjoint sets, and so are classes.
* `DrillHolds`: the same for the drill-down: points in the figures are points in the ranks.
* `SegmentsHold`: `SegmentTiled` for each segment, and the order of the segments (`ChainedOrdered`),
  put every student's points into one range; the counts then add up (`CountParts`). It
  needs whole numbers, and positive steps, which `expandSegments` divides by.
* `CompareHolds`: the rounded averages are off by half a unit a head at most, so the
  weighted differences cancel up to one; ranks that count who is in front, in a strict
  order, are 1 to n.
* `ReportsDoAgree`: definition by definition, with the two roundings of a quotient and of a
  difference compared by `AveragesAgree` and `DifferencesAgree`.
* `GradeRowHolds`: the extremes of the classes' extremes; the average as above; and for the
  deviation, that of parts about their own means is not larger than about the common one
  (`SpreadsAddUp`, from `N * Q - S * S` being a sum of squares), and rounding each part's
  up by at most half a hundredth adds at most a hundredth to the whole (`RootsAddUp`).
  The extremes need points between 0 and 999, where the code starts looking for them
  (`internal/data/score.go:320-321`): were all totals above 999, as they can be in an exam
  of many subjects, the lowest would be shown as 999, and were all negative the highest as 0.

**Segments.** Both theorems are for texts of any length over any words, and neither is an
induction over a predicate, which the provers cannot instantiate: the set of the positions
where a fact fails has a least or a greatest number (`LeastNumber`), and that number
contradicts the facts beside it (`UpFrom`, `DownFrom`).

* Words, links and what is shown are all concatenations, one piece for each element of a
  sequence, so `FlattenConcat` (what a concatenation of two sequences flattens to) is the
  one fact about recursion that is needed; it gives `WordsConcat`, `ShownConcat` and
  `LinksConcat`.
* `Cut` is a function defined by recursion from a position to a later one, the end of the
  link found there; `CutExists` shows that there is such a function, so that its equation
  can be used, and `LinkGoesOn` that the position does go on.
* `LabelsAndTextShown`: from the last position back to the first, the words shown by what is
  cut from `p` on are those of the text from `p` on that are in no link's view or params
  (`CutShows`). `TrimWords` says that trimming loses blanks only. Where the pattern matches,
  something closes a link, so by the hypothesis what opens it has the form of one: its marks
  are the first that fit (`PatternAsked`), its label is shown and the rest of it is not
  (`FormShows`), and two of that form do not overlap (`FormApart`).
* `LinksAreFound`: in the same way, the links cut from `p` on are the links asked for from
  `p` on (`CutLinks`); nothing between two links is one.

**AIAnalysis.** On top of the invariant of the reports, `AIInvariance` says who is making
the model (exactly one call while `once` is "making"), that a model exists when `once` is
"done" without an error, and what each phase implies of the report below it.
`MadeOnce` and `AITypeCorrect` follow for any number of calls,
restarts and reports; `PromptsArePublic` combines both parts: a call is nobody's, so its
prompt is built from public exams. `LinksAlwaysFound` and `LabelsAndTextAlwaysShown` need only that
what a call got was said by the model (`SaidInv`), and the theorems of `Segments`.

**Lists.** The invariant keeps of a page that it is a part, without repetition, of the rows
its query saw (`PageOfRows`, for any number and size, overflows included), and that what
is shown belongs to its first `k` rows; exams on a page were visible and do not change
hands, subjects on a page keep their relation until the exam goes, scores only grow until
then. From it `TypeCorrect`, `OnlyVisible`, `CountedOnce` and `FullScoreThere`.
`PageCut` adds that a page is cut, at `(index - 1) * size`, out of an order of the rows
that were there. From it `PageFitsTotal`, for a page of any number and size, and
`PagesTileLists`, for the first two pages of any size: only a new exam can push another
from the first to the second, and only a deletion pull one forward.

Only model-checked: liveness (`StreamEnds`, `MessageReplied`, `AIAnswered`),
since the provers treat neither fairness nor `ENABLED`. Every invariant and action property
of a passing run, and the refinement, is a theorem.

## Where texts and code disagree

* `NamesakesAllowed`: names are supposed unique within a class
  (`internal/data/student.go:45`), but the name is also the unique student number.
* `SuccessNotExpired`: the user is told that the login succeeded, while the page whose
  code she marked in the last two seconds says that it expired.
* `NoNullToStdDev`: `pkg/gorm/funcs.go:30` relies on queries without NULL; the class
  summary of one subject hands NULL to `STDDEV_POP` when a student lacks a score.
* `GradeDifficultyBetween`: the grade row of that summary divides by the full score of
  the whole exam, the class rows by that of the subject.
* `GradeRankOfGrade`: the "grade rank" in the details of a question for one class is
  the rank in the class.
* `RangesMeet`: score segments are cut with a whole number of steps to deal with the
  precision of floating-point numbers (`internal/data/score.go:813`), but a range ends at
  `min + Step` and the next begins at `Start + (i+1) * Step`. Of 0 to 1 by 0.1 one ends at
  0.6 and the next begins at 0.6000000000000001: a mark of 0.6 is in neither. Of 0 to 100 by
  1.1 a mark of 44 is in two ranges and one of 99 in none.
* `OnlyLinksTaken`: a link is `[[label|view|{params}]]` (`internal/server/ai_analysis.go:23`,
  `README.md:40`), but the parts of the pattern match anything: after `[[w3|v1]]`, which is
  no link, everything up to the end of the next link becomes the view of one, and neither
  the text between them nor the label of the next is shown.

Seen while modelling and not checked by a run: the prompts for questions multiply a rate
that is a percentage (`api/seas/v1/analysis.proto:510`) by 100 before they print it with a
percent sign (`internal/server/ai_analysis.go:361, 389, 419`); a student on two lines of a
detail sheet has the question rows of both and counts twice in the reports on questions; `README.md:14` says that deleting an exam
deletes its students, and `examRepo.Delete` does not touch them; the prompts ask the
model for links with params that do not suffice for their view (the class summary asks
for links to `single-class-summary` with a class, where a subject is required); the
interpretation of a private exam is refused to its owner too, as calls are nobody's; an
expired token is not refused; `scope` is only copied to the reply; a full score of 0 is stored as
100 when it is inserted and as 0 when it is updated; `CreateExamSubjects` ("already
there: skipped") fails when the relation is made between its count and its insert;
an import cut off between scores and question rows cannot be completed by importing
again, since the scores then conflict; reports that count before they read can show
rates above 100 % while an import commits; the difficulty of the class drill-down is a
fraction where all other reports have a percentage; the deviation of the grade in the
class summary is that within the classes, not that of all students.

## Not modelled, and why

The signature of the callback: a message has its user. Names, dates, labels, warnings,
reply texts and the wording of prompts: no property is about them. Floating point, but for
the bounds of segments: figures are exact quotients, rounded where the code rounds. The
rate of each student in the details of a question, which divides by the full score of the
import the row came with. Several questions in a subject and the order of their numbers: a subject has one
question. Codecs, descriptors, clients and the gRPC half of the generated code: no client
is in `src`, and `newApp` starts the HTTP server only. Logging, metrics and tracing do not touch the state. SQLite,
GORM, Redis and the chat model are as the code uses them: atomic statements, unique
indexes, foreign keys, `SET` with an expiration, a call that answers or fails.

## Plan

1. (done) `ExamStore`, `ExamImport` with its runs; invariant, then proofs and refinement.
2. (done) `LoginCode` with runs and proofs.
3. (done) `ScoreStats`, `Reports`: all eleven reports with their torn reads.
4. (done) `Api`, `Service`, `ImportService`: requests to messages to jobs and asks.
5. (done) `Segments`, `AIAnalysis`: calls over `Reports`, start-up and restarts; proofs.
6. (done) `Lists` with runs and proofs; the invariant of `Reports`.
7. Questions: several questions per subject, the order of question numbers
   (`questionNumberLess` is not transitive for mixed labels), full scores of questions
   from several sheets, `MAX(full_score)` against `MAX(score)`, students on several lines
   of a detail sheet.
8. (done) `RowsAreCovered`, and the same for the class drill-down (`DrillHolds`).
9. (done) The figures of the reports and the arithmetic of pages as theorems.
10. (done) The segments of an answer: `LinksFollowed` and `SegmentsKeep` for any text.
11. (done) Segments of floats; what malformed links hide.
