---------------------------- MODULE Lists_proofs ----------------------------
(* Proofs about Lists, for any store, any number of requests and any pages.   *)
EXTENDS Lists, FiniteSetTheorems, SequenceTheorems, TLAPS

-----------------------------------------------------------------------------
(* A page holds rows of its list *)

LEMMA RowsFinite == ASSUME NEW a \in Asks PROVE IsFiniteSet(RowsOf(a))
<1>1. IsFiniteSet(Visible(a))
  BY FS_Subset, ListsAssumption DEF Visible
<1>2. IsFiniteSet(Linked(a.exam))
  BY FS_Subset, ListsAssumption DEF Linked
<1> QED
  BY <1>1, <1>2 DEF RowsOf

LEMMA OrderOfRows ==
  ASSUME NEW a \in Asks, NEW o \in Orders(a, RowsOf(a))
  PROVE  o \in Seq(RowsOf(a))
<1>1. Cardinality(RowsOf(a)) \in Nat
  BY RowsFinite, FS_CardinalityType
<1>2. o \in [1 .. Cardinality(RowsOf(a)) -> RowsOf(a)]
  BY DEF Orders, SetToSeqs
<1> QED
  BY <1>1, <1>2

LEMMA MaxMin ==
  ASSUME NEW x \in Int, NEW y \in Int
  PROVE  /\ Max({x, y}) \in {x, y} /\ Max({x, y}) >= x
         /\ Min({x, y}) \in {x, y} /\ Min({x, y}) <= x
<1>1. \E m \in {x, y} : \A z \in {x, y} : m >= z
  OBVIOUS
<1>2. \E m \in {x, y} : \A z \in {x, y} : m =< z
  OBVIOUS
<1>3. Max({x, y}) \in {x, y} /\ \A z \in {x, y} : Max({x, y}) >= z
  BY <1>1 DEF Max
<1>4. Min({x, y}) \in {x, y} /\ \A z \in {x, y} : Min({x, y}) =< z
  BY <1>2 DEF Min
<1> QED
  BY <1>3, <1>4

\* A page is a part of the rows, in their order.
LEMMA PageIsPart ==
  ASSUME NEW a \in Asks, NEW R, NEW o \in Seq(R)
  PROVE  \E m \in Nat \ {0}, n \in Int : n <= Len(o) /\ Page(a, o) = SubSeq(o, m, n)
<1> DEFINE first == Max({0, Offset(a)}) + 1
           limit == first - 1 + a.size
           last == IF a.size < 0 THEN Len(o) ELSE Min({Len(o), limit})
<1>1. a.index \in Int /\ a.size \in Int /\ Half \in Nat \ {0}
  BY ListsAssumption DEF Int32
<1>2. Offset(a) \in Int
  <2>1. (a.index - 1) * a.size \in Int
    BY <1>1
  <2>2. \A n \in Int : Wrapped(n) \in Int
    BY <1>1 DEF Wrapped
  <2> QED
    BY <2>1, <2>2 DEF Offset
<1>3. first \in Nat \ {0}
  <2>1. \A z \in Int : Max({0, z}) \in Nat
    BY MaxMin
  <2> QED
    BY <1>2, <2>1
<1>4. last \in Int /\ last <= Len(o)
  <2> HIDE DEF first
  <2>1. Len(o) \in Int /\ limit \in Int
    BY <1>1, <1>3, LenProperties
  <2> HIDE DEF limit
  <2>2. Min({Len(o), limit}) \in {Len(o), limit} /\ Min({Len(o), limit}) <= Len(o)
    BY <2>1, MaxMin
  <2> QED
    BY <2>1, <2>2
<1>5. Page(a, o) = SubSeq(o, first, last)
  BY Zenon DEF Page
<1> QED
  BY <1>3, <1>4, <1>5

LEMMA PageOfRows ==
  ASSUME NEW a \in Asks, NEW o \in Orders(a, RowsOf(a))
  PROVE  Page(a, o) \in Seq(RowsOf(a)) /\ IsInjective(Page(a, o))
<1> DEFINE R == RowsOf(a)
<1>1. o \in Seq(R) /\ \A i, j \in DOMAIN o : i # j => o[i] # o[j]
  BY OrderOfRows DEF Orders, SetToSeqs
<1> HIDE DEF R
<1>2. PICK m \in Nat \ {0}, n \in Int : n <= Len(o) /\ Page(a, o) = SubSeq(o, m, n)
  BY <1>1, PageIsPart
<1>3. \A i \in m .. n : i \in DOMAIN o /\ o[i] \in R
  BY <1>1, <1>2, ElementOfSeq, LenProperties
<1>4. /\ SubSeq(o, m, n) \in Seq(R)
      /\ Len(SubSeq(o, m, n)) = IF m <= n THEN n - m + 1 ELSE 0
      /\ \A i \in 1 .. n - m + 1 : SubSeq(o, m, n)[i] = o[m + i - 1]
  <2>1. m \in Int /\ n \in Int /\ \A i \in m .. n : o[i] \in R
    BY <1>3
  <2> QED
    BY <2>1, SubSeqProperties
<1>5. DOMAIN SubSeq(o, m, n) = 1 .. Len(SubSeq(o, m, n))
  BY <1>4, LenProperties
<1>6. ASSUME NEW i \in DOMAIN SubSeq(o, m, n), NEW j \in DOMAIN SubSeq(o, m, n),
             SubSeq(o, m, n)[i] = SubSeq(o, m, n)[j]
      PROVE  i = j
  <2>1. i \in 1 .. n - m + 1 /\ j \in 1 .. n - m + 1
    BY <1>4, <1>5, <1>6
  <2>2. o[m + i - 1] = o[m + j - 1] /\ m + i - 1 \in m .. n /\ m + j - 1 \in m .. n
    BY <1>4, <1>6, <2>1
  <2>3. m + i - 1 = m + j - 1
    BY <1>1, <1>3, <2>2
  <2> QED
    BY <2>1, <2>3
<1> QED
  BY <1>2, <1>4, <1>6 DEF R, IsInjective

\* The first k rows of a page are k.
LEMMA CountFirst ==
  ASSUME NEW S, NEW p \in Seq(S), IsInjective(p), NEW k \in 0 .. Len(p)
  PROVE  Cardinality({p[i] : i \in 1 .. k}) = k
<1>1. DOMAIN p = 1 .. Len(p) /\ Len(p) \in Nat
  BY LenProperties
<1> DEFINE f == [i \in 1 .. k |-> p[i]]
           T == {p[i] : i \in 1 .. k}
<1>2. f \in Bijection(1 .. k, T)
  BY <1>1 DEF IsInjective, Bijection, Injection, Surjection
<1>3. ExistsBijection(1 .. k, T)
  BY <1>2 DEF ExistsBijection
<1>4. IsFiniteSet(1 .. k) /\ Cardinality(1 .. k) = k
  BY FS_Interval
<1> QED
  BY <1>3, <1>4, FS_Bijection

-----------------------------------------------------------------------------
(* The store *)

StoreInv ==
  /\ DOMAIN exams = Exams
  /\ examSubjects \in [Exams \X Subjects -> FullScores \cup {None}]
  /\ scores \subseteq Store!Score

\* What a write may do to an exam that does not go with it.
LEMMA WriteKeeps ==
  ASSUME StoreInv, Write
  PROVE  /\ StoreInv' /\ UNCHANGED request
         /\ \A e \in Exams : exams'[e] # exams[e] => exams[e] = Unborn \/ exams'[e] = Gone
         /\ \A e \in Exams : exams'[e] # Gone =>
              /\ exams[e] # Gone
              /\ {k \in scores : k.exam = e} \subseteq {k \in scores' : k.exam = e}
              /\ \A s \in Subjects : examSubjects[<<e, s>>] \in FullScores => examSubjects'[<<e, s>>] \in FullScores
<1> USE DEF StoreInv
<1>1. UNCHANGED request
  BY DEF Write
<1> DEFINE Keeps ==
      /\ StoreInv'
      /\ \A e \in Exams : exams'[e] # exams[e] => exams[e] = Unborn \/ exams'[e] = Gone
      /\ \A e \in Exams : exams'[e] # Gone =>
           /\ exams[e] # Gone
           /\ {k \in scores : k.exam = e} \subseteq {k \in scores' : k.exam = e}
           /\ \A s \in Subjects : examSubjects[<<e, s>>] \in FullScores => examSubjects'[<<e, s>>] \in FullScores
<1>2. ASSUME NEW e \in Exams, Store!Create(e) PROVE Keeps
  BY <1>2, ListsAssumption DEF Store!Create
<1>3. ASSUME NEW e \in Exams, Store!Delete(e) PROVE Keeps
  BY <1>3, ListsAssumption DEF Store!Delete
<1>4. ASSUME NEW e \in Exams, Store!LinkSubjects(e) PROVE Keeps
  BY <1>4, ListsAssumption DEF Store!LinkSubjects
<1>5. ASSUME NEW e \in Exams, Store!SetFullScore(e) PROVE Keeps
  BY <1>5, ListsAssumption DEF Store!SetFullScore
<1>6. ASSUME NEW e \in Exams, NEW K, Store!RecordScores(e, K) PROVE Keeps
  BY <1>6, ListsAssumption DEF Store!RecordScores
<1>7. Keeps
  BY <1>2, <1>3, <1>4, <1>5, <1>6, ListsAssumption DEF Write
<1> QED
  BY <1>1, <1>7
-----------------------------------------------------------------------------
(* The requests *)

Placed ==
  /\ ask \in [Requests -> Asks]
  /\ state \in [Requests -> {"count", "page", "rest", "answered", "failed"}]
  /\ total \in [Requests -> Nat]
  /\ page = [r \in Requests |-> page[r]] /\ shown = [r \in Requests |-> shown[r]]
  /\ rows = [r \in Requests |-> rows[r]]

\* The rows a page was cut from.
Cut(r) == rows[r][2]

\* What is shown so far: nothing before the page, then of the first k rows.
OrderedAt(r) ==
  /\ state[r] \in {"count", "page", "failed"} => page[r] = <<>> /\ shown[r] = <<>>
  /\ HasPage(r) => /\ page[r] \in Seq(Cut(r)) /\ IsInjective(page[r])
                   /\ DOMAIN shown[r] \subseteq ToSet(page[r])
  /\ state[r] = "rest" => \E k \in 0 .. Len(page[r]) - 1 : DOMAIN shown[r] = {page[r][i] : i \in 1 .. k}

Ordered == \A r \in Requests : OrderedAt(r)

\* An exam that is listed may be seen, as long as it is there.
ExamsListed ==
  \A r \in Requests : ask[r].kind = "exams" => \A e \in ToSet(page[r]) :
    /\ e \in Exams /\ exams[e] \in {Nobody, ask[r].user, Gone}
    /\ ask[r].keyword # Unset => e \in Named[ask[r].keyword]

\* A subject that is listed is one of the exam, as long as that is there.
SubjectsListed ==
  \A r \in Requests : ask[r].kind = "subjects" => \A s \in ToSet(page[r]) :
    s \in Subjects /\ (exams[ask[r].exam] # Gone => examSubjects[<<ask[r].exam, s>>] \in FullScores)

CountsTyped ==
  \A r \in Requests : ask[r].kind = "exams" => \A e \in DOMAIN shown[r] : e \in Exams /\ shown[r][e] \in Nat

ListsInv == StoreInv /\ Placed /\ Ordered /\ ExamsListed /\ SubjectsListed
            /\ CountsTyped /\ StudentsOnce /\ FullScoreShown

LEMMA OrderKept ==
  ASSUME NEW r, OrderedAt(r),
         state'[r] = state[r], page'[r] = page[r], shown'[r] = shown[r], rows'[r] = rows[r]
  PROVE  OrderedAt(r)'
<1> SUFFICES
      /\ state'[r] \in {"count", "page", "failed"} => page'[r] = <<>> /\ shown'[r] = <<>>
      /\ HasPage(r)' => /\ page'[r] \in Seq(Cut(r)') /\ IsInjective(page'[r])
                        /\ DOMAIN shown'[r] \subseteq ToSet(page'[r])
      /\ state'[r] = "rest" => \E k \in 0 .. Len(page'[r]) - 1 : DOMAIN shown'[r] = {page'[r][i] : i \in 1 .. k}
  BY Zenon DEF OrderedAt
<1>1. HasPage(r)' = HasPage(r) /\ Cut(r)' = Cut(r)
  BY DEF HasPage, Cut
<1>2. HasPage(r)' => /\ page'[r] \in Seq(Cut(r)') /\ IsInjective(page'[r])
                    /\ DOMAIN shown'[r] \subseteq ToSet(page'[r])
  BY <1>1, Zenon DEF OrderedAt
<1>3. state'[r] = "rest" => \E k \in 0 .. Len(page'[r]) - 1 : DOMAIN shown'[r] = {page'[r][i] : i \in 1 .. k}
  BY DEF OrderedAt
<1>4. state'[r] \in {"count", "page", "failed"} => page'[r] = <<>> /\ shown'[r] = <<>>
  BY DEF OrderedAt
<1> QED
  BY <1>2, <1>3, <1>4

LEMMA ListedKept ==
  ASSUME ExamsListed, SubjectsListed,
         exams' = exams, examSubjects' = examSubjects, ask' = ask, page' = page
  PROVE  ExamsListed' /\ SubjectsListed'
BY Zenon DEF ExamsListed, SubjectsListed

LEMMA ShownKept ==
  ASSUME CountsTyped, StudentsOnce, FullScoreShown,
         exams' = exams, scores' = scores, ask' = ask, shown' = shown
  PROVE  CountsTyped' /\ StudentsOnce' /\ FullScoreShown'
<1>1. CountsTyped'
  BY DEF CountsTyped
<1>2. StudentsOnce'
  BY DEF StudentsOnce
<1>3. FullScoreShown'
  BY DEF FullScoreShown
<1> QED
  BY <1>1, <1>2, <1>3

LEMMA ListsInit == Init => ListsInv
<1> SUFFICES ASSUME Init PROVE ListsInv
  OBVIOUS
<1> USE DEF Init
<1>1. StoreInv
  BY DEF Store!Init, StoreInv
<1>2. Placed /\ Ordered
  BY DEF Placed, Ordered, OrderedAt, HasPage
<1>3. \A r \in Requests : ToSet(page[r]) = {} /\ DOMAIN shown[r] = {}
  BY DEF ToSet
<1>4. ExamsListed /\ SubjectsListed /\ CountsTyped /\ StudentsOnce /\ FullScoreShown
  BY <1>3 DEF ExamsListed, SubjectsListed, CountsTyped, StudentsOnce, FullScoreShown
<1> QED
  BY <1>1, <1>2, <1>4 DEF ListsInv

\* The students of an exam.
Took(e) == {st \in Students : \E k \in scores : k.exam = e /\ k.student = st}

LEMMA TookFinite ==
  ASSUME NEW T \in SUBSET Students
  PROVE  IsFiniteSet(T) /\ Cardinality(T) \in Nat /\ \A U \in SUBSET T : Cardinality(U) <= Cardinality(T)
<1>1. IsFiniteSet(T)
  BY FS_Subset, ListsAssumption
<1> QED
  BY <1>1, FS_Subset, FS_CardinalityType

LEMMA WriteStep == ASSUME ListsInv, Write PROVE ListsInv'
<1> USE DEF ListsInv
<1>1. StoreInv' /\ UNCHANGED <<ask, state, total, page, shown, rows>>
  BY WriteKeeps DEF request
<1>2. Placed' /\ Ordered' /\ CountsTyped'
  <2>1. Placed'
    BY <1>1 DEF Placed
  <2>2. Ordered'
    BY <1>1, OrderKept DEF Ordered
  <2>3. CountsTyped'
    BY <1>1, Zenon DEF CountsTyped
  <2> QED
    BY <2>1, <2>2, <2>3
<1>3. ExamsListed'
  <2> SUFFICES ASSUME NEW r \in Requests, ask[r].kind = "exams", NEW e \in ToSet(page[r])
               PROVE  /\ e \in Exams /\ exams'[e] \in {Nobody, ask[r].user, Gone}
                      /\ ask[r].keyword # Unset => e \in Named[ask[r].keyword]
    BY <1>1 DEF ExamsListed
  <2>1. /\ e \in Exams /\ exams[e] \in {Nobody, ask[r].user, Gone}
        /\ ask[r].keyword # Unset => e \in Named[ask[r].keyword]
    BY DEF ExamsListed
  <2>2. ask[r].user \in Users \cup {Nobody}
    BY ListsAssumption DEF Placed
  <2>3. exams[e] # Unborn
    BY <2>1, <2>2, ListsAssumption
  <2>4. exams'[e] = exams[e] \/ exams'[e] = Gone
    BY <2>1, <2>3, WriteKeeps
  <2> QED
    BY <2>1, <2>4
<1>4. SubjectsListed' /\ FullScoreShown'
  <2>1. \A r \in Requests : ask[r].kind = "subjects" => ask[r].exam \in Exams
    BY ListsAssumption DEF Placed
  <2> QED
    BY <1>1, <2>1, WriteKeeps DEF SubjectsListed, FullScoreShown
<1>5. StudentsOnce'
  <2> SUFFICES ASSUME NEW r \in Requests, ask[r].kind = "exams", NEW e \in DOMAIN shown[r], exams'[e] # Gone
               PROVE  shown[r][e] <= Cardinality(Took(e)')
    BY <1>1 DEF StudentsOnce, Took
  <2>1. e \in Exams /\ shown[r][e] \in Nat
    BY DEF CountsTyped
  <2>2. exams[e] # Gone /\ Took(e) \subseteq Took(e)'
    BY <2>1, WriteKeeps DEF Took
  <2>3. shown[r][e] <= Cardinality(Took(e))
    BY <2>2 DEF StudentsOnce, Took
  <2>4. Took(e) \subseteq Students /\ Took(e)' \subseteq Students
    BY DEF Took
  <2>5. Cardinality(Took(e)) <= Cardinality(Took(e)') /\ Cardinality(Took(e)) \in Nat /\ Cardinality(Took(e)') \in Nat
    BY <2>2, <2>4, TookFinite
  <2> QED
    BY <2>1, <2>3, <2>5
<1> QED
  BY <1>1, <1>2, <1>3, <1>4, <1>5

-----------------------------------------------------------------------------
(* The statements of a request *)

\* What a request does to others and to the store: nothing.
LEMMA CountStep ==
  ASSUME ListsInv, NEW r \in Requests, Count(r) PROVE ListsInv'
<1> USE DEF ListsInv, Count
<1>1. UNCHANGED <<exams, examSubjects, scores, ask, page, shown>>
  BY DEF tables
<1>2. StoreInv' /\ ExamsListed' /\ SubjectsListed' /\ CountsTyped' /\ StudentsOnce' /\ FullScoreShown'
  <2>1. StoreInv'
    BY <1>1 DEF StoreInv
  <2>2. ExamsListed' /\ SubjectsListed'
    BY <1>1, ListedKept
  <2>3. CountsTyped' /\ StudentsOnce' /\ FullScoreShown'
    BY <1>1, ShownKept
  <2> QED
    BY <2>1, <2>2, <2>3
<1>3. Placed'
  <2>1. Cardinality(RowsOf(ask[r])) \in Nat
    BY RowsFinite, FS_CardinalityType DEF Placed
  <2> QED
    BY <1>1, <2>1 DEF Placed
<1>4. Ordered'
  <2>1. state'[r] = "page" /\ rows'[r] = <<RowsOf(ask[r])>> /\ page'[r] = <<>> /\ shown'[r] = <<>>
    BY <1>1 DEF Placed, Ordered, OrderedAt
  <2>2. \A q \in Requests \ {r} : state'[q] = state[q] /\ rows'[q] = rows[q]
    BY DEF Placed
  <2>3. OrderedAt(r)'
    BY <2>1 DEF OrderedAt, HasPage
  <2> QED
    BY <1>1, <2>2, <2>3, OrderKept DEF Ordered
<1> QED
  BY <1>2, <1>3, <1>4

LEMMA FailStep ==
  ASSUME ListsInv, NEW r \in Requests, Fail(r) PROVE ListsInv'
<1> USE DEF ListsInv, Fail
<1>1. UNCHANGED <<exams, examSubjects, scores, ask, total, page, shown, rows>>
  BY DEF tables
<1>2. StoreInv' /\ Placed'
  BY <1>1 DEF StoreInv, Placed
<1>3. ExamsListed' /\ SubjectsListed' /\ CountsTyped' /\ StudentsOnce' /\ FullScoreShown'
  BY <1>1, ListedKept, ShownKept
<1>4. Ordered'
  <2>1. state'[r] = "failed" /\ page'[r] = <<>> /\ shown'[r] = <<>>
    BY <1>1 DEF Placed, Ordered, OrderedAt
  <2>2. \A q \in Requests \ {r} : state'[q] = state[q]
    BY DEF Placed
  <2>3. OrderedAt(r)'
    BY <2>1 DEF OrderedAt, HasPage
  <2> QED
    BY <1>1, <2>2, <2>3, OrderKept DEF Ordered
<1> QED
  BY <1>2, <1>3, <1>4

LEMMA FindStep ==
  ASSUME ListsInv, NEW r \in Requests, Find(r) PROVE ListsInv'
<1> USE DEF ListsInv
<1> DEFINE a == ask[r]
           R == RowsOf(a)
<1>1. UNCHANGED <<exams, examSubjects, scores, ask, total, shown>> /\ a \in Asks
  BY DEF Find, tables, Placed
<1>2. PICK o \in Orders(a, R) : page' = [page EXCEPT ![r] = Page(a, o)]
  BY DEF Find
<1>3. /\ page'[r] = Page(a, o) /\ shown'[r] = <<>>
      /\ rows'[r] = <<rows[r][1], R>>
      /\ state'[r] \in {"answered", "rest"} /\ (state'[r] = "rest" => page'[r] # <<>>)
  <2>1. page'[r] = Page(a, o)
    BY <1>2 DEF Placed
  <2>2. shown'[r] = <<>>
    BY <1>1 DEF Find, Ordered, OrderedAt
  <2>3. rows'[r] = <<rows[r][1], R>>
    BY DEF Find, Placed
  <2>4. state'[r] = IF page'[r] = <<>> THEN "answered" ELSE "rest"
    BY Zenon DEF Find, Placed
  <2> HIDE DEF R, a
  <2> QED
    BY <2>1, <2>2, <2>3, <2>4
<1>4. \A q \in Requests \ {r} : state'[q] = state[q] /\ rows'[q] = rows[q] /\ page'[q] = page[q]
  BY <1>2 DEF Find, Placed
<1>5. page'[r] \in Seq(R) /\ IsInjective(page'[r])
  BY <1>1, <1>3, PageOfRows
<1>6. ToSet(page'[r]) \subseteq R
  BY <1>5, LenProperties DEF ToSet
<1>7. StoreInv' /\ Placed'
  <2>1. StoreInv'
    BY <1>1 DEF StoreInv
  <2>2. Placed'
    BY <1>1, <1>2 DEF Placed, Find
  <2> QED
    BY <2>1, <2>2
<1>8. Ordered'
  <2>1. Cut(r)' = R /\ DOMAIN shown'[r] = {}
    BY <1>3 DEF Cut
  <2>2. state'[r] = "rest" => 0 \in 0 .. Len(page'[r]) - 1 /\ {page'[r][i] : i \in 1 .. 0} = {}
    BY <1>3, <1>5, LenProperties, EmptySeq
  <2>3. /\ state'[r] \notin {"count", "page", "failed"}
        /\ page'[r] \in Seq(Cut(r)') /\ DOMAIN shown'[r] \subseteq ToSet(page'[r])
    BY <1>3, <1>5, <2>1
  <2>4. OrderedAt(r)'
    BY <1>3, <1>5, <2>1, <2>2, <2>3 DEF OrderedAt, HasPage
  <2> QED
    BY <1>1, <1>4, <2>4, OrderKept DEF Ordered
<1>9. ExamsListed'
  <2>1. ASSUME a.kind = "exams", NEW e \in R
        PROVE  /\ e \in Exams /\ exams[e] \in {Nobody, a.user}
               /\ a.keyword # Unset => e \in Named[a.keyword]
    BY <2>1 DEF RowsOf, Visible
  <2> QED
    BY <1>1, <1>4, <1>6, <2>1 DEF ExamsListed
<1>10. SubjectsListed'
  <2>1. ASSUME a.kind = "subjects", NEW s \in R
        PROVE  s \in Subjects /\ examSubjects[<<a.exam, s>>] \in FullScores
    <3>1. s \in Subjects /\ examSubjects[<<a.exam, s>>] # None
      BY <2>1 DEF RowsOf, Linked
    <3>2. a.exam \in Exams
      BY <1>1, <2>1, ListsAssumption
    <3> QED
      BY <3>1, <3>2 DEF StoreInv
  <2> QED
    BY <1>1, <1>4, <1>6, <2>1 DEF SubjectsListed
<1>11. CountsTyped' /\ StudentsOnce' /\ FullScoreShown'
  BY <1>1, ShownKept
<1> QED
  BY <1>7, <1>8, <1>9, <1>10, <1>11

\* The students of an exam are those of its scores.
LEMMA CountedStudents ==
  ASSUME StoreInv, NEW e \in Exams PROVE StudentCount(e) = Cardinality(Took(e))
<1>1. scores \subseteq [exam : Exams, student : Students, subject : Subjects]
  BY DEF StoreInv, Store!Score
<1>2. {k.student : k \in {j \in scores : j.exam = e}} = Took(e)
  BY <1>1 DEF Took
<1> QED
  BY <1>2 DEF StudentCount

LEMMA StudentsStep ==
  ASSUME ListsInv, NEW r \in Requests, GetExamStudentCounts(r) PROVE ListsInv'
<1> USE DEF ListsInv
<1>1. UNCHANGED <<exams, examSubjects, scores, ask, total, page, rows>>
  BY DEF GetExamStudentCounts, tables
<1>2. ask[r].kind = "exams" /\ state[r] = "rest"
  BY DEF GetExamStudentCounts
<1>3. \A e \in ToSet(page[r]) : e \in Exams
  BY <1>2 DEF ExamsListed
<1>4. \A e \in ToSet(page[r]) : StudentCount(e) = Cardinality(Took(e)) /\ Cardinality(Took(e)) \in Nat
  <2>1. \A e : Took(e) \subseteq Students
    BY DEF Took
  <2> QED
    BY <1>3, <2>1, CountedStudents, TookFinite
<1>5. /\ DOMAIN shown'[r] = ToSet(page[r])
      /\ \A e \in ToSet(page[r]) : shown'[r][e] \in {Cardinality(Took(e)), 0}
  BY <1>4 DEF GetExamStudentCounts, Placed
<1>6. state'[r] = "answered" /\ \A q \in Requests \ {r} : state'[q] = state[q] /\ shown'[q] = shown[q]
  BY DEF GetExamStudentCounts, Placed
<1>7. StoreInv' /\ Placed'
  BY <1>1 DEF StoreInv, Placed, GetExamStudentCounts
<1>8. ExamsListed' /\ SubjectsListed'
  BY <1>1, ListedKept
<1>9. Ordered'
  <2>1. page[r] \in Seq(Cut(r)) /\ IsInjective(page[r])
    BY <1>2 DEF Ordered, OrderedAt, HasPage
  <2>2. OrderedAt(r)'
    BY <1>1, <1>5, <1>6, <2>1 DEF OrderedAt, HasPage, Cut
  <2> QED
    BY <1>1, <1>6, <2>2, OrderKept DEF Ordered
<1>10. CountsTyped'
  BY <1>1, <1>3, <1>4, <1>5, <1>6 DEF CountsTyped
<1>11. StudentsOnce'
  <2>1. \A e \in DOMAIN shown'[r] : shown'[r][e] <= Cardinality(Took(e))
    BY <1>4, <1>5
  <2>2. \A e : Took(e)' = Took(e)
    BY <1>1 DEF Took
  <2> QED
    BY <1>1, <1>6, <2>1, <2>2 DEF StudentsOnce, Took
<1>12. FullScoreShown'
  BY <1>1, <1>2, <1>6 DEF FullScoreShown
<1> QED
  BY <1>7, <1>8, <1>9, <1>10, <1>11, <1>12

LEMMA FullScoreStep ==
  ASSUME ListsInv, NEW r \in Requests, GetSubjectFullScore(r) PROVE ListsInv'
<1> USE DEF ListsInv
<1> DEFINE p == page[r]
           done == shown[r]
           e == ask[r].exam
<1>1. UNCHANGED <<exams, examSubjects, scores, ask, total, page, rows>>
  BY DEF GetSubjectFullScore, tables
<1>2. ask[r].kind = "subjects" /\ state[r] = "rest"
  BY DEF GetSubjectFullScore
<1>3. p \in Seq(Cut(r)) /\ IsInjective(p) /\ DOMAIN done \subseteq ToSet(p)
  BY <1>2 DEF Ordered, OrderedAt, HasPage
<1>4. Len(p) \in Nat /\ DOMAIN p = 1 .. Len(p)
  BY <1>3, LenProperties
<1>5. PICK k \in 0 .. Len(p) - 1 : DOMAIN done = {p[i] : i \in 1 .. k}
  BY <1>2 DEF Ordered, OrderedAt
<1> DEFINE s == p[k + 1]
<1>6. Cardinality(DOMAIN done) = k
  <2>1. k \in 0 .. Len(p)
    BY <1>4, <1>5
  <2> QED
    BY <1>3, <1>5, <2>1, CountFirst
<1>7. k + 1 \in DOMAIN p /\ s \in ToSet(p)
  BY <1>4, <1>5 DEF ToSet
<1>8. PICK v \in {FullScore(e, s), 100} :
        shown' = [shown EXCEPT ![r] = [t \in DOMAIN done \cup {s} |-> IF t = s THEN v ELSE done[t]]]
  BY <1>6, Zenon DEF GetSubjectFullScore
<1>9. /\ DOMAIN shown'[r] = DOMAIN done \cup {s}
      /\ \A t \in DOMAIN shown'[r] : shown'[r][t] = IF t = s THEN v ELSE done[t]
      /\ \A q \in Requests \ {r} : shown'[q] = shown[q]
  BY <1>8 DEF Placed
<1>10. /\ state'[r] = IF s = Last(p) THEN "answered" ELSE "rest"
       /\ \A q \in Requests \ {r} : state'[q] = state[q]
  BY <1>6 DEF GetSubjectFullScore, Placed
<1> HIDE DEF s
<1>11. StoreInv' /\ Placed'
  <2>1. StoreInv'
    BY <1>1 DEF StoreInv
  <2>2. state' \in [Requests -> {"count", "page", "rest", "answered", "failed"}]
    BY DEF GetSubjectFullScore, Placed
  <2>3. shown' = [q \in Requests |-> shown'[q]]
    BY <1>8 DEF Placed
  <2> QED
    BY <1>1, <2>1, <2>2, <2>3 DEF Placed
<1>12. ExamsListed' /\ SubjectsListed'
  BY <1>1, ListedKept
<1>13. Ordered'
  <2>1. DOMAIN shown'[r] = {p[i] : i \in 1 .. k + 1}
    BY <1>5, <1>9 DEF s
  <2>2. DOMAIN shown'[r] \subseteq ToSet(p)
    BY <1>3, <1>7, <1>9
  <2>3. state'[r] = "rest" => k + 1 \in 0 .. Len(p) - 1
    <3>1. Last(p) = p[Len(p)]
      BY DEF Last
    <3>2. state'[r] = "rest" => k + 1 # Len(p)
      BY <1>10, <3>1 DEF s
    <3> QED
      BY <1>4, <1>5, <3>2
  <2>4. state'[r] \in {"rest", "answered"}
    BY <1>10
  <2>5. page'[r] = p /\ Cut(r)' = Cut(r)
    BY <1>1 DEF Cut
  <2>6. OrderedAt(r)'
    <3>1. /\ p \in Seq(Cut(r)') /\ IsInjective(p) /\ DOMAIN shown'[r] \subseteq ToSet(p)
      BY <1>3, <2>2, <2>5
    <3>2. page' = page
      BY <1>1
    <3>3. state'[r] = "rest" => \E m \in 0 .. Len(page'[r]) - 1 : DOMAIN shown'[r] = {page'[r][i] : i \in 1 .. m}
      <4>1. state'[r] = "rest" => \E m \in 0 .. Len(p) - 1 : DOMAIN shown'[r] = {p[i] : i \in 1 .. m}
        BY <2>1, <2>3, Zenon
      <4>2. page'[r] = p
        BY <3>2
      <4> QED
        BY <4>1, <4>2
    <3>4. page'[r] \in Seq(Cut(r)') /\ IsInjective(page'[r]) /\ DOMAIN shown'[r] \subseteq ToSet(page'[r])
      BY <3>1, <3>2
    <3> QED
      BY <2>4, <3>3, <3>4 DEF OrderedAt, HasPage
  <2> QED
    BY <1>1, <1>9, <1>10, <2>6, OrderKept DEF Ordered
<1>14. CountsTyped' /\ StudentsOnce'
  BY <1>1, <1>2, <1>9 DEF CountsTyped, StudentsOnce
<1>15. FullScoreShown'
  <2>1. ASSUME exams[e] # Gone PROVE v \in FullScores \cup {100}
    <3>1. examSubjects[<<e, s>>] \in FullScores
      BY <1>2, <1>7, <2>1 DEF SubjectsListed
    <3>2. FullScore(e, s) = examSubjects[<<e, s>>]
      BY <3>1, ListsAssumption DEF FullScore
    <3> QED
      BY <1>8, <3>1, <3>2
  <2>2. ASSUME exams[e] # Gone, NEW t \in DOMAIN done PROVE done[t] \in FullScores \cup {100}
    BY <1>2, <2>2 DEF FullScoreShown
  <2> QED
    BY <1>1, <1>9, <2>1, <2>2 DEF FullScoreShown
<1> QED
  BY <1>11, <1>12, <1>13, <1>14, <1>15

-----------------------------------------------------------------------------
(* Which page it is *)

\* A page was cut from an order of all the rows there were, after these had been
\* counted: what the count says of the page is said of the rows of the first statement.
PageCutAt(r) ==
  /\ state[r] \in {"page", "rest", "answered"} => total[r] = Cardinality(rows[r][1])
  /\ HasPage(r) => /\ IsFiniteSet(Cut(r))
                   /\ ask[r].kind = "exams" => Cut(r) \subseteq Exams
                   /\ \E o \in Orders(ask[r], Cut(r)) : page[r] = Page(ask[r], o)

PageCut == \A r \in Requests : PageCutAt(r)

LEMMA PageCutKept ==
  ASSUME NEW r, PageCutAt(r), ask'[r] = ask[r], total'[r] = total[r],
         page'[r] = page[r], rows'[r] = rows[r],
         state'[r] = state[r] \/ state'[r] = "failed" \/ (state[r] = "rest" /\ state'[r] = "answered")
  PROVE  PageCutAt(r)'
<1>1. HasPage(r)' => HasPage(r)
  BY DEF HasPage
<1>2. Cut(r)' = Cut(r)
  BY DEF Cut
<1>3. state'[r] \in {"page", "rest", "answered"} => state[r] \in {"page", "rest", "answered"}
  OBVIOUS
<1>4. state'[r] \in {"page", "rest", "answered"} => total'[r] = Cardinality(rows'[r][1])
  BY <1>3 DEF PageCutAt
<1>5. HasPage(r) => /\ IsFiniteSet(Cut(r))
                    /\ ask[r].kind = "exams" => Cut(r) \subseteq Exams
                    /\ \E o \in Orders(ask[r], Cut(r)) : page[r] = Page(ask[r], o)
  BY Zenon DEF PageCutAt
<1> QED
  BY <1>1, <1>2, <1>4, <1>5 DEF PageCutAt

LEMMA PageCutStep == ListsInv /\ PageCut /\ [Next]_vars => PageCut'
<1> SUFFICES ASSUME ListsInv, PageCut, [Next]_vars, NEW r \in Requests PROVE PageCutAt(r)'
  BY DEF PageCut
<1> USE DEF ListsInv
<1>0. PageCutAt(r)
  BY DEF PageCut
<1>1. CASE Write \/ UNCHANGED vars
  <2>1. UNCHANGED request
    BY <1>1 DEF Write, vars
  <2>2. ask' = ask /\ state' = state /\ total' = total /\ page' = page /\ rows' = rows
    BY <2>1 DEF request
  <2> QED
    BY <1>0, <2>2, PageCutKept
<1>2. ASSUME NEW q \in Requests, Count(q) PROVE PageCutAt(r)'
  <2>1. ask' = ask /\ page' = page
    BY <1>2 DEF Count
  <2>2. CASE q # r
    <3>1. state'[r] = state[r] /\ total'[r] = total[r] /\ rows'[r] = rows[r]
      BY <1>2, <2>2 DEF Count, Placed
    <3> QED
      BY <1>0, <2>1, <3>1, PageCutKept
  <2>3. CASE q = r
    <3>1. /\ state'[r] = "page" /\ rows'[r] = <<RowsOf(ask[r])>>
          /\ total'[r] = Cardinality(RowsOf(ask[r]))
      BY <1>2, <2>3 DEF Count, Placed
    <3> QED
      BY <3>1 DEF PageCutAt, HasPage
  <2> QED
    BY <2>2, <2>3
<1>3. ASSUME NEW q \in Requests, Find(q) PROVE PageCutAt(r)'
  <2>1. ask' = ask /\ total' = total
    BY <1>3 DEF Find
  <2>2. CASE q # r
    <3>1. state'[r] = state[r] /\ page'[r] = page[r] /\ rows'[r] = rows[r]
      BY <1>3, <2>2 DEF Find, Placed
    <3> QED
      BY <1>0, <2>1, <3>1, PageCutKept
  <2>3. CASE q = r
    <3> DEFINE a == ask[r]
               R == RowsOf(a)
    <3>1. PICK o \in Orders(a, R) : page'[r] = Page(a, o)
      BY <1>3, <2>3 DEF Find, Placed
    <3>2. rows'[r] = <<rows[r][1], R>> /\ state[r] = "page"
      BY <1>3, <2>3 DEF Find, Placed
    <3>3. a \in Asks /\ IsFiniteSet(R)
      BY RowsFinite DEF Placed
    <3>4. a.kind = "exams" => R \subseteq Exams
      BY DEF RowsOf, Visible
    <3>5. total'[r] = Cardinality(rows'[r][1])
      BY <1>0, <2>1, <3>2 DEF PageCutAt
    <3>6. Cut(r)' = R
      BY <3>2 DEF Cut
    <3> HIDE DEF R
    <3>7. /\ IsFiniteSet(Cut(r)') /\ (ask'[r].kind = "exams" => Cut(r)' \subseteq Exams)
          /\ \E x \in Orders(ask'[r], Cut(r)') : page'[r] = Page(ask'[r], x)
      BY <2>1, <3>1, <3>3, <3>4, <3>6
    <3> QED
      BY <3>5, <3>7 DEF PageCutAt
  <2> QED
    BY <2>2, <2>3
<1>4. ASSUME NEW q \in Requests, GetExamStudentCounts(q) \/ GetSubjectFullScore(q) \/ Fail(q)
      PROVE  PageCutAt(r)'
  <2>1. ask' = ask /\ total' = total /\ page' = page /\ rows' = rows
    BY <1>4 DEF GetExamStudentCounts, GetSubjectFullScore, Fail
  <2>2. \/ state'[r] = state[r]
        \/ state'[r] = "failed"
        \/ state[r] = "rest" /\ state'[r] = "answered"
    <3>1. CASE GetExamStudentCounts(q)
      BY <3>1 DEF GetExamStudentCounts, Placed
    <3>2. CASE GetSubjectFullScore(q)
      <4>1. state[q] = "rest" /\ \E x \in {"answered", "rest"} : state' = [state EXCEPT ![q] = x]
        BY <3>2 DEF GetSubjectFullScore
      <4> QED
        BY <4>1 DEF Placed
    <3>3. CASE Fail(q)
      BY <3>3 DEF Fail, Placed
    <3> QED
      BY <1>4, <3>1, <3>2, <3>3
  <2> QED
    BY <1>0, <2>1, <2>2, PageCutKept
<1> QED
  BY <1>1, <1>2, <1>3, <1>4 DEF Next, AllAnswered

LEMMA PageCutInit == Init => PageCut
BY DEF Init, PageCut, PageCutAt, HasPage

\* An order of finitely many rows has each of them once.
LEMMA OrderIsAll ==
  ASSUME NEW a, NEW R, IsFiniteSet(R), NEW o \in Orders(a, R)
  PROVE  /\ o \in Seq(R) /\ Len(o) = Cardinality(R) /\ Len(o) \in Nat
         /\ IsInjective(o)
         /\ \A e \in R : \E i \in 1 .. Len(o) : o[i] = e
<1> DEFINE n == Cardinality(R)
<1>1. n \in Nat /\ IsFiniteSet(1 .. n) /\ Cardinality(1 .. n) = n
  BY FS_CardinalityType, FS_Interval
<1>2. o \in [1 .. n -> R] /\ \A i, j \in 1 .. n : i # j => o[i] # o[j]
  BY DEF Orders, SetToSeqs
<1>3. o \in Injection(1 .. n, R)
  BY <1>2 DEF Injection, IsInjective
<1>4. o \in Surjection(1 .. n, R)
  BY <1>1, <1>3, FS_Injection
<1>5. o \in Seq(R) /\ Len(o) = n
  BY <1>1, <1>2
<1> QED
  BY <1>1, <1>3, <1>4, <1>5 DEF Surjection, Injection

\* What OFFSET skips: int32, multiplied without overflow.
LEMMA NotWrapped ==
  ASSUME NEW n \in Int32
  PROVE  Wrapped(n) = n
<1>1. Half \in Nat \ {0} /\ n \in Int /\ -Half <= n /\ n <= Half - 1
  BY ListsAssumption DEF Int32
<1>2. n + Half \in 0 .. 2 * Half - 1
  BY <1>1
<1>3. \A m \in Nat \ {0} : \A x \in 0 .. m - 1 : x % m = x
  OBVIOUS
<1> QED
  BY <1>1, <1>2, <1>3 DEF Wrapped

LEMMA MinOf ==
  ASSUME NEW x \in Int, NEW y \in Int
  PROVE  /\ Max({x, y}) = (IF x <= y THEN y ELSE x)
         /\ Min({x, y}) = (IF x <= y THEN x ELSE y)
BY MaxMin

\* The rows of a page are those at its positions.
LEMMA PageRows ==
  ASSUME NEW a \in Asks, a.size >= 0, NEW R, IsFiniteSet(R), NEW o \in Orders(a, R),
         NEW m \in Nat, Offset(a) = m
  PROVE  LET last == IF Len(o) <= m + a.size THEN Len(o) ELSE m + a.size IN
         /\ Len(Page(a, o)) = IF m + 1 <= last THEN last - m ELSE 0
         /\ ToSet(Page(a, o)) = {o[i] : i \in m + 1 .. last}
<1> DEFINE last == IF Len(o) <= m + a.size THEN Len(o) ELSE m + a.size
<1>1. a.size \in Nat
  BY ListsAssumption DEF Int32
<1>2. o \in Seq(R) /\ Len(o) \in Nat
  BY OrderIsAll
<1>3. Max({0, m}) = m
  BY MinOf
<1>4. Min({Len(o), m + 1 - 1 + a.size}) = last
  <2>1. PICK x \in Int, y \in Int : x = Len(o) /\ y = m + a.size /\ y = m + 1 - 1 + a.size
    BY <1>1, <1>2
  <2>2. Min({x, y}) = IF x <= y THEN x ELSE y
    BY MinOf
  <2> QED
    BY <2>1, <2>2
<1>5. Page(a, o) = SubSeq(o, m + 1, last)
  <2> HIDE DEF last
  <2>1. Page(a, o) = SubSeq(o, Max({0, Offset(a)}) + 1,
                       IF a.size < 0 THEN Len(o) ELSE Min({Len(o), (Max({0, Offset(a)}) + 1) - 1 + a.size}))
    BY DEF Page
  <2>2. ~(a.size < 0)
    BY <1>1
  <2> DEFINE f == Max({0, Offset(a)}) + 1
             cut == Min({Len(o), f - 1 + a.size})
  <2>3. f = m + 1 /\ cut = last
    <3>1. f = m + 1
      BY <1>3
    <3> HIDE DEF f
    <3> QED
      BY <1>4, <3>1
  <2>4. Page(a, o) = SubSeq(o, f, cut)
    BY <2>1, <2>2
  <2> HIDE DEF f, cut
  <2> QED
    BY <2>3, <2>4
<1>6. last \in Int /\ last <= Len(o)
  BY <1>1, <1>2
<1> HIDE DEF last
<1>7. \A i \in m + 1 .. last : o[i] \in R
  BY <1>2, <1>6, ElementOfSeq
<1>8. /\ SubSeq(o, m + 1, last) \in Seq(R)
      /\ Len(SubSeq(o, m + 1, last)) = IF m + 1 <= last THEN last - m ELSE 0
      /\ \A i \in 1 .. last - m : SubSeq(o, m + 1, last)[i] = o[m + i]
  <2>1. m + 1 \in Int
    OBVIOUS
  <2>2. /\ SubSeq(o, m + 1, last) \in Seq(R)
        /\ Len(SubSeq(o, m + 1, last)) = IF m + 1 <= last THEN last - (m + 1) + 1 ELSE 0
        /\ \A i \in 1 .. last - (m + 1) + 1 : SubSeq(o, m + 1, last)[i] = o[m + 1 + i - 1]
    BY <1>6, <1>7, <2>1, SubSeqProperties
  <2>3. last - (m + 1) + 1 = last - m /\ \A i \in Int : m + 1 + i - 1 = m + i
    BY <1>6
  <2> QED
    BY <1>6, <2>2, <2>3
<1> DEFINE p == SubSeq(o, m + 1, last)
<1>9. DOMAIN p = 1 .. (IF m + 1 <= last THEN last - m ELSE 0)
  BY <1>8, LenProperties
<1> HIDE DEF p
<1>10. ToSet(p) = {o[i] : i \in m + 1 .. last}
  <2>1. ASSUME NEW i \in DOMAIN p PROVE m + i \in m + 1 .. last /\ p[i] = o[m + i]
    BY <1>6, <1>8, <1>9 DEF p
  <2>2. ASSUME NEW i \in m + 1 .. last PROVE i - m \in DOMAIN p /\ p[i - m] = o[i]
    <3>1. i - m \in DOMAIN p /\ i - m \in 1 .. last - m /\ m + (i - m) = i
      BY <1>6, <1>9
    <3> QED
      BY <1>8, <3>1 DEF p
  <2> QED
    BY <2>1, <2>2 DEF ToSet
<1> QED
  BY <1>5, <1>8, <1>10 DEF p, last

\* In a list of exams of different dates the position of an exam is the number of
\* later ones.
LEMMA PositionByDate ==
  ASSUME NEW a, a.kind = "exams", NEW R \in SUBSET Exams, IsFiniteSet(R), NEW o \in Orders(a, R),
         \A d, e \in R : Date[d] = Date[e] => d = e, NEW i \in 1 .. Len(o)
  PROVE  Cardinality({e \in R : Date[e] > Date[o[i]]}) = i - 1
<1>1. /\ o \in Seq(R) /\ Len(o) \in Nat /\ IsInjective(o) /\ DOMAIN o = 1 .. Len(o)
      /\ \A e \in R : \E j \in 1 .. Len(o) : o[j] = e
  BY OrderIsAll
<1>2. \A j, k \in DOMAIN o : j < k => Date[o[j]] >= Date[o[k]]
  BY DEF Orders
<1>3. \A j \in DOMAIN o : o[j] \in R /\ Date[o[j]] \in Int
  BY <1>1, ListsAssumption
<1>4. \A j, k \in DOMAIN o : j < k => Date[o[j]] > Date[o[k]]
  <2> SUFFICES ASSUME NEW j \in DOMAIN o, NEW k \in DOMAIN o, j < k PROVE Date[o[j]] > Date[o[k]]
    OBVIOUS
  <2>1. o[j] # o[k]
    BY <1>1 DEF IsInjective
  <2>2. Date[o[j]] # Date[o[k]]
    BY <1>3, <2>1
  <2> QED
    BY <1>2, <1>3, <2>2
<1>5. {e \in R : Date[e] > Date[o[i]]} = {o[k] : k \in 1 .. i - 1}
  <2>1. ASSUME NEW e \in R, Date[e] > Date[o[i]] PROVE \E k \in 1 .. i - 1 : o[k] = e
    <3>1. PICK k \in 1 .. Len(o) : o[k] = e
      BY <1>1
    <3>2. k # i
      BY <1>1, <1>3, <2>1, <3>1
    <3>3. ~(i < k)
      BY <1>1, <1>2, <1>3, <2>1, <3>1
    <3> QED
      BY <1>1, <3>1, <3>2, <3>3
  <2>2. ASSUME NEW k \in 1 .. i - 1 PROVE o[k] \in R /\ Date[o[k]] > Date[o[i]]
    <3>1. k \in DOMAIN o /\ i \in DOMAIN o /\ k < i
      BY <1>1
    <3> QED
      BY <1>3, <1>4, <3>1
  <2> QED
    BY <2>1, <2>2
<1>6. i - 1 \in 0 .. Len(o)
  BY <1>1
<1> QED
  BY <1>1, <1>5, <1>6, CountFirst

-----------------------------------------------------------------------------
(* The theorems *)

\* The invariant is kept by every step.
THEOREM Invariance == Spec => []ListsInv
<1>1. ListsInv /\ [Next]_vars => ListsInv'
  <2> SUFFICES ASSUME ListsInv, [Next]_vars PROVE ListsInv'
    OBVIOUS
  <2>1. CASE Write
    BY <2>1, WriteStep
  <2>2. ASSUME NEW r \in Requests, Count(r) \/ Find(r) \/ GetExamStudentCounts(r)
                                    \/ GetSubjectFullScore(r) \/ Fail(r)
        PROVE  ListsInv'
    BY <2>2, CountStep, FindStep, StudentsStep, FullScoreStep, FailStep
  <2>3. CASE UNCHANGED vars
    <3>1. /\ exams' = exams /\ examSubjects' = examSubjects /\ scores' = scores
          /\ ask' = ask /\ state' = state /\ total' = total
          /\ page' = page /\ shown' = shown /\ rows' = rows
      BY <2>3 DEF vars, tables, request
    <3> QED
      BY <3>1, OrderKept, ListedKept, ShownKept DEF ListsInv, StoreInv, Placed, Ordered
  <2> QED
    BY <2>1, <2>2, <2>3 DEF Next, AllAnswered
<1> QED
  BY <1>1, ListsInit, PTL DEF Spec

\* A page holds rows that were there, none twice, and a request that goes on has a
\* row left to ask about (listExams and listSubjectsByExam of the data layer).
THEOREM TypeCorrect == Spec => []TypeOK
<1>1. ListsInv => TypeOK
  <2> SUFFICES ASSUME ListsInv PROVE TypeOK
    OBVIOUS
  <2> USE DEF ListsInv
  <2>1. ASSUME NEW r \in Requests, state[r] = "rest" PROVE DOMAIN shown[r] # ToSet(page[r])
    <3> DEFINE p == page[r]
    <3>1. p \in Seq(Cut(r)) /\ IsInjective(p)
      BY <2>1 DEF Ordered, OrderedAt, HasPage
    <3>2. PICK k \in 0 .. Len(p) - 1 : DOMAIN shown[r] = {p[i] : i \in 1 .. k}
      BY <2>1 DEF Ordered, OrderedAt
    <3>3. DOMAIN p = 1 .. Len(p) /\ Len(p) \in Nat
      BY <3>1, LenProperties
    <3>4. \A i \in 1 .. k : i \in DOMAIN p /\ i # k + 1 /\ k + 1 \in DOMAIN p
      BY <3>2, <3>3
    <3>5. k + 1 \in DOMAIN p
      BY <3>2, <3>3
    <3>6. p[k + 1] \notin DOMAIN shown[r]
      BY <3>1, <3>2, <3>4 DEF IsInjective
    <3> QED
      BY <3>5, <3>6 DEF ToSet
  <2>2. \A r \in Requests :
          HasPage(r) => /\ page[r] \in Seq(rows[r][2]) /\ IsInjective(page[r])
                        /\ DOMAIN shown[r] \subseteq ToSet(page[r])
    BY Zenon DEF Ordered, OrderedAt, Cut
  <2> QED
    BY <2>1, <2>2 DEF TypeOK, Placed
<1> QED
  BY <1>1, Invariance, PTL

\* A list never shows an exam of somebody else, nor one without the keyword.
THEOREM OnlyVisible == Spec => []VisibleListed
<1>1. ListsInv => VisibleListed
  BY Zenon DEF ListsInv, ExamsListed, VisibleListed
<1> QED
  BY <1>1, Invariance, PTL

\* An exam's students are counted once, whenever their scores were imported.
THEOREM CountedOnce == Spec => []StudentsOnce
<1>1. ListsInv => StudentsOnce
  BY DEF ListsInv
<1> QED
  BY <1>1, Invariance, PTL

\* A subject that a page shows keeps a full score until its exam is deleted.
THEOREM FullScoreThere == Spec => []FullScoreShown
<1>1. ListsInv => FullScoreShown
  BY DEF ListsInv
<1> QED
  BY <1>1, Invariance, PTL

LEMMA PageCutAlways == Spec => [](ListsInv /\ PageCut)
BY PageCutInit, PageCutStep, ListsInit, Invariance, PTL DEF Spec

\* The total a list shows and the page with it fit whenever nothing changed between
\* the two statements: there is a next page exactly when the total says so.
THEOREM PageFitsTotal == Spec => []PageFits
<1>1. ListsInv /\ PageCut => PageFits
  <2> SUFFICES ASSUME ListsInv, PageCut, NEW r \in Requests, HasPage(r), rows[r][1] = rows[r][2],
                      ask[r].index >= 1, ask[r].size >= 0, (ask[r].index - 1) * ask[r].size \in Int32
               PROVE  Len(page[r]) = Max({0, Min({ask[r].size, total[r] - (ask[r].index - 1) * ask[r].size})})
    BY DEF PageFits
  <2> DEFINE a == ask[r]
             R == Cut(r)
             m == (a.index - 1) * a.size
             t == total[r]
  <2>0. /\ a \in Asks /\ t = Cardinality(R) /\ IsFiniteSet(R) /\ m \in Int32
        /\ \E o \in Orders(a, R) : page[r] = Page(a, o)
    BY DEF PageCut, PageCutAt, ListsInv, Placed, HasPage, Cut
  <2>1. PICK o : o \in Orders(a, R) /\ page[r] = Page(a, o)
    BY <2>0
  <2>2. a.size \in Nat /\ a.index \in Nat \ {0}
    BY <2>0, ListsAssumption DEF Int32
  <2>3. m \in Nat
    <3>1. \A x, y \in Nat : x * y \in Nat
      OBVIOUS
    <3>2. a.index - 1 \in Nat
      BY <2>2
    <3> QED
      BY <2>2, <3>1, <3>2
  <2>4. Offset(a) = m
    BY <2>0, NotWrapped DEF Offset
  <2> HIDE DEF a, R, m, t
  <2>5. Len(o) = t /\ t \in Nat
    BY <2>0, <2>1, OrderIsAll
  <2>6. PICK last : /\ last = IF Len(o) <= m + a.size THEN Len(o) ELSE m + a.size
                    /\ Len(Page(a, o)) = IF m + 1 <= last THEN last - m ELSE 0
    BY <2>0, <2>1, <2>2, <2>3, <2>4, PageRows
  <2>7. PICK y \in Int : y = Min({a.size, t - m}) /\ y = IF a.size <= t - m THEN a.size ELSE t - m
    <3>1. PICK u \in Int, v \in Int : u = a.size /\ v = t - m
      BY <2>2, <2>3, <2>5
    <3> QED
      BY <3>1, MinOf
  <2>8. Max({0, y}) = IF 0 <= y THEN y ELSE 0
    BY MinOf
  <2>9. Len(Page(a, o)) = IF 0 <= y THEN y ELSE 0
    <3>1. PICK z \in Nat, c \in Nat : z = a.size /\ c = m
      BY <2>2, <2>3
    <3>2. y = IF z <= t - c THEN z ELSE t - c
      BY <2>7, <3>1
    <3>3. last = IF t <= c + z THEN t ELSE c + z
      BY <2>5, <2>6, <3>1
    <3>4. (IF c + 1 <= last THEN last - c ELSE 0) = IF 0 <= y THEN y ELSE 0
      BY <2>5, <3>1, <3>2, <3>3
    <3> QED
      BY <2>6, <3>1, <3>4
  <2> QED
    BY <2>1, <2>7, <2>8, <2>9 DEF a, m, t
<1> QED
  BY <1>1, PageCutAlways, PTL

\* Of two pages that follow on each other, in lists of exams of different dates: when
\* no exam was deleted between the two none is missing, when none was created none is
\* on both.
DatesDiffer(S) == \A d, e \in S : Date[d] = Date[e] => d = e

LEMMA PagesFollow ==
  ASSUME NEW a \in Asks, NEW b \in Asks, a.kind = "exams", a.index = 1, a.size > 0,
         b.kind = "exams", b.size = a.size, b.index = 2,
         NEW V \in SUBSET Exams, NEW W \in SUBSET Exams, IsFiniteSet(V), IsFiniteSet(W),
         NEW o \in Orders(a, V), NEW w \in Orders(b, W),
         DatesDiffer(V \cup W)
  PROVE  /\ V \subseteq W /\ Cardinality(W) <= 2 * a.size
              => V \subseteq ToSet(Page(a, o)) \cup ToSet(Page(b, w))
         /\ W \subseteq V => ToSet(Page(a, o)) \cap ToSet(Page(b, w)) = {}
<1> DEFINE n == a.size
           Later(S, v) == {e \in S : Date[e] > Date[v]}
<1>1. n \in Nat \ {0} /\ n \in Int32 /\ b.kind = "exams" /\ b.size = n /\ b.index = 2
  <2>3. n \in Int32 /\ Half \in Nat
    BY ListsAssumption
  <2> QED
    BY <2>3 DEF Int32
<1>2. Offset(a) = 0 /\ Offset(b) = n
  <2>1. 0 \in Int32 /\ (1 - 1) * n = 0 /\ (2 - 1) * n = n
    BY <1>1, ListsAssumption DEF Int32
  <2> QED
    BY <1>1, <2>1, NotWrapped DEF Offset
<1>3. /\ o \in Seq(V) /\ Len(o) \in Nat /\ \A e \in V : \E i \in 1 .. Len(o) : o[i] = e
      /\ \A i \in 1 .. Len(o) : o[i] \in V
      /\ w \in Seq(W) /\ Len(w) \in Nat /\ \A e \in W : \E i \in 1 .. Len(w) : w[i] = e
      /\ \A i \in 1 .. Len(w) : w[i] \in W
      /\ Len(w) = Cardinality(W)
  BY OrderIsAll, ElementOfSeq
<1>4. /\ \A i \in 1 .. Len(o) : Cardinality(Later(V, o[i])) = i - 1
      /\ \A j \in 1 .. Len(w) : Cardinality(Later(W, w[j])) = j - 1
  <2>1. \A d, e \in V : Date[d] = Date[e] => d = e
    BY DEF DatesDiffer
  <2>2. \A d, e \in W : Date[d] = Date[e] => d = e
    BY DEF DatesDiffer
  <2>3. \A i \in 1 .. Len(o) : Cardinality(Later(V, o[i])) = i - 1
    BY <2>1, PositionByDate
  <2>4. \A j \in 1 .. Len(w) : Cardinality(Later(W, w[j])) = j - 1
    BY <1>1, <2>2, PositionByDate
  <2> QED
    BY <2>3, <2>4
<1>5. /\ ToSet(Page(a, o)) = {o[i] : i \in {k \in 1 .. Len(o) : k <= n}}
      /\ ToSet(Page(b, w)) = {w[j] : j \in {k \in 1 .. Len(w) : n < k /\ k <= n + n}}
  <2>1. 0 \in Nat /\ n \in Nat /\ a.size >= 0 /\ b.size >= 0
    BY <1>1
  <2>2. ToSet(Page(a, o)) = {o[i] : i \in 0 + 1 .. (IF Len(o) <= 0 + a.size THEN Len(o) ELSE 0 + a.size)}
    BY <1>2, <2>1, PageRows
  <2>3. ToSet(Page(b, w)) = {w[j] : j \in n + 1 .. (IF Len(w) <= n + b.size THEN Len(w) ELSE n + b.size)}
    BY <1>2, <2>1, PageRows
  <2>4. \A x, y, z \in Nat : z + 1 .. (IF x <= z + y THEN x ELSE z + y) = {k \in 1 .. x : z < k /\ k <= z + y}
    OBVIOUS
  <2>5. 0 + 1 .. (IF Len(o) <= 0 + a.size THEN Len(o) ELSE 0 + a.size) = {k \in 1 .. Len(o) : 0 < k /\ k <= 0 + a.size}
    BY <1>1, <1>3, <2>1, <2>4
  <2>6. {k \in 1 .. Len(o) : 0 < k /\ k <= 0 + a.size} = {k \in 1 .. Len(o) : k <= n}
    BY <1>1, <1>3
  <2>7. n + 1 .. (IF Len(w) <= n + b.size THEN Len(w) ELSE n + b.size) = {k \in 1 .. Len(w) : n < k /\ k <= n + b.size}
    BY <1>1, <1>3, <2>1, <2>4
  <2> HIDE DEF n
  <2> QED
    BY <1>1, <2>2, <2>3, <2>5, <2>6, <2>7
<1>6. ASSUME NEW S \in SUBSET Exams, NEW T \in SUBSET Exams, IsFiniteSet(T), S \subseteq T, NEW v
      PROVE  Cardinality(Later(S, v)) <= Cardinality(Later(T, v))
  <2>1. IsFiniteSet(Later(T, v)) /\ Later(S, v) \in SUBSET Later(T, v)
    BY <1>6, FS_Subset
  <2> QED
    BY <2>1, FS_Subset
<1> HIDE DEF Later, n
<1>7. ASSUME V \subseteq W, Cardinality(W) <= 2 * n, NEW v \in V
      PROVE  v \in ToSet(Page(a, o)) \cup ToSet(Page(b, w))
  <2>1. PICK i \in 1 .. Len(o) : o[i] = v
    BY <1>3
  <2>2. PICK j \in 1 .. Len(w) : w[j] = v
    BY <1>3, <1>7
  <2>3. i <= j
    <3>1. Cardinality(Later(V, v)) = i - 1 /\ Cardinality(Later(W, v)) = j - 1
      BY <1>4, <2>1, <2>2
    <3>2. Cardinality(Later(V, v)) <= Cardinality(Later(W, v))
      BY <1>6, <1>7
    <3> QED
      BY <3>1, <3>2, <1>3
  <2>4. CASE i <= n
    <3>1. i \in {k \in 1 .. Len(o) : k <= n}
      BY <2>4
    <3> QED
      BY <1>5, <2>1, <3>1
  <2>5. CASE ~(i <= n)
    <3>1. Len(w) <= 2 * n /\ Len(w) \in Nat /\ Len(o) \in Nat /\ n \in Nat
      BY <1>1, <1>3, <1>7
    <3>2. n < j /\ j <= n + n
      BY <2>3, <2>5, <3>1
    <3>3. j \in {k \in 1 .. Len(w) : n < k /\ k <= n + n}
      BY <3>2
    <3> QED
      BY <1>5, <2>2, <3>3
  <2> QED
    BY <2>4, <2>5
<1>8. ASSUME W \subseteq V, NEW v \in ToSet(Page(a, o)), v \in ToSet(Page(b, w))
      PROVE  FALSE
  <2>1. PICK i \in {k \in 1 .. Len(o) : k <= n} : o[i] = v
    BY <1>5, <1>8
  <2>2. PICK j \in {k \in 1 .. Len(w) : n < k /\ k <= n + n} : w[j] = v
    BY <1>5, <1>8
  <2>3. i \in 1 .. Len(o) /\ i <= n /\ j \in 1 .. Len(w) /\ j > n
    BY <1>1
  <2>4. Cardinality(Later(V, v)) = i - 1 /\ Cardinality(Later(W, v)) = j - 1
    BY <1>4, <2>1, <2>2, <2>3
  <2>5. Cardinality(Later(W, v)) <= Cardinality(Later(V, v))
    BY <1>6, <1>8
  <2> QED
    BY <1>1, <1>3, <2>3, <2>4, <2>5
<1> QED
  BY <1>7, <1>8 DEF n

LEMMA PagesOfLists ==
  ASSUME ListsInv, PageCut, NEW r \in Requests, NEW q \in Requests, HasPage(r), HasPage(q),
         ask[r].kind = "exams", ask[r].index = 1, ask[r].size > 0,
         ask[q].kind = "exams", ask[q].index = 2, ask[q].size = ask[r].size,
         DatesDiffer(Cut(r) \cup Cut(q))
  PROVE  /\ Cut(r) \subseteq Cut(q) /\ Cardinality(Cut(q)) <= 2 * ask[r].size
              => Cut(r) \subseteq ToSet(page[r]) \cup ToSet(page[q])
         /\ Cut(q) \subseteq Cut(r) => ToSet(page[r]) \cap ToSet(page[q]) = {}
<1>1. PICK o \in Orders(ask[r], Cut(r)) : page[r] = Page(ask[r], o)
  BY DEF PageCut, PageCutAt
<1>2. PICK w \in Orders(ask[q], Cut(q)) : page[q] = Page(ask[q], w)
  BY DEF PageCut, PageCutAt
<1>3. /\ ask[r] \in Asks /\ ask[q] \in Asks
      /\ Cut(r) \in SUBSET Exams /\ IsFiniteSet(Cut(r)) /\ Cut(q) \in SUBSET Exams /\ IsFiniteSet(Cut(q))
  BY DEF PageCut, PageCutAt, ListsInv, Placed
<1> QED
  BY <1>1, <1>2, <1>3, PagesFollow

\* A client that pages through the exams while others create exams misses none; while
\* others delete exams it sees none twice.
THEOREM PagesTileLists == Spec => []PagesTile
<1>1. ListsInv /\ PageCut => PagesTile
  <2> SUFFICES ASSUME ListsInv, PageCut, NEW r \in Requests, NEW q \in Requests,
                      HasPage(r), HasPage(q), ask[r].kind = "exams", ask[r].index = 1, ask[r].size > 0,
                      ask[q] = [ask[r] EXCEPT !.index = 2], DatesDiffer(Cut(r) \cup Cut(q))
               PROVE  /\ Cut(r) \subseteq Cut(q) /\ Cardinality(Cut(q)) <= 2 * ask[r].size
                           => Cut(r) \subseteq ToSet(page[r]) \cup ToSet(page[q])
                      /\ Cut(q) \subseteq Cut(r) => ToSet(page[r]) \cap ToSet(page[q]) = {}
    BY Zenon DEF PagesTile, Cut, DatesDiffer
  <2>1. \A a \in Asks : {"kind", "index", "size"} \subseteq DOMAIN a
    BY ListsAssumption
  <2>2. ask[r] \in Asks
    BY DEF ListsInv, Placed
  <2>3. ask[q].kind = "exams" /\ ask[q].size = ask[r].size /\ ask[q].index = 2
    BY <2>1, <2>2, Zenon
  <2> QED
    BY <2>3, PagesOfLists
<1> QED
  BY <1>1, PageCutAlways, PTL
=============================================================================
