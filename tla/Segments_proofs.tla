--------------------------- MODULE Segments_proofs ---------------------------
(***************************************************************************)
(* What parseSegments keeps of a text, for a text of any length: every link *)
(* that is well-formed and every word but those that say where links lead.  *)
(* Both are sequences joined by FlattenSeq, so that each piece of a text    *)
(* can be looked at on its own.                                             *)
(***************************************************************************)
EXTENDS Segments, SequenceTheorems, NaturalsInduction, WellFoundedInduction, TLAPS

-----------------------------------------------------------------------------
(* Induction *)

LEMMA LeastNumber ==
  ASSUME NEW A, A \subseteq Nat, A # {}
  PROVE  \E n \in A : \A m \in A : n <= m
<1>1. \E n \in A : \A m \in A : ~(<<m, n>> \in OpToRel(<, Nat))
  BY WFMin, NatLessThanWellFounded, Zenon
<1>2. PICK n \in A : \A m \in A : ~(<<m, n>> \in OpToRel(<, Nat))
  BY <1>1
<1>3. \A m \in A : <<m, n>> \in Nat \X Nat
  OBVIOUS
<1>4. \A m \in A : ~(m < n)
  BY <1>2, <1>3, Zenon DEF OpToRel
<1> QED
  BY <1>4

LEMMA UpFrom ==
  ASSUME NEW A, 0 \in A, \A n \in Nat : n \in A => n + 1 \in A
  PROVE  \A n \in Nat : n \in A
<1> SUFFICES ASSUME Nat \ A # {} PROVE FALSE
  OBVIOUS
<1>1. PICK n \in Nat \ A : \A m \in Nat \ A : n <= m
  BY LeastNumber
<1>2. n # 0 /\ n - 1 \in Nat /\ (n - 1) + 1 = n
  BY <1>1
<1>3. n - 1 \in A
  BY <1>1, <1>2
<1> QED
  BY <1>2, <1>3

\* Downwards: what holds of p when it holds of all that follow, up to n.
LEMMA DownFrom ==
  ASSUME NEW n \in Nat, NEW A,
         \A p \in 1 .. n : (\A q \in p + 1 .. n : q \in A) => p \in A
  PROVE  \A p \in 1 .. n : p \in A
<1> DEFINE B == {k \in Nat : \E p \in 1 .. n : k = n - p /\ p \notin A}
<1> SUFFICES ASSUME NEW p0 \in 1 .. n, p0 \notin A PROVE FALSE
  OBVIOUS
<1>1. B \subseteq Nat /\ n - p0 \in B
  OBVIOUS
<1>2. PICK k \in B : \A j \in B : k <= j
  <2> HIDE DEF B
  <2> QED
    BY <1>1, LeastNumber
<1>3. PICK p \in 1 .. n : k = n - p /\ p \notin A
  OBVIOUS
<1>4. \A q \in p + 1 .. n : q \in A
  <2> SUFFICES ASSUME NEW q \in p + 1 .. n, q \notin A PROVE FALSE
    OBVIOUS
  <2>1. n - q \in B
    BY <1>3
  <2> QED
    BY <1>2, <1>3, <2>1
<1> QED
  BY <1>3, <1>4

-----------------------------------------------------------------------------
(* FlattenSeq *)

Flattens(f, s) == f = [i \in 1 .. Len(s) |-> IF i = 1 THEN s[i] ELSE f[i - 1] \o s[i]]

Flat(s) == CHOOSE f : Flattens(f, s)

LEMMA FlattenIs == \A s : FlattenSeq(s) = IF Len(s) = 0 THEN s ELSE Flat(s)[Len(s)]
BY DEF FlattenSeq, Flat, Flattens

LEMMA FlattenExists == ASSUME NEW s, Len(s) \in Nat PROVE Flattens(Flat(s), s)
<1> DEFINE On(n, f) == f = [i \in 1 .. n |-> IF i = 1 THEN s[i] ELSE f[i - 1] \o s[i]]
           A == {n \in Nat : \E f : On(n, f)}
<1>1. 0 \in A
  <2>1. On(0, [i \in 1 .. 0 |-> s])
    OBVIOUS
  <2> HIDE DEF On
  <2> QED
    BY <2>1
<1>2. ASSUME NEW n \in Nat, n \in A PROVE n + 1 \in A
  <2>1. PICK f : On(n, f)
    BY <1>2
  <2> DEFINE g == [i \in 1 .. n + 1 |-> IF i <= n THEN f[i] ELSE IF n = 0 THEN s[i] ELSE f[n] \o s[i]]
  <2>2. \A i \in 1 .. n + 1 : g[i] = IF i = 1 THEN s[i] ELSE g[i - 1] \o s[i]
    <3> TAKE i \in 1 .. n + 1
    <3>1. CASE i <= n
      <4>1. i \in 1 .. n /\ g[i] = f[i] /\ (i # 1 => g[i - 1] = f[i - 1])
        BY <3>1
      <4> QED
        BY <2>1, <4>1
    <3>2. CASE i = n + 1
      BY <3>2
    <3> QED
      BY <3>1, <3>2
  <2>3. On(n + 1, g)
    <3>1. g = [i \in 1 .. n + 1 |-> g[i]]
      OBVIOUS
    <3> HIDE DEF g
    <3> QED
      BY <2>2, <3>1
  <2> HIDE DEF On, g
  <2> QED
    BY <2>3
<1>3. Len(s) \in A
  <2> HIDE DEF A
  <2> QED
    BY <1>1, <1>2, UpFrom
<1>4. \E f : Flattens(f, s)
  BY <1>3 DEF Flattens
<1> QED
  BY <1>4 DEF Flat

\* The same step by step.
Joins(f, s) ==
  /\ Len(s) > 0 => f[1] = s[1]
  /\ \A n \in Nat \ {0} : n + 1 <= Len(s) => f[n + 1] = f[n] \o s[n + 1]

LEMMA FlattenJoins == ASSUME NEW s, Len(s) \in Nat PROVE Joins(Flat(s), s)
<1> DEFINE f == Flat(s)
           g(i) == IF i = 1 THEN s[i] ELSE f[i - 1] \o s[i]
<1>1. Flattens(f, s)
  BY FlattenExists
<1> HIDE DEF f
<1>2. \A i \in 1 .. Len(s) : f[i] = g(i)
  BY <1>1 DEF Flattens
<1>3. ASSUME NEW n \in Nat \ {0}, n + 1 <= Len(s) PROVE f[n + 1] = f[n] \o s[n + 1]
  <2>1. n + 1 \in 1 .. Len(s) /\ n + 1 # 1 /\ (n + 1) - 1 = n
    BY <1>3
  <2> QED
    BY <1>2, <2>1
<1>4. Len(s) > 0 => f[1] = s[1]
  BY <1>2
<1>5. Joins(f, s)
  BY <1>3, <1>4 DEF Joins
<1> QED
  BY <1>5 DEF f

LEMMA FlattenTyped ==
  ASSUME NEW S, NEW s \in Seq(Seq(S))
  PROVE  FlattenSeq(s) \in Seq(S) /\ \A n \in 1 .. Len(s) : Flat(s)[n] \in Seq(S)
<1> DEFINE A == {n \in Nat : n \in 1 .. Len(s) => Flat(s)[n] \in Seq(S)}
<1>0. Len(s) \in Nat
  BY LenProperties
<1>1. Joins(Flat(s), s)
  BY <1>0, FlattenJoins
<1>2. 0 \in A
  OBVIOUS
<1>3. ASSUME NEW n \in Nat, n \in A PROVE n + 1 \in A
  <2> SUFFICES ASSUME n + 1 \in 1 .. Len(s) PROVE Flat(s)[n + 1] \in Seq(S)
    OBVIOUS
  <2>1. s[n + 1] \in Seq(S)
    BY ElementOfSeq
  <2>2. CASE n = 0
    BY <1>1, <2>1, <2>2 DEF Joins
  <2>3. CASE n # 0
    <3>1. Flat(s)[n] \in Seq(S)
      BY <1>0, <1>3, <2>3
    <3>2. Flat(s)[n + 1] = Flat(s)[n] \o s[n + 1]
      <4>1. n \in Nat \ {0} /\ n + 1 <= Len(s)
        BY <1>0, <2>3
      <4> QED
        BY <1>1, <4>1, Zenon DEF Joins
    <3> QED
      BY <2>1, <3>1, <3>2, ConcatProperties
  <2> QED
    BY <2>2, <2>3
<1>4. \A n \in Nat : n \in A
  <2> HIDE DEF A
  <2> QED
    BY <1>2, <1>3, UpFrom
<1>5. \A n \in 1 .. Len(s) : Flat(s)[n] \in Seq(S)
  BY <1>4
<1>6. CASE Len(s) = 0
  <2>1. s = <<>>
    BY <1>6, EmptySeq
  <2> QED
    BY <1>5, <1>6, <2>1, FlattenIs, EmptySeq
<1>7. CASE Len(s) # 0
  <2>1. FlattenSeq(s) = Flat(s)[Len(s)]
    BY <1>7, FlattenIs
  <2>2. Len(s) \in 1 .. Len(s)
    BY <1>0, <1>7
  <2> QED
    BY <1>5, <2>1, <2>2, Zenon
<1> QED
  BY <1>5, <1>6, <1>7

\* A sequence more is joined at the end.
LEMMA FlattenAppend ==
  ASSUME NEW S, NEW s \in Seq(Seq(S)), NEW x \in Seq(S)
  PROVE  FlattenSeq(Append(s, x)) = FlattenSeq(s) \o x
<1> DEFINE u == Append(s, x)
           k == Len(s)
           A == {n \in Nat : n \in 1 .. k => Flat(u)[n] = Flat(s)[n]}
<1>0. u \in Seq(Seq(S)) /\ Len(u) = k + 1 /\ k \in Nat /\ u[k + 1] = x /\ \A n \in 1 .. k : u[n] = s[n]
  BY AppendProperties, LenProperties
<1> HIDE DEF u, k
<1>1. Joins(Flat(s), s) /\ Joins(Flat(u), u)
  BY <1>0, FlattenJoins DEF k
<1>2. 0 \in A
  OBVIOUS
<1>3. ASSUME NEW n \in Nat, n \in A PROVE n + 1 \in A
  <2> SUFFICES ASSUME n + 1 \in 1 .. k PROVE Flat(u)[n + 1] = Flat(s)[n + 1]
    OBVIOUS
  <2>1. CASE n = 0
    <3>1. Len(s) > 0 /\ Len(u) > 0 /\ n + 1 = 1 /\ 1 \in 1 .. k
      BY <1>0, <2>1 DEF k
    <3>2. Flat(u)[1] = u[1] /\ Flat(s)[1] = s[1]
      BY <1>1, <3>1, Zenon DEF Joins
    <3> QED
      BY <1>0, <3>1, <3>2, Zenon
  <2>2. CASE n # 0
    <3>0. n \in Nat \ {0} /\ n + 1 <= Len(s) /\ n + 1 <= Len(u)
      BY <1>0, <2>2 DEF k
    <3>1. Flat(u)[n + 1] = Flat(u)[n] \o u[n + 1]
      BY <1>1, <3>0, Zenon DEF Joins
    <3>2. Flat(s)[n + 1] = Flat(s)[n] \o s[n + 1]
      BY <1>1, <3>0, Zenon DEF Joins
    <3>3. Flat(u)[n] = Flat(s)[n]
      BY <1>0, <1>3, <2>2
    <3> QED
      BY <1>0, <3>1, <3>2, <3>3, Zenon
  <2> QED
    BY <2>1, <2>2
<1>4. \A n \in Nat : n \in A
  <2> HIDE DEF A
  <2> QED
    BY <1>2, <1>3, UpFrom
<1>5. FlattenSeq(u) = Flat(u)[k + 1]
  BY <1>0, FlattenIs
<1>6. CASE k = 0
  <2>1. s = <<>> /\ FlattenSeq(s) = <<>>
    BY <1>6, EmptySeq, FlattenIs DEF k
  <2>2. Flat(u)[1] = u[1]
    <3>1. Len(u) > 0
      BY <1>0, <1>6
    <3> QED
      BY <1>1, <3>1, Zenon DEF Joins
  <2> QED
    BY <1>0, <1>5, <1>6, <2>1, <2>2, ConcatEmptySeq DEF u
<1>7. CASE k # 0
  <2>1. Flat(u)[k + 1] = Flat(u)[k] \o x
    <3>1. k \in Nat \ {0} /\ k + 1 <= Len(u)
      BY <1>0, <1>7
    <3>2. Flat(u)[k + 1] = Flat(u)[k] \o u[k + 1]
      BY <1>1, <3>1, Zenon DEF Joins
    <3> QED
      BY <1>0, <3>2, Zenon
  <2>2. Flat(u)[k] = Flat(s)[k]
    BY <1>0, <1>4, <1>7
  <2>3. FlattenSeq(s) = Flat(s)[k]
    BY <1>7, FlattenIs DEF k
  <2> QED
    BY <1>5, <2>1, <2>2, <2>3 DEF u
<1> QED
  BY <1>6, <1>7

LEMMA FlattenEmpty == FlattenSeq(<<>>) = <<>>
BY FlattenIs, EmptySeq

LEMMA FlattenOne == ASSUME NEW S, NEW x \in Seq(S) PROVE FlattenSeq(<<x>>) = x
<1>1. <<x>> = Append(<<>>, x)
  OBVIOUS
<1>2. <<>> \in Seq(Seq(S))
  BY EmptySeq
<1>3. FlattenSeq(Append(<<>>, x)) = FlattenSeq(<<>>) \o x
  BY <1>2, FlattenAppend, Zenon
<1> QED
  BY <1>1, <1>3, FlattenEmpty, ConcatEmptySeq

\* Two sequences can be joined one after the other.
LEMMA FlattenConcat ==
  ASSUME NEW S, NEW s \in Seq(Seq(S)), NEW t \in Seq(Seq(S))
  PROVE  FlattenSeq(s \o t) = FlattenSeq(s) \o FlattenSeq(t)
<1> DEFINE To(n) == SubSeq(t, 1, n)
           A == {n \in Nat : n <= Len(t) => FlattenSeq(s \o To(n)) = FlattenSeq(s) \o FlattenSeq(To(n))}
<1>0. Len(t) \in Nat
  BY LenProperties
<1>1. 0 \in A
  <2>1. To(0) = <<>>
    BY SubSeqEmpty
  <2>2. FlattenSeq(s) \in Seq(S)
    BY FlattenTyped
  <2> QED
    BY <2>1, <2>2, ConcatEmptySeq, FlattenEmpty
<1>2. ASSUME NEW n \in Nat, n \in A PROVE n + 1 \in A
  <2> SUFFICES ASSUME n + 1 <= Len(t)
               PROVE  FlattenSeq(s \o To(n + 1)) = FlattenSeq(s) \o FlattenSeq(To(n + 1))
    OBVIOUS
  <2> DEFINE x == t[n + 1]
             u == To(n)
  <2>1. x \in Seq(S)
    BY <1>0, ElementOfSeq
  <2>2. u \in Seq(Seq(S))
    <3>1. \A i \in 1 .. n : t[i] \in Seq(S)
      BY <1>0, ElementOfSeq
    <3> QED
      BY <3>1, SubSeqProperties
  <2>3. To(n + 1) = Append(u, x)
    <3>1. To(n + 1) = u \o <<x>>
      <4>1. 1 \in 1 .. Len(t) /\ n + 1 \in 1 .. Len(t) /\ (n + 1) - 1 = n
        BY <1>0
      <4> QED
        BY <4>1, SubSeqRecursiveSecond
    <3> HIDE DEF x, u
    <3> QED
      BY <2>1, <2>2, <3>1, AppendIsConcat
  <2>4. FlattenSeq(s \o u) = FlattenSeq(s) \o FlattenSeq(u)
    BY <1>0, <1>2
  <2> HIDE DEF x, u, To
  <2>5. s \o u \in Seq(Seq(S)) /\ s \o Append(u, x) = Append(s \o u, x)
    <3>1. s \o u \in Seq(Seq(S)) /\ <<x>> \in Seq(Seq(S))
      BY <2>1, <2>2, ConcatProperties
    <3>2. s \o (u \o <<x>>) = (s \o u) \o <<x>>
      BY <2>2, <3>1, ConcatAssociative
    <3> QED
      BY <2>1, <2>2, <3>1, <3>2, AppendIsConcat
  <2>6. FlattenSeq(s) \in Seq(S) /\ FlattenSeq(u) \in Seq(S)
    BY <2>2, FlattenTyped
  <2>7. FlattenSeq(s \o To(n + 1)) = FlattenSeq(s \o u) \o x
    BY <2>1, <2>3, <2>5, FlattenAppend
  <2>8. FlattenSeq(To(n + 1)) = FlattenSeq(u) \o x
    BY <2>1, <2>2, <2>3, FlattenAppend
  <2>9. (FlattenSeq(s) \o FlattenSeq(u)) \o x = FlattenSeq(s) \o (FlattenSeq(u) \o x)
    <3> DEFINE a == FlattenSeq(s)
               b == FlattenSeq(u)
    <3>1. a \in Seq(S) /\ b \in Seq(S)
      BY <2>6
    <3> HIDE DEF a, b
    <3>2. (a \o b) \o x = a \o (b \o x)
      BY <2>1, <3>1, ConcatAssociative
    <3> QED
      BY <3>2 DEF a, b
  <2>10. FlattenSeq(s \o To(n + 1)) = FlattenSeq(s) \o (FlattenSeq(u) \o x)
    BY <2>4, <2>7, <2>9, Zenon
  <2> QED
    BY <2>8, <2>10, Zenon
<1>3. \A n \in Nat : n \in A
  <2> HIDE DEF A
  <2> QED
    BY <1>1, <1>2, UpFrom
<1>4. To(Len(t)) = t
  BY SubSeqFull
<1>5. FlattenSeq(s \o To(Len(t))) = FlattenSeq(s) \o FlattenSeq(To(Len(t)))
  <2>1. Len(t) \in A /\ Len(t) <= Len(t)
    BY <1>0, <1>3
  <2> HIDE DEF To
  <2> QED
    BY <2>1
<1> HIDE DEF To
<1> QED
  BY <1>4, <1>5, Zenon

\* Joining what is empty gives nothing.
LEMMA FlattenNothing ==
  ASSUME NEW s \in Seq({<<>>})
  PROVE  FlattenSeq(s) = <<>>
<1>1. {<<>>} \subseteq Seq({})
  BY EmptySeq
<1>2. s \in Seq(Seq({}))
  BY <1>1, SeqMonotonic
<1>3. FlattenSeq(s) \in Seq({})
  BY <1>2, FlattenTyped
<1> HIDE DEF FlattenSeq
<1>4. \A q \in Seq({}) : q = <<>>
  <2> SUFFICES ASSUME NEW q \in Seq({}), q # <<>> PROVE FALSE
    OBVIOUS
  <2>1. Head(q) \in {}
    BY HeadTailProperties
  <2> QED
    BY <2>1
<1> QED
  BY <1>3, <1>4

LEMMA FunctionIsSeq ==
  ASSUME NEW S, NEW k \in Nat, NEW f \in [1 .. k -> S]
  PROVE  f \in Seq(S) /\ Len(f) = k /\ DOMAIN f = 1 .. k
OBVIOUS

-----------------------------------------------------------------------------
(* Joining what a function makes of the elements of a sequence *)

Joined(F, s) == FlattenSeq([n \in 1 .. Len(s) |-> F[s[n]]])

LEMMA ImageTyped ==
  ASSUME NEW S, NEW T, NEW F \in [S -> T], NEW s \in Seq(S)
  PROVE  /\ [n \in 1 .. Len(s) |-> F[s[n]]] \in Seq(T)
         /\ Len([n \in 1 .. Len(s) |-> F[s[n]]]) = Len(s)
<1>1. Len(s) \in Nat /\ \A n \in 1 .. Len(s) : s[n] \in S
  BY LenProperties, ElementOfSeq
<1>2. [n \in 1 .. Len(s) |-> F[s[n]]] \in [1 .. Len(s) -> T]
  BY <1>1
<1> QED
  BY <1>1, <1>2, FunctionIsSeq

LEMMA ConcatIs ==
  ASSUME NEW S, NEW a \in Seq(S), NEW b \in Seq(S), NEW c \in Seq(S), Len(c) = Len(a) + Len(b),
         \A n \in 1 .. Len(a) + Len(b) : c[n] = IF n <= Len(a) THEN a[n] ELSE b[n - Len(a)]
  PROVE  c = a \o b
<1>1. /\ a \o b \in Seq(S) /\ Len(a \o b) = Len(a) + Len(b)
      /\ \A n \in 1 .. Len(a) + Len(b) : (a \o b)[n] = IF n <= Len(a) THEN a[n] ELSE b[n - Len(a)]
  BY ConcatProperties
<1>2. \A n \in 1 .. Len(c) : c[n] = (a \o b)[n]
  BY <1>1
<1>3. Len(c) = Len(a \o b)
  BY <1>1
<1> QED
  BY <1>1, <1>2, <1>3, SeqEqual

LEMMA JoinedConcat ==
  ASSUME NEW S, NEW T, NEW F \in [S -> Seq(T)], NEW a \in Seq(S), NEW b \in Seq(S)
  PROVE  /\ Joined(F, a \o b) = Joined(F, a) \o Joined(F, b)
         /\ Joined(F, a) \in Seq(T)
<1> DEFINE m(s) == [n \in 1 .. Len(s) |-> F[s[n]]]
<1>1. \A s \in Seq(S) : m(s) \in Seq(Seq(T)) /\ Len(m(s)) = Len(s)
  BY ImageTyped
<1>2. a \o b \in Seq(S) /\ Len(a \o b) = Len(a) + Len(b) /\ Len(a) \in Nat /\ Len(b) \in Nat
  BY ConcatProperties, LenProperties
<1>3. \A n \in 1 .. Len(a) + Len(b) : (a \o b)[n] = IF n <= Len(a) THEN a[n] ELSE b[n - Len(a)]
  BY ConcatProperties
<1>4. \A n \in 1 .. Len(a) + Len(b) : m(a \o b)[n] = IF n <= Len(a) THEN m(a)[n] ELSE m(b)[n - Len(a)]
  <2> TAKE n \in 1 .. Len(a) + Len(b)
  <2>1. m(a \o b)[n] = F[(a \o b)[n]]
    BY <1>2
  <2>2. CASE n <= Len(a)
    BY <1>2, <1>3, <2>1, <2>2
  <2>3. CASE ~(n <= Len(a))
    <3>1. n - Len(a) \in 1 .. Len(b)
      BY <1>2, <2>3
    <3>2. m(b)[n - Len(a)] = F[b[n - Len(a)]]
      BY <3>1
    <3> QED
      BY <1>2, <1>3, <2>1, <2>3, <3>2
  <2> QED
    BY <2>2, <2>3
<1> DEFINE ma == m(a)
           mb == m(b)
           mc == m(a \o b)
<1>5. /\ ma \in Seq(Seq(T)) /\ mb \in Seq(Seq(T)) /\ mc \in Seq(Seq(T))
      /\ Len(ma) = Len(a) /\ Len(mb) = Len(b) /\ Len(mc) = Len(a) + Len(b)
  BY <1>1, <1>2
<1>6. \A n \in 1 .. Len(a) + Len(b) : mc[n] = IF n <= Len(a) THEN ma[n] ELSE mb[n - Len(a)]
  BY <1>4
<1> HIDE DEF ma, mb, mc, m
<1>7. mc = ma \o mb
  <2>1. \A n \in 1 .. Len(ma) + Len(mb) : mc[n] = IF n <= Len(ma) THEN ma[n] ELSE mb[n - Len(ma)]
    BY <1>5, <1>6
  <2>2. Len(mc) = Len(ma) + Len(mb) /\ ma \in Seq(Seq(T)) /\ mb \in Seq(Seq(T)) /\ mc \in Seq(Seq(T))
    BY <1>5
  <2> QED
    BY <2>1, <2>2, ConcatIs, Zenon
<1>8. FlattenSeq(mc) = FlattenSeq(ma) \o FlattenSeq(mb) /\ FlattenSeq(ma) \in Seq(T)
  BY <1>5, <1>7, FlattenConcat, FlattenTyped
<1> QED
  BY <1>8 DEF Joined, ma, mb, mc, m

LEMMA JoinedOne ==
  ASSUME NEW S, NEW T, NEW F \in [S -> Seq(T)], NEW x \in S
  PROVE  Joined(F, <<x>>) = F[x] /\ <<x>> \in Seq(S)
<1>1. [n \in 1 .. Len(<<x>>) |-> F[<<x>>[n]]] = <<F[x]>>
  OBVIOUS
<1>2. F[x] \in Seq(T)
  OBVIOUS
<1> QED
  BY <1>1, <1>2, FlattenOne DEF Joined

LEMMA JoinedNothing ==
  ASSUME NEW S, NEW F, NEW s \in Seq(S), \A n \in 1 .. Len(s) : F[s[n]] = <<>>
  PROVE  Joined(F, s) = <<>>
<1>1. Len(s) \in Nat
  BY LenProperties
<1>2. [n \in 1 .. Len(s) |-> F[s[n]]] \in [1 .. Len(s) -> {<<>>}]
  OBVIOUS
<1>3. [n \in 1 .. Len(s) |-> F[s[n]]] \in Seq({<<>>})
  BY <1>1, <1>2, FunctionIsSeq
<1> QED
  BY <1>3, FlattenNothing DEF Joined

-----------------------------------------------------------------------------
(* The first position of a set, and trimming *)

LEMMA FirstIs ==
  ASSUME NEW S, S \subseteq Nat
  PROVE  /\ S = {} => First(S) = 0
         /\ S # {} => First(S) \in S /\ \A n \in S : First(S) <= n
<1>1. CASE S = {}
  BY <1>1 DEF First
<1>2. CASE S # {}
  <2>1. \E n \in S : \A m \in S : n <= m
    BY <1>2, LeastNumber
  <2>2. Min(S) \in S /\ \A m \in S : Min(S) <= m
    BY <2>1 DEF Min
  <2> QED
    BY <1>2, <2>2 DEF First
<1> QED
  BY <1>1, <1>2

LEMMA FirstAt ==
  ASSUME NEW S, S \subseteq Nat, NEW n \in S, \A m \in S : n <= m
  PROVE  First(S) = n
<1>1. First(S) \in S /\ First(S) <= n
  BY FirstIs
<1>2. n <= First(S) /\ First(S) \in Nat /\ n \in Nat
  BY <1>1
<1> QED
  BY <1>1, <1>2

LEMMA Extremes ==
  ASSUME NEW k \in Nat, NEW S, S \subseteq 1 .. k, S # {}
  PROVE  Min(S) \in S /\ Max(S) \in S /\ \A n \in S : Min(S) <= n /\ n <= Max(S)
<1>1. \E n \in S : \A m \in S : n <= m
  <2>1. S \subseteq Nat
    OBVIOUS
  <2> QED
    BY <2>1, LeastNumber
<1>2. \E n \in S : \A m \in S : m <= n
  <2> DEFINE D == {d \in Nat : \E n \in S : d = k - n}
  <2>1. D \subseteq Nat /\ D # {}
    <3>1. PICK n \in S : TRUE
      OBVIOUS
    <3>2. k - n \in D
      BY <3>1
    <3> QED
      BY <3>2
  <2>2. PICK d \in D : \A c \in D : d <= c
    <3> HIDE DEF D
    <3> QED
      BY <2>1, LeastNumber
  <2>3. PICK n \in S : d = k - n
    OBVIOUS
  <2>4. ASSUME NEW m \in S PROVE m <= n
    <3>1. k - m \in D
      OBVIOUS
    <3> QED
      BY <2>2, <2>3, <3>1
  <2> QED
    BY <2>4
<1> QED
  BY <1>1, <1>2 DEF Min, Max

WordOf(V) == [x \in V |-> IF x \in NoWords THEN <<>> ELSE <<x>>]

LEMMA WordsAre ==
  ASSUME NEW V, NEW w \in Seq(V)
  PROVE  Words(w) = Joined(WordOf(V), w) /\ WordOf(V) \in [V -> Seq(V)]
<1>1. \A n \in 1 .. Len(w) : WordOf(V)[w[n]] = IF w[n] \in NoWords THEN <<>> ELSE <<w[n]>>
  <2>1. \A n \in 1 .. Len(w) : w[n] \in V
    BY ElementOfSeq
  <2> QED
    BY <2>1 DEF WordOf
<1>2. \A x \in V : WordOf(V)[x] \in Seq(V)
  BY DEF WordOf
<1> QED
  BY <1>1, <1>2 DEF Words, Joined, WordOf

LEMMA WordsConcat ==
  ASSUME NEW V, NEW a \in Seq(V), NEW b \in Seq(V)
  PROVE  a \o b \in Seq(V) /\ Words(a \o b) = Words(a) \o Words(b) /\ Words(a) \in Seq(V)
<1>1. a \o b \in Seq(V)
  BY ConcatProperties
<1> HIDE DEF Words, WordOf, Joined
<1>2. /\ Words(a) = Joined(WordOf(V), a) /\ Words(b) = Joined(WordOf(V), b)
      /\ Words(a \o b) = Joined(WordOf(V), a \o b) /\ WordOf(V) \in [V -> Seq(V)]
  BY <1>1, WordsAre
<1>3. /\ Joined(WordOf(V), a \o b) = Joined(WordOf(V), a) \o Joined(WordOf(V), b)
      /\ Joined(WordOf(V), a) \in Seq(V)
  BY <1>2, JoinedConcat
<1> QED
  BY <1>1, <1>2, <1>3, Zenon

LEMMA WordsNothing ==
  ASSUME NEW V, NEW w \in Seq(V), \A n \in 1 .. Len(w) : w[n] \in NoWords
  PROVE  Words(w) = <<>>
<1>1. \A n \in 1 .. Len(w) : WordOf(V)[w[n]] = <<>>
  <2>1. \A n \in 1 .. Len(w) : w[n] \in V
    BY ElementOfSeq
  <2> QED
    BY <2>1 DEF WordOf
<1> HIDE DEF WordOf
<1> QED
  BY <1>1, WordsAre, JoinedNothing

\* Trimming takes no word away.
LEMMA TrimWords ==
  ASSUME NEW V, NEW w \in Seq(V)
  PROVE  Trim(w) \in Seq(V) /\ Words(Trim(w)) = Words(w)
<1> DEFINE I == {n \in DOMAIN w : w[n] # Blank}
           k == Len(w)
<1>0. k \in Nat /\ DOMAIN w = 1 .. k /\ \A n \in 1 .. k : w[n] \in V
  BY LenProperties, ElementOfSeq
<1>1. CASE I = {}
  <2>1. \A n \in 1 .. Len(w) : w[n] \in NoWords
    BY <1>0, <1>1 DEF NoWords
  <2>2. Words(w) = <<>>
    BY <2>1, WordsNothing
  <2>3. Words(<<>>) = <<>> /\ <<>> \in Seq(V)
    <3>1. <<>> \in Seq(V) /\ Len(<<>>) = 0
      BY EmptySeq
    <3>2. \A n \in 1 .. Len(<<>>) : <<>>[n] \in NoWords
      BY <3>1
    <3> QED
      BY <3>1, <3>2, WordsNothing, Zenon
  <2> QED
    BY <1>1, <2>2, <2>3 DEF Trim
<1>2. CASE I # {}
  <2> DEFINE a == Min(I)
             b == Max(I)
             u == SubSeq(w, 1, a - 1)
             v == SubSeq(w, a, b)
             z == SubSeq(w, b + 1, k)
  <2>1. a \in I /\ b \in I /\ \A n \in I : a <= n /\ n <= b
    BY <1>0, <1>2, Extremes
  <2>2. Trim(w) = v
    BY <1>2 DEF Trim
  <2>3. a \in 1 .. k /\ b \in a .. k
    BY <1>0, <2>1
  <2>0. \A n \in 1 .. k : n \notin I => w[n] = Blank
    BY <1>0
  <2> HIDE DEF I, a, b, k
  <2>4. \A n \in 1 .. a - 1 : w[n] = Blank
    BY <1>0, <2>0, <2>1, <2>3
  <2>5. \A n \in b + 1 .. k : w[n] = Blank
    BY <1>0, <2>0, <2>1, <2>3
  <2>6. u \in Seq(V) /\ v \in Seq(V) /\ z \in Seq(V)
    <3>1. /\ \A n \in 1 .. a - 1 : w[n] \in V
          /\ \A n \in a .. b : w[n] \in V
          /\ \A n \in b + 1 .. k : w[n] \in V
      BY <1>0, <2>3
    <3> QED
      BY <1>0, <2>3, <3>1, SubSeqProperties
  <2>7. \A n \in 1 .. Len(u) : u[n] \in NoWords
    BY <1>0, <2>3, <2>4 DEF NoWords
  <2>8. \A n \in 1 .. Len(z) : z[n] \in NoWords
    BY <1>0, <2>3, <2>5 DEF NoWords
  <2>9. w = u \o (v \o z)
    <3>1. v \o z = SubSeq(w, a, k)
      BY <1>0, <2>3, ConcatAdjacentSubSeq
    <3>2. u \o SubSeq(w, (a - 1) + 1, k) = SubSeq(w, 1, k)
      BY <1>0, <2>3, ConcatAdjacentSubSeq
    <3>3. SubSeq(w, 1, k) = w /\ (a - 1) + 1 = a
      BY <1>0, <2>3, SubSeqFull
    <3> QED
      BY <3>1, <3>2, <3>3
  <2> HIDE DEF u, v, z
  <2>10. Words(u) = <<>> /\ Words(z) = <<>>
    BY <2>6, <2>7, <2>8, WordsNothing
  <2>11. v \o z \in Seq(V) /\ Words(v \o z) = Words(v) \o Words(z) /\ Words(v) \in Seq(V)
    BY <2>6, WordsConcat
  <2>12. Words(w) = Words(u) \o Words(v \o z)
    <3> DEFINE y == v \o z
    <3>0. y \in Seq(V) /\ u \in Seq(V)
      BY <2>6, <2>11
    <3> HIDE DEF y
    <3>1. Words(u \o y) = Words(u) \o Words(y)
      BY <3>0, WordsConcat
    <3> QED
      BY <2>9, <3>1 DEF y
  <2>13. Words(v \o z) = Words(v)
    BY <2>10, <2>11, ConcatEmptySeq
  <2>14. Words(w) = Words(v)
    BY <2>10, <2>11, <2>12, <2>13, ConcatEmptySeq
  <2> QED
    BY <2>2, <2>6, <2>14
<1> QED
  BY <1>1, <1>2

LEMMA TrimOne ==
  ASSUME NEW x, x # Blank
  PROVE  Trim(<<x>>) = <<x>>
<1>1. {i \in DOMAIN <<x>> : <<x>>[i] # Blank} = {1}
  OBVIOUS
<1>2. Min({1}) = 1 /\ Max({1}) = 1
  BY Extremes
<1>3. SubSeq(<<x>>, 1, 1) = <<x>>
  <2>1. <<x>> \in Seq({x}) /\ Len(<<x>>) = 1
    OBVIOUS
  <2> QED
    BY <2>1, SubSeqFull
<1> QED
  BY <1>1, <1>2, <1>3 DEF Trim

-----------------------------------------------------------------------------
(* Where a link ends, and the recursion of Cut *)

LEMMA MarksDiffer ==
  /\ Opens # Bar /\ Opens # BarAndOpen /\ Opens # Closes /\ Opens # OpenBrace
  /\ Bar # BarAndOpen /\ Bar # Closes /\ Bar # OpenBrace
  /\ BarAndOpen # Closes /\ BarAndOpen # OpenBrace /\ Closes # OpenBrace
BY Zenon DEF Opens, Bar, BarAndOpen, Closes, OpenBrace

\* A link has its marks in their order, with something in each group but the view,
\* which may be what a label without a bar of its own leaves.
LEMMA PatternIs ==
  ASSUME NEW V, NEW t \in Seq(V), NEW s \in 1 .. Len(t), linkPattern(t, s).end # 0
  PROVE  LET m == linkPattern(t, s) IN
         /\ m.start = s
         /\ m.label \in s + 2 .. Len(t) /\ t[m.label] \in {Bar, BarAndOpen}
         /\ m.view \in m.label + 1 .. Len(t) /\ t[m.view] = BarAndOpen
         /\ m.end \in m.view + 2 .. Len(t) /\ t[m.end] = Closes
         /\ \A n \in m.view + 2 .. Len(t) : t[n] = Closes => m.end <= n
<1> DEFINE i == LabelEnd(t, s)
           j == ViewEnd(t, i)
           e == ParamsEnd(t, j)
           from == i + (IF t[i] = Bar THEN 2 ELSE 1)
           I == {n \in s + 2 .. Len(t) : t[n] \in {Bar, BarAndOpen}}
           J == {n \in from .. Len(t) : t[n] = BarAndOpen}
           E == {n \in j + 2 .. Len(t) : t[n] = Closes}
<1>0. Len(t) \in Nat /\ s \in Nat
  BY LenProperties
<1>1. /\ linkPattern(t, s).start = s /\ linkPattern(t, s).label = i
      /\ linkPattern(t, s).view = j /\ linkPattern(t, s).end = e
  BY DEF linkPattern
<1>2. e # 0 /\ j # 0 /\ i # 0
  BY <1>1 DEF ParamsEnd, ViewEnd
<1>3. i = First(I) /\ j = First(J) /\ e = First(E)
  BY <1>2 DEF LabelEnd, ViewEnd, ParamsEnd
<1> HIDE DEF i, j, e, linkPattern
<1>4. I \subseteq Nat
  BY <1>0
<1>5. i \in I
  BY <1>2, <1>3, <1>4, FirstIs
<1>6. from \in Nat /\ from >= i + 1 /\ i \in Nat
  BY <1>0, <1>5
<1>7. J \subseteq Nat
  BY <1>0, <1>6
<1>8. j \in J
  BY <1>2, <1>3, <1>7, FirstIs
<1>9. j \in i + 1 .. Len(t) /\ j \in Nat
  BY <1>0, <1>6, <1>8
<1>10. E \subseteq Nat
  BY <1>0, <1>9
<1>11. e \in E /\ \A n \in E : e <= n
  BY <1>2, <1>3, <1>10, FirstIs
<1>12. \A n \in j + 2 .. Len(t) : t[n] = Closes => e <= n
  BY <1>11
<1> QED
  BY <1>1, <1>5, <1>8, <1>9, <1>11, <1>12

IsLink(t, n) == t[n] = Opens /\ linkPattern(t, n).end # 0

LEMMA NextIs ==
  ASSUME NEW V, NEW t \in Seq(V), NEW p \in 1 .. Len(t) + 1
  PROVE  LET s == NextLink(t, p) IN
         /\ s = 0 => \A n \in p .. Len(t) : ~IsLink(t, n)
         /\ s # 0 => s \in p .. Len(t) /\ IsLink(t, s) /\ \A n \in p .. s - 1 : ~IsLink(t, n)
<1> DEFINE N == {n \in p .. Len(t) : IsLink(t, n)}
<1>0. Len(t) \in Nat
  BY LenProperties
<1>1. NextLink(t, p) = First(N)
  BY DEF NextLink, IsLink
<1>2. N \subseteq Nat
  BY <1>0
<1>3. CASE N = {}
  <2>1. NextLink(t, p) = 0
    BY <1>1, <1>2, <1>3, FirstIs
  <2> QED
    BY <1>3, <2>1
<1>4. CASE N # {}
  <2> DEFINE s == NextLink(t, p)
  <2>1. s \in N /\ \A n \in N : s <= n
    BY <1>1, <1>2, <1>4, FirstIs
  <2> HIDE DEF s
  <2>2. s \in p .. Len(t) /\ IsLink(t, s) /\ s # 0
    BY <1>0, <2>1
  <2>3. \A n \in p .. s - 1 : ~IsLink(t, n)
    BY <1>0, <2>1, <2>2
  <2> QED
    BY <2>2, <2>3 DEF s
<1> QED
  BY <1>3, <1>4

\* The segments from p on, given those from each later position on.
CutStep(t, p, f) ==
  IF NextLink(t, p) = 0 THEN Remaining(SubSeq(t, p, Len(t)))
  ELSE Preceding(t, p, NextLink(t, p))
         \o <<Link(t, linkPattern(t, NextLink(t, p)))>> \o f[linkPattern(t, NextLink(t, p)).end + 1]

Cuts(f, t) == f = [p \in 1 .. Len(t) + 1 |-> CutStep(t, p, f)]

CutOf(t) == CHOOSE f : Cuts(f, t)

LEMMA CutIs == \A t : Cut(t) = CutOf(t)[1]
BY DEF Cut, CutOf, Cuts, CutStep

\* After a link there is less of the text.
LEMMA LinkGoesOn ==
  ASSUME NEW V, NEW t \in Seq(V), NEW p \in 1 .. Len(t) + 1, NextLink(t, p) # 0
  PROVE  /\ NextLink(t, p) \in p .. Len(t)
         /\ linkPattern(t, NextLink(t, p)).end + 1 \in p + 1 .. Len(t) + 1
<1> DEFINE s == NextLink(t, p)
           m == linkPattern(t, s)
<1>0. Len(t) \in Nat
  BY LenProperties
<1>1. s \in p .. Len(t) /\ IsLink(t, s)
  BY NextIs
<1>2. s \in 1 .. Len(t) /\ m.end # 0
  BY <1>0, <1>1 DEF IsLink
<1> HIDE DEF s
<1>3. /\ m.label \in s + 2 .. Len(t) /\ m.view \in m.label + 1 .. Len(t)
      /\ m.end \in m.view + 2 .. Len(t)
  BY <1>2, PatternIs
<1> HIDE DEF m
<1>4. m.end + 1 \in p + 1 .. Len(t) + 1
  BY <1>0, <1>1, <1>3
<1> QED
  BY <1>1, <1>4 DEF s, m

LEMMA CutExists ==
  ASSUME NEW V, NEW t \in Seq(V)
  PROVE  \A p \in 1 .. Len(t) + 1 : CutOf(t)[p] = CutStep(t, p, CutOf(t))
<1> DEFINE k == Len(t) + 1
           On(q, f) == f = [p \in q .. k |-> CutStep(t, p, f)]
           A == {q \in Nat : \E f : On(q, f)}
<1>0. k \in Nat /\ k >= 1
  BY LenProperties
<1>1. ASSUME NEW f, NEW g, NEW p \in 1 .. k, \A n \in p + 1 .. k : f[n] = g[n]
      PROVE  CutStep(t, p, f) = CutStep(t, p, g)
  <2>1. CASE NextLink(t, p) = 0
    BY <2>1 DEF CutStep
  <2>2. CASE NextLink(t, p) # 0
    <3> DEFINE n == linkPattern(t, NextLink(t, p)).end + 1
    <3>1. n \in p + 1 .. k
      BY <2>2, LinkGoesOn
    <3>2. f[n] = g[n]
      BY <1>1, <3>1
    <3> QED
      BY <2>2, <3>2 DEF CutStep
  <2> QED
    BY <2>1, <2>2
<1> HIDE DEF k
<1>2. ASSUME NEW q \in 1 .. k, \A n \in q + 1 .. k : n \in A PROVE q \in A
  <2>1. PICK g : q < k => On(q + 1, g)
    <3>1. CASE q < k
      <4>1. q + 1 \in A
        BY <1>0, <1>2, <3>1
      <4> QED
        BY <4>1
    <3> QED
      BY <3>1
  <2> DEFINE h == [p \in q .. k |-> IF p = q THEN CutStep(t, q, g) ELSE g[p]]
  <2>2. \A n \in q + 1 .. k : h[n] = g[n]
    BY <1>0
  <2>3. ASSUME NEW p \in q .. k PROVE h[p] = CutStep(t, p, h)
    <3>1. p \in 1 .. k /\ \A n \in p + 1 .. k : n \in q + 1 .. k
      BY <1>0
    <3>2. \A n \in p + 1 .. k : g[n] = h[n]
      BY <2>2, <3>1
    <3>3. h[p] = CutStep(t, p, g)
      <4>1. CASE p = q
        BY <4>1
      <4>2. CASE p # q
        <5>1. p \in q + 1 .. k /\ q < k
          BY <1>0, <4>2
        <5>2. g[p] = CutStep(t, p, g)
          BY <2>1, <5>1
        <5> QED
          BY <4>2, <5>2
      <4> QED
        BY <4>1, <4>2
    <3> HIDE DEF h
    <3>4. CutStep(t, p, g) = CutStep(t, p, h)
      BY <1>1, <3>1, <3>2
    <3> QED
      BY <3>3, <3>4
  <2>4. On(q, h)
    <3>1. h = [p \in q .. k |-> h[p]]
      OBVIOUS
    <3> HIDE DEF h
    <3> QED
      BY <2>3, <3>1
  <2> HIDE DEF On, h
  <2> QED
    BY <2>4
<1>3. 1 \in A
  <2> HIDE DEF A
  <2>1. \A p \in 1 .. k : p \in A
    BY <1>0, <1>2, DownFrom
  <2> QED
    BY <1>0, <2>1
<1>4. \E f : Cuts(f, t)
  BY <1>3 DEF Cuts, k
<1>5. Cuts(CutOf(t), t)
  BY <1>4 DEF CutOf
<1> QED
  <2> DEFINE f == CutOf(t)
  <2>1. f = [p \in 1 .. k |-> CutStep(t, p, f)]
    BY <1>5 DEF Cuts, k
  <2> HIDE DEF f
  <2>2. \A p \in 1 .. k : f[p] = CutStep(t, p, f)
    BY <2>1
  <2> QED
    BY <2>2 DEF f, k

-----------------------------------------------------------------------------
(* The segments as sequences that are joined *)

SegmentsOf(V) ==
  [type : {"text"}, content : Seq(V)]
    \cup [type : {"link"}, content : Seq(V), view : Seq(V), params : Seq(V)]

ShownOf(V) == [g \in SegmentsOf(V) |-> g.content]
LinkOf(V)  == [g \in SegmentsOf(V) |-> IF g.type = "link" THEN <<g>> ELSE <<>>]

LEMMA ShownAre ==
  ASSUME NEW V, NEW G \in Seq(SegmentsOf(V))
  PROVE  AllShown(G) = Joined(ShownOf(V), G) /\ ShownOf(V) \in [SegmentsOf(V) -> Seq(V)]
<1>1. \A n \in 1 .. Len(G) : G[n] \in SegmentsOf(V)
  BY ElementOfSeq
<1>2. \A n \in 1 .. Len(G) : ShownOf(V)[G[n]] = G[n].content
  BY <1>1 DEF ShownOf
<1>3. \A g \in SegmentsOf(V) : g.content \in Seq(V)
  BY DEF SegmentsOf
<1>4. ShownOf(V) \in [SegmentsOf(V) -> Seq(V)]
  BY <1>3 DEF ShownOf
<1>5. AllShown(G) = Joined(ShownOf(V), G)
  BY <1>2 DEF AllShown, Joined
<1> QED
  BY <1>4, <1>5

LEMMA LinksAre ==
  ASSUME NEW V, NEW G \in Seq(SegmentsOf(V))
  PROVE  /\ LinksOf(G) = Joined(LinkOf(V), G)
         /\ LinkOf(V) \in [SegmentsOf(V) -> Seq(SegmentsOf(V))]
<1>1. \A n \in 1 .. Len(G) : G[n] \in SegmentsOf(V)
  BY ElementOfSeq
<1>2. \A n \in 1 .. Len(G) : LinkOf(V)[G[n]] = IF G[n].type = "link" THEN <<G[n]>> ELSE <<>>
  BY <1>1 DEF LinkOf
<1> DEFINE T == Seq(SegmentsOf(V))
<1>3. <<>> \in T /\ \A g \in SegmentsOf(V) : <<g>> \in T
  BY EmptySeq
<1> HIDE DEF T
<1>4. LinkOf(V) \in [SegmentsOf(V) -> T]
  BY <1>3 DEF LinkOf
<1>5. LinksOf(G) = Joined(LinkOf(V), G)
  BY <1>2 DEF LinksOf, Joined
<1> QED
  BY <1>4, <1>5 DEF T

\* What is shown of two sequences of segments, and their links, come one after the other.
LEMMA SegmentsConcat ==
  ASSUME NEW V, NEW G \in Seq(SegmentsOf(V)), NEW H \in Seq(SegmentsOf(V))
  PROVE  /\ G \o H \in Seq(SegmentsOf(V))
         /\ Words(AllShown(G \o H)) = Words(AllShown(G)) \o Words(AllShown(H))
         /\ Words(AllShown(G)) \in Seq(V)
         /\ LinksOf(G \o H) = LinksOf(G) \o LinksOf(H)
         /\ LinksOf(G) \in Seq(SegmentsOf(V))
<1> DEFINE S == SegmentsOf(V)
           K == G \o H
<1>1. K \in Seq(S)
  BY ConcatProperties
<1>2. /\ AllShown(G) = Joined(ShownOf(V), G) /\ AllShown(H) = Joined(ShownOf(V), H)
      /\ AllShown(K) = Joined(ShownOf(V), K) /\ ShownOf(V) \in [S -> Seq(V)]
  <2> HIDE DEF K
  <2> QED
    BY <1>1, ShownAre
<1>3. /\ LinksOf(G) = Joined(LinkOf(V), G) /\ LinksOf(H) = Joined(LinkOf(V), H)
      /\ LinksOf(K) = Joined(LinkOf(V), K) /\ LinkOf(V) \in [S -> Seq(S)]
  <2> HIDE DEF K
  <2> QED
    BY <1>1, LinksAre
<1> HIDE DEF S
<1>4. /\ Joined(ShownOf(V), K) = Joined(ShownOf(V), G) \o Joined(ShownOf(V), H)
      /\ Joined(ShownOf(V), G) \in Seq(V) /\ Joined(ShownOf(V), H) \in Seq(V)
  <2> DEFINE F == ShownOf(V)
  <2>1. F \in [S -> Seq(V)] /\ G \in Seq(S) /\ H \in Seq(S)
    BY <1>2 DEF S
  <2> HIDE DEF F
  <2>2. Joined(F, G \o H) = Joined(F, G) \o Joined(F, H) /\ Joined(F, G) \in Seq(V)
    BY <2>1, JoinedConcat
  <2>3. Joined(F, H) \in Seq(V)
    BY <2>1, JoinedConcat
  <2> QED
    BY <2>2, <2>3 DEF F
<1>5. /\ Joined(LinkOf(V), K) = Joined(LinkOf(V), G) \o Joined(LinkOf(V), H)
      /\ Joined(LinkOf(V), G) \in Seq(S)
  BY <1>3, JoinedConcat DEF S
<1>6. AllShown(K) = AllShown(G) \o AllShown(H) /\ AllShown(G) \in Seq(V) /\ AllShown(H) \in Seq(V)
  BY <1>2, <1>4, Zenon
<1>7. /\ Words(AllShown(G) \o AllShown(H)) = Words(AllShown(G)) \o Words(AllShown(H))
      /\ Words(AllShown(G)) \in Seq(V)
  <2> DEFINE a == AllShown(G)
             b == AllShown(H)
  <2>1. a \in Seq(V) /\ b \in Seq(V)
    BY <1>6
  <2> HIDE DEF a, b
  <2>2. Words(a \o b) = Words(a) \o Words(b) /\ Words(a) \in Seq(V)
    BY <2>1, WordsConcat
  <2> QED
    BY <2>2 DEF a, b
<1>8. LinksOf(K) = LinksOf(G) \o LinksOf(H) /\ LinksOf(G) \in Seq(S)
  BY <1>3, <1>5, Zenon
<1>9. Words(AllShown(K)) = Words(AllShown(G)) \o Words(AllShown(H))
  BY <1>6, <1>7, Zenon
<1> QED
  BY <1>1, <1>7, <1>8, <1>9 DEF S

LEMMA ShownConcat ==
  \A V : \A G, H \in Seq(SegmentsOf(V)) :
    G \o H \in Seq(SegmentsOf(V)) /\ Words(AllShown(G \o H)) = Words(AllShown(G)) \o Words(AllShown(H))
BY SegmentsConcat

LEMMA LinksConcat ==
  \A V : \A G, H \in Seq(SegmentsOf(V)) :
    G \o H \in Seq(SegmentsOf(V)) /\ LinksOf(G \o H) = LinksOf(G) \o LinksOf(H)
BY SegmentsConcat

LEMMA OneSegment ==
  ASSUME NEW V, NEW g \in SegmentsOf(V)
  PROVE  /\ <<g>> \in Seq(SegmentsOf(V))
         /\ AllShown(<<g>>) = g.content
         /\ LinksOf(<<g>>) = IF g.type = "link" THEN <<g>> ELSE <<>>
<1> DEFINE S == SegmentsOf(V)
           G == <<g>>
<1>1. G \in Seq(S)
  OBVIOUS
<1>2. AllShown(G) = Joined(ShownOf(V), G) /\ ShownOf(V) \in [S -> Seq(V)]
  <2> HIDE DEF G
  <2> QED
    BY <1>1, ShownAre
<1>3. LinksOf(G) = Joined(LinkOf(V), G) /\ LinkOf(V) \in [S -> Seq(S)]
  <2> HIDE DEF G
  <2> QED
    BY <1>1, LinksAre
<1>4. Joined(ShownOf(V), G) = ShownOf(V)[g]
  BY <1>2, JoinedOne, Zenon
<1>6. Joined(LinkOf(V), G) = LinkOf(V)[g]
  BY <1>3, JoinedOne, Zenon
<1>5. ShownOf(V)[g] = g.content /\ LinkOf(V)[g] = IF g.type = "link" THEN <<g>> ELSE <<>>
  BY DEF ShownOf, LinkOf
<1> QED
  BY <1>1, <1>2, <1>3, <1>4, <1>5, <1>6

LEMMA NoSegment ==
  /\ AllShown(<<>>) = <<>> /\ Words(<<>>) = <<>> /\ LinksOf(<<>>) = <<>>
  /\ \A V : <<>> \in Seq(SegmentsOf(V))
<1>1. <<>> \in Seq({})
  BY EmptySeq
<1>2. Words(<<>>) = <<>>
  <2>1. \A n \in 1 .. Len(<<>>) : <<>>[n] \in NoWords
    BY EmptySeq
  <2> QED
    BY <1>1, <2>1, WordsNothing, Zenon
<1>3. \A F : [n \in 1 .. Len(<<>>) |-> F[<<>>[n]]] = <<>>
  BY EmptySeq
<1>4. \A F : Joined(F, <<>>) = <<>>
  BY <1>3, FlattenEmpty DEF Joined
<1>5. \A V : <<>> \in Seq(SegmentsOf(V))
  BY EmptySeq
<1>6. AllShown(<<>>) = Joined(ShownOf({}), <<>>) /\ LinksOf(<<>>) = Joined(LinkOf({}), <<>>)
  BY <1>5, ShownAre, LinksAre
<1> QED
  BY <1>2, <1>4, <1>5, <1>6

-----------------------------------------------------------------------------
(* The words of a part of a text *)

WordsIn(t, a, b) == Words(SubSeq(t, a, b))

LEMMA PartTyped ==
  ASSUME NEW V, NEW t \in Seq(V), NEW a \in 1 .. Len(t) + 1, NEW b \in a - 1 .. Len(t)
  PROVE  /\ SubSeq(t, a, b) \in Seq(V) /\ Len(SubSeq(t, a, b)) = b - a + 1
         /\ \A n \in 1 .. b - a + 1 : SubSeq(t, a, b)[n] = t[a + n - 1]
<1>0. Len(t) \in Nat
  BY LenProperties
<1>1. \A n \in a .. b : t[n] \in V
  BY <1>0, ElementOfSeq
<1>2. a \in Int /\ b \in Int /\ (a <= b \/ b - a + 1 = 0)
  BY <1>0
<1> QED
  BY <1>1, <1>2, SubSeqProperties

LEMMA WordsSplit ==
  ASSUME NEW V, NEW t \in Seq(V), NEW a \in 1 .. Len(t) + 1, NEW b \in a - 1 .. Len(t), NEW c \in b .. Len(t)
  PROVE  /\ WordsIn(t, a, c) = WordsIn(t, a, b) \o WordsIn(t, b + 1, c)
         /\ WordsIn(t, a, b) \in Seq(V) /\ WordsIn(t, b + 1, c) \in Seq(V)
<1> DEFINE u == SubSeq(t, a, b)
           v == SubSeq(t, b + 1, c)
<1>0. Len(t) \in Nat
  BY LenProperties
<1>1. SubSeq(t, a, c) = u \o v
  BY <1>0, ConcatAdjacentSubSeq
<1>2. b + 1 \in 1 .. Len(t) + 1 /\ c \in (b + 1) - 1 .. Len(t)
  BY <1>0
<1>3. u \in Seq(V) /\ v \in Seq(V)
  BY <1>2, PartTyped
<1> HIDE DEF u, v
<1>4. Words(u \o v) = Words(u) \o Words(v) /\ Words(u) \in Seq(V)
  BY <1>3, WordsConcat
<1>5. Words(v) \in Seq(V)
  BY <1>3, WordsConcat
<1> QED
  BY <1>1, <1>4, <1>5 DEF WordsIn, u, v

LEMMA WordsOfMarks ==
  ASSUME NEW V, NEW t \in Seq(V), NEW a \in 1 .. Len(t) + 1, NEW b \in a - 1 .. Len(t),
         \A n \in a .. b : t[n] \in NoWords
  PROVE  WordsIn(t, a, b) = <<>>
<1> DEFINE u == SubSeq(t, a, b)
<1>0. Len(t) \in Nat
  BY LenProperties
<1>1. u \in Seq(V) /\ Len(u) = b - a + 1 /\ \A n \in 1 .. b - a + 1 : u[n] = t[a + n - 1]
  BY PartTyped
<1> HIDE DEF u
<1>2. \A n \in 1 .. Len(u) : u[n] \in NoWords
  BY <1>0, <1>1
<1>3. Words(u) = <<>>
  BY <1>1, <1>2, WordsNothing
<1> QED
  BY <1>3 DEF WordsIn, u

-----------------------------------------------------------------------------
(* What each piece of an answer shows *)

LEMMA TextIs ==
  ASSUME NEW V, NEW w \in Seq(V)
  PROVE  /\ Text(w) \in SegmentsOf(V) /\ <<Text(w)>> \in Seq(SegmentsOf(V))
         /\ Words(AllShown(<<Text(w)>>)) = Words(w) /\ LinksOf(<<Text(w)>>) = <<>>
<1>1. Text(w) \in SegmentsOf(V) /\ Text(w).type = "text" /\ Text(w).content = w
  BY DEF Text, SegmentsOf
<1> DEFINE g == Text(w)
<1> HIDE DEF g
<1>3. /\ <<g>> \in Seq(SegmentsOf(V)) /\ AllShown(<<g>>) = g.content
      /\ LinksOf(<<g>>) = IF g.type = "link" THEN <<g>> ELSE <<>>
  BY <1>1, OneSegment DEF g
<1> QED
  BY <1>1, <1>3 DEF g

\* The end of a text that has no further link.
LEMMA RemainingIs ==
  ASSUME NEW V, NEW w \in Seq(V)
  PROVE  /\ Remaining(w) \in Seq(SegmentsOf(V))
         /\ Words(AllShown(Remaining(w))) = Words(w) /\ LinksOf(Remaining(w)) = <<>>
<1>1. Trim(w) \in Seq(V) /\ Words(Trim(w)) = Words(w)
  BY TrimWords
<1>2. CASE Trim(w) = <<>>
  BY <1>1, <1>2, NoSegment DEF Remaining
<1>3. CASE Trim(w) # <<>>
  <2> DEFINE u == Trim(w)
  <2>1. Remaining(w) = <<Text(u)>>
    BY <1>3 DEF Remaining
  <2> HIDE DEF u
  <2>2. u \in Seq(V)
    BY <1>1 DEF u
  <2>3. /\ <<Text(u)>> \in Seq(SegmentsOf(V)) /\ LinksOf(<<Text(u)>>) = <<>>
        /\ Words(AllShown(<<Text(u)>>)) = Words(u)
    BY <2>2, TextIs
  <2> QED
    BY <1>1, <2>1, <2>3 DEF u
<1> QED
  BY <1>2, <1>3

\* What stands before a link.
LEMMA PrecedingIs ==
  ASSUME NEW V, NEW t \in Seq(V), NEW p \in 1 .. Len(t) + 1, NEW s \in p .. Len(t)
  PROVE  /\ Preceding(t, p, s) \in Seq(SegmentsOf(V))
         /\ Words(AllShown(Preceding(t, p, s))) = WordsIn(t, p, s - 1)
         /\ LinksOf(Preceding(t, p, s)) = <<>>
<1> DEFINE w == SubSeq(t, p, s - 1)
<1>0. Len(t) \in Nat /\ s - 1 \in p - 1 .. Len(t)
  BY LenProperties
<1>1. w \in Seq(V)
  BY <1>0, PartTyped
<1>2. CASE s > p
  <2>1. Preceding(t, p, s) = <<Text(Trim(w))>>
    BY <1>2 DEF Preceding
  <2> DEFINE u == Trim(w)
  <2> HIDE DEF w
  <2>2. u \in Seq(V) /\ Words(u) = Words(w)
    BY <1>1, TrimWords
  <2> HIDE DEF u
  <2>3. /\ <<Text(u)>> \in Seq(SegmentsOf(V)) /\ LinksOf(<<Text(u)>>) = <<>>
        /\ Words(AllShown(<<Text(u)>>)) = Words(u)
    BY <2>2, TextIs
  <2>4. Words(AllShown(<<Text(u)>>)) = WordsIn(t, p, s - 1)
    BY <2>2, <2>3 DEF WordsIn, w
  <2> QED
    BY <2>1, <2>3, <2>4 DEF u
<1>3. CASE s = p
  <2>1. Preceding(t, p, s) = <<>>
    BY <1>3 DEF Preceding
  <2>2. WordsIn(t, p, s - 1) = <<>>
    <3>1. \A n \in p .. s - 1 : t[n] \in NoWords
      BY <1>0, <1>3
    <3> QED
      BY <1>0, <3>1, WordsOfMarks
  <2> QED
    BY <2>1, <2>2, NoSegment
<1> QED
  BY <1>0, <1>2, <1>3

\* The links of a text are cut at words of it.
LEMMA LinkTyped ==
  ASSUME NEW V, OpenBrace \in V, NEW t \in Seq(V), NEW s \in 1 .. Len(t), linkPattern(t, s).end # 0
  PROVE  LET m == linkPattern(t, s) IN
         /\ Link(t, m) \in SegmentsOf(V) /\ Link(t, m).type = "link"
         /\ Link(t, m).content \in Seq(V)
         /\ Words(Link(t, m).content) = WordsIn(t, s + 1, m.label - 1)
<1> DEFINE m == linkPattern(t, s)
           bar == IF t[m.label] = Bar THEN <<>> ELSE <<OpenBrace>>
           w == SubSeq(t, s + 1, m.label - 1)
           v == SubSeq(t, m.label + 1, m.view - 1)
           q == SubSeq(t, m.view + 1, m.end - 1)
           params == IF Len(Trim(q)) = 1 /\ Trim(q)[1] \in Params THEN Trim(q) ELSE <<>>
<1>0. Len(t) \in Nat
  BY LenProperties
<1>1. /\ m.start = s /\ m.label \in s + 2 .. Len(t)
      /\ m.view \in m.label + 1 .. Len(t) /\ m.end \in m.view + 2 .. Len(t)
  BY PatternIs
<1>2. Link(t, m) = [type |-> "link", content |-> Trim(w), view |-> Trim(bar \o v), params |-> params]
  <2>1. SubSeq(t, m.start + 1, m.label - 1) = w
    BY <1>1
  <2> HIDE DEF m
  <2> QED
    BY <2>1 DEF Link
<1> HIDE DEF m
<1>3. w \in Seq(V) /\ v \in Seq(V) /\ q \in Seq(V)
  <2>1. /\ s + 1 \in 1 .. Len(t) + 1 /\ m.label - 1 \in (s + 1) - 1 .. Len(t)
        /\ m.label + 1 \in 1 .. Len(t) + 1 /\ m.view - 1 \in (m.label + 1) - 1 .. Len(t)
        /\ m.view + 1 \in 1 .. Len(t) + 1 /\ m.end - 1 \in (m.view + 1) - 1 .. Len(t)
    <3> DEFINE i == m.label
               j == m.view
               e == m.end
               k == Len(t)
    <3>1. k \in Nat /\ s \in 1 .. k /\ i \in s + 2 .. k /\ j \in i + 1 .. k /\ e \in j + 2 .. k
      BY <1>0, <1>1
    <3> HIDE DEF i, j, e, k
    <3>2. s + 1 \in 1 .. k + 1 /\ i + 1 \in 1 .. k + 1 /\ j + 1 \in 1 .. k + 1
      BY <3>1
    <3>3. i - 1 \in (s + 1) - 1 .. k
      BY <3>1
    <3>4. j - 1 \in (i + 1) - 1 .. k
      BY <3>1
    <3>5. e - 1 \in (j + 1) - 1 .. k
      BY <3>1
    <3> QED
      BY <3>2, <3>3, <3>4, <3>5 DEF i, j, e, k
  <2> QED
    BY <2>1, PartTyped
<1>4. bar \in Seq(V)
  BY EmptySeq
<1> DEFINE x == bar \o v
<1> HIDE DEF bar, w, v, q
<1>5. x \in Seq(V)
  BY <1>3, <1>4, ConcatProperties
<1> HIDE DEF x
<1>6. /\ Trim(w) \in Seq(V) /\ Words(Trim(w)) = Words(w)
      /\ Trim(x) \in Seq(V) /\ Trim(q) \in Seq(V)
  BY <1>3, <1>5, TrimWords
<1>7. params \in Seq(V)
  BY <1>6, EmptySeq
<1> HIDE DEF params
<1> DEFINE tw == Trim(w)
           tx == Trim(x)
<1>8. Link(t, m) = [type |-> "link", content |-> tw, view |-> tx, params |-> params]
  BY <1>2 DEF x
<1>9. tw \in Seq(V) /\ tx \in Seq(V) /\ Words(tw) = Words(w)
  BY <1>6
<1> HIDE DEF tw, tx
<1>10. /\ Link(t, m) \in SegmentsOf(V) /\ Link(t, m).type = "link"
       /\ Link(t, m).content = tw
  BY <1>7, <1>8, <1>9 DEF SegmentsOf
<1> QED
  BY <1>9, <1>10 DEF m, w, WordsIn

\* Every piece of an answer is a segment.
LEMMA CutTyped ==
  ASSUME NEW V, OpenBrace \in V, NEW t \in Seq(V)
  PROVE  \A p \in 1 .. Len(t) + 1 : CutOf(t)[p] \in Seq(SegmentsOf(V))
<1> DEFINE k == Len(t) + 1
           A == {p \in 1 .. k : CutOf(t)[p] \in Seq(SegmentsOf(V))}
<1>0. k \in Nat /\ Len(t) \in Nat
  BY LenProperties
<1>1. ASSUME NEW p \in 1 .. k, \A n \in p + 1 .. k : n \in A PROVE p \in A
  <2> DEFINE s == NextLink(t, p)
             m == linkPattern(t, s)
             C == CutOf(t)
  <2>1. C[p] = CutStep(t, p, C)
    BY CutExists
  <2>2. CASE s = 0
    <3>1. C[p] = Remaining(SubSeq(t, p, Len(t)))
      BY <2>1, <2>2 DEF CutStep
    <3>2. SubSeq(t, p, Len(t)) \in Seq(V)
      <4>1. Len(t) \in p - 1 .. Len(t)
        BY <1>0
      <4> QED
        BY <4>1, PartTyped
    <3>3. Remaining(SubSeq(t, p, Len(t))) \in Seq(SegmentsOf(V))
      BY <3>2, RemainingIs
    <3> QED
      BY <3>1, <3>3
  <2>3. CASE s # 0
    <3> DEFINE a == Preceding(t, p, s)
               b == <<Link(t, m)>>
               c == C[m.end + 1]
    <3>1. C[p] = a \o b \o c
      BY <2>1, <2>3 DEF CutStep
    <3>2. s \in p .. Len(t) /\ m.end + 1 \in p + 1 .. k
      BY <2>3, LinkGoesOn
    <3>3. IsLink(t, s)
      BY <2>3, NextIs
    <3>4. s \in 1 .. Len(t) /\ m.end # 0
      BY <1>0, <3>2, <3>3 DEF IsLink
    <3>5. c \in Seq(SegmentsOf(V))
      BY <1>1, <3>2
    <3>6. a \in Seq(SegmentsOf(V))
      BY <3>2, PrecedingIs
    <3>7. Link(t, m) \in SegmentsOf(V)
      BY <3>4, LinkTyped
    <3>8. b \in Seq(SegmentsOf(V))
      BY <3>7, OneSegment
    <3> HIDE DEF a, b, c, C, s, m
    <3>9. a \o b \in Seq(SegmentsOf(V))
      BY <3>6, <3>8, ConcatProperties
    <3>10. (a \o b) \o c \in Seq(SegmentsOf(V))
      BY <3>5, <3>9, ConcatProperties
    <3> QED
      BY <3>1, <3>10 DEF C
  <2> QED
    BY <2>2, <2>3
<1> HIDE DEF k
<1>2. \A p \in 1 .. k : p \in A
  <2> HIDE DEF A
  <2> QED
    BY <1>0, <1>1, DownFrom
<1> QED
  BY <1>2 DEF k

-----------------------------------------------------------------------------
(* Every well-formed link is found *)

LEMMA PartsJoin ==
  ASSUME NEW S, NEW L \in Seq(Seq(S)), NEW a \in 1 .. Len(L) + 1, NEW b \in a - 1 .. Len(L), NEW c \in b .. Len(L)
  PROVE  /\ FlattenSeq(SubSeq(L, a, c)) = FlattenSeq(SubSeq(L, a, b)) \o FlattenSeq(SubSeq(L, b + 1, c))
         /\ FlattenSeq(SubSeq(L, a, b)) \in Seq(S) /\ FlattenSeq(SubSeq(L, b + 1, c)) \in Seq(S)
<1> DEFINE u == SubSeq(L, a, b)
           v == SubSeq(L, b + 1, c)
<1>0. Len(L) \in Nat
  BY LenProperties
<1>1. SubSeq(L, a, c) = u \o v
  BY <1>0, ConcatAdjacentSubSeq
<1>2. u \in Seq(Seq(S)) /\ v \in Seq(Seq(S))
  <2>1. b + 1 \in 1 .. Len(L) + 1 /\ c \in (b + 1) - 1 .. Len(L)
    BY <1>0
  <2> QED
    BY <2>1, PartTyped
<1> HIDE DEF u, v
<1>3. FlattenSeq(u \o v) = FlattenSeq(u) \o FlattenSeq(v) /\ FlattenSeq(u) \in Seq(S) /\ FlattenSeq(v) \in Seq(S)
  BY <1>2, FlattenConcat, FlattenTyped
<1> QED
  BY <1>1, <1>3 DEF u, v

LEMMA PartNothing ==
  ASSUME NEW S, NEW L \in Seq(S), NEW a \in 1 .. Len(L) + 1, NEW b \in a - 1 .. Len(L),
         \A n \in a .. b : L[n] = <<>>
  PROVE  FlattenSeq(SubSeq(L, a, b)) = <<>>
<1>0. Len(L) \in Nat /\ a \in Int /\ b \in Int
  BY LenProperties
<1>1. \A n \in a .. b : L[n] \in {<<>>}
  OBVIOUS
<1>2. SubSeq(L, a, b) \in Seq({<<>>})
  BY <1>0, <1>1, SubSeqProperties
<1> QED
  BY <1>2, FlattenNothing

LEMMA PartOne ==
  ASSUME NEW S, NEW L \in Seq(Seq(S)), NEW n \in 1 .. Len(L)
  PROVE  FlattenSeq(SubSeq(L, n, n)) = L[n]
<1>0. Len(L) \in Nat /\ L[n] \in Seq(S)
  BY LenProperties, ElementOfSeq
<1>1. SubSeq(L, n, n) = <<L[n]>> \o SubSeq(L, n + 1, n)
  BY <1>0, SubSeqRecursiveFirst
<1>2. SubSeq(L, n + 1, n) = <<>>
  BY <1>0, SubSeqEmpty
<1> DEFINE x == L[n]
<1>3. x \in Seq(S)
  BY <1>0
<1> HIDE DEF x
<1>4. <<x>> \o <<>> = <<x>> /\ FlattenSeq(<<x>>) = x
  <2>1. <<x>> \in Seq(Seq(S))
    BY <1>3
  <2> QED
    BY <1>3, <2>1, ConcatEmptySeq, FlattenOne
<1> QED
  BY <1>1, <1>2, <1>4 DEF x

LEMMA OneWord ==
  ASSUME NEW V, NEW t \in Seq(V), NEW n \in 1 .. Len(t)
  PROVE  SubSeq(t, n, n) = <<t[n]>>
<1>0. Len(t) \in Nat /\ t[n] \in V
  BY LenProperties, ElementOfSeq
<1>1. SubSeq(t, n, n) = <<t[n]>> \o SubSeq(t, n + 1, n)
  BY <1>0, SubSeqRecursiveFirst
<1>2. SubSeq(t, n + 1, n) = <<>>
  BY <1>0, SubSeqEmpty
<1> DEFINE x == t[n]
<1>3. x \in V
  BY <1>0
<1> HIDE DEF x
<1>4. <<x>> \o <<>> = <<x>>
  <2>1. <<x>> \in Seq(V)
    BY <1>3
  <2> QED
    BY <2>1, ConcatEmptySeq
<1> QED
  BY <1>1, <1>2, <1>4 DEF x

\* What has the form of a link is found with its marks where they are.
LEMMA PatternAsked ==
  ASSUME NEW V, NEW t \in Seq(V), NEW s \in 1 .. Len(t), OfForm(t, s)
  PROVE  linkPattern(t, s) = [start |-> s, label |-> s + 2, view |-> s + 4, end |-> s + 6]
<1> DEFINE k == Len(t)
<1>0. k \in Nat /\ s \in Nat
  BY LenProperties
<1>1. s + 6 <= k /\ t[s + 2] = Bar /\ t[s + 4] = BarAndOpen /\ t[s + 6] = Closes
  BY DEF OfForm
<1> HIDE DEF k
<1>2. LabelEnd(t, s) = s + 2
  <2> DEFINE I == {n \in s + 2 .. k : t[n] \in {Bar, BarAndOpen}}
  <2>1. I \subseteq Nat /\ s + 2 \in I /\ \A n \in I : s + 2 <= n
    BY <1>0, <1>1
  <2>2. LabelEnd(t, s) = First(I)
    BY DEF LabelEnd, k
  <2> HIDE DEF I
  <2> QED
    BY <2>1, <2>2, FirstAt
<1>3. ViewEnd(t, s + 2) = s + 4
  <2> DEFINE J == {n \in s + 4 .. k : t[n] = BarAndOpen}
  <2>1. J \subseteq Nat /\ s + 4 \in J /\ \A n \in J : s + 4 <= n
    BY <1>0, <1>1
  <2>2. ViewEnd(t, s + 2) = First(J)
    <3>1. s + 2 # 0 /\ (s + 2) + 2 = s + 4
      BY <1>0
    <3> QED
      BY <1>1, <3>1 DEF ViewEnd, k
  <2> HIDE DEF J
  <2> QED
    BY <2>1, <2>2, FirstAt
<1>4. ParamsEnd(t, s + 4) = s + 6
  <2> DEFINE E == {n \in s + 6 .. k : t[n] = Closes}
  <2>1. E \subseteq Nat /\ s + 6 \in E /\ \A n \in E : s + 6 <= n
    BY <1>0, <1>1
  <2>2. ParamsEnd(t, s + 4) = First(E)
    <3>1. s + 4 # 0 /\ (s + 4) + 2 = s + 6
      BY <1>0
    <3> QED
      BY <3>1 DEF ParamsEnd, k
  <2> HIDE DEF E
  <2> QED
    BY <2>1, <2>2, FirstAt
<1> QED
  BY <1>2, <1>3, <1>4 DEF linkPattern

\* And no other link opens within it.
LEMMA FormApart ==
  ASSUME NEW V, NEW t \in Seq(V), NEW s \in 1 .. Len(t), OfForm(t, s)
  PROVE  \A n \in s + 1 .. s + 6 : t[n] # Opens
<1>1. s \in Nat /\ t[s + 2] = Bar /\ t[s + 4] = BarAndOpen /\ t[s + 6] = Closes
  BY LenProperties DEF OfForm
<1>2. t[s + 1] \notin Marks /\ t[s + 3] \notin Marks /\ t[s + 5] \notin Marks
  BY DEF OfForm
<1>3. /\ t[s + 1] # Opens /\ t[s + 2] # Opens /\ t[s + 3] # Opens
      /\ t[s + 4] # Opens /\ t[s + 5] # Opens /\ t[s + 6] # Opens
  <2>1. Opens \in Marks
    BY Zenon DEF Marks
  <2> QED
    BY <1>1, <1>2, <2>1, MarksDiffer
<1>4. \A n \in s + 1 .. s + 6 :
        n = s + 1 \/ n = s + 2 \/ n = s + 3 \/ n = s + 4 \/ n = s + 5 \/ n = s + 6
  BY <1>1
<1> QED
  BY <1>3, <1>4

\* It leads where it says.
LEMMA LinkAsAsked ==
  ASSUME NEW V, NEW t \in Seq(V), NEW s \in 1 .. Len(t), WellFormed(t, s)
  PROVE  /\ Link(t, linkPattern(t, s)) = LinkAsked(t, s)
         /\ linkPattern(t, s).end = s + 6
         /\ \A n \in s + 1 .. s + 6 : t[n] # Opens
<1> DEFINE m == linkPattern(t, s)
           k == Len(t)
<1>0. k \in Nat /\ s \in Nat
  BY LenProperties
<1>1. m = [start |-> s, label |-> s + 2, view |-> s + 4, end |-> s + 6]
  BY PatternAsked DEF WellFormed
<1>2. /\ s + 6 <= k /\ t[s + 2] = Bar /\ t[s + 4] = BarAndOpen /\ t[s + 6] = Closes
      /\ {t[s + 1], t[s + 3]} \cap (Marks \cup {Blank}) = {} /\ t[s + 5] \in Params
  BY DEF WellFormed, OfForm
<1>3. t[s + 1] # Blank /\ t[s + 3] # Blank /\ t[s + 1] \notin Marks /\ t[s + 3] \notin Marks
  BY <1>2
<1>4. t[s + 5] # Blank /\ t[s + 5] \notin Marks
  BY <1>2, WordsAssumption
<1> DEFINE w == SubSeq(t, s + 1, s + 1)
           v == SubSeq(t, s + 3, s + 3)
           q == SubSeq(t, s + 5, s + 5)
<1>5. w = <<t[s + 1]>> /\ v = <<t[s + 3]>> /\ q = <<t[s + 5]>>
  <2>1. s + 1 \in 1 .. k /\ s + 3 \in 1 .. k /\ s + 5 \in 1 .. k
    BY <1>0, <1>2
  <2> QED
    BY <2>1, OneWord
<1>6. /\ m.start + 1 = s + 1 /\ m.label - 1 = s + 1 /\ m.label = s + 2 /\ m.label + 1 = s + 3
      /\ m.view - 1 = s + 3 /\ m.view + 1 = s + 5 /\ m.end - 1 = s + 5 /\ m.end = s + 6
  BY <1>0, <1>1
<1>7. Trim(w) = w /\ Trim(<<>> \o v) = v /\ Trim(q) = q /\ Len(q) = 1 /\ q[1] \in Params
  <2> DEFINE x == t[s + 1]
             y == t[s + 3]
             z == t[s + 5]
  <2>1. x # Blank /\ y # Blank /\ z # Blank /\ w = <<x>> /\ v = <<y>> /\ q = <<z>> /\ z \in Params
    BY <1>2, <1>3, <1>4, <1>5
  <2> HIDE DEF x, y, z, w, v, q
  <2>2. Trim(<<x>>) = <<x>> /\ Trim(<<y>>) = <<y>> /\ Trim(<<z>>) = <<z>>
    BY <2>1, TrimOne
  <2>3. <<>> \o <<y>> = <<y>>
    <3>1. <<y>> \in Seq({y})
      OBVIOUS
    <3> QED
      BY <3>1, ConcatEmptySeq
  <2>4. Len(<<z>>) = 1 /\ <<z>>[1] = z
    OBVIOUS
  <2> QED
    BY <2>1, <2>2, <2>3, <2>4
<1>8. Link(t, m) = [type |-> "link", content |-> w, view |-> v, params |-> q]
  <2> DEFINE W == SubSeq(t, m.start + 1, m.label - 1)
             X == SubSeq(t, m.label + 1, m.view - 1)
             Q == SubSeq(t, m.view + 1, m.end - 1)
  <2>1. W = w /\ X = v /\ Q = q
    BY <1>6
  <2>2. t[m.label] = Bar
    BY <1>2, <1>6
  <2> HIDE DEF m, w, v, q
  <2>3. Link(t, m) = [type |-> "link", content |-> Trim(W), view |-> Trim(<<>> \o X),
                      params |-> IF Len(Trim(Q)) = 1 /\ Trim(Q)[1] \in Params THEN Trim(Q) ELSE <<>>]
    BY <2>2 DEF Link
  <2> HIDE DEF W, X, Q
  <2> QED
    BY <1>7, <2>1, <2>3
<1>9. \A n \in s + 1 .. s + 6 : t[n] # Opens
  BY FormApart DEF WellFormed
<1> HIDE DEF m, w, v, q
<1>10. Link(t, m) = LinkAsked(t, s)
  BY <1>5, <1>8 DEF LinkAsked
<1> QED
  BY <1>6, <1>9, <1>10 DEF m

AllWellFormed(t) == \A s \in DOMAIN t : t[s] = Opens => WellFormed(t, s)

\* What is asked for at each position.
AskedAt(t) == [s \in 1 .. Len(t) |-> IF t[s] = Opens THEN <<LinkAsked(t, s)>> ELSE <<>>]

LEMMA AskedTyped ==
  ASSUME NEW V, OpenBrace \in V, NEW t \in Seq(V), AllWellFormed(t)
  PROVE  AskedAt(t) \in Seq(Seq(SegmentsOf(V))) /\ Len(AskedAt(t)) = Len(t)
<1> DEFINE S == SegmentsOf(V)
<1>0. Len(t) \in Nat /\ DOMAIN t = 1 .. Len(t)
  BY LenProperties
<1>1. ASSUME NEW s \in 1 .. Len(t), t[s] = Opens PROVE LinkAsked(t, s) \in S
  <2>1. WellFormed(t, s)
    BY <1>0, <1>1 DEF AllWellFormed
  <2>2. Link(t, linkPattern(t, s)) = LinkAsked(t, s) /\ linkPattern(t, s).end = s + 6
    BY <2>1, LinkAsAsked
  <2>3. Link(t, linkPattern(t, s)) \in S
    <3>1. linkPattern(t, s).end # 0
      BY <1>0, <2>2
    <3> QED
      BY <3>1, LinkTyped
  <2> QED
    BY <2>2, <2>3
<1> HIDE DEF S
<1>2. \A s \in 1 .. Len(t) : (IF t[s] = Opens THEN <<LinkAsked(t, s)>> ELSE <<>>) \in Seq(S)
  <2> TAKE s \in 1 .. Len(t)
  <2>1. CASE t[s] = Opens
    <3> DEFINE g == LinkAsked(t, s)
    <3>1. g \in S
      BY <1>1, <2>1
    <3> HIDE DEF g
    <3>2. <<g>> \in Seq(S)
      BY <3>1
    <3> QED
      BY <2>1, <3>2 DEF g
  <2>2. CASE t[s] # Opens
    BY <2>2, EmptySeq
  <2> QED
    BY <2>1, <2>2
<1> DEFINE T == Seq(S)
<1> HIDE DEF T
<1>3. AskedAt(t) \in [1 .. Len(t) -> T]
  BY <1>2 DEF AskedAt, T
<1>4. AskedAt(t) \in Seq(T) /\ Len(AskedAt(t)) = Len(t)
  BY <1>0, <1>3, FunctionIsSeq
<1> QED
  BY <1>4 DEF S, T

LEMMA CutLinks ==
  ASSUME NEW V, OpenBrace \in V, NEW t \in Seq(V), AllWellFormed(t)
  PROVE  \A p \in 1 .. Len(t) + 1 : LinksOf(CutOf(t)[p]) = FlattenSeq(SubSeq(AskedAt(t), p, Len(t)))
<1> DEFINE k == Len(t) + 1
           S == SegmentsOf(V)
           L == AskedAt(t)
           F(a, b) == FlattenSeq(SubSeq(L, a, b))
           A == {p \in 1 .. k : LinksOf(CutOf(t)[p]) = F(p, Len(t))}
<1>0. k \in Nat /\ Len(t) \in Nat /\ k = Len(t) + 1 /\ DOMAIN t = 1 .. Len(t)
  BY LenProperties
<1>1. L \in Seq(Seq(S)) /\ Len(L) = Len(t)
  BY AskedTyped
<1>2. \A n \in 1 .. Len(t) : t[n] # Opens => L[n] = <<>>
  BY DEF AskedAt
<1>3. ASSUME NEW n \in 1 .. Len(t), t[n] = Opens
      PROVE  /\ IsLink(t, n) /\ L[n] = <<Link(t, linkPattern(t, n))>> /\ linkPattern(t, n).end = n + 6
             /\ n + 6 <= Len(t) /\ \A i \in n + 1 .. n + 6 : t[i] # Opens
  <2>1. WellFormed(t, n)
    BY <1>0, <1>3 DEF AllWellFormed
  <2>2. /\ Link(t, linkPattern(t, n)) = LinkAsked(t, n) /\ linkPattern(t, n).end = n + 6
        /\ \A i \in n + 1 .. n + 6 : t[i] # Opens
    BY <2>1, LinkAsAsked
  <2>3. L[n] = <<LinkAsked(t, n)>>
    BY <1>3 DEF AskedAt
  <2>4. n + 6 <= Len(t)
    BY <2>1 DEF WellFormed, OfForm
  <2>5. IsLink(t, n)
    BY <1>0, <1>3, <2>2 DEF IsLink
  <2> QED
    BY <2>2, <2>3, <2>4, <2>5
<1> HIDE DEF L
<1>4. ASSUME NEW p \in 1 .. k, \A n \in p + 1 .. k : n \in A PROVE p \in A
  <2> DEFINE s == NextLink(t, p)
             C == CutOf(t)
  <2>0. C[p] = CutStep(t, p, C)
    BY CutExists
  <2>1. CASE s = 0
    <3> DEFINE w == SubSeq(t, p, Len(t))
    <3>1. C[p] = Remaining(w)
      BY <2>0, <2>1 DEF CutStep
    <3>2. w \in Seq(V)
      <4>1. Len(t) \in p - 1 .. Len(t)
        BY <1>0
      <4> QED
        BY <4>1, PartTyped
    <3>3. \A n \in p .. Len(t) : ~IsLink(t, n)
      BY <2>1, NextIs
    <3> HIDE DEF w, C, s
    <3>4. LinksOf(Remaining(w)) = <<>>
      BY <3>2, RemainingIs
    <3>5. \A n \in p .. Len(t) : L[n] = <<>>
      BY <1>0, <1>2, <1>3, <3>3
    <3>6. F(p, Len(t)) = <<>>
      <4>1. p \in 1 .. Len(L) + 1 /\ Len(t) \in p - 1 .. Len(L)
        BY <1>0, <1>1
      <4> QED
        BY <1>1, <3>5, <4>1, PartNothing
    <3> QED
      BY <3>1, <3>4, <3>6 DEF C
  <2>2. CASE s # 0
    <3> DEFINE m == linkPattern(t, s)
               e == m.end
               a == Preceding(t, p, s)
               b == <<Link(t, m)>>
               c == C[e + 1]
    <3>1. C[p] = (a \o b) \o c
      BY <2>0, <2>2 DEF CutStep
    <3>2. s \in p .. Len(t) /\ e + 1 \in p + 1 .. k
      BY <2>2, LinkGoesOn
    <3>3. IsLink(t, s) /\ \A n \in p .. s - 1 : ~IsLink(t, n)
      BY <2>2, NextIs
    <3>4. s \in 1 .. Len(t) /\ e # 0 /\ t[s] = Opens
      BY <1>0, <3>2, <3>3 DEF IsLink
    <3>5. L[s] = b /\ e = s + 6 /\ s + 6 <= Len(t) /\ \A i \in s + 1 .. s + 6 : t[i] # Opens
      BY <1>3, <3>4
    <3>6. LinksOf(c) = F(e + 1, Len(t)) /\ c \in Seq(S)
      BY <1>4, <3>2, CutTyped
    <3>7. a \in Seq(S) /\ LinksOf(a) = <<>>
      BY <3>2, PrecedingIs
    <3>8. b \in Seq(S) /\ LinksOf(b) = b
      <4>1. Link(t, m) \in S /\ Link(t, m).type = "link"
        BY <3>4, LinkTyped
      <4> QED
        BY <4>1, OneSegment
    <3> HIDE DEF a, b, c, C, e, m, s, S
    <3>9. LinksOf((a \o b) \o c) = b \o LinksOf(c)
      <4>1. a \o b \in Seq(S) /\ LinksOf(a \o b) = LinksOf(a) \o LinksOf(b)
        BY <3>7, <3>8, LinksConcat, Zenon DEF S
      <4>2. LinksOf((a \o b) \o c) = LinksOf(a \o b) \o LinksOf(c)
        BY <3>6, <4>1, LinksConcat, Zenon DEF S
      <4>3. <<>> \o b = b
        BY <3>8, ConcatEmptySeq
      <4> QED
        BY <3>7, <3>8, <4>1, <4>2, <4>3, Zenon
    <3>10. \A n \in p .. s - 1 : L[n] = <<>>
      BY <1>0, <1>2, <1>3, <3>2, <3>3
    <3>11. \A n \in s + 1 .. e : L[n] = <<>>
      BY <1>0, <1>2, <3>4, <3>5
    <3> HIDE DEF F
    <3>12. F(p, Len(t)) = F(p, s - 1) \o F(s, Len(t)) /\ F(s, Len(t)) \in Seq(S)
      <4>1. p \in 1 .. Len(L) + 1 /\ s - 1 \in p - 1 .. Len(L) /\ Len(t) \in s - 1 .. Len(L) /\ (s - 1) + 1 = s
        BY <1>0, <1>1, <3>2
      <4> QED
        BY <1>1, <4>1, PartsJoin DEF F, S
    <3>13. F(s, Len(t)) = F(s, s) \o F(s + 1, Len(t))
      <4>1. s \in 1 .. Len(L) + 1 /\ s \in s - 1 .. Len(L) /\ Len(t) \in s .. Len(L)
        BY <1>0, <1>1, <3>4
      <4> QED
        BY <1>1, <4>1, PartsJoin DEF F, S
    <3>14. F(s + 1, Len(t)) = F(s + 1, e) \o F(e + 1, Len(t)) /\ F(e + 1, Len(t)) \in Seq(S)
      <4>1. s + 1 \in 1 .. Len(L) + 1 /\ e \in (s + 1) - 1 .. Len(L) /\ Len(t) \in e .. Len(L)
        BY <1>0, <1>1, <3>4, <3>5
      <4> QED
        BY <1>1, <4>1, PartsJoin DEF F, S
    <3>15. F(p, s - 1) = <<>>
      <4>1. p \in 1 .. Len(L) + 1 /\ s - 1 \in p - 1 .. Len(L)
        BY <1>0, <1>1, <3>2
      <4> QED
        BY <1>1, <3>10, <4>1, PartNothing DEF F
    <3>16. F(s + 1, e) = <<>>
      <4>1. s + 1 \in 1 .. Len(L) + 1 /\ e \in (s + 1) - 1 .. Len(L)
        BY <1>0, <1>1, <3>4, <3>5
      <4> QED
        BY <1>1, <3>11, <4>1, PartNothing DEF F
    <3>17. F(s, s) = b
      <4>1. s \in 1 .. Len(L)
        BY <1>1, <3>4
      <4> QED
        BY <1>1, <3>5, <4>1, PartOne DEF F
    <3>18. F(s + 1, Len(t)) = F(e + 1, Len(t))
      BY <3>14, <3>16, ConcatEmptySeq
    <3>19. F(p, Len(t)) = F(s, Len(t))
      BY <3>12, <3>15, ConcatEmptySeq
    <3>20. F(p, Len(t)) = b \o F(e + 1, Len(t))
      BY <3>13, <3>17, <3>18, <3>19
    <3>21. LinksOf(C[p]) = F(p, Len(t))
      BY <3>1, <3>6, <3>9, <3>20 DEF F
    <3> QED
      BY <3>21 DEF C, F
  <2> QED
    BY <2>1, <2>2
<1> HIDE DEF k
<1>5. \A p \in 1 .. k : p \in A
  <2> HIDE DEF A
  <2> QED
    BY <1>0, <1>4, DownFrom
<1> QED
  BY <1>5 DEF k, L

\* LinksFound, of every text: when its links are written as asked for, whatever stands
\* between them, the links of the answer are these, in their order, and no others.
THEOREM LinksAreFound ==
  ASSUME NEW V, NEW t \in Seq(V)
  PROVE  LinksFound(t)
<1> SUFFICES ASSUME AllWellFormed(t) PROVE LinksOf(parseSegments(t)) = LinksAsked(t)
  BY DEF LinksFound, AllWellFormed
<1> DEFINE U == V \cup {OpenBrace}
<1>1. t \in Seq(U) /\ OpenBrace \in U
  BY SeqMonotonic
<1> HIDE DEF U
<1>2. LinksAsked(t) = FlattenSeq(AskedAt(t))
  BY DEF LinksAsked, AskedAt
<1>3. LinksOf(Cut(t)) = LinksAsked(t)
  <2>1. 1 \in 1 .. Len(t) + 1
    BY LenProperties
  <2>2. LinksOf(CutOf(t)[1]) = FlattenSeq(SubSeq(AskedAt(t), 1, Len(t)))
    BY <1>1, <2>1, CutLinks
  <2>3. AskedAt(t) \in Seq(Seq(SegmentsOf(U))) /\ Len(AskedAt(t)) = Len(t)
    BY <1>1, AskedTyped
  <2>4. SubSeq(AskedAt(t), 1, Len(t)) = AskedAt(t)
    BY <2>3, SubSeqFull
  <2> QED
    BY <1>2, <2>2, <2>4, CutIs
<1>4. CASE t = <<>>
  <2> DEFINE P == {"no analysis"}
  <2>1. Placeholder \in Seq(P)
    BY DEF Placeholder
  <2>2. LinksOf(<<Text(Placeholder)>>) = <<>>
    BY <2>1, TextIs
  <2>3. LinksAsked(t) = <<>>
    <3>1. Len(t) = 0
      BY <1>4, EmptySeq
    <3>2. AskedAt(t) = <<>>
      BY <3>1 DEF AskedAt
    <3> QED
      BY <1>2, <3>2, FlattenEmpty
  <2> QED
    BY <1>4, <2>2, <2>3 DEF parseSegments
<1>5. CASE t # <<>> /\ Cut(t) = <<>>
  <2>1. LinksOf(<<Text(t)>>) = <<>>
    BY TextIs
  <2> QED
    BY <1>3, <1>5, <2>1, NoSegment DEF parseSegments
<1>6. CASE t # <<>> /\ Cut(t) # <<>>
  BY <1>3, <1>6 DEF parseSegments
<1> QED
  BY <1>4, <1>5, <1>6

-----------------------------------------------------------------------------
(* No word is lost *)

\* What is to be shown of each position.
WordsAt(t) == [n \in 1 .. Len(t) |-> IF t[n] \in NoWords \/ n \in Hidden(t) THEN <<>> ELSE <<t[n]>>]

ShowIn(t, a, b) == FlattenSeq(SubSeq(WordsAt(t), a, b))

LEMMA WordsAtTyped ==
  ASSUME NEW V, NEW t \in Seq(V)
  PROVE  WordsAt(t) \in Seq(Seq(V)) /\ Len(WordsAt(t)) = Len(t)
<1>0. Len(t) \in Nat /\ \A n \in 1 .. Len(t) : t[n] \in V
  BY LenProperties, ElementOfSeq
<1> DEFINE T == Seq(V)
<1>1. <<>> \in T /\ \A x \in V : <<x>> \in T
  BY EmptySeq
<1> HIDE DEF T
<1>2. WordsAt(t) \in [1 .. Len(t) -> T]
  BY <1>0, <1>1 DEF WordsAt
<1> QED
  BY <1>0, <1>2, FunctionIsSeq DEF T

LEMMA ShowSplit ==
  ASSUME NEW V, NEW t \in Seq(V), NEW a \in 1 .. Len(t) + 1, NEW b \in a - 1 .. Len(t), NEW c \in b .. Len(t)
  PROVE  /\ ShowIn(t, a, c) = ShowIn(t, a, b) \o ShowIn(t, b + 1, c)
         /\ ShowIn(t, a, b) \in Seq(V) /\ ShowIn(t, b + 1, c) \in Seq(V)
<1> DEFINE L == WordsAt(t)
<1>1. L \in Seq(Seq(V)) /\ Len(L) = Len(t)
  BY WordsAtTyped
<1> HIDE DEF L
<1>2. a \in 1 .. Len(L) + 1 /\ b \in a - 1 .. Len(L) /\ c \in b .. Len(L)
  BY <1>1
<1> QED
  BY <1>1, <1>2, PartsJoin DEF ShowIn, L

LEMMA ShowNothing ==
  ASSUME NEW V, NEW t \in Seq(V), NEW a \in 1 .. Len(t) + 1, NEW b \in a - 1 .. Len(t),
         \A n \in a .. b : t[n] \in NoWords \/ n \in Hidden(t)
  PROVE  ShowIn(t, a, b) = <<>>
<1> DEFINE L == WordsAt(t)
<1>0. Len(t) \in Nat
  BY LenProperties
<1>1. L \in Seq(Seq(V)) /\ Len(L) = Len(t)
  BY WordsAtTyped
<1>2. \A n \in a .. b : L[n] = <<>>
  <2> SUFFICES ASSUME NEW n \in a .. b PROVE L[n] = <<>>
    OBVIOUS
  <2>1. n \in 1 .. Len(t)
    BY <1>0
  <2> QED
    BY <2>1 DEF WordsAt
<1> HIDE DEF L
<1> QED
  BY <1>1, <1>2, PartNothing DEF ShowIn, L

\* Where nothing is hidden all the words are to be shown.
LEMMA ShowAll ==
  ASSUME NEW V, NEW t \in Seq(V), NEW a \in 1 .. Len(t) + 1, NEW b \in a - 1 .. Len(t),
         \A n \in a .. b : n \notin Hidden(t)
  PROVE  ShowIn(t, a, b) = WordsIn(t, a, b)
<1> DEFINE L == WordsAt(t)
           u == SubSeq(L, a, b)
           w == SubSeq(t, a, b)
           W == [n \in 1 .. Len(w) |-> IF w[n] \in NoWords THEN <<>> ELSE <<w[n]>>]
           m == b - a + 1
<1>0. Len(t) \in Nat /\ a \in Int /\ b \in Int /\ m \in Nat
  BY LenProperties
<1>1. L \in Seq(Seq(V)) /\ Len(L) = Len(t)
  BY WordsAtTyped
<1>2. w \in Seq(V) /\ Len(w) = m /\ \A n \in 1 .. m : w[n] = t[a + n - 1]
  BY PartTyped
<1>3. u \in Seq(Seq(V)) /\ Len(u) = m /\ \A n \in 1 .. m : u[n] = L[a + n - 1]
  <2> HIDE DEF L
  <2>1. a \in 1 .. Len(L) + 1 /\ b \in a - 1 .. Len(L)
    BY <1>1
  <2> QED
    BY <1>1, <2>1, PartTyped
<1>4. W \in Seq(Seq(V)) /\ Len(W) = m
  <2> DEFINE T == Seq(V)
  <2>1. <<>> \in T /\ \A n \in 1 .. Len(w) : <<w[n]>> \in T
    <3>1. \A n \in 1 .. Len(w) : w[n] \in V
      BY <1>2, ElementOfSeq
    <3> QED
      BY <3>1, EmptySeq
  <2> HIDE DEF T, w
  <2>2. W \in [1 .. Len(w) -> T]
    BY <2>1
  <2> HIDE DEF W
  <2> QED
    BY <1>0, <1>2, <2>2, FunctionIsSeq DEF T
<1>5. ASSUME NEW n \in 1 .. m PROVE u[n] = W[n]
  <2>1. a + n - 1 \in 1 .. Len(t) /\ a + n - 1 \in a .. b
    BY <1>0
  <2>2. L[a + n - 1] = IF t[a + n - 1] \in NoWords THEN <<>> ELSE <<t[a + n - 1]>>
    BY <2>1 DEF WordsAt
  <2> HIDE DEF L, u, w
  <2>3. W[n] = IF w[n] \in NoWords THEN <<>> ELSE <<w[n]>>
    BY <1>2
  <2> QED
    BY <1>2, <1>3, <2>2, <2>3
<1> HIDE DEF u, W, m
<1>6. u = W
  BY <1>0, <1>3, <1>4, <1>5, SeqEqual
<1> QED
  BY <1>6 DEF ShowIn, WordsIn, Words, u, W

\* Where a link of the form leads is hidden, and it shows its label.
LEMMA FormShows ==
  ASSUME NEW V, OpenBrace \in V, NEW t \in Seq(V), NEW s \in 1 .. Len(t), OfForm(t, s)
  PROVE  /\ IsLink(t, s) /\ linkPattern(t, s).end = s + 6 /\ s + 6 <= Len(t)
         /\ Words(AllShown(<<Link(t, linkPattern(t, s))>>)) = ShowIn(t, s, s + 6)
<1> DEFINE k == Len(t)
           g == Link(t, linkPattern(t, s))
<1>0. k \in Nat /\ DOMAIN t = 1 .. k /\ s \in Nat
  BY LenProperties
<1>1. /\ s + 6 <= k /\ t[s] = Opens /\ t[s + 2] = Bar /\ t[s + 4] = BarAndOpen /\ t[s + 6] = Closes
  BY DEF OfForm
<1>2. linkPattern(t, s) = [start |-> s, label |-> s + 2, view |-> s + 4, end |-> s + 6]
  BY PatternAsked
<1>3. linkPattern(t, s).end = s + 6 /\ linkPattern(t, s).label - 1 = s + 1 /\ s + 6 # 0
  BY <1>0, <1>2
<1>4. g \in SegmentsOf(V) /\ Words(g.content) = WordsIn(t, s + 1, s + 1)
  BY <1>3, LinkTyped
<1> HIDE DEF g, k
<1>5. AllShown(<<g>>) = g.content
  BY <1>4, OneSegment
<1>6. s + 3 \in Hidden(t) /\ s + 5 \in Hidden(t)
  BY <1>0 DEF Hidden
<1>7. /\ t[s] \in NoWords /\ t[s + 2] \in NoWords /\ t[s + 4] \in NoWords /\ t[s + 6] \in NoWords
  BY <1>1, Zenon DEF NoWords, Marks
<1>8. s + 1 \notin Hidden(t)
  <2> SUFFICES ASSUME NEW r \in DOMAIN t, OfForm(t, r), s + 1 = r + 3 \/ s + 1 = r + 5 PROVE FALSE
    BY DEF Hidden
  <2>1. \A n \in r + 1 .. r + 6 : t[n] # Opens
    BY <1>0, FormApart DEF k
  <2>2. s \in r + 1 .. r + 6
    BY <1>0
  <2> QED
    BY <1>1, <2>1, <2>2
<1> DEFINE W(a, b) == ShowIn(t, a, b)
<1>9. W(s, s) = <<>>
  <2>1. s \in 1 .. k + 1 /\ s \in s - 1 .. k /\ \A n \in s .. s : t[n] \in NoWords
    BY <1>0, <1>7 DEF k
  <2> QED
    BY <2>1, ShowNothing DEF k
<1>10. W(s + 1, s + 1) = WordsIn(t, s + 1, s + 1)
  <2>1. s + 1 \in 1 .. k + 1 /\ s + 1 \in (s + 1) - 1 .. k /\ \A n \in s + 1 .. s + 1 : n \notin Hidden(t)
    BY <1>0, <1>1, <1>8 DEF k
  <2> QED
    BY <2>1, ShowAll DEF k
<1>11. W(s + 2, s + 6) = <<>>
  <2>1. s + 2 \in 1 .. k + 1 /\ s + 6 \in (s + 2) - 1 .. k
    BY <1>0, <1>1 DEF k
  <2>2. \A n \in s + 2 .. s + 6 : n = s + 2 \/ n = s + 3 \/ n = s + 4 \/ n = s + 5 \/ n = s + 6
    BY <1>0
  <2>3. \A n \in s + 2 .. s + 6 : t[n] \in NoWords \/ n \in Hidden(t)
    BY <1>6, <1>7, <2>2
  <2> QED
    BY <2>1, <2>3, ShowNothing DEF k
<1>12. W(s, s + 6) = W(s, s) \o W(s + 1, s + 6) /\ W(s + 1, s + 6) \in Seq(V)
  <2>1. s \in 1 .. k + 1 /\ s \in s - 1 .. k /\ s + 6 \in s .. k
    BY <1>0, <1>1 DEF k
  <2> QED
    BY <2>1, ShowSplit DEF k
<1>13. W(s + 1, s + 6) = W(s + 1, s + 1) \o W(s + 2, s + 6) /\ W(s + 1, s + 1) \in Seq(V)
  <2>1. s + 1 \in 1 .. k + 1 /\ s + 1 \in (s + 1) - 1 .. k /\ s + 6 \in s + 1 .. k /\ (s + 1) + 1 = s + 2
    BY <1>0, <1>1 DEF k
  <2>2. W(s + 1, s + 6) = W(s + 1, s + 1) \o W((s + 1) + 1, s + 6) /\ W(s + 1, s + 1) \in Seq(V)
    BY <2>1, ShowSplit DEF k
  <2> QED
    BY <2>1, <2>2
<1> HIDE DEF W
<1>14. W(s, s + 6) = WordsIn(t, s + 1, s + 1)
  BY <1>9, <1>10, <1>11, <1>12, <1>13, ConcatEmptySeq
<1>15. Words(AllShown(<<g>>)) = ShowIn(t, s, s + 6)
  BY <1>4, <1>5, <1>14 DEF W
<1>16. IsLink(t, s)
  BY <1>1, <1>3 DEF IsLink
<1> QED
  BY <1>1, <1>3, <1>15, <1>16 DEF g, k

\* Position p is not within a link of the form.
Between(t, p) == \A s \in DOMAIN t : OfForm(t, s) => p <= s \/ s + 6 < p

\* From each such position on, the segments show what is to be shown.
LEMMA CutShows ==
  ASSUME NEW V, OpenBrace \in V, NEW t \in Seq(V), NothingSwallowed(t)
  PROVE  \A p \in 1 .. Len(t) + 1 :
           Between(t, p) => Words(AllShown(CutOf(t)[p])) = ShowIn(t, p, Len(t))
<1> DEFINE k == Len(t) + 1
           A == {p \in 1 .. k : Between(t, p) => Words(AllShown(CutOf(t)[p])) = ShowIn(t, p, Len(t))}
<1>0. k \in Nat /\ Len(t) \in Nat /\ k = Len(t) + 1 /\ DOMAIN t = 1 .. Len(t)
  BY LenProperties
\* Before the next link nothing is hidden.
<1>2. ASSUME NEW p \in 1 .. k, Between(t, p), NEW b \in p - 1 .. Len(t), \A n \in p .. b : ~IsLink(t, n),
             NEW n \in p .. b
      PROVE  n \notin Hidden(t)
  <2> SUFFICES ASSUME NEW r \in DOMAIN t, OfForm(t, r), n = r + 3 \/ n = r + 5 PROVE FALSE
    BY DEF Hidden
  <2>1. r \in 1 .. Len(t) /\ IsLink(t, r)
    BY <1>0, FormShows
  <2>2. r \notin p .. b /\ (p <= r \/ r + 6 < p)
    BY <1>2, <2>1 DEF Between
  <2> QED
    BY <1>0, <2>1, <2>2
<1>1. ASSUME NEW p \in 1 .. k, \A n \in p + 1 .. k : n \in A PROVE p \in A
  <2> SUFFICES ASSUME Between(t, p) PROVE Words(AllShown(CutOf(t)[p])) = ShowIn(t, p, Len(t))
    OBVIOUS
  <2> DEFINE s == NextLink(t, p)
             e == linkPattern(t, s).end
             C == CutOf(t)
  <2>0. C[p] = CutStep(t, p, C)
    BY CutExists
  <2>1. CASE s = 0
    <3> DEFINE w == SubSeq(t, p, Len(t))
    <3>1. C[p] = Remaining(w)
      BY <2>0, <2>1 DEF CutStep
    <3>0. Len(t) \in p - 1 .. Len(t)
      BY <1>0
    <3>2. w \in Seq(V)
      BY <3>0, PartTyped
    <3>4. \A n \in p .. Len(t) : ~IsLink(t, n)
      BY <2>1, NextIs
    <3> HIDE DEF w, C, s
    <3>3. Words(AllShown(Remaining(w))) = Words(w)
      BY <3>2, RemainingIs
    <3>5. \A n \in p .. Len(t) : n \notin Hidden(t)
      BY <1>2, <3>0, <3>4
    <3>6. ShowIn(t, p, Len(t)) = WordsIn(t, p, Len(t))
      BY <3>0, <3>5, ShowAll
    <3> QED
      BY <3>1, <3>3, <3>6 DEF WordsIn, w, C
  <2>2. CASE s # 0
    <3> DEFINE a == Preceding(t, p, s)
               b == <<Link(t, linkPattern(t, s))>>
               c == C[e + 1]
    <3>1. C[p] = (a \o b) \o c
      BY <2>0, <2>2 DEF CutStep
    <3>2. s \in p .. Len(t) /\ e + 1 \in p + 1 .. k
      BY <2>2, LinkGoesOn
    <3>3. IsLink(t, s) /\ \A n \in p .. s - 1 : ~IsLink(t, n)
      BY <2>2, NextIs
    <3>4. s \in 1 .. Len(t) /\ e # 0 /\ t[s] = Opens
      BY <1>0, <3>2, <3>3 DEF IsLink
    <3>5. OfForm(t, s)
      <4>1. LET m == linkPattern(t, s) IN
            /\ m.label \in s + 2 .. Len(t) /\ m.view \in m.label + 1 .. Len(t)
            /\ m.end \in m.view + 2 .. Len(t) /\ t[m.end] = Closes
        BY <3>4, PatternIs
      <4>2. e \in s + 1 .. Len(t) /\ t[e] = Closes
        BY <1>0, <3>4, <4>1
      <4> QED
        BY <1>0, <3>4, <4>2 DEF NothingSwallowed
    <3>6. e = s + 6 /\ s + 6 <= Len(t) /\ Words(AllShown(b)) = ShowIn(t, s, s + 6)
      BY <3>4, <3>5, FormShows
    <3>7. Between(t, e + 1)
      <4> SUFFICES ASSUME NEW r \in DOMAIN t, OfForm(t, r) PROVE s + 7 <= r \/ r + 6 < s + 7
        BY <1>0, <3>4, <3>6 DEF Between
      <4>1. (\A n \in s + 1 .. s + 6 : t[n] # Opens) /\ (\A n \in r + 1 .. r + 6 : t[n] # Opens) /\ t[r] = Opens
        BY <1>0, <3>4, <3>5, FormApart DEF OfForm
      <4>2. r \notin s + 1 .. s + 6 /\ s \notin r + 1 .. r + 6
        BY <3>4, <4>1
      <4> QED
        BY <1>0, <3>4, <4>2
    <3>8. Words(AllShown(c)) = ShowIn(t, e + 1, Len(t)) /\ c \in Seq(SegmentsOf(V))
      BY <1>1, <3>2, <3>7, CutTyped
    <3>9. a \in Seq(SegmentsOf(V)) /\ Words(AllShown(a)) = ShowIn(t, p, s - 1)
      <4>1. s - 1 \in p - 1 .. Len(t)
        BY <1>0, <3>2
      <4>2. \A n \in p .. s - 1 : n \notin Hidden(t)
        <5> HIDE DEF s
        <5> QED
          BY <1>2, <3>3, <4>1
      <4>3. ShowIn(t, p, s - 1) = WordsIn(t, p, s - 1)
        BY <4>1, <4>2, ShowAll
      <4> QED
        BY <3>2, <4>3, PrecedingIs
    <3>10. b \in Seq(SegmentsOf(V))
      <4>1. Link(t, linkPattern(t, s)) \in SegmentsOf(V)
        BY <3>4, LinkTyped
      <4> QED
        BY <4>1, OneSegment
    <3> HIDE DEF a, b, c, C, e, s
    <3>11. a \o b \in Seq(SegmentsOf(V)) /\ Words(AllShown(a \o b)) = Words(AllShown(a)) \o Words(AllShown(b))
      BY <3>9, <3>10, ShownConcat, Zenon
    <3> DEFINE d == a \o b
    <3>12. d \in Seq(SegmentsOf(V))
      BY <3>11
    <3> HIDE DEF d
    <3>13. Words(AllShown(d \o c)) = Words(AllShown(d)) \o Words(AllShown(c))
      BY <3>8, <3>12, ShownConcat, Zenon
    <3>14. ShowIn(t, p, e) = ShowIn(t, p, s - 1) \o ShowIn(t, s, e)
      <4>1. s - 1 \in p - 1 .. Len(t) /\ e \in s - 1 .. Len(t) /\ (s - 1) + 1 = s /\ p \in 1 .. Len(t) + 1
        BY <1>0, <3>2, <3>6
      <4> QED
        BY <4>1, ShowSplit
    <3>15. ShowIn(t, p, Len(t)) = ShowIn(t, p, e) \o ShowIn(t, e + 1, Len(t))
      <4>1. e \in p - 1 .. Len(t) /\ Len(t) \in e .. Len(t) /\ p \in 1 .. Len(t) + 1
        BY <1>0, <3>2, <3>6
      <4> QED
        BY <4>1, ShowSplit
    <3>16. Words(AllShown(d)) = ShowIn(t, p, e)
      BY <3>6, <3>9, <3>11, <3>14 DEF d
    <3>17. Words(AllShown(C[p])) = ShowIn(t, p, Len(t))
      BY <3>1, <3>8, <3>13, <3>15, <3>16 DEF d
    <3> QED
      BY <3>17 DEF C
  <2> QED
    BY <2>1, <2>2
<1> HIDE DEF k
<1>3. \A p \in 1 .. k : p \in A
  <2> HIDE DEF A
  <2> QED
    BY <1>0, <1>1, DownFrom
<1> QED
  BY <1>3 DEF k

LEMMA NothingCut ==
  ASSUME NEW V, OpenBrace \in V, NEW t \in Seq(V), Cut(t) = <<>>
  PROVE  Words(t) = <<>>
<1> DEFINE C == CutOf(t)
           s == NextLink(t, 1)
           S == SegmentsOf(V)
<1>0. Len(t) \in Nat /\ 1 \in 1 .. Len(t) + 1
  BY LenProperties
<1>1. C[1] = CutStep(t, 1, C) /\ C[1] = <<>>
  BY <1>0, CutExists, CutIs
<1>2. CASE s = 0
  <2>1. Remaining(SubSeq(t, 1, Len(t))) = <<>>
    BY <1>1, <1>2 DEF CutStep
  <2>2. SubSeq(t, 1, Len(t)) = t
    BY SubSeqFull
  <2>3. Words(AllShown(Remaining(t))) = Words(t)
    BY RemainingIs
  <2> QED
    BY <2>1, <2>2, <2>3, NoSegment
<1>3. CASE s # 0
  <2> DEFINE m == linkPattern(t, s)
             a == Preceding(t, 1, s)
             b == <<Link(t, m)>>
             c == C[m.end + 1]
  <2>1. (a \o b) \o c = <<>>
    BY <1>1, <1>3 DEF CutStep
  <2>2. s \in 1 .. Len(t) /\ m.end + 1 \in 1 .. Len(t) + 1 /\ m.end # 0
    <3>1. s \in 1 .. Len(t) /\ m.end + 1 \in 1 + 1 .. Len(t) + 1
      BY <1>0, <1>3, LinkGoesOn
    <3>2. IsLink(t, s)
      BY <1>0, <1>3, NextIs
    <3> HIDE DEF s, m
    <3> QED
      BY <1>0, <3>1, <3>2 DEF IsLink, m
  <2>3. a \in Seq(S) /\ c \in Seq(S)
    BY <1>0, <2>2, PrecedingIs, CutTyped
  <2>4. b \in Seq(S) /\ Len(b) = 1
    BY <2>2, LinkTyped, OneSegment
  <2> HIDE DEF a, b, c, m, s, S
  <2>5. a \o b \in Seq(S) /\ Len(a \o b) = Len(a) + 1 /\ Len(a) \in Nat /\ Len(c) \in Nat
    <3>1. b \in Seq(S) /\ Len(b) = 1
      BY <2>4
    <3>2. a \o b \in Seq(S) /\ Len(a \o b) = Len(a) + Len(b)
      BY <2>3, <3>1, ConcatProperties, Zenon
    <3> QED
      BY <2>3, <3>1, <3>2, LenProperties
  <2> DEFINE d == a \o b
  <2>6. d \in Seq(S) /\ Len(d) = Len(a) + 1
    BY <2>5
  <2> HIDE DEF d
  <2>7. Len(d \o c) = Len(d) + Len(c)
    BY <2>3, <2>6, ConcatProperties
  <2>8. Len(d \o c) = 0
    BY <2>1, EmptySeq DEF d
  <2> QED
    BY <2>5, <2>6, <2>7, <2>8
<1> QED
  BY <1>2, <1>3

\* WordsKept, of every text: when what opens a link has the form of one or is never closed,
\* the segments show every word but those that say where a link leads, each once and in
\* its place.
THEOREM LabelsAndTextShown ==
  ASSUME NEW V, NEW t \in Seq(V)
  PROVE  WordsKept(t)
<1> SUFFICES ASSUME NothingSwallowed(t), t # <<>>
             PROVE  Words(AllShown(parseSegments(t))) = WordsToShow(t)
  BY DEF WordsKept, WordsShown
<1> DEFINE U == V \cup {OpenBrace}
           k == Len(t)
<1>1. t \in Seq(U) /\ OpenBrace \in U
  BY SeqMonotonic
<1> HIDE DEF U
<1>2. k \in Nat /\ DOMAIN t = 1 .. k /\ 1 \in 1 .. k + 1
  BY LenProperties
<1>3. Between(t, 1)
  BY <1>2 DEF Between
<1>4. Words(AllShown(CutOf(t)[1])) = ShowIn(t, 1, k)
  BY <1>1, <1>2, <1>3, CutShows
<1>5. ShowIn(t, 1, k) = WordsToShow(t)
  <2>1. WordsAt(t) \in Seq(Seq(U)) /\ Len(WordsAt(t)) = k
    BY <1>1, WordsAtTyped
  <2>2. SubSeq(WordsAt(t), 1, k) = WordsAt(t)
    BY <2>1, SubSeqFull
  <2> QED
    BY <2>2 DEF ShowIn, WordsToShow, WordsAt
<1>6. CASE Cut(t) # <<>>
  BY <1>4, <1>5, <1>6, CutIs DEF parseSegments
<1>7. CASE Cut(t) = <<>>
  <2>1. parseSegments(t) = <<Text(t)>>
    BY <1>7 DEF parseSegments
  <2>2. Words(AllShown(<<Text(t)>>)) = Words(t)
    BY TextIs
  <2>3. WordsToShow(t) = <<>>
    BY <1>4, <1>5, <1>7, CutIs, NoSegment
  <2>4. Words(t) = <<>>
    BY <1>1, <1>7, NothingCut
  <2> QED
    BY <2>1, <2>2, <2>3, <2>4
<1> QED
  BY <1>6, <1>7
=============================================================================
