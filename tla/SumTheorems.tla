----------------------------- MODULE SumTheorems -----------------------------
(***************************************************************************)
(* Facts about the sums the reports are made of: SumFunctionOnSet of the   *)
(* community modules, for a function on any finite set.  It is defined by  *)
(* recursion; what follows needs nothing but its first step (SumOnSet).    *)
(***************************************************************************)
EXTENDS Integers, FiniteSetsExt, FiniteSetTheorems, WellFoundedInduction, TLAPS

-----------------------------------------------------------------------------
(* Induction over the subsets of a finite set *)

\* Of some subsets of a finite set one is minimal.
LEMMA MinimalSubset ==
  ASSUME NEW S, IsFiniteSet(S), NEW A, A \subseteq SUBSET S, A # {}
  PROVE  \E T \in A : \A U \in SUBSET T : U \in A => U = T
<1>1. FiniteSubsetsOf(S) = SUBSET S
  BY FS_FiniteSubsetsOfFinite
<1>2. IsWellFoundedOn(StrictSubsetOrdering(S), SUBSET S)
  BY <1>1, FS_StrictSubsetOrderingWellFounded
<1>3. PICK T \in A : \A U \in A : ~(<<U, T>> \in StrictSubsetOrdering(S))
  BY <1>2, WFMin
<1>4. ASSUME NEW U \in SUBSET T, U \in A PROVE U = T
  BY <1>3, <1>4 DEF StrictSubsetOrdering
<1> QED
  BY <1>4

\* What holds of a set when it holds of all its proper subsets, and so of {}, holds
\* of every finite set.
LEMMA SubsetInduction ==
  ASSUME NEW S, IsFiniteSet(S), NEW A,
         \A T \in SUBSET S : (\A U \in (SUBSET T) \ {T} : U \in A) => T \in A
  PROVE  \A T \in SUBSET S : T \in A
<1> SUFFICES ASSUME (SUBSET S) \ A # {} PROVE FALSE
  OBVIOUS
<1> DEFINE B == (SUBSET S) \ A
<1>1. B \subseteq SUBSET S /\ B # {}
  OBVIOUS
<1> HIDE DEF B
<1>2. PICK T \in B : \A U \in SUBSET T : U \in B => U = T
  BY <1>1, MinimalSubset
<1> QED
  BY <1>2 DEF B

\* The same one element at a time.
LEMMA ElementInduction ==
  ASSUME NEW S, IsFiniteSet(S), NEW A, {} \in A,
         \A T \in SUBSET S : \A x \in T : T \ {x} \in A => T \in A
  PROVE  S \in A
<1>1. ASSUME NEW T \in SUBSET S, \A U \in (SUBSET T) \ {T} : U \in A PROVE T \in A
  <2>1. CASE T = {}
    BY <2>1
  <2>2. CASE T # {}
    <3>1. PICK x : x \in T
      BY <2>2
    <3>2. T \ {x} \in (SUBSET T) \ {T}
      BY <3>1
    <3> QED
      BY <1>1, <3>1, <3>2
  <2> QED
    BY <2>1, <2>2
<1>2. \A T \in SUBSET S : T \in A
  BY <1>1, SubsetInduction
<1> QED
  BY <1>2

-----------------------------------------------------------------------------
(* The recursion *)

Pick(s) == CHOOSE x \in s : TRUE

\* g is the sum of f on the subsets of S.
Sums(g, f, S) == g = [s \in SUBSET S |-> IF s = {} THEN 0 ELSE f[Pick(s)] + g[s \ {Pick(s)}]]

LEMMA PickIn == \A s : s # {} => Pick(s) \in s
BY DEF Pick

LEMMA SumsUnique ==
  ASSUME NEW S, IsFiniteSet(S), NEW f, NEW g, NEW h, Sums(g, f, S), Sums(h, f, S)
  PROVE  g = h
<1> DEFINE A == {s \in SUBSET S : g[s] = h[s]}
<1>1. ASSUME NEW T \in SUBSET S, \A U \in (SUBSET T) \ {T} : U \in A PROVE T \in A
  <2>1. CASE T = {}
    BY <2>1 DEF Sums
  <2>2. CASE T # {}
    <3>1. Pick(T) \in T /\ T \ {Pick(T)} \in (SUBSET T) \ {T}
      BY <2>2, PickIn
    <3>2. g[T \ {Pick(T)}] = h[T \ {Pick(T)}]
      BY <1>1, <3>1
    <3>3. g[T] = f[Pick(T)] + g[T \ {Pick(T)}] /\ h[T] = f[Pick(T)] + h[T \ {Pick(T)}]
      BY <2>2 DEF Sums
    <3> QED
      BY <3>2, <3>3
  <2> QED
    BY <2>1, <2>2
<1>2. \A T \in SUBSET S : T \in A
  <2> HIDE DEF A
  <2> QED
    BY <1>1, SubsetInduction
<1>3. g = [s \in SUBSET S |-> g[s]] /\ h = [s \in SUBSET S |-> h[s]]
  BY DEF Sums
<1> QED
  BY <1>2, <1>3

LEMMA SumsRestrict ==
  ASSUME NEW S, NEW T \in SUBSET S, NEW f, NEW g, Sums(g, f, S)
  PROVE  Sums([s \in SUBSET T |-> g[s]], f, T)
<1> DEFINE h == [s \in SUBSET T |-> g[s]]
<1>1. ASSUME NEW s \in SUBSET T PROVE g[s] = IF s = {} THEN 0 ELSE f[Pick(s)] + h[s \ {Pick(s)}]
  <2>1. h[s \ {Pick(s)}] = g[s \ {Pick(s)}]
    OBVIOUS
  <2> QED
    BY <2>1 DEF Sums
<1> QED
  BY <1>1 DEF Sums

Of(f, S) == CHOOSE g : Sums(g, f, S)

LEMMA SumsNested ==
  ASSUME NEW S, NEW T \in SUBSET S, IsFiniteSet(T), NEW f, Sums(Of(f, S), f, S), Sums(Of(f, T), f, T)
  PROVE  Of(f, S)[T] = Of(f, T)[T]
<1> DEFINE g == Of(f, S)
<1>1. Sums(g, f, S)
  OBVIOUS
<1> HIDE DEF g
<1>2. Sums([s \in SUBSET T |-> g[s]], f, T)
  BY <1>1, SumsRestrict
<1>3. Of(f, T) = [s \in SUBSET T |-> g[s]]
  BY <1>2, SumsUnique
<1> QED
  BY <1>3 DEF g

LEMMA SumsExist ==
  ASSUME NEW S, IsFiniteSet(S), NEW f
  PROVE  Sums(Of(f, S), f, S)
<1> DEFINE A == {T \in SUBSET S : Sums(Of(f, T), f, T)}
<1>1. ASSUME NEW T \in SUBSET S, \A U \in (SUBSET T) \ {T} : U \in A PROVE T \in A
  <2> DEFINE g == [s \in SUBSET T |->
                     IF s = {} THEN 0 ELSE f[Pick(s)] + Of(f, s \ {Pick(s)})[s \ {Pick(s)}]]
  <2>1. ASSUME NEW s \in SUBSET T, s # {}
        PROVE  g[s \ {Pick(s)}] = Of(f, s \ {Pick(s)})[s \ {Pick(s)}]
    <3> DEFINE u == s \ {Pick(s)}
               w == u \ {Pick(u)}
    <3>1. u \in (SUBSET T) \ {T} /\ u \in SUBSET T
      BY <2>1, PickIn
    <3>2. Sums(Of(f, u), f, u)
      BY <1>1, <3>1
    <3> HIDE DEF u
    <3>3. Of(f, u)[u] = IF u = {} THEN 0 ELSE f[Pick(u)] + Of(f, u)[w]
      BY <3>2 DEF Sums
    <3>4. ASSUME u # {} PROVE Of(f, u)[w] = Of(f, w)[w]
      <4>1. w \in (SUBSET T) \ {T} /\ w \in SUBSET u
        BY <3>1, <3>4, PickIn
      <4>2. Sums(Of(f, w), f, w) /\ IsFiniteSet(w)
        BY <1>1, <4>1, FS_Subset
      <4> QED
        BY <3>2, <4>1, <4>2, SumsNested
    <3>5. g[u] = IF u = {} THEN 0 ELSE f[Pick(u)] + Of(f, w)[w]
      BY <3>1
    <3>6. g[u] = Of(f, u)[u]
      BY <3>3, <3>4, <3>5
    <3> QED
      BY <3>6 DEF u
  <2>2. Sums(g, f, T)
    <3>1. ASSUME NEW s \in SUBSET T PROVE g[s] = IF s = {} THEN 0 ELSE f[Pick(s)] + g[s \ {Pick(s)}]
      BY <2>1
    <3>2. g = [s \in SUBSET T |-> g[s]]
      OBVIOUS
    <3> HIDE DEF g
    <3> QED
      BY <3>1, <3>2 DEF Sums
  <2> QED
    BY <2>2 DEF Of
<1>2. \A T \in SUBSET S : T \in A
  <2> HIDE DEF A
  <2> QED
    BY <1>1, SubsetInduction
<1> QED
  BY <1>2

LEMMA SumIs == \A f, S : SumFunctionOnSet(f, S) = Of(f, S)[S]
BY DEF SumFunctionOnSet, FoldFunctionOnSet, MapThenFoldSet, Of, Sums, Pick

\* The first step of a sum.
LEMMA SumOnSet ==
  ASSUME NEW S, IsFiniteSet(S), NEW f
  PROVE  SumFunctionOnSet(f, S)
           = IF S = {} THEN 0 ELSE f[Pick(S)] + SumFunctionOnSet(f, S \ {Pick(S)})
<1>1. Sums(Of(f, S), f, S)
  BY SumsExist
<1>2. CASE S = {}
  BY <1>1, <1>2, SumIs DEF Sums
<1>3. CASE S # {}
  <2> DEFINE w == S \ {Pick(S)}
  <2>1. w \in SUBSET S /\ IsFiniteSet(w)
    BY FS_Subset
  <2>3. Sums(Of(f, w), f, w)
    BY <2>1, SumsExist
  <2>4. Of(f, S)[S] = f[Pick(S)] + Of(f, S)[w]
    BY <1>1, <1>3 DEF Sums
  <2> HIDE DEF w
  <2>6. Of(f, S)[w] = Of(f, w)[w]
    BY <1>1, <2>1, <2>3, SumsNested
  <2> QED
    BY <1>3, <2>4, <2>6, SumIs DEF w
<1> QED
  BY <1>2, <1>3

-----------------------------------------------------------------------------
(* What a sum is *)

LEMMA SumEmpty == \A f : SumFunctionOnSet(f, {}) = 0
BY SumOnSet, FS_EmptySet

LEMMA SumInt ==
  ASSUME NEW S, IsFiniteSet(S), NEW f, \A x \in S : f[x] \in Int
  PROVE  SumFunctionOnSet(f, S) \in Int
<1> DEFINE A == {T \in SUBSET S : SumFunctionOnSet(f, T) \in Int}
<1>1. ASSUME NEW T \in SUBSET S, \A U \in (SUBSET T) \ {T} : U \in A PROVE T \in A
  <2>1. IsFiniteSet(T)
    BY FS_Subset
  <2>2. CASE T = {}
    BY <2>2, SumEmpty
  <2>3. CASE T # {}
    <3>1. Pick(T) \in T /\ T \ {Pick(T)} \in (SUBSET T) \ {T}
      BY <2>3, PickIn
    <3>2. SumFunctionOnSet(f, T) = f[Pick(T)] + SumFunctionOnSet(f, T \ {Pick(T)})
      BY <2>1, <2>3, SumOnSet
    <3> QED
      BY <1>1, <3>1, <3>2
  <2> QED
    BY <2>2, <2>3
<1> HIDE DEF A
<1>2. S \in A
  BY <1>1, SubsetInduction
<1> QED
  BY <1>2 DEF A

\* Any element may be the first.
LEMMA SumRemove ==
  ASSUME NEW S, IsFiniteSet(S), NEW f, \A y \in S : f[y] \in Int, NEW x \in S
  PROVE  SumFunctionOnSet(f, S) = f[x] + SumFunctionOnSet(f, S \ {x})
<1> DEFINE F(T) == SumFunctionOnSet(f, T)
           A == {T \in SUBSET S : \A z \in T : F(T) = f[z] + F(T \ {z})}
<1>0. \A T \in SUBSET S : IsFiniteSet(T) /\ F(T) \in Int
  BY FS_Subset, SumInt
<1>1. ASSUME NEW T \in SUBSET S, \A U \in (SUBSET T) \ {T} : U \in A PROVE T \in A
  <2> SUFFICES ASSUME NEW z \in T PROVE F(T) = f[z] + F(T \ {z})
    OBVIOUS
  <2> DEFINE p == Pick(T)
  <2>1. p \in T
    BY PickIn
  <2>2. F(T) = f[p] + F(T \ {p})
    BY <1>0, <2>1, SumOnSet
  <2> HIDE DEF p
  <2>3. CASE p = z
    BY <2>2, <2>3
  <2>4. CASE p # z
    <3>1. T \ {p} \in A /\ T \ {z} \in A /\ z \in T \ {p} /\ p \in T \ {z}
      BY <1>1, <2>1, <2>4
    <3>2. F(T \ {p}) = f[z] + F((T \ {p}) \ {z}) /\ F(T \ {z}) = f[p] + F((T \ {z}) \ {p})
      BY <3>1
    <3>3. F((T \ {p}) \ {z}) = F((T \ {z}) \ {p})
      <4>1. (T \ {p}) \ {z} = (T \ {z}) \ {p}
        OBVIOUS
      <4> QED
        BY <4>1
    <3>4. F((T \ {p}) \ {z}) \in Int /\ f[p] \in Int /\ f[z] \in Int
      BY <1>0, <2>1
    <3> HIDE DEF F
    <3> QED
      BY <2>2, <3>2, <3>3, <3>4
  <2> QED
    BY <2>3, <2>4
<1>2. S \in A
  <2> HIDE DEF A
  <2> QED
    BY <1>1, SubsetInduction
<1> QED
  BY <1>2

LEMMA SumEqual ==
  ASSUME NEW S, IsFiniteSet(S), NEW f, NEW g, \A x \in S : f[x] = g[x]
  PROVE  SumFunctionOnSet(f, S) = SumFunctionOnSet(g, S)
<1> DEFINE A == {T \in SUBSET S : SumFunctionOnSet(f, T) = SumFunctionOnSet(g, T)}
<1>1. ASSUME NEW T \in SUBSET S, \A U \in (SUBSET T) \ {T} : U \in A PROVE T \in A
  <2>1. IsFiniteSet(T)
    BY FS_Subset
  <2>2. CASE T = {}
    BY <2>2, SumEmpty
  <2>3. CASE T # {}
    <3>1. Pick(T) \in T /\ T \ {Pick(T)} \in (SUBSET T) \ {T}
      BY <2>3, PickIn
    <3>2. /\ SumFunctionOnSet(f, T) = f[Pick(T)] + SumFunctionOnSet(f, T \ {Pick(T)})
          /\ SumFunctionOnSet(g, T) = g[Pick(T)] + SumFunctionOnSet(g, T \ {Pick(T)})
      BY <2>1, <2>3, SumOnSet
    <3> QED
      BY <1>1, <3>1, <3>2
  <2> QED
    BY <2>2, <2>3
<1> HIDE DEF A
<1>2. S \in A
  BY <1>1, SubsetInduction
<1> QED
  BY <1>2 DEF A

LEMMA SumMonotone ==
  ASSUME NEW S, IsFiniteSet(S), NEW f, NEW g,
         \A x \in S : f[x] \in Int /\ g[x] \in Int /\ f[x] <= g[x]
  PROVE  SumFunctionOnSet(f, S) <= SumFunctionOnSet(g, S)
<1> DEFINE F(T) == SumFunctionOnSet(f, T)
           G(T) == SumFunctionOnSet(g, T)
           A == {T \in SUBSET S : F(T) <= G(T)}
<1>0. \A T \in SUBSET S : IsFiniteSet(T) /\ F(T) \in Int /\ G(T) \in Int
  BY FS_Subset, SumInt
<1>1. {} \in A
  BY SumEmpty
<1>2. ASSUME NEW T \in SUBSET S, NEW x \in T, T \ {x} \in A PROVE T \in A
  <2>1. F(T) = f[x] + F(T \ {x}) /\ G(T) = g[x] + G(T \ {x})
    BY <1>0, SumRemove
  <2>2. F(T \ {x}) \in Int /\ G(T \ {x}) \in Int /\ F(T \ {x}) <= G(T \ {x})
    BY <1>0, <1>2
  <2> HIDE DEF F, G
  <2> QED
    BY <2>1, <2>2
<1>3. S \in A
  <2> HIDE DEF A
  <2> QED
    BY <1>1, <1>2, ElementInduction
<1> QED
  BY <1>3

\* The sum of ones counts.
LEMMA SumCounts ==
  ASSUME NEW S, IsFiniteSet(S), NEW f, \A x \in S : f[x] = 1
  PROVE  SumFunctionOnSet(f, S) = Cardinality(S)
<1> DEFINE F(T) == SumFunctionOnSet(f, T)
           A == {T \in SUBSET S : F(T) = Cardinality(T)}
<1>0. \A T \in SUBSET S : IsFiniteSet(T) /\ F(T) \in Int /\ Cardinality(T) \in Nat
  BY FS_Subset, FS_CardinalityType, SumInt
<1>1. {} \in A
  BY SumEmpty, FS_EmptySet
<1>2. ASSUME NEW T \in SUBSET S, NEW x \in T, T \ {x} \in A PROVE T \in A
  <2>1. F(T) = f[x] + F(T \ {x})
    BY <1>0, SumRemove
  <2>2. Cardinality(T \ {x}) = Cardinality(T) - 1
    BY <1>0, FS_RemoveElement
  <2> HIDE DEF F
  <2> QED
    BY <1>0, <1>2, <2>1, <2>2
<1>3. S \in A
  <2> HIDE DEF A
  <2> QED
    BY <1>1, <1>2, ElementInduction
<1> QED
  BY <1>3

LEMMA SumPlus ==
  ASSUME NEW S, IsFiniteSet(S), NEW f, NEW g, NEW h,
         \A x \in S : f[x] \in Int /\ g[x] \in Int /\ h[x] = f[x] + g[x]
  PROVE  SumFunctionOnSet(h, S) = SumFunctionOnSet(f, S) + SumFunctionOnSet(g, S)
<1> DEFINE F(T) == SumFunctionOnSet(f, T)
           G(T) == SumFunctionOnSet(g, T)
           H(T) == SumFunctionOnSet(h, T)
           A == {T \in SUBSET S : H(T) = F(T) + G(T)}
<1>0. \A T \in SUBSET S : IsFiniteSet(T) /\ F(T) \in Int /\ G(T) \in Int /\ H(T) \in Int
  BY FS_Subset, SumInt
<1>1. {} \in A
  BY SumEmpty
<1>2. ASSUME NEW T \in SUBSET S, NEW x \in T, T \ {x} \in A PROVE T \in A
  <2>1. F(T) = f[x] + F(T \ {x}) /\ G(T) = g[x] + G(T \ {x}) /\ H(T) = h[x] + H(T \ {x})
    BY <1>0, SumRemove
  <2>2. /\ F(T \ {x}) \in Int /\ G(T \ {x}) \in Int /\ H(T \ {x}) = F(T \ {x}) + G(T \ {x})
        /\ f[x] \in Int /\ g[x] \in Int /\ h[x] = f[x] + g[x]
    BY <1>0, <1>2
  <2> HIDE DEF F, G, H
  <2> QED
    BY <2>1, <2>2
<1>3. S \in A
  <2> HIDE DEF A
  <2> QED
    BY <1>1, <1>2, ElementInduction
<1> QED
  BY <1>3

LEMMA SumTimes ==
  ASSUME NEW S, IsFiniteSet(S), NEW f, NEW h, NEW a \in Int,
         \A x \in S : f[x] \in Int /\ h[x] = a * f[x]
  PROVE  SumFunctionOnSet(h, S) = a * SumFunctionOnSet(f, S)
<1> DEFINE F(T) == SumFunctionOnSet(f, T)
           H(T) == SumFunctionOnSet(h, T)
           A == {T \in SUBSET S : H(T) = a * F(T)}
<1>0. \A T \in SUBSET S : IsFiniteSet(T) /\ F(T) \in Int /\ H(T) \in Int
  <2>1. \A x \in S : h[x] \in Int
    <3>1. \A i \in Int : a * i \in Int
      OBVIOUS
    <3> QED
      BY <3>1
  <2> QED
    BY <2>1, FS_Subset, SumInt
<1>1. {} \in A
  BY SumEmpty
<1>2. ASSUME NEW T \in SUBSET S, NEW x \in T, T \ {x} \in A PROVE T \in A
  <2>1. F(T) = f[x] + F(T \ {x}) /\ H(T) = h[x] + H(T \ {x})
    BY <1>0, SumRemove
  <2>2. /\ F(T \ {x}) \in Int /\ H(T \ {x}) = a * F(T \ {x})
        /\ f[x] \in Int /\ h[x] = a * f[x]
    BY <1>0, <1>2
  <2>3. \A i, j \in Int : a * (i + j) = a * i + a * j
    OBVIOUS
  <2> HIDE DEF F, H
  <2> QED
    BY <2>1, <2>2, <2>3
<1>3. S \in A
  <2> HIDE DEF A
  <2> QED
    BY <1>1, <1>2, ElementInduction
<1> QED
  BY <1>3

Ints(f, S) == \A x \in S : f[x] \in Int

\* d is a times f and b times g and c times h.
Combines(d, a, f, b, g, c, h, S) == \A x \in S : d[x] = a * f[x] + b * g[x] + c * h[x]

\* The sum of a combination is the combination of the sums.
LEMMA SumLinear ==
  ASSUME NEW S, IsFiniteSet(S), NEW f, NEW g, NEW h, Ints(f, S), Ints(g, S), Ints(h, S),
         NEW a \in Int, NEW b \in Int, NEW c \in Int,
         NEW d, Combines(d, a, f, b, g, c, h, S)
  PROVE  /\ Ints(d, S)
         /\ SumFunctionOnSet(d, S) = a * SumFunctionOnSet(f, S) + b * SumFunctionOnSet(g, S)
                                     + c * SumFunctionOnSet(h, S)
<1> DEFINE af == [x \in S |-> a * f[x]]
           bg == [x \in S |-> b * g[x]]
           ch == [x \in S |-> c * h[x]]
           fg == [x \in S |-> af[x] + bg[x]]
<1>1. \A x \in S : af[x] = a * f[x] /\ bg[x] = b * g[x] /\ ch[x] = c * h[x] /\ fg[x] = af[x] + bg[x]
  BY Zenon
<1>0. \A x \in S : f[x] \in Int /\ g[x] \in Int /\ h[x] \in Int
  BY DEF Ints
<1> HIDE DEF af, bg, ch, fg
<1>2. \A x \in S : af[x] \in Int /\ bg[x] \in Int /\ ch[x] \in Int
  BY <1>0, <1>1
<1>3. \A x \in S : fg[x] \in Int /\ d[x] = fg[x] + ch[x]
  BY <1>1, <1>2 DEF Combines
<1>4. \A x \in S : d[x] \in Int
  BY <1>2, <1>3
<1>5. SumFunctionOnSet(af, S) = a * SumFunctionOnSet(f, S)
  BY <1>0, <1>1, SumTimes
<1>6. SumFunctionOnSet(bg, S) = b * SumFunctionOnSet(g, S)
  BY <1>0, <1>1, SumTimes
<1>7. SumFunctionOnSet(ch, S) = c * SumFunctionOnSet(h, S)
  BY <1>0, <1>1, SumTimes
<1>8. SumFunctionOnSet(fg, S) = SumFunctionOnSet(af, S) + SumFunctionOnSet(bg, S)
  BY <1>1, <1>2, SumPlus
<1>9. SumFunctionOnSet(d, S) = SumFunctionOnSet(fg, S) + SumFunctionOnSet(ch, S)
  BY <1>2, <1>3, SumPlus
<1> QED
  BY <1>4, <1>5, <1>6, <1>7, <1>8, <1>9 DEF Ints

LEMMA SumUnion ==
  ASSUME NEW S, NEW T, IsFiniteSet(S), IsFiniteSet(T), S \cap T = {}, NEW f,
         \A x \in S \cup T : f[x] \in Int
  PROVE  SumFunctionOnSet(f, S \cup T) = SumFunctionOnSet(f, S) + SumFunctionOnSet(f, T)
<1> DEFINE F(U) == SumFunctionOnSet(f, U)
           A == {U \in SUBSET S : F(U \cup T) = F(U) + F(T)}
<1>0. \A U \in SUBSET S : IsFiniteSet(U \cup T) /\ IsFiniteSet(U)
  BY FS_Subset, FS_Union
<1>1. \A U \in SUBSET S : F(U) \in Int /\ F(U \cup T) \in Int
  BY <1>0, SumInt
<1>2. F(T) \in Int
  BY SumInt
<1>3. {} \in A
  <2>1. {} \cup T = T
    OBVIOUS
  <2> QED
    BY <1>2, <2>1, SumEmpty
<1>4. ASSUME NEW U \in SUBSET S, NEW x \in U, U \ {x} \in A PROVE U \in A
  <2>1. x \in U \cup T /\ (U \cup T) \ {x} = (U \ {x}) \cup T /\ U \ {x} \in SUBSET S
    OBVIOUS
  <2>2. F(U) = f[x] + F(U \ {x})
    BY <1>0, SumRemove
  <2>3. F(U \cup T) = f[x] + F((U \ {x}) \cup T)
    <3> DEFINE V == U \cup T
    <3>1. IsFiniteSet(V) /\ x \in V /\ \A y \in V : f[y] \in Int
      BY <1>0
    <3> HIDE DEF V
    <3>2. SumFunctionOnSet(f, V) = f[x] + SumFunctionOnSet(f, V \ {x})
      BY <3>1, SumRemove
    <3> QED
      BY <2>1, <3>2 DEF V
  <2>4. F((U \ {x}) \cup T) = F(U \ {x}) + F(T)
    BY <1>4
  <2>5. F(U \ {x}) \in Int /\ f[x] \in Int
    BY <1>1, <2>1
  <2> HIDE DEF F
  <2> QED
    BY <1>2, <2>2, <2>3, <2>4, <2>5
<1>5. S \in A
  <2> HIDE DEF A
  <2> QED
    BY <1>3, <1>4, ElementInduction
<1> QED
  BY <1>5

-----------------------------------------------------------------------------
(* Sums over parts *)

\* The parts P[i] have nothing in common.
Disjoint(P, I) == \A i, j \in I : i # j => P[i] \cap P[j] = {}

Whole(P, I) == UNION {P[i] : i \in I}

\* The sum over all is that of the sums over the parts.
LEMMA SumParts ==
  ASSUME NEW I, IsFiniteSet(I), NEW P, \A i \in I : IsFiniteSet(P[i]), Disjoint(P, I),
         NEW f, \A x \in Whole(P, I) : f[x] \in Int,
         NEW g, \A i \in I : g[i] = SumFunctionOnSet(f, P[i])
  PROVE  /\ IsFiniteSet(Whole(P, I))
         /\ SumFunctionOnSet(f, Whole(P, I)) = SumFunctionOnSet(g, I)
<1> DEFINE F(J) == SumFunctionOnSet(f, Whole(P, J))
           G(J) == SumFunctionOnSet(g, J)
           A == {J \in SUBSET I : IsFiniteSet(Whole(P, J)) /\ F(J) = G(J)}
<1>1. \A i \in I : g[i] \in Int
  BY SumInt DEF Whole
<1>2. {} \in A
  <2>1. Whole(P, {}) = {}
    BY DEF Whole
  <2> QED
    BY <2>1, SumEmpty, FS_EmptySet
<1>3. ASSUME NEW J \in SUBSET I, NEW i \in J, J \ {i} \in A PROVE J \in A
  <2> DEFINE W == Whole(P, J \ {i})
  <2>1. /\ Whole(P, J) = W \cup P[i] /\ W \cap P[i] = {}
        /\ \A x \in W \cup P[i] : f[x] \in Int
    BY DEF Whole, Disjoint
  <2>2. IsFiniteSet(W) /\ IsFiniteSet(P[i]) /\ SumFunctionOnSet(f, W) = G(J \ {i})
    BY <1>3
  <2> HIDE DEF W
  <2>3. IsFiniteSet(Whole(P, J)) /\ F(J) = SumFunctionOnSet(f, W) + SumFunctionOnSet(f, P[i])
    <3>1. IsFiniteSet(W \cup P[i])
      BY <2>2, FS_Union
    <3>2. SumFunctionOnSet(f, W \cup P[i]) = SumFunctionOnSet(f, W) + SumFunctionOnSet(f, P[i])
      BY <2>1, <2>2, SumUnion
    <3> QED
      BY <2>1, <3>1, <3>2
  <2>4. IsFiniteSet(J) /\ G(J) = g[i] + G(J \ {i})
    BY <1>1, FS_Subset, SumRemove
  <2>5. SumFunctionOnSet(f, W) \in Int /\ g[i] \in Int
    BY <1>1, <2>1, <2>2, SumInt
  <2>7. F(J) = G(J)
    <3>1. G(J \ {i}) = SumFunctionOnSet(f, W) /\ g[i] = SumFunctionOnSet(f, P[i])
      BY <2>2
    <3> HIDE DEF F, G
    <3> QED
      BY <2>3, <2>4, <2>5, <3>1
  <2> QED
    BY <2>3, <2>7
<1>4. I \in A
  <2> HIDE DEF A
  <2> QED
    BY <1>2, <1>3, ElementInduction
<1> QED
  BY <1>4

\* The sizes of the parts add up.
LEMMA CountParts ==
  ASSUME NEW I, IsFiniteSet(I), NEW P, \A i \in I : IsFiniteSet(P[i]), Disjoint(P, I),
         NEW n, \A i \in I : n[i] = Cardinality(P[i])
  PROVE  /\ IsFiniteSet(Whole(P, I))
         /\ SumFunctionOnSet(n, I) = Cardinality(Whole(P, I))
<1> DEFINE f == [x \in Whole(P, I) |-> 1]
<1>1. \A x \in Whole(P, I) : f[x] = 1 /\ f[x] \in Int
  OBVIOUS
<1>2. \A i \in I : \A x \in P[i] : f[x] = 1
  BY <1>1 DEF Whole
<1> HIDE DEF f
<1>3. \A i \in I : n[i] = SumFunctionOnSet(f, P[i])
  BY <1>2, SumCounts
<1>4. IsFiniteSet(Whole(P, I)) /\ SumFunctionOnSet(f, Whole(P, I)) = SumFunctionOnSet(n, I)
  BY <1>1, <1>3, SumParts
<1> QED
  BY <1>1, <1>4, SumCounts

\* Parts of a set do not add up to more than it.
LEMMA CountPartsOf ==
  ASSUME NEW I, IsFiniteSet(I), NEW T, IsFiniteSet(T), NEW P, \A i \in I : P[i] \subseteq T, Disjoint(P, I),
         NEW n, \A i \in I : n[i] = Cardinality(P[i])
  PROVE  SumFunctionOnSet(n, I) <= Cardinality(T)
<1>1. \A i \in I : IsFiniteSet(P[i])
  BY FS_Subset
<1>2. SumFunctionOnSet(n, I) = Cardinality(Whole(P, I))
  BY <1>1, CountParts
<1>3. Whole(P, I) \subseteq T
  BY DEF Whole
<1> QED
  BY <1>2, <1>3, FS_Subset
=============================================================================
