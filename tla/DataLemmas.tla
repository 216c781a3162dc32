------------------------------ MODULE DataLemmas ------------------------------
(***************************************************************************)
(* What the proofs need to know of finite sets, of sums over them and of   *)
(* the operators of the community modules that the models use.             *)
(*                                                                         *)
(* The induction theorems of the library take a predicate as a parameter;  *)
(* here the induction over a finite set is the choice of a least set       *)
(* among the counterexamples.                                              *)
(***************************************************************************)
EXTENDS SequencesExt, FiniteSetsExt, FiniteSetTheorems, FunctionTheorems, TLAPS

(* Among sets of elements of a finite set there is a least one.            *)
LEMMA LeastSubset ==
    ASSUME NEW S, IsFiniteSet(S), NEW Bad \in SUBSET (SUBSET S), Bad # {}
    PROVE  \E T \in Bad : \A U \in Bad : U \subseteq T => U = T
<1>1. IsWellFoundedOn(StrictSubsetOrdering(S), SUBSET S)
  BY FS_StrictSubsetOrderingWellFounded, FS_FiniteSubsetsOfFinite
<1>2. PICK T \in Bad : \A U \in Bad : ~(<<U, T>> \in StrictSubsetOrdering(S))
  BY <1>1, WFMin
<1> QED
  BY <1>2 DEF StrictSubsetOrdering

(* What a function maps a finite set onto is finite.                       *)
LEMMA OntoFinite ==
    ASSUME NEW S, IsFiniteSet(S), NEW R, NEW f \in [S -> R],
           \A t \in R : \E x \in S : f[x] = t
    PROVE  IsFiniteSet(R)
<1>1. f \in Surjection(S, R)
  BY DEF Surjection
<1> QED
  BY <1>1, FS_Surjection

LEMMA ImageFinite ==
    ASSUME NEW S, IsFiniteSet(S), NEW T, NEW f \in [S -> T]
    PROVE  IsFiniteSet({f[x] : x \in S})
<1> DEFINE R == {f[x] : x \in S}
<1>1. f \in [S -> R] /\ \A t \in R : \E x \in S : f[x] = t
  OBVIOUS
<1> HIDE DEF R
<1>2. IsFiniteSet(R)
  BY <1>1, OntoFinite
<1> QED
  BY <1>2 DEF R

(* A finite set of integers that is not empty has a greatest element, and a *)
(* least one.                                                              *)
LEMMA GreatestExists ==
    ASSUME NEW S, \A x \in S : x \in Int, IsFiniteSet(S), S # {}
    PROVE  \E x \in S : \A y \in S : x >= y
<1> SUFFICES ASSUME ~\E x \in S : \A y \in S : x >= y PROVE FALSE
  OBVIOUS
<1> DEFINE C == {T \in SUBSET S : T # {} /\ ~\E x \in T : \A y \in T : x >= y}
<1>1. C \in SUBSET (SUBSET S) /\ C # {}
  BY S \in C
<1>2. PICK T \in C : \A U \in C : U \subseteq T => U = T
  <2> HIDE DEF C
  <2> QED
    BY <1>1, LeastSubset
<1>3. PICK a \in T : TRUE
  OBVIOUS
<1>4. T \ {a} \notin C
  BY <1>2, <1>3
<1>5. CASE T \ {a} = {}
  <2>1. a >= a
    BY <1>3
  <2> QED
    BY <1>2, <1>3, <1>5, <2>1
<1>6. CASE T \ {a} # {}
  <2>1. PICK x \in T \ {a} : \A y \in T \ {a} : x >= y
    BY <1>4, <1>6
  <2>2. a \in Int /\ \A y \in T : y \in Int
    BY <1>3
  <2>3. CASE a >= x
    <3>1. \A y \in T : a >= y
      BY <2>1, <2>2, <2>3
    <3> QED
      BY <1>2, <1>3, <3>1
  <2>4. CASE ~(a >= x)
    <3>1. \A y \in T : x >= y
      BY <2>1, <2>2, <2>4
    <3> QED
      BY <1>2, <2>1, <3>1
  <2> QED
    BY <2>3, <2>4
<1> QED
  BY <1>5, <1>6

LEMMA MaxFacts ==
    ASSUME NEW S, \A x \in S : x \in Int, IsFiniteSet(S), S # {}
    PROVE  Max(S) \in S /\ \A y \in S : Max(S) >= y
<1>1. \E x \in S : \A y \in S : x >= y
  BY GreatestExists
<1> QED
  BY <1>1 DEF Max

LEMMA MinFacts ==
    ASSUME NEW S, \A x \in S : x \in Int, IsFiniteSet(S), S # {}
    PROVE  Min(S) \in S /\ \A y \in S : Min(S) <= y
<1> DEFINE f == [x \in S |-> 0 - x]
           N == {f[x] : x \in S}
<1>1. f \in [S -> Int]
  OBVIOUS
<1>2. \A n \in N : n \in Int
  OBVIOUS
<1>3. N # {} /\ IsFiniteSet(N)
  <2> HIDE DEF f
  <2> QED
    BY <1>1, ImageFinite
<1>4. PICK n \in N : \A m \in N : n >= m
  <2> HIDE DEF N
  <2> QED
    BY <1>2, <1>3, GreatestExists
<1>5. PICK x \in S : n = 0 - x
  OBVIOUS
<1>6. \A y \in S : x <= y
  <2> TAKE y \in S
  <2>1. 0 - y \in N
    OBVIOUS
  <2> HIDE DEF N
  <2> QED
    BY <1>4, <1>5, <2>1
<1> QED
  BY <1>5, <1>6 DEF Min

(* A sequence has finitely many elements.                                  *)
LEMMA ToSetFinite == ASSUME NEW S, NEW s \in Seq(S) PROVE IsFiniteSet(ToSet(s)) /\ ToSet(s) \subseteq S
<1>1. Len(s) \in Nat /\ DOMAIN s = 1 .. Len(s) /\ s \in [1 .. Len(s) -> S]
  OBVIOUS
<1>2. IsFiniteSet(1 .. Len(s))
  BY <1>1, FS_Interval
<1>3. IsFiniteSet({s[i] : i \in 1 .. Len(s)})
  BY <1>1, <1>2, ImageFinite
<1> QED
  BY <1>1, <1>3 DEF ToSet

LEMMA ToSetAppend ==
    ASSUME NEW S, NEW s \in Seq(S), NEW e \in S
    PROVE  ToSet(Append(s, e)) = ToSet(s) \union {e} /\ Append(s, e) \in Seq(S)
<1>1. /\ Append(s, e) \in Seq(S) /\ DOMAIN Append(s, e) = 1 .. Len(s) + 1 /\ DOMAIN s = 1 .. Len(s)
      /\ \A i \in 1 .. Len(s) : Append(s, e)[i] = s[i]
      /\ Append(s, e)[Len(s) + 1] = e /\ Len(s) \in Nat
  OBVIOUS
<1>2. ToSet(Append(s, e)) = {Append(s, e)[i] : i \in 1 .. Len(s) + 1}
  BY <1>1 DEF ToSet
<1>3. 1 .. Len(s) + 1 = (1 .. Len(s)) \union {Len(s) + 1}
  BY <1>1
<1> QED
  BY <1>1, <1>2, <1>3 DEF ToSet

LEMMA ConcatFacts ==
    ASSUME NEW S, NEW s \in Seq(S), NEW t \in Seq(S)
    PROVE  /\ s \o t \in Seq(S) /\ DOMAIN (s \o t) = 1 .. Len(s) + Len(t)
           /\ DOMAIN s = 1 .. Len(s) /\ Len(s) \in Nat /\ Len(t) \in Nat
           /\ \A i \in 1 .. Len(s) : (s \o t)[i] = s[i]
           /\ \A i \in 1 .. Len(t) : (s \o t)[Len(s) + i] = t[i]
  OBVIOUS

LEMMA ToSetConcat ==
    ASSUME NEW S, NEW s \in Seq(S), NEW t \in Seq(S)
    PROVE  ToSet(s \o t) = ToSet(s) \union ToSet(t) /\ s \o t \in Seq(S)
<1>1. /\ s \o t \in Seq(S) /\ DOMAIN (s \o t) = 1 .. Len(s) + Len(t)
      /\ DOMAIN s = 1 .. Len(s) /\ DOMAIN t = 1 .. Len(t) /\ Len(s) \in Nat /\ Len(t) \in Nat
      /\ \A i \in 1 .. Len(s) : (s \o t)[i] = s[i]
      /\ \A i \in 1 .. Len(t) : (s \o t)[Len(s) + i] = t[i]
  OBVIOUS
<1>2. \A i \in 1 .. Len(s) + Len(t) : (s \o t)[i] \in ToSet(s) \union ToSet(t)
  <2> TAKE i \in 1 .. Len(s) + Len(t)
  <2>1. CASE i <= Len(s)
    BY <1>1, <2>1 DEF ToSet
  <2>2. CASE ~(i <= Len(s))
    <3>1. i - Len(s) \in 1 .. Len(t) /\ i = Len(s) + (i - Len(s))
      BY <1>1, <2>2
    <3> QED
      BY <1>1, <3>1 DEF ToSet
  <2> QED
    BY <2>1, <2>2
<1>3. \A i \in 1 .. Len(s) : s[i] \in ToSet(s \o t)
  BY <1>1 DEF ToSet
<1>4. \A i \in 1 .. Len(t) : t[i] \in ToSet(s \o t)
  <2> TAKE i \in 1 .. Len(t)
  <2>1. Len(s) + i \in DOMAIN (s \o t) /\ (s \o t)[Len(s) + i] = t[i]
    BY <1>1
  <2> QED
    BY <2>1 DEF ToSet
<1> QED
  BY <1>1, <1>2, <1>3, <1>4 DEF ToSet

(* A finite set comes out as a sequence of its elements.                   *)
LEMMA SetToSeqFacts ==
    ASSUME NEW S, IsFiniteSet(S)
    PROVE  SetToSeq(S) \in [1 .. Cardinality(S) -> S] /\ SetToSeq(S) \in Seq(S)
<1>1. Cardinality(S) \in Nat /\ ExistsBijection(1 .. Cardinality(S), S)
  BY FS_CardinalityType
<1>2. \E f \in [1 .. Cardinality(S) -> S] : IsInjective(f)
  BY <1>1 DEF ExistsBijection, Bijection, Injection, IsInjective
<1>3. SetToSeq(S) \in [1 .. Cardinality(S) -> S]
  BY <1>2 DEF SetToSeq
<1> QED
  BY <1>1, <1>3

-----------------------------------------------------------------------------
(* Sums over a finite set.  The sum of the community modules takes the      *)
(* elements in the order in which CHOOSE gives them; the sum does not depend *)
(* on it.                                                                   *)

SumOver(f, S) == MapThenSumSet(LAMBDA x : f[x], S)

Pick(S) == CHOOSE x \in S : TRUE

\* g adds up f over every subset of S.
Adds(g, f, S) ==
    /\ g \in [SUBSET S -> Int]
    /\ \A s \in SUBSET S : g[s] = IF s = {} THEN 0 ELSE f[Pick(s)] + g[s \ {Pick(s)}]

Value(f, S, v) == \E g : Adds(g, f, S) /\ g[S] = v

LEMMA PickFacts == ASSUME NEW S, S # {} PROVE Pick(S) \in S
  BY DEF Pick

LEMMA ValueOfSubset ==
    ASSUME NEW S, NEW f, NEW g, Adds(g, f, S), NEW s \in SUBSET S
    PROVE  Value(f, s, g[s])
<1> DEFINE h == [t \in SUBSET s |-> g[t]]
<1>1. h \in [SUBSET s -> Int] /\ h[s] = g[s]
  BY DEF Adds
<1>2. ASSUME NEW t \in SUBSET s
      PROVE  h[t] = IF t = {} THEN 0 ELSE f[Pick(t)] + h[t \ {Pick(t)}]
  BY t \in SUBSET S, t \ {Pick(t)} \in SUBSET s DEF Adds
<1> HIDE DEF h
<1>3. Adds(h, f, s)
  BY <1>1, <1>2 DEF Adds
<1> QED
  BY <1>1, <1>3 DEF Value

LEMMA ValueUnique ==
    ASSUME NEW S, IsFiniteSet(S), NEW f, NEW v, NEW u, Value(f, S, v), Value(f, S, u)
    PROVE  u = v
<1>1. PICK g : Adds(g, f, S) /\ g[S] = v
  BY DEF Value
<1>2. PICK h : Adds(h, f, S) /\ h[S] = u
  BY DEF Value
<1> DEFINE Bad == {s \in SUBSET S : g[s] # h[s]}
<1>3. ASSUME Bad # {} PROVE FALSE
  <2>1. Bad \in SUBSET (SUBSET S)
    OBVIOUS
  <2>2. PICK s \in Bad : \A t \in Bad : t \subseteq s => t = s
    <3> HIDE DEF Bad
    <3> QED
      BY <1>3, <2>1, LeastSubset
  <2>3. CASE s = {}
    BY <1>1, <1>2, <2>3 DEF Adds
  <2>4. CASE s # {}
    <3>1. Pick(s) \in s /\ s \ {Pick(s)} \in SUBSET S /\ s \in SUBSET S
      BY <2>4, PickFacts
    <3>2. g[s \ {Pick(s)}] = h[s \ {Pick(s)}]
      BY <2>2, <3>1
    <3> QED
      BY <1>1, <1>2, <2>4, <3>1, <3>2 DEF Adds
  <2> QED
    BY <2>3, <2>4
<1> QED
  BY <1>1, <1>2, <1>3

LEMMA ValueExists ==
    ASSUME NEW S, IsFiniteSet(S), NEW f, \A x \in S : f[x] \in Int
    PROVE  \E v \in Int : Value(f, S, v)
<1> DEFINE Bad == {s \in SUBSET S : ~\E v \in Int : Value(f, s, v)}
<1> SUFFICES ASSUME Bad # {} PROVE FALSE
  OBVIOUS
<1>1. PICK T \in Bad : \A U \in Bad : U \subseteq T => U = T
  <2>1. Bad \in SUBSET (SUBSET S)
    OBVIOUS
  <2> HIDE DEF Bad
  <2> QED
    BY <2>1, LeastSubset
<1> DEFINE val == [s \in SUBSET T |-> CHOOSE v \in Int : Value(f, s, v)]
<1>2. \A s \in SUBSET T : s # T => val[s] \in Int /\ Value(f, s, val[s])
  BY <1>1
<1> DEFINE g == [s \in SUBSET T |->
                   IF s = {} THEN 0
                   ELSE IF s = T THEN f[Pick(T)] + val[T \ {Pick(T)}] ELSE val[s]]
<1> HIDE DEF val
<1>3. g \in [SUBSET T -> Int]
  <2>1. T # {} => f[Pick(T)] \in Int /\ val[T \ {Pick(T)}] \in Int
    BY <1>2, PickFacts
  <2> QED
    BY <1>2, <2>1
<1>4. \A s \in SUBSET T : s # T => g[s] = val[s]
  <2>1. ASSUME {} # T PROVE val[{}] = 0
    <3>1. Value(f, {}, val[{}])
      BY <1>2, <2>1
    <3> QED
      BY <3>1 DEF Value, Adds
  <2> QED
    BY <2>1
<1>5. ASSUME NEW s \in SUBSET T, s # {}
      PROVE  g[s] = f[Pick(s)] + g[s \ {Pick(s)}]
  <2>1. Pick(s) \in s /\ s \ {Pick(s)} \in SUBSET T /\ s \ {Pick(s)} # T
    BY <1>5, PickFacts
  <2>2. CASE s = T
    BY <1>4, <1>5, <2>1, <2>2
  <2>3. CASE s # T
    <3>1. PICK h : Adds(h, f, s) /\ h[s] = val[s]
      BY <1>2, <2>3 DEF Value
    <3>2. h[s] = f[Pick(s)] + h[s \ {Pick(s)}]
      BY <1>5, <3>1 DEF Adds
    <3>3. Value(f, s \ {Pick(s)}, h[s \ {Pick(s)}])
      BY <2>1, <3>1, ValueOfSubset
    <3>4. IsFiniteSet(s \ {Pick(s)})
      BY FS_Subset
    <3>5. h[s \ {Pick(s)}] = val[s \ {Pick(s)}]
      BY <1>2, <2>1, <3>3, <3>4, ValueUnique
    <3> HIDE DEF g
    <3> QED
      BY <1>4, <2>1, <2>3, <3>1, <3>2, <3>5
  <2> QED
    BY <2>2, <2>3
<1>6. g[{}] = 0
  OBVIOUS
<1> HIDE DEF g
<1>7. Adds(g, f, T)
  BY <1>3, <1>5, <1>6 DEF Adds
<1>8. g[T] \in Int /\ Value(f, T, g[T])
  BY <1>3, <1>7 DEF Value
<1> QED
  BY <1>1, <1>8

\* h adds up f in the order of Pick, over every subset of S.
AddsUp(h, f, S) ==
    \A s \in SUBSET S : h[s] = IF s = {} THEN 0 ELSE f[Pick(s)] + h[s \ {Pick(s)}]

(* Whatever adds up f in the same order gives the same sum.                 *)
LEMMA AddsUnique ==
    ASSUME NEW S, IsFiniteSet(S), NEW f, NEW g, Adds(g, f, S), NEW h, AddsUp(h, f, S)
    PROVE  h[S] = g[S]
<1> DEFINE Bad == {s \in SUBSET S : g[s] # h[s]}
<1>1. Bad = {}
  <2> SUFFICES ASSUME Bad # {} PROVE FALSE
    OBVIOUS
  <2>1. PICK s \in Bad : \A t \in Bad : t \subseteq s => t = s
    <3>1. Bad \in SUBSET (SUBSET S)
      OBVIOUS
    <3> HIDE DEF Bad
    <3> QED
      BY <3>1, LeastSubset
  <2>2. s # {}
    BY DEF Adds, AddsUp
  <2>3. Pick(s) \in s /\ s \ {Pick(s)} \in SUBSET S
    BY <2>2, PickFacts
  <2>4. g[s \ {Pick(s)}] = h[s \ {Pick(s)}]
    BY <2>1, <2>3
  <2> QED
    BY <2>2, <2>4 DEF Adds, AddsUp
<1> QED
  BY <1>1

LEMMA SumValue ==
    ASSUME NEW S, IsFiniteSet(S), NEW f, \A x \in S : f[x] \in Int
    PROVE  SumOver(f, S) \in Int /\ Value(f, S, SumOver(f, S))
<1>1. PICK v \in Int : Value(f, S, v)
  BY ValueExists
<1>2. PICK g : Adds(g, f, S)
  BY <1>1 DEF Value
<1> DEFINE Step(h) == [s \in SUBSET S |->
                 IF s = {} THEN 0
                 ELSE f[CHOOSE x \in s : TRUE] + h[s \ {CHOOSE x \in s : TRUE}]]
<1>3. g = Step(g)
  BY <1>2 DEF Adds, Pick
<1> DEFINE h == CHOOSE h : h = Step(h)
<1>4. h = Step(h)
  BY <1>3
<1>5. SumOver(f, S) = h[S]
  BY DEF SumOver, MapThenSumSet, MapThenFoldSet
<1> HIDE DEF h
<1>6. AddsUp(h, f, S)
  BY <1>4 DEF Pick, AddsUp
<1> HIDE DEF Step
<1>10. h[S] = g[S]
  BY <1>2, <1>6, AddsUnique
<1>9. g \in [SUBSET S -> Int]
  BY <1>2 DEF Adds
<1>11. SumOver(f, S) = g[S] /\ S \in SUBSET S
  BY <1>5, <1>10
<1> QED
  BY <1>2, <1>9, <1>11 DEF Value

LEMMA SumIsInt ==
    ASSUME NEW S, IsFiniteSet(S), NEW f, \A x \in S : f[x] \in Int
    PROVE  SumOver(f, S) \in Int
  BY SumValue

LEMMA SumEmpty == ASSUME NEW f PROVE SumOver(f, {}) = 0
<1>1. IsFiniteSet({}) /\ \A x \in {} : f[x] \in Int
  BY FS_EmptySet
<1>2. Value(f, {}, SumOver(f, {}))
  BY <1>1, SumValue
<1> QED
  BY <1>2 DEF Value, Adds

LEMMA SumPick ==
    ASSUME NEW S, IsFiniteSet(S), S # {}, NEW f, \A x \in S : f[x] \in Int
    PROVE  SumOver(f, S) = f[Pick(S)] + SumOver(f, S \ {Pick(S)})
<1> DEFINE R == S \ {Pick(S)}
<1>1. PICK g : Adds(g, f, S) /\ g[S] = SumOver(f, S)
  BY SumValue DEF Value
<1>2. g[S] = f[Pick(S)] + g[R]
  BY <1>1 DEF Adds
<1>3. Value(f, R, g[R])
  BY <1>1, ValueOfSubset
<1>4. IsFiniteSet(R)
  BY FS_Subset
<1>5. Value(f, R, SumOver(f, R))
  BY <1>4, SumValue
<1>6. g[R] = SumOver(f, R)
  <2> HIDE DEF R
  <2> QED
    BY <1>3, <1>4, <1>5, ValueUnique
<1> QED
  BY <1>1, <1>2, <1>6

(* Any element can be taken out first.                                     *)
LEMMA SumTakeOut ==
    ASSUME NEW S, IsFiniteSet(S), NEW f, \A x \in S : f[x] \in Int, NEW x \in S
    PROVE  SumOver(f, S) = f[x] + SumOver(f, S \ {x})
<1> DEFINE Bad == {T \in SUBSET S : \E y \in T : SumOver(f, T) # f[y] + SumOver(f, T \ {y})}
<1> SUFFICES ASSUME Bad # {} PROVE FALSE
  BY S \in SUBSET S
<1>1. PICK T \in Bad : \A U \in Bad : U \subseteq T => U = T
  <2>1. Bad \in SUBSET (SUBSET S)
    OBVIOUS
  <2> HIDE DEF Bad
  <2> QED
    BY <2>1, LeastSubset
<1>2. PICK y \in T : SumOver(f, T) # f[y] + SumOver(f, T \ {y})
  OBVIOUS
<1> DEFINE p == Pick(T)
<1>3. p \in T /\ T # {}
  BY PickFacts
<1> HIDE DEF p
<1>4. T \ {p} \notin Bad /\ T \ {y} \notin Bad
  BY <1>1, <1>2, <1>3
<1>5. IsFiniteSet(T) /\ IsFiniteSet((T \ {p}) \ {y})
  BY FS_Subset
<1>6. SumOver(f, T) = f[p] + SumOver(f, T \ {p})
  BY <1>3, <1>5, SumPick DEF p
<1>7. p # y
  BY <1>2, <1>6
<1>8. SumOver(f, T \ {p}) = f[y] + SumOver(f, (T \ {p}) \ {y})
  BY <1>4, <1>7
<1>9. SumOver(f, T \ {y}) = f[p] + SumOver(f, (T \ {y}) \ {p})
  BY <1>3, <1>4, <1>7
<1>10. (T \ {p}) \ {y} = (T \ {y}) \ {p}
  OBVIOUS
<1>11. f[p] \in Int /\ f[y] \in Int /\ SumOver(f, (T \ {p}) \ {y}) \in Int
  BY <1>3, <1>5, SumIsInt
<1>12. \A a, b, s \in Int : a + (b + s) = b + (a + s)
  OBVIOUS
<1>13. SumOver(f, T) = f[p] + (f[y] + SumOver(f, (T \ {p}) \ {y}))
  BY ONLY <1>6, <1>8
<1>14. f[y] + SumOver(f, T \ {y}) = f[y] + (f[p] + SumOver(f, (T \ {p}) \ {y}))
  BY ONLY <1>9, <1>10
<1>15. SumOver(f, T) = f[y] + SumOver(f, T \ {y})
  BY ONLY <1>11, <1>12, <1>13, <1>14
<1> QED
  BY <1>2, <1>15

LEMMA SumAdd ==
    ASSUME NEW S, IsFiniteSet(S), NEW x, x \notin S,
           NEW f, \A y \in S \union {x} : f[y] \in Int
    PROVE  SumOver(f, S \union {x}) = f[x] + SumOver(f, S)
<1>1. IsFiniteSet(S \union {x}) /\ (S \union {x}) \ {x} = S
  BY FS_AddElement
<1> QED
  BY <1>1, SumTakeOut

(* Only the values on the set matter.                                       *)
LEMMA SumCongruence ==
    ASSUME NEW S, IsFiniteSet(S), NEW f, NEW h,
           \A x \in S : f[x] \in Int /\ h[x] = f[x]
    PROVE  SumOver(h, S) = SumOver(f, S)
<1> DEFINE Bad == {T \in SUBSET S : SumOver(h, T) # SumOver(f, T)}
<1> SUFFICES ASSUME Bad # {} PROVE FALSE
  BY S \in SUBSET S
<1>1. PICK T \in Bad : \A U \in Bad : U \subseteq T => U = T
  <2>1. Bad \in SUBSET (SUBSET S)
    OBVIOUS
  <2> HIDE DEF Bad
  <2> QED
    BY <2>1, LeastSubset
<1>2. T # {}
  BY SumEmpty
<1>3. PICK x \in T : TRUE
  BY <1>2
<1>4. T \ {x} \notin Bad /\ T \ {x} \in SUBSET S
  BY <1>1
<1>5. IsFiniteSet(T)
  BY FS_Subset
<1>6. SumOver(f, T) = f[x] + SumOver(f, T \ {x}) /\ SumOver(h, T) = h[x] + SumOver(h, T \ {x})
  BY <1>5, SumTakeOut
<1> QED
  BY <1>4, <1>6

(* A sum of more that is not less is not less.                              *)
LEMMA SumMonotone ==
    ASSUME NEW T, IsFiniteSet(T), NEW S \in SUBSET T, NEW f, NEW h,
           \A x \in S : f[x] \in Int /\ f[x] <= h[x],
           \A x \in T : h[x] \in Int /\ h[x] >= 0
    PROVE  SumOver(f, S) <= SumOver(h, T)
<1> DEFINE Bad == {U \in SUBSET T : ~(SumOver(f, S \cap U) <= SumOver(h, U))}
<1> SUFFICES ASSUME Bad # {} PROVE FALSE
  BY T \in SUBSET T, S \cap T = S
<1>1. PICK U \in Bad : \A V \in Bad : V \subseteq U => V = U
  <2>1. Bad \in SUBSET (SUBSET T)
    OBVIOUS
  <2> HIDE DEF Bad
  <2> QED
    BY <2>1, LeastSubset
<1>2. U # {}
  <2>1. SumOver(f, S \cap {}) = 0 /\ SumOver(h, {}) = 0
    BY SumEmpty, S \cap {} = {}
  <2>2. {} \notin Bad
    BY <2>1
  <2> QED
    BY <2>2
<1>3. PICK x \in U : TRUE
  BY <1>2
<1>4. U \ {x} \notin Bad /\ U \ {x} \in SUBSET T
  BY <1>1
<1>5. IsFiniteSet(U) /\ IsFiniteSet(U \ {x}) /\ IsFiniteSet(S \cap U) /\ IsFiniteSet(S \cap (U \ {x}))
  BY FS_Subset
<1>6. SumOver(h, U) = h[x] + SumOver(h, U \ {x})
  BY <1>5, SumTakeOut
<1>7. SumOver(f, S \cap (U \ {x})) <= SumOver(h, U \ {x})
  BY <1>4
<1>8. SumOver(f, S \cap (U \ {x})) \in Int /\ SumOver(h, U \ {x}) \in Int
  BY <1>5, SumIsInt
<1>9. CASE x \in S
  <2>1. (S \cap U) \ {x} = S \cap (U \ {x}) /\ x \in S \cap U
    BY <1>9
  <2>2. SumOver(f, S \cap U) = f[x] + SumOver(f, S \cap (U \ {x}))
    BY <1>5, <2>1, SumTakeOut
  <2> HIDE DEF Bad
  <2>3. f[x] \in Int /\ h[x] \in Int /\ f[x] <= h[x]
    BY <1>9
  <2>4. SumOver(f, S \cap U) <= SumOver(h, U)
    BY <1>6, <1>7, <1>8, <2>2, <2>3
  <2> QED
    BY <2>4 DEF Bad
<1>10. CASE x \notin S
  <2>1. S \cap U = S \cap (U \ {x})
    BY <1>10
  <2>2. h[x] \in Int /\ h[x] >= 0
    OBVIOUS
  <2> HIDE DEF Bad
  <2>3. SumOver(f, S \cap U) = SumOver(f, S \cap (U \ {x}))
    BY <2>1
  <2>4. SumOver(f, S \cap U) <= SumOver(h, U)
    BY <1>6, <1>7, <1>8, <2>2, <2>3
  <2> QED
    BY <2>4 DEF Bad
<1> QED
  BY <1>9, <1>10


(* Induction over the naturals and over finite sequences, with the set of  *)
(* those for which it is known.                                            *)
LEMMA NaturalsAreAll ==
    ASSUME NEW Good, 0 \in Good, \A n \in Nat : n \in Good => n + 1 \in Good
    PROVE  \A n \in Nat : n \in Good
<1> SUFFICES ASSUME NEW n \in Nat, n \notin Good PROVE FALSE
  OBVIOUS
<1> DEFINE Bad == {i \in 0 .. n : i \notin Good}
<1>1. n \in Bad /\ \A i \in Bad : i \in Int
  OBVIOUS
<1>2. IsFiniteSet(0 .. n) /\ Bad \subseteq 0 .. n
  BY FS_Interval
<1>3. IsFiniteSet(Bad)
  BY <1>2, FS_Subset
<1> PICK m : m = Min(Bad)
  OBVIOUS
<1>4. m \in Bad /\ \A i \in Bad : m <= i
  <2> HIDE DEF Bad
  <2> QED
    BY <1>1, <1>3, MinFacts
<1>5. m # 0 /\ m \in 0 .. n
  BY <1>4
<1>6. m - 1 \in Nat /\ m - 1 \in 0 .. n /\ ~(m <= m - 1)
  BY <1>5
<1>7. m - 1 \in Good
  BY <1>4, <1>6
<1>8. (m - 1) + 1 = m
  BY <1>5
<1> QED
  BY <1>4, <1>6, <1>7, <1>8

LEMMA SequencesAreAll ==
    ASSUME NEW T, NEW Good, <<>> \in Good,
           \A s \in Seq(T), x \in T : s \in Good => Append(s, x) \in Good
    PROVE  \A s \in Seq(T) : s \in Good
<1> DEFINE Long == {n \in Nat : \A s \in Seq(T) : Len(s) = n => s \in Good}
<1>1. 0 \in Long
  BY \A s \in Seq(T) : Len(s) = 0 => s = <<>>
<1>2. ASSUME NEW n \in Nat, n \in Long PROVE n + 1 \in Long
  <2> SUFFICES ASSUME NEW s \in Seq(T), Len(s) = n + 1 PROVE s \in Good
    OBVIOUS
  <2> DEFINE r == [i \in 1 .. n |-> s[i]]
  <2>1. r \in Seq(T) /\ Len(r) = n /\ s[n + 1] \in T
    OBVIOUS
  <2>2. s = Append(r, s[n + 1])
    OBVIOUS
  <2>3. r \in Good
    BY <1>2, <2>1
  <2> HIDE DEF r
  <2> QED
    BY <2>1, <2>2, <2>3
<1>3. \A n \in Nat : n \in Long
  <2> HIDE DEF Long
  <2> QED
    BY <1>1, <1>2, NaturalsAreAll
<1> QED
  BY <1>3

-----------------------------------------------------------------------------
(***************************************************************************)
(* Folds.  A fold over a sequence is the value of a recursive function on  *)
(* the sets of its places, which the library chooses.  The step is given   *)
(* here as a function, because a lemma cannot have an operator as its      *)
(* parameter: that such a function exists, and that whatever satisfies its *)
(* recursion goes through one value for each element, is what a proof about*)
(* a fold needs.                                                           *)
(***************************************************************************)

(* A set of numbers from 1 to n has a greatest one, and it is n if n is in it. *)
LEMMA MaxUpTo ==
    ASSUME NEW n \in Nat, NEW t \in SUBSET (1 .. n), t # {}
    PROVE  Max(t) \in t /\ Max(t) \in 1 .. n /\ (n \in t => Max(t) = n)
<1>1. IsFiniteSet(1 .. n)
  BY FS_Interval
<1>2. IsFiniteSet(t)
  BY <1>1, FS_Subset
<1>3. \A y \in t : y \in Int /\ y <= n
  OBVIOUS
<1> PICK m : m = Max(t)
  OBVIOUS
<1>4. m \in t /\ \A y \in t : m >= y
  BY <1>2, <1>3, MaxFacts
<1>5. m \in t /\ m \in 1 .. n /\ (n \in t => m = n)
  BY <1>3, <1>4
<1> QED
  BY <1>5

Folds(g, n, step, base, s) ==
    \A t \in SUBSET (1 .. n) :
       g[t] = IF t = {} THEN base ELSE step[g[t \ {Max(t)}]][s[Max(t)]]

CanFold(n, V, step, base, s) == \E g \in [SUBSET (1 .. n) -> V] : Folds(g, n, step, base, s)

(* The two lemmas on folds, with their facts named for instantiation.         *)
StaysIn(V, U, step) == \A a \in V, x \in U : step[a][x] \in V
HasFold(V, step, base, s) ==
    \E g \in [SUBSET DOMAIN s -> V] : \A t \in SUBSET DOMAIN s :
       g[t] = IF t = {} THEN base ELSE step[g[t \ {Max(t)}]][s[Max(t)]]
IsFold(f, V, step, base, s) ==
    /\ f[{}] = base
    /\ \A t \in SUBSET DOMAIN s : t # {} /\ f[t \ {Max(t)}] \in V =>
          f[t] = step[f[t \ {Max(t)}]][s[Max(t)]]
GoesThrough(f, V, step, base, s) ==
    \E acc \in [0 .. Len(s) -> V] :
       /\ acc[0] = base
       /\ \A i \in 1 .. Len(s) : acc[i] = step[acc[i - 1]][s[i]]
       /\ f[DOMAIN s] = acc[Len(s)]

(* A fold over a sequence has a value: a function that satisfies the          *)
(* recursion of the library exists, and stays where the step stays.           *)
LEMMA FoldIs ==
    ASSUME NEW V, NEW U, NEW step, NEW base, NEW s
    PROVE  StaysIn(V, U, step) /\ base \in V /\ s \in Seq(U) => HasFold(V, step, base, s)
<1> SUFFICES ASSUME \A a \in V, x \in U : step[a][x] \in V, base \in V, s \in Seq(U)
             PROVE  \E g \in [SUBSET DOMAIN s -> V] : \A t \in SUBSET DOMAIN s :
                      g[t] = IF t = {} THEN base ELSE step[g[t \ {Max(t)}]][s[Max(t)]]
  BY DEF StaysIn, HasFold
<1>0. Len(s) \in Nat /\ DOMAIN s = 1 .. Len(s) /\ \A i \in 1 .. Len(s) : s[i] \in U
  OBVIOUS
<1> PICK N \in Nat : N = Len(s) /\ DOMAIN s = 1 .. N /\ \A i \in 1 .. N : s[i] \in U
  BY <1>0
<1> DEFINE Good == {n \in Nat : n <= N => CanFold(n, V, step, base, s)}
<1>1. 0 \in Good
  <2> DEFINE g == [t \in SUBSET (1 .. 0) |-> base]
  <2>1. \A t \in SUBSET (1 .. 0) : t = {}
    OBVIOUS
  <2>2. g \in [SUBSET (1 .. 0) -> V] /\ Folds(g, 0, step, base, s)
    BY <2>1 DEF Folds
  <2> HIDE DEF g
  <2> QED
    BY <2>2 DEF CanFold
<1>2. ASSUME NEW n \in Nat, n \in Good PROVE n + 1 \in Good
  <2> SUFFICES ASSUME n + 1 <= N
               PROVE  CanFold(n + 1, V, step, base, s)
    BY n + 1 \in Nat
  <2>0. n <= N /\ n + 1 \in 1 .. N
    OBVIOUS
  <2>1. PICK h \in [SUBSET (1 .. n) -> V] : Folds(h, n, step, base, s)
    BY <1>2, <2>0 DEF CanFold
  <2> DEFINE g == [t \in SUBSET (1 .. n + 1) |->
                     IF n + 1 \in t THEN step[h[t \ {n + 1}]][s[n + 1]] ELSE h[t]]
  <2>2. s[n + 1] \in U
    BY <2>0
  <2>3. \A t \in SUBSET (1 .. n + 1) : t \ {n + 1} \in SUBSET (1 .. n)
    OBVIOUS
  <2>4. \A t \in SUBSET (1 .. n + 1) : n + 1 \notin t => t \in SUBSET (1 .. n)
    OBVIOUS
  <2>5. g \in [SUBSET (1 .. n + 1) -> V]
    <3> SUFFICES ASSUME NEW t \in SUBSET (1 .. n + 1) PROVE g[t] \in V
      OBVIOUS
    <3>1. CASE n + 1 \in t
      <4>1. h[t \ {n + 1}] \in V
        BY <2>3
      <4>2. step[h[t \ {n + 1}]][s[n + 1]] \in V
        BY <2>2, <4>1
      <4> QED
        BY <3>1, <4>2
    <3>2. CASE n + 1 \notin t
      BY <2>4, <3>2
    <3> QED
      BY <3>1, <3>2
  <2>6. ASSUME NEW t \in SUBSET (1 .. n + 1)
        PROVE  g[t] = IF t = {} THEN base ELSE step[g[t \ {Max(t)}]][s[Max(t)]]
    <3>1. CASE n + 1 \in t
      <4>0. n + 1 \in Nat /\ t # {}
        BY <3>1
      <4>1. Max(t) = n + 1
        BY <3>1, <4>0, MaxUpTo
      <4>2. g[t \ {n + 1}] = h[t \ {n + 1}]
        BY <2>3
      <4>3. g[t] = step[h[t \ {n + 1}]][s[n + 1]]
        BY <3>1
      <4> HIDE DEF g
      <4> QED
        BY <4>0, <4>1, <4>2, <4>3
    <3>2. CASE n + 1 \notin t
      <4>1. t \in SUBSET (1 .. n) /\ g[t] = h[t]
        BY <3>2, <2>4
      <4> PICK m : m = Max(t)
        OBVIOUS
      <4>2. t \ {m} \in SUBSET (1 .. n + 1) /\ n + 1 \notin t \ {m}
        BY <3>2
      <4>3. g[t \ {m}] = h[t \ {m}]
        BY <4>2
      <4> HIDE DEF g
      <4> QED
        BY <2>1, <4>1, <4>3 DEF Folds
    <3> QED
      BY <3>1, <3>2
  <2> HIDE DEF g
  <2> QED
    BY <2>5, <2>6 DEF Folds, CanFold
<1>3. \A n \in Nat : n \in Good
  <2> HIDE DEF Good
  <2> QED
    BY <1>1, <1>2, NaturalsAreAll
<1>4. PICK g \in [SUBSET (1 .. N) -> V] : Folds(g, N, step, base, s)
  BY <1>3, N <= N DEF CanFold
<1> QED
  BY <1>4 DEF Folds

(* The sets that the fold comes through, from the empty one.                 *)
LEMMA UpTo ==
    ASSUME NEW i \in Nat \ {0}
    PROVE  (1 .. i) # {} /\ Max(1 .. i) = i /\ (1 .. i) \ {i} = 1 .. i - 1
<1>1. 1 .. i # {} /\ i \in 1 .. i /\ 1 .. i \in SUBSET (1 .. i) /\ i \in Nat
  OBVIOUS
<1>2. Max(1 .. i) = i
  BY <1>1, MaxUpTo
<1> QED
  BY <1>1, <1>2

(* Whatever satisfies the recursion runs through one value per element.       *)
LEMMA FoldRuns ==
    ASSUME NEW V, NEW U, NEW step, NEW base, NEW s, NEW f
    PROVE  StaysIn(V, U, step) /\ base \in V /\ s \in Seq(U) /\ IsFold(f, V, step, base, s)
             => GoesThrough(f, V, step, base, s)
<1> SUFFICES ASSUME \A a \in V, x \in U : step[a][x] \in V, base \in V, s \in Seq(U),
                    f[{}] = base,
                    \A t \in SUBSET DOMAIN s : t # {} /\ f[t \ {Max(t)}] \in V =>
                       f[t] = step[f[t \ {Max(t)}]][s[Max(t)]]
             PROVE  \E acc \in [0 .. Len(s) -> V] :
                       /\ acc[0] = base
                       /\ \A i \in 1 .. Len(s) : acc[i] = step[acc[i - 1]][s[i]]
                       /\ f[DOMAIN s] = acc[Len(s)]
  BY DEF StaysIn, IsFold, GoesThrough
<1>0. Len(s) \in Nat /\ DOMAIN s = 1 .. Len(s) /\ \A i \in 1 .. Len(s) : s[i] \in U
  OBVIOUS
<1> PICK N \in Nat : N = Len(s) /\ DOMAIN s = 1 .. N /\ \A i \in 1 .. N : s[i] \in U
  BY <1>0
<1> DEFINE Good == {n \in Nat : n <= N => f[1 .. n] \in V}
           acc == [i \in 0 .. N |-> f[1 .. i]]
<1>1. 1 .. 0 = {}
  OBVIOUS
<1>2. ASSUME NEW i \in 1 .. N, f[1 .. i - 1] \in V
      PROVE  f[1 .. i] = step[f[1 .. i - 1]][s[i]] /\ f[1 .. i] \in V
  <2>1. i \in Nat \ {0} /\ 1 .. i \in SUBSET DOMAIN s
    OBVIOUS
  <2>2. (1 .. i) # {} /\ Max(1 .. i) = i /\ (1 .. i) \ {i} = 1 .. i - 1
    BY <2>1, UpTo
  <2>3. f[1 .. i] = step[f[1 .. i - 1]][s[i]]
    BY <1>2, <2>1, <2>2
  <2> QED
    BY <1>2, <2>3
<1>3. 0 \in Good
  BY <1>1
<1>4. ASSUME NEW n \in Nat, n \in Good PROVE n + 1 \in Good
  <2>1. n + 1 <= N => n + 1 \in 1 .. N /\ (n + 1) - 1 = n /\ n <= N
    OBVIOUS
  <2> QED
    BY <1>2, <1>4, <2>1
<1>5. \A n \in Nat : n \in Good
  <2> HIDE DEF Good
  <2> QED
    BY <1>3, <1>4, NaturalsAreAll
<1>6. \A i \in 0 .. N : f[1 .. i] \in V
  BY <1>5
<1>7. acc \in [0 .. N -> V] /\ acc[0] = base /\ f[DOMAIN s] = acc[N]
  <2>1. acc \in [0 .. N -> V]
    BY <1>6
  <2>2. acc[0] = base /\ f[DOMAIN s] = acc[N]
    BY <1>1
  <2> QED
    BY <2>1, <2>2
<1>8. ASSUME NEW i \in 1 .. N PROVE acc[i] = step[acc[i - 1]][s[i]]
  <2>1. i - 1 \in 0 .. N /\ i \in 0 .. N
    OBVIOUS
  <2>2. acc[i - 1] = f[1 .. i - 1] /\ acc[i] = f[1 .. i] /\ f[1 .. i - 1] \in V
    BY <1>6, <2>1
  <2> QED
    BY <1>2, <2>2
<1> HIDE DEF acc
<1> QED
  BY <1>7, <1>8
=============================================================================
