---------------------------- MODULE AnsweringProofs ---------------------------
(***************************************************************************)
(* Theorems about retrieval and answering, for any passages, any world,    *)
(* plan and ranking, any prices and any text of the model's.  What each    *)
(* step does to a list of hits is a lemma of its own; the theorems put the *)
(* steps together in the order of the code: search, fusion, expansion,     *)
(* de-duplication, re-ranking, assembly, validation.                       *)
(***************************************************************************)
EXTENDS Answering, DataLemmas, SequenceTheorems
-----------------------------------------------------------------------------
(* Ordering a finite set by the number of those that come before.          *)

Orders(ahead, S) ==
    /\ IsFiniteSet(S)
    /\ \A x \in S : ahead[x] \in SUBSET (S \ {x})
    /\ \A x, y \in S : x # y => x \in ahead[y] \/ y \in ahead[x]
    /\ \A x, y \in S : x \in ahead[y] => ahead[x] \subseteq ahead[y]

InTurn(order, ahead, S) ==
    /\ order \in [1 .. Cardinality(S) -> S] /\ Cardinality(S) \in Nat
    /\ \A i \in 1 .. Cardinality(S) : Cardinality(ahead[order[i]]) = i - 1
    /\ \A x \in S : \E i \in 1 .. Cardinality(S) : order[i] = x
    /\ \A i, j \in 1 .. Cardinality(S) : i < j <=> order[i] \in ahead[order[j]]

LEMMA RankBelow ==
    ASSUME NEW S, NEW ahead, Orders(ahead, S), NEW x \in S
    PROVE  Cardinality(ahead[x]) \in 0 .. Cardinality(S) - 1
<1>1. IsFiniteSet(S) /\ ahead[x] \in SUBSET (S \ {x})
  BY DEF Orders
<1>2. IsFiniteSet(S \ {x}) /\ Cardinality(S \ {x}) = Cardinality(S) - 1
  BY <1>1, FS_RemoveElement
<1>3. IsFiniteSet(ahead[x]) /\ Cardinality(ahead[x]) <= Cardinality(S \ {x})
  BY <1>1, <1>2, FS_Subset
<1>4. Cardinality(ahead[x]) \in Nat /\ Cardinality(S) \in Nat
  BY <1>1, <1>3, FS_CardinalityType
<1> QED
  BY <1>2, <1>3, <1>4

LEMMA RankGrows ==
    ASSUME NEW S, NEW ahead, Orders(ahead, S), NEW x \in S, NEW y \in S, x \in ahead[y]
    PROVE  Cardinality(ahead[x]) < Cardinality(ahead[y])
<1>1. /\ IsFiniteSet(S) /\ ahead[x] \in SUBSET (S \ {x}) /\ ahead[y] \in SUBSET (S \ {y})
      /\ ahead[x] \subseteq ahead[y]
  BY DEF Orders
<1>2. IsFiniteSet(ahead[x]) /\ IsFiniteSet(ahead[y])
  BY <1>1, FS_Subset
<1>3. Cardinality(ahead[x] \union {x}) = Cardinality(ahead[x]) + 1
  BY <1>1, <1>2, FS_AddElement
<1>4. Cardinality(ahead[x] \union {x}) <= Cardinality(ahead[y])
  BY <1>1, <1>2, FS_Subset, ahead[x] \union {x} \in SUBSET ahead[y]
<1>5. Cardinality(ahead[x]) \in Nat /\ Cardinality(ahead[y]) \in Nat
  BY <1>2, FS_CardinalityType
<1> QED
  BY <1>3, <1>4, <1>5

LEMMA OrderFacts ==
    ASSUME NEW S, NEW ahead, Orders(ahead, S)
    PROVE  InTurn(InOrder(S, ahead), ahead, S)
<1>0. IsFiniteSet(S) /\ Cardinality(S) \in Nat
  BY FS_CardinalityType DEF Orders
<1> PICK n \in Nat : n = Cardinality(S)
  BY <1>0
<1> DEFINE f == [x \in S |-> Cardinality(ahead[x])]
<1>1. f \in [S -> 0 .. n - 1]
  BY RankBelow
<1>2. \A x, y \in S : x \in ahead[y] => f[x] < f[y]
  BY RankGrows
<1>3. \A x, y \in S : x # y => f[x] # f[y]
  <2> TAKE x, y \in S
  <2> HAVE x # y
  <2>1. x \in ahead[y] \/ y \in ahead[x]
    BY DEF Orders
  <2>2. f[x] \in Int /\ f[y] \in Int
    BY <1>1
  <2> HIDE DEF f
  <2> QED
    BY <1>2, <2>1, <2>2
<1>4. f \in Surjection(S, 0 .. n - 1)
  <2>1. f \in Injection(S, 0 .. n - 1)
    BY <1>1, <1>3 DEF Injection, IsInjective
  <2>2. IsFiniteSet(0 .. n - 1) /\ Cardinality(0 .. n - 1) = n
    <3>1. 0 \in Int /\ n - 1 \in Int
      OBVIOUS
    <3>2. IsFiniteSet(0 .. n - 1) /\ Cardinality(0 .. n - 1) = IF 0 > n - 1 THEN 0 ELSE (n - 1) - 0 + 1
      BY <3>1, FS_Interval, Zenon
    <3> QED
      BY <3>2
  <2> HIDE DEF f
  <2> QED
    BY <2>1, <2>2, FS_Injection
<1>5. \A i \in 0 .. n - 1 : \E x \in S : f[x] = i
  BY <1>4 DEF Surjection
<1> PICK order : order = InOrder(S, ahead)
  OBVIOUS
<1>6. order = [i \in 1 .. n |-> CHOOSE x \in S : Cardinality(ahead[x]) = i - 1]
  BY DEF InOrder
<1>7. \A i \in 1 .. n : order[i] \in S /\ f[order[i]] = i - 1
  <2> TAKE i \in 1 .. n
  <2>1. i - 1 \in 0 .. n - 1
    OBVIOUS
  <2>2. \E x \in S : Cardinality(ahead[x]) = i - 1
    BY <1>5, <2>1
  <2> QED
    BY <1>6, <2>2
<1>8. order \in [1 .. n -> S]
  BY <1>6, <1>7
<1>9. \A x \in S : \E i \in 1 .. n : order[i] = x
  <2> TAKE x \in S
  <2>1. f[x] + 1 \in 1 .. n /\ (f[x] + 1) - 1 = f[x]
    BY <1>1
  <2> HIDE DEF f
  <2>2. f[order[f[x] + 1]] = f[x] /\ order[f[x] + 1] \in S
    BY <1>7, <2>1
  <2> QED
    BY <1>3, <2>1, <2>2
<1>10. \A i, j \in 1 .. n : i < j <=> order[i] \in ahead[order[j]]
  <2> TAKE i, j \in 1 .. n
  <2> HIDE DEF f
  <2>1. order[i] \in S /\ order[j] \in S /\ f[order[i]] = i - 1 /\ f[order[j]] = j - 1
    BY <1>7
  <2>2. ASSUME order[i] \in ahead[order[j]] PROVE i < j
    BY <1>2, <2>1, <2>2
  <2>3. ASSUME i < j PROVE order[i] \in ahead[order[j]]
    <3>1. ~(order[j] \in ahead[order[i]])
      BY <1>2, <2>1, <2>3
    <3>2. order[i] # order[j]
      BY <2>1, <2>3
    <3> QED
      BY <2>1, <3>1, <3>2 DEF Orders
  <2> QED
    BY <2>2, <2>3
<1>11. \A i \in 1 .. n : Cardinality(ahead[order[i]]) = i - 1
  BY <1>7
<1> QED
  BY <1>8, <1>9, <1>10, <1>11 DEF InTurn

(* What is selected from a sequence: the items at the places, in their order. *)
Selected(t, s, places) ==
    \E order \in [DOMAIN t -> places] :
       /\ \A i, j \in DOMAIN t : i < j <=> order[i] < order[j]
       /\ \A p \in places : \E i \in DOMAIN t : order[i] = p
       /\ \A i \in DOMAIN t : t[i] = s[order[i]]

LEMMA ThoseFacts ==
    ASSUME NEW T, NEW s \in Seq(T), NEW places \in SUBSET (DOMAIN s)
    PROVE  Those(s, places) \in Seq(T) /\ Selected(Those(s, places), s, places)
<1> DEFINE ahead == [i \in places |-> {j \in places : j < i}]
<1>0. places \in SUBSET (1 .. Len(s)) /\ Len(s) \in Nat /\ DOMAIN s = 1 .. Len(s) /\ \A i \in 1 .. Len(s) : s[i] \in T
  OBVIOUS
<1>1. IsFiniteSet(places)
  <2>1. 1 \in Int /\ Len(s) \in Int
    BY <1>0
  <2>2. IsFiniteSet(1 .. Len(s))
    BY <2>1, FS_Interval, Zenon
  <2> QED
    BY <1>0, <2>2, FS_Subset, Zenon
<1>2. Orders(ahead, places)
  <2>1. \A x \in places : x \in Int
    BY <1>0
  <2>2. \A x \in places : ahead[x] = {j \in places : j < x}
    OBVIOUS
  <2> HIDE DEF ahead
  <2>3. \A x \in places : ahead[x] \in SUBSET (places \ {x})
    BY <2>1, <2>2
  <2>4. \A x, y \in places : x # y => x \in ahead[y] \/ y \in ahead[x]
    BY <2>1, <2>2
  <2>5. \A x, y \in places : x \in ahead[y] => ahead[x] \subseteq ahead[y]
    BY <2>1, <2>2
  <2> QED
    BY <1>1, <2>3, <2>4, <2>5 DEF Orders
<1> PICK order : order = InOrder(places, ahead)
  OBVIOUS
<1> PICK n : n = Cardinality(places)
  OBVIOUS
<1>3. InTurn(order, ahead, places)
  BY <1>2, OrderFacts
<1>4. /\ order \in [1 .. n -> places] /\ n \in Nat
      /\ \A p \in places : \E i \in 1 .. n : order[i] = p
      /\ \A i, j \in 1 .. n : i < j <=> order[i] \in ahead[order[j]]
  BY <1>3 DEF InTurn
<1>5. \A i, j \in 1 .. n : i < j <=> order[i] < order[j]
  BY <1>4
<1>6. Those(s, places) = [k \in 1 .. n |-> s[order[k]]]
  BY <1>4 DEF Those
<1> PICK t : t = Those(s, places)
  OBVIOUS
<1>7. DOMAIN t = 1 .. n /\ \A i \in 1 .. n : t[i] = s[order[i]]
  BY <1>6
<1>8. t \in Seq(T)
  <2>1. \A i \in 1 .. n : s[order[i]] \in T
    BY <1>0, <1>4
  <2>2. t \in [1 .. n -> T]
    BY <1>6, <2>1
  <2> QED
    BY <1>4, <2>2
<1>9. Selected(t, s, places)
  <2> PICK d : d = DOMAIN t
    OBVIOUS
  <2>1. d = 1 .. n
    BY <1>7
  <2>2. /\ order \in [d -> places]
        /\ \A i, j \in d : i < j <=> order[i] < order[j]
        /\ \A p \in places : \E i \in d : order[i] = p
        /\ \A i \in d : t[i] = s[order[i]]
    BY <1>4, <1>5, <1>7, <2>1
  <2> QED
    BY <2>2 DEF Selected
<1> QED
  BY <1>8, <1>9

-----------------------------------------------------------------------------
(* Hits and lists of them.                                                 *)

Measure == (0 .. 100) \union {Nowhere}
Origin  == {"vector", "keyword", "fused", "neighbour", "graph"}
Hits    == [row : Passages, score : Nat, source : Origin, similarity : Measure, relevance : Measure]

LEMMA HitFacts ==
    ASSUME NEW p \in Passages, NEW score \in Nat, NEW source \in Origin, NEW sim \in Measure
    PROVE  /\ Hit(p, score, source, sim) \in Hits
           /\ Hit(p, score, source, sim).row = p /\ Hit(p, score, source, sim).score = score
           /\ Hit(p, score, source, sim).source = source
           /\ Hit(p, score, source, sim).similarity = sim
<1>1. Nowhere \in Measure
  BY DEF Measure
<1> QED
  BY <1>1 DEF Hit, Hits

(* What is in every list of hits.                                          *)
LEMMA HitsFacts ==
    ASSUME NEW hits \in Seq(Hits)
    PROVE  /\ Len(hits) \in Nat /\ DOMAIN hits = 1 .. Len(hits)
           /\ \A i \in DOMAIN hits :
                /\ hits[i] \in Hits /\ hits[i].row \in Passages /\ hits[i].score \in Nat
                /\ hits[i].source \in Origin /\ hits[i].similarity \in Measure
                /\ hits[i].relevance \in Measure
<1>1. \A h \in Hits : /\ h.row \in Passages /\ h.score \in Nat /\ h.source \in Origin
                      /\ h.similarity \in Measure /\ h.relevance \in Measure
  BY DEF Hits
<1>2. Len(hits) \in Nat /\ DOMAIN hits = 1 .. Len(hits) /\ \A i \in 1 .. Len(hits) : hits[i] \in Hits
  OBVIOUS
<1> QED
  BY <1>1, <1>2

Apart(hits) == \A i, j \in DOMAIN hits : i # j => hits[i].row # hits[j].row

LEMMA RankFacts ==
    ASSUME NEW hits, NEW p, p \in Rows(hits)
    PROVE  RankOf(hits, p) \in DOMAIN hits /\ hits[RankOf(hits, p)].row = p
  BY DEF Rows, RankOf

LEMMA RankIs ==
    ASSUME NEW hits, Apart(hits), NEW i \in DOMAIN hits
    PROVE  RankOf(hits, hits[i].row) = i /\ hits[i].row \in Rows(hits)
<1>1. hits[i].row \in Rows(hits)
  BY DEF Rows
<1> QED
  BY <1>1, RankFacts DEF Apart

LEMMA FirstFacts ==
    ASSUME NEW T, NEW s \in Seq(T), NEW n \in Nat
    PROVE  /\ First(s, n) \in Seq(T)
           /\ Len(First(s, n)) = IF Len(s) < n THEN Len(s) ELSE n
           /\ DOMAIN First(s, n) \subseteq DOMAIN s
           /\ \A i \in DOMAIN s : i \in DOMAIN First(s, n) <=> i <= n
           /\ \A i \in DOMAIN First(s, n) : First(s, n)[i] = s[i]
<1> PICK k \in Nat : k = Len(s) /\ DOMAIN s = 1 .. k /\ \A i \in 1 .. k : s[i] \in T
  OBVIOUS
<1> PICK m \in Nat : m = IF k < n THEN k ELSE n
  OBVIOUS
<1> PICK t : t = SubSeq(s, 1, m)
  OBVIOUS
<1>1. First(s, n) = t /\ m <= k /\ m <= n /\ (m = k \/ m = n)
  BY DEF First
<1>2. t \in Seq(T) /\ Len(t) = m /\ DOMAIN t = 1 .. m /\ \A i \in 1 .. m : t[i] = s[i]
  <2>1. \A i \in 1 .. m : s[i] \in T
    BY <1>1
  <2>2. 1 \in Int /\ m \in Int
    OBVIOUS
  <2>3. /\ SubSeq(s, 1, m) \in Seq(T)
        /\ Len(SubSeq(s, 1, m)) = IF 1 <= m THEN m - 1 + 1 ELSE 0
        /\ \A i \in 1 .. m - 1 + 1 : SubSeq(s, 1, m)[i] = s[1 + i - 1]
    BY <2>1, <2>2, SubSeqProperties
  <2>4. t \in Seq(T) /\ Len(t) = m /\ \A i \in 1 .. m - 1 + 1 : t[i] = s[1 + i - 1]
    BY <2>3
  <2>5. DOMAIN t = 1 .. m
    BY <2>4
  <2>6. \A i \in 1 .. m : i \in 1 .. m - 1 + 1 /\ 1 + i - 1 = i
    OBVIOUS
  <2> QED
    BY <2>4, <2>5, <2>6
<1>3. 1 .. m \subseteq 1 .. k /\ \A i \in 1 .. k : i \in 1 .. m <=> i <= n
  BY <1>1
<1> QED
  BY <1>1, <1>2, <1>3

(* Before(hits)[i]: the places of the hits that come before the i-th.      *)
Before(hits) ==
    [j \in DOMAIN hits |->
        {i \in DOMAIN hits : \/ hits[i].score > hits[j].score
                             \/ hits[i].score = hits[j].score /\ i < j}]

Sorted(t, hits) ==
    \E order \in [DOMAIN hits -> DOMAIN hits] :
       /\ InTurn(order, Before(hits), DOMAIN hits)
       /\ DOMAIN t = DOMAIN hits /\ \A k \in DOMAIN hits : t[k] = hits[order[k]]

LEMMA PlacesCount ==
    ASSUME NEW n \in Nat
    PROVE  IsFiniteSet(1 .. n) /\ Cardinality(1 .. n) = n
<1>1. 1 \in Int /\ n \in Int
  OBVIOUS
<1>2. IsFiniteSet(1 .. n) /\ Cardinality(1 .. n) = IF 1 > n THEN 0 ELSE n - 1 + 1
  BY <1>1, FS_Interval, Zenon
<1> QED
  BY <1>2

LEMMA BeforeOrders ==
    ASSUME NEW hits \in Seq(Hits)
    PROVE  Orders(Before(hits), DOMAIN hits)
<1> PICK n \in Nat : n = Len(hits) /\ DOMAIN hits = 1 .. n
  OBVIOUS
<1> DEFINE score == [i \in 1 .. n |-> hits[i].score]
<1>1. score \in [1 .. n -> Nat]
  BY HitsFacts
<1>2. \A j \in 1 .. n : Before(hits)[j] = {i \in 1 .. n : score[i] > score[j] \/ (score[i] = score[j] /\ i < j)}
  BY DEF Before
<1> HIDE DEF score
<1> PICK b : b = Before(hits)
  OBVIOUS
<1>3. IsFiniteSet(1 .. n)
  BY PlacesCount
<1>4. \A x \in 1 .. n : b[x] \in SUBSET ((1 .. n) \ {x})
  BY <1>1, <1>2
<1>5. \A x, y \in 1 .. n : x # y => x \in b[y] \/ y \in b[x]
  BY <1>1, <1>2
<1>6. \A x, y \in 1 .. n : x \in b[y] => b[x] \subseteq b[y]
  <2> TAKE x, y \in 1 .. n
  <2> HAVE x \in b[y]
  <2> SUFFICES ASSUME NEW z \in b[x] PROVE z \in b[y]
    OBVIOUS
  <2>1. z \in 1 .. n /\ score[x] \in Nat /\ score[y] \in Nat /\ score[z] \in Nat
    BY <1>1, <1>4
  <2>2. score[x] > score[y] \/ (score[x] = score[y] /\ x < y)
    BY <1>2
  <2>3. score[z] > score[x] \/ (score[z] = score[x] /\ z < x)
    BY <1>2
  <2>4. score[z] > score[y] \/ (score[z] = score[y] /\ z < y)
    BY <2>1, <2>2, <2>3
  <2> QED
    BY <1>2, <2>1, <2>4
<1> QED
  BY <1>3, <1>4, <1>5, <1>6 DEF Orders

LEMMA ByScoreFacts ==
    ASSUME NEW hits \in Seq(Hits)
    PROVE  ByScore(hits) \in Seq(Hits) /\ Sorted(ByScore(hits), hits)
<1> PICK n \in Nat : n = Len(hits) /\ DOMAIN hits = 1 .. n
  OBVIOUS
<1> PICK order : order = InOrder(1 .. n, Before(hits))
  OBVIOUS
<1>1. InTurn(order, Before(hits), 1 .. n)
  BY BeforeOrders, OrderFacts
<1>2. Cardinality(1 .. n) = n
  BY PlacesCount
<1>3. order \in [1 .. n -> 1 .. n]
  BY <1>1, <1>2 DEF InTurn
<1>4. ByScore(hits) = [k \in DOMAIN order |-> hits[order[k]]]
  BY Zenon DEF ByScore, Before
<1> PICK t : t = ByScore(hits)
  OBVIOUS
<1>5. DOMAIN t = 1 .. n /\ \A k \in 1 .. n : t[k] = hits[order[k]]
  BY <1>3, <1>4
<1>6. t \in Seq(Hits)
  <2>1. \A k \in 1 .. n : hits[order[k]] \in Hits
    BY <1>3
  <2>2. t \in [1 .. n -> Hits]
    BY <1>3, <1>4, <2>1
  <2> QED
    BY <2>2
<1>7. Sorted(t, hits)
  BY <1>1, <1>3, <1>5 DEF Sorted
<1> QED
  BY <1>6, <1>7

(* Sorting keeps the hits and puts higher scores first.                    *)
LEMMA SortedFacts ==
    ASSUME NEW hits \in Seq(Hits), NEW t, Sorted(t, hits)
    PROVE  /\ DOMAIN t = DOMAIN hits
           /\ \A i \in DOMAIN t : \E j \in DOMAIN hits : t[i] = hits[j]
           /\ \A j \in DOMAIN hits : \E i \in DOMAIN t : t[i] = hits[j]
           /\ \A i, j \in DOMAIN t : i < j => t[i].score >= t[j].score
           /\ Apart(hits) => Apart(t)
<1> PICK n \in Nat : n = Len(hits) /\ DOMAIN hits = 1 .. n
  OBVIOUS
<1>1. PICK order \in [1 .. n -> 1 .. n] :
         /\ InTurn(order, Before(hits), 1 .. n)
         /\ DOMAIN t = 1 .. n /\ \A k \in 1 .. n : t[k] = hits[order[k]]
  BY DEF Sorted
<1>2. Cardinality(1 .. n) = n
  BY PlacesCount
<1>3. /\ \A x \in 1 .. n : \E i \in 1 .. n : order[i] = x
      /\ \A i, j \in 1 .. n : i < j => order[i] \in Before(hits)[order[j]]
  BY <1>1, <1>2 DEF InTurn
<1>4. \A i \in 1 .. n : \E j \in 1 .. n : t[i] = hits[j]
  BY <1>1
<1>5. \A j \in 1 .. n : \E i \in 1 .. n : t[i] = hits[j]
  <2> TAKE j \in 1 .. n
  <2>1. PICK i \in 1 .. n : order[i] = j
    BY <1>3
  <2> QED
    BY <1>1, <2>1
<1>6. \A i, j \in 1 .. n : i < j => t[i].score >= t[j].score /\ order[i] # order[j]
  <2> TAKE i, j \in 1 .. n
  <2> HAVE i < j
  <2>0. order[i] \in 1 .. n /\ order[j] \in 1 .. n
    BY <1>1
  <2>1. order[i] \in Before(hits)[order[j]]
    BY <1>3
  <2>2. \/ hits[order[i]].score > hits[order[j]].score
        \/ hits[order[i]].score = hits[order[j]].score /\ order[i] < order[j]
    BY <2>0, <2>1 DEF Before
  <2>3. hits[order[i]].score \in Nat /\ hits[order[j]].score \in Nat
    BY <2>0, HitsFacts
  <2>4. t[i] = hits[order[i]] /\ t[j] = hits[order[j]]
    BY <1>1
  <2> QED
    BY <2>0, <2>2, <2>3, <2>4
<1>7. ASSUME Apart(hits) PROVE Apart(t)
  <2> SUFFICES ASSUME NEW i \in 1 .. n, NEW j \in 1 .. n, i # j PROVE t[i].row # t[j].row
    BY <1>1 DEF Apart
  <2>1. order[i] # order[j]
    BY <1>6
  <2>2. order[i] \in 1 .. n /\ order[j] \in 1 .. n
    BY <1>1
  <2>3. hits[order[i]].row # hits[order[j]].row
    BY <1>7, <2>1, <2>2 DEF Apart
  <2> QED
    BY <1>1, <2>3
<1> QED
  BY <1>1, <1>4, <1>5, <1>6, <1>7

(* What the selection of places keeps of hits.                             *)
InOldOrder(t, s, places) ==
    \E order \in [DOMAIN t -> places] :
       /\ \A i, j \in DOMAIN t : i < j <=> order[i] < order[j]
       /\ \A i \in DOMAIN t : t[i] = s[order[i]]

LEMMA SelectedHits ==
    ASSUME NEW T, NEW s \in Seq(T), NEW places \in SUBSET (DOMAIN s), NEW t, t = Those(s, places)
    PROVE  /\ t \in Seq(T)
           /\ \A i \in DOMAIN t : \E p \in places : t[i] = s[p]
           /\ \A p \in places : \E i \in DOMAIN t : t[i] = s[p]
           /\ InOldOrder(t, s, places)
<1>1. t \in Seq(T) /\ Selected(t, s, places)
  BY ThoseFacts
<1>2. PICK order \in [DOMAIN t -> places] :
       /\ \A i, j \in DOMAIN t : i < j <=> order[i] < order[j]
       /\ \A p \in places : \E i \in DOMAIN t : order[i] = p
       /\ \A i \in DOMAIN t : t[i] = s[order[i]]
  BY <1>1 DEF Selected
<1>3. \A i \in DOMAIN t : \E p \in places : t[i] = s[p]
  BY <1>2
<1>4. \A p \in places : \E i \in DOMAIN t : t[i] = s[p]
  <2> TAKE p \in places
  <2>1. PICK i \in DOMAIN t : order[i] = p
    BY <1>2
  <2> QED
    BY <1>2, <2>1
<1> QED
  BY <1>1, <1>2, <1>3, <1>4 DEF InOldOrder

LEMMA SelectedApart ==
    ASSUME NEW T, NEW s \in Seq(T), Apart(s), NEW places \in SUBSET (DOMAIN s), NEW t, t = Those(s, places)
    PROVE  Apart(t)
<1>1. t \in Seq(T)
  BY SelectedHits
<1>0. InOldOrder(t, s, places)
  BY SelectedHits
<1>2. PICK order \in [DOMAIN t -> places] :
       /\ \A i, j \in DOMAIN t : i < j <=> order[i] < order[j]
       /\ \A i \in DOMAIN t : t[i] = s[order[i]]
  BY <1>0 DEF InOldOrder
<1> SUFFICES ASSUME NEW i \in DOMAIN t, NEW j \in DOMAIN t, i # j PROVE t[i].row # t[j].row
  BY DEF Apart
<1>3. i \in Int /\ j \in Int
  BY <1>1, DOMAIN t = 1 .. Len(t), Len(t) \in Nat
<1>4. order[i] # order[j] /\ order[i] \in DOMAIN s /\ order[j] \in DOMAIN s
  <2>1. i < j \/ j < i
    BY <1>3
  <2>2. order[i] \in DOMAIN s /\ order[j] \in DOMAIN s
    BY <1>2
  <2>3. order[i] \in Int /\ order[j] \in Int
    BY <2>2, DOMAIN s = 1 .. Len(s), Len(s) \in Nat
  <2> QED
    BY <1>2, <2>1, <2>2, <2>3
<1> QED
  BY <1>2, <1>4 DEF Apart

-----------------------------------------------------------------------------
(* The two legs of a search.                                               *)

LevelNames == {"summary", "clause", "chunk"}

WorldOK(world) ==
    /\ world.similarity \in [Passages -> 0 .. 100]
    /\ world.lexical \in Seq({p \in Passages : LevelOf[p] = "chunk"})
    /\ IsInjective(world.lexical) /\ world.rank \in [Passages -> Nat]

BudgetOK(budget) == budget.level \in LevelNames /\ budget.limit \in Nat /\ budget.floor \in Nat

VectorOK(v, world, budget, candidates) ==
    /\ v \in Seq(Hits) /\ Apart(v) /\ Len(v) <= budget.limit
    /\ \A i \in DOMAIN v : /\ v[i].source = "vector" /\ LevelOf[v[i].row] = budget.level
                           /\ v[i].similarity = world.similarity[v[i].row]
                           /\ Within(candidates, v[i].row)
    /\ \A i, j \in DOMAIN v : i < j => world.similarity[v[i].row] >= world.similarity[v[j].row]

KeywordOK(k, budget, candidates) ==
    /\ k \in Seq(Hits) /\ Apart(k)
    /\ budget.level = "summary" => k = <<>>
    /\ \A i \in DOMAIN k : /\ k[i].source = "keyword" /\ LevelOf[k[i].row] = "chunk"
                           /\ Within(candidates, k[i].row)

LEMMA NoLeg ==
    ASSUME NEW world, NEW budget, BudgetOK(budget), NEW candidates
    PROVE  VectorOK(<<>>, world, budget, candidates) /\ KeywordOK(<<>>, budget, candidates)
<1>1. <<>> \in Seq(Hits) /\ DOMAIN <<>> = {} /\ Len(<<>>) = 0
  OBVIOUS
<1>2. 0 <= budget.limit
  BY DEF BudgetOK
<1> QED
  BY <1>1, <1>2 DEF VectorOK, KeywordOK, Apart

LEMMA UnitFacts == /\ Unit \in Nat /\ Unit \div 100 \in Nat
                   /\ Unit \div 61 = 39060 /\ Unit \div 152 = 15675
  BY DEF Unit

LEMMA UnitScore == ASSUME NEW x \in Nat PROVE (Unit \div 100) * x \in Nat
<1> PICK u \in Nat : u = Unit \div 100
  BY UnitFacts
<1>1. u * x \in Nat
  BY Z3
<1> QED
  BY <1>1

LEMMA VectorFound ==
    ASSUME NEW world, WorldOK(world), NEW plan, NEW budget, BudgetOK(budget), NEW candidates
    PROVE  VectorOK(VectorSearch(world, plan, budget, candidates), world, budget, candidates)
<1> DEFINE near  == {p \in Passages : /\ LevelOf[p] = budget.level
                                      /\ Within(candidates, p) /\ OfTheType(plan, p)
                                      /\ world.similarity[p] >= budget.floor}
           ahead == [q \in near |->
                       {p \in near : \/ world.similarity[p] > world.similarity[q]
                                     \/ world.similarity[p] = world.similarity[q] /\ p < q}]
           best  == First(InOrder(near, ahead), budget.limit)
           v     == [i \in DOMAIN best |->
                       Hit(best[i], (Unit \div 100) * world.similarity[best[i]],
                           "vector", world.similarity[best[i]])]
<1>1. VectorSearch(world, plan, budget, candidates) = v
  BY Zenon DEF VectorSearch
<1>2. IsFiniteSet(near) /\ near \subseteq Passages
  BY FS_Subset, PassageAssumption
<1>3. \A p \in near : /\ p \in Nat /\ p \in Passages /\ LevelOf[p] = budget.level
                      /\ Within(candidates, p)
                      /\ world.similarity[p] \in 0 .. 100
  BY PassageAssumption DEF WorldOK
<1>a. \A q \in near : ahead[q] = {p \in near : \/ world.similarity[p] > world.similarity[q]
                                               \/ world.similarity[p] = world.similarity[q] /\ p < q}
  OBVIOUS
<1>4. Orders(ahead, near)
  <2>2. \A x \in near : x \in Nat /\ world.similarity[x] \in Nat
    BY <1>3
  <2> HIDE DEF ahead, near
  <2>3. \A x \in near : ahead[x] \in SUBSET (near \ {x})
    BY <1>a, <2>2
  <2>4. \A x, y \in near : x # y => x \in ahead[y] \/ y \in ahead[x]
    BY <1>a, <2>2
  <2>5. \A x, y \in near : x \in ahead[y] => ahead[x] \subseteq ahead[y]
    BY <1>a, <2>2
  <2> QED
    BY <1>2, <2>3, <2>4, <2>5 DEF Orders
<1> PICK order : order = InOrder(near, ahead)
  OBVIOUS
<1> PICK n : n = Cardinality(near)
  OBVIOUS
<1>5. /\ order \in [1 .. n -> near] /\ n \in Nat
      /\ \A i, j \in 1 .. n : i < j <=> order[i] \in ahead[order[j]]
  BY <1>4, OrderFacts DEF InTurn
<1>6. order \in Seq(near) /\ Len(order) = n
  <2> HIDE DEF near, ahead
  <2> QED
    BY <1>5
<1>7. /\ best \in Seq(near) /\ Len(best) = (IF n < budget.limit THEN n ELSE budget.limit)
      /\ DOMAIN best \subseteq 1 .. n /\ \A i \in DOMAIN best : best[i] = order[i]
  <2>1. budget.limit \in Nat /\ DOMAIN order = 1 .. n
    BY <1>5 DEF BudgetOK
  <2> HIDE DEF near, ahead
  <2> QED
    BY <1>6, <2>1, FirstFacts
<1>8. \A i, j \in DOMAIN best : i < j => /\ world.similarity[best[i]] >= world.similarity[best[j]]
                                         /\ best[i] # best[j]
  <2> TAKE i, j \in DOMAIN best
  <2> HAVE i < j
  <2> HIDE DEF best
  <2>1. i \in 1 .. n /\ j \in 1 .. n /\ best[i] = order[i] /\ best[j] = order[j]
    BY <1>7
  <2>2. order[i] \in ahead[order[j]] /\ order[j] \in near /\ order[i] \in near
    BY <1>5, <2>1
  <2>p. PICK p \in near, q \in near : p = order[i] /\ q = order[j]
    BY <2>2
  <2>x. PICK x \in 0 .. 100 : x = world.similarity[p]
    BY <1>3
  <2>y. PICK y \in 0 .. 100 : y = world.similarity[q]
    BY <1>3
  <2>3. p \in Nat /\ q \in Nat
    BY <1>3
  <2>4. p \in ahead[q]
    BY <2>2, <2>p
  <2> HIDE DEF near, ahead
  <2>5. x > y \/ (x = y /\ p < q)
    BY <1>a, <2>4, <2>x, <2>y
  <2>6. x >= y
    BY <2>5
  <2>7. p # q
    <3> SUFFICES ASSUME p = q PROVE FALSE
      OBVIOUS
    <3>1. x = y
      BY <2>x, <2>y
    <3> QED
      BY <2>3, <2>5, <3>1
  <2> QED
    BY <2>1, <2>6, <2>7, <2>p, <2>x, <2>y
<1> HIDE DEF best
<1>9. \A i \in DOMAIN best : best[i] \in near
  BY <1>7
<1>10. \A i \in DOMAIN v : /\ v[i] \in Hits /\ v[i].row = best[i] /\ v[i].source = "vector"
                           /\ v[i].similarity = world.similarity[best[i]]
  <2> TAKE i \in DOMAIN v
  <2>0. i \in DOMAIN best
    OBVIOUS
  <2> PICK p \in near : p = best[i]
    BY <1>9, <2>0
  <2> PICK s \in 0 .. 100 : s = world.similarity[p]
    BY <1>3
  <2>1. p \in Passages /\ s \in Measure /\ "vector" \in Origin
    BY <1>3 DEF Measure, Origin
  <2>2. (Unit \div 100) * s \in Nat
    BY UnitScore
  <2>3. v[i] = Hit(p, (Unit \div 100) * s, "vector", s)
    BY <2>0
  <2> HIDE DEF v, near
  <2> QED
    BY <2>1, <2>2, <2>3, HitFacts
<1>11. v \in Seq(Hits) /\ Len(v) <= budget.limit /\ DOMAIN v = DOMAIN best
  <2>1. DOMAIN best = 1 .. Len(best) /\ Len(best) \in Nat /\ Len(best) <= budget.limit
    <3> HIDE DEF near, ahead
    <3> PICK k : k = Len(best)
      OBVIOUS
    <3>1. k \in Nat /\ DOMAIN best = 1 .. k
      BY <1>7
    <3> PICK m \in Nat : m = budget.limit
      BY DEF BudgetOK
    <3>2. k = IF n < m THEN n ELSE m
      BY <1>7
    <3>3. k <= m
      BY <1>5, <3>2
    <3> QED
      BY <3>1, <3>3
  <2>2. \A i \in DOMAIN best : v[i] \in Hits
    BY <1>10
  <2>3. v \in [1 .. Len(best) -> Hits]
    BY <2>1, <2>2
  <2> HIDE DEF v
  <2> QED
    BY <2>1, <2>3
<1> HIDE DEF v
<1>12. Apart(v)
  <2> SUFFICES ASSUME NEW i \in DOMAIN best, NEW j \in DOMAIN best, i # j PROVE best[i] # best[j]
    BY <1>10, <1>11 DEF Apart
  <2>1. i \in Int /\ j \in Int
    BY <1>7
  <2> QED
    BY <1>8, <2>1
<1>13. \A i \in DOMAIN v : /\ v[i].source = "vector" /\ LevelOf[v[i].row] = budget.level
                           /\ v[i].similarity = world.similarity[v[i].row]
                           /\ Within(candidates, v[i].row)
  <2> TAKE i \in DOMAIN v
  <2>1. best[i] \in near
    BY <1>9, <1>11
  <2>2. LevelOf[best[i]] = budget.level /\ Within(candidates, best[i])
    BY <1>3, <2>1
  <2> HIDE DEF near
  <2> QED
    BY <1>10, <2>2
<1>14. \A i, j \in DOMAIN v : i < j => world.similarity[v[i].row] >= world.similarity[v[j].row]
  BY <1>8, <1>10, <1>11
<1> QED
  BY <1>1, <1>11, <1>12, <1>13, <1>14 DEF VectorOK

LEMMA KeywordFound ==
    ASSUME NEW world, WorldOK(world), NEW budget, BudgetOK(budget), NEW candidates
    PROVE  KeywordOK(KeywordSearch(world, budget, candidates), budget, candidates)
<1> DEFINE C        == {p \in Passages : LevelOf[p] = "chunk"}
           words    == world.lexical
           matching == {i \in DOMAIN words : Within(candidates, words[i])}
           some     == Those(words, matching)
           best     == First(some, budget.limit)
           k        == [i \in DOMAIN best |-> Hit(best[i], world.rank[best[i]], "keyword", Nowhere)]
<1>1. KeywordSearch(world, budget, candidates) = IF budget.level = "summary" THEN <<>> ELSE k
  BY Zenon DEF KeywordSearch
<1>2. words \in Seq(C) /\ IsInjective(words) /\ budget.limit \in Nat
  BY DEF WorldOK, BudgetOK
<1>3. \A i \in DOMAIN words : words[i] \in C
  BY <1>2
<1> HIDE DEF C, words
<1>4. matching \in SUBSET (DOMAIN words)
  OBVIOUS
<1>5. /\ some \in Seq(C) /\ \A i \in DOMAIN some : \E p \in matching : some[i] = words[p]
      /\ InOldOrder(some, words, matching)
  <2> PICK places : places = matching
    OBVIOUS
  <2>1. places \in SUBSET (DOMAIN words) /\ some = Those(words, places)
    BY <1>4
  <2> HIDE DEF matching, some
  <2> QED
    BY <1>2, <2>1, SelectedHits
<1>6. \A i \in DOMAIN some : some[i] \in C /\ Within(candidates, some[i])
  BY <1>3, <1>5
<1>7. \A i, j \in DOMAIN some : i # j => some[i] # some[j]
  <2>1. PICK order \in [DOMAIN some -> matching] :
          /\ \A i, j \in DOMAIN some : i < j <=> order[i] < order[j]
          /\ \A i \in DOMAIN some : some[i] = words[order[i]]
    BY <1>5 DEF InOldOrder
  <2> HIDE DEF some
  <2>2. DOMAIN some \subseteq Int
    BY <1>5, DOMAIN some = 1 .. Len(some), Len(some) \in Nat
  <2>3. DOMAIN words \subseteq Int
    BY <1>2, DOMAIN words = 1 .. Len(words), Len(words) \in Nat
  <2> TAKE i, j \in DOMAIN some
  <2> HAVE i # j
  <2>4. order[i] \in DOMAIN words /\ order[j] \in DOMAIN words
    BY <2>1
  <2>5. order[i] # order[j]
    BY <2>1, <2>2, <2>3, <2>4
  <2> QED
    BY <1>2, <2>1, <2>4, <2>5 DEF IsInjective
<1> HIDE DEF some, matching
<1>8. /\ best \in Seq(C) /\ DOMAIN best \subseteq DOMAIN some
      /\ \A i \in DOMAIN best : best[i] = some[i]
  BY <1>2, <1>5, FirstFacts
<1> HIDE DEF best
<1>9. \A i \in DOMAIN k : /\ k[i] \in Hits /\ k[i].row = best[i] /\ k[i].source = "keyword"
  <2> TAKE i \in DOMAIN k
  <2>0. i \in DOMAIN best
    OBVIOUS
  <2>1. best[i] \in Passages /\ "keyword" \in Origin /\ Nowhere \in Measure
    BY <1>6, <1>8, <2>0 DEF C, Measure, Origin
  <2> PICK r : r = world.rank[best[i]]
    OBVIOUS
  <2>2. r \in Nat
    BY <2>1 DEF WorldOK
  <2>3. k[i] = Hit(best[i], r, "keyword", Nowhere)
    BY <2>0
  <2> HIDE DEF k
  <2> QED
    BY <2>1, <2>2, <2>3, HitFacts
<1>10. k \in Seq(Hits) /\ DOMAIN k = DOMAIN best
  <2>1. DOMAIN best = 1 .. Len(best) /\ Len(best) \in Nat
    BY <1>8
  <2>2. k \in [1 .. Len(best) -> Hits]
    BY <1>9, <2>1
  <2> QED
    BY <2>1, <2>2
<1> HIDE DEF k
<1>11. Apart(k)
  BY <1>7, <1>8, <1>9, <1>10 DEF Apart
<1>12. \A i \in DOMAIN k : /\ k[i].source = "keyword" /\ LevelOf[k[i].row] = "chunk"
                           /\ Within(candidates, k[i].row)
  BY <1>6, <1>8, <1>9, <1>10 DEF C
<1>13. KeywordOK(<<>>, budget, candidates)
  BY NoLeg
<1>14. budget.level # "summary" => KeywordOK(k, budget, candidates)
  BY <1>10, <1>11, <1>12 DEF KeywordOK
<1> QED
  BY <1>1, <1>13, <1>14

-----------------------------------------------------------------------------
(* Fusion of the two legs.                                                 *)

FoundBy(h) == h.source \in {"vector", "fused"}

(* What a level's hits are, whichever legs ran.                            *)
MergedOK(m, world, budget, candidates) ==
    /\ m \in Seq(Hits) /\ Apart(m)
    /\ \A i \in DOMAIN m :
          /\ m[i].source \in {"vector", "keyword", "fused"}
          /\ FoundBy(m[i]) => /\ LevelOf[m[i].row] = budget.level
                              /\ m[i].similarity = world.similarity[m[i].row]
          /\ ~FoundBy(m[i]) => LevelOf[m[i].row] = "chunk"
          /\ Within(candidates, m[i].row)

Scores(m, limit) ==
    \A i \in DOMAIN m : LevelOf[m[i].row] = "clause" =>
        m[i].score <= 39060 /\ (limit <= SafeLimit => m[i].score >= 15675)

LEMMA ShareBounds ==
    ASSUME NEW r \in Nat, r >= 1
    PROVE  /\ Unit \div (60 + r) \in Nat /\ Unit \div (60 + r) <= 39060
           /\ r <= SafeLimit => Unit \div (60 + r) >= 15675
<1> DEFINE u == 2382660
<1>1. Unit = u /\ SafeLimit = 92
  BY DEF Unit, SafeLimit
<1> PICK d \in Nat : d = 60 + r /\ d >= 61
  OBVIOUS
<1> PICK q : q = u \div d
  OBVIOUS
<1>2. q \in Int /\ q * d <= u /\ u < (q + 1) * d
  BY Z3
<1>3. q >= 0
  BY <1>2, Z3
<1>4. q <= 39060
  <2> SUFFICES ASSUME q >= 39061 PROVE FALSE
    BY <1>2
  <2>1. q * d >= 39061 * 61
    BY <1>2, Z3
  <2> QED
    BY <1>2, <2>1
<1>5. r <= 92 => q >= 15675
  <2> SUFFICES ASSUME r <= 92, q + 1 <= 15675 PROVE FALSE
    BY <1>2
  <2>1. (q + 1) * d <= 15675 * 152
    BY <1>2, <1>3, Z3
  <2> QED
    BY <1>2, <2>1
<1> QED
  BY <1>1, <1>2, <1>3, <1>4, <1>5

(* What is fused, before it is sorted and cut.                             *)
Share(leg, p) == IF p \in Rows(leg) THEN Unit \div (60 + RankOf(leg, p)) ELSE 0
Seen(v, k)    == v \o Those(k, {i \in DOMAIN k : k[i].row \notin Rows(v)})
Fused(v, k, h) ==
    Hit(h.row, Share(v, h.row) + Share(k, h.row),
        IF h.row \in Rows(v) \cap Rows(k) THEN "fused" ELSE h.source, FusedSimilarity(v, k, h.row))
AllFused(v, k) == [i \in DOMAIN Seen(v, k) |-> Fused(v, k, Seen(v, k)[i])]

LEMMA FuseIs ==
    ASSUME NEW v, NEW k, NEW limit
    PROVE  Fuse(v, k, limit) = First(ByScore(AllFused(v, k)), limit)
BY Zenon DEF Fuse, AllFused, Fused, Seen, Share

LEMMA ShareFacts ==
    ASSUME NEW leg \in Seq(Hits), NEW p
    PROVE  /\ Share(leg, p) \in Nat /\ Share(leg, p) <= 39060
           /\ p \in Rows(leg) /\ Len(leg) <= SafeLimit => Share(leg, p) >= 15675
<1>1. CASE p \notin Rows(leg)
  BY <1>1 DEF Share
<1>2. CASE p \in Rows(leg)
  <2> PICK n \in Nat : n = Len(leg) /\ DOMAIN leg = 1 .. n
    OBVIOUS
  <2> PICK r \in 1 .. n : r = RankOf(leg, p)
    BY <1>2, RankFacts
  <2>1. Share(leg, p) = Unit \div (60 + r)
    BY <1>2 DEF Share
  <2>2. r \in Nat /\ r >= 1
    OBVIOUS
  <2>3. n <= SafeLimit => r <= SafeLimit
    BY DEF SafeLimit
  <2> QED
    BY <2>1, <2>2, <2>3, ShareBounds
<1> QED
  BY <1>1, <1>2

(* The rows seen: those of the vector leg first, then the others of the    *)
(* keyword leg.                                                            *)
LEMMA SeenFacts ==
    ASSUME NEW v \in Seq(Hits), Apart(v), NEW k \in Seq(Hits), Apart(k)
    PROVE  /\ Seen(v, k) \in Seq(Hits) /\ Apart(Seen(v, k)) /\ Len(v) <= Len(Seen(v, k))
           /\ \A i \in DOMAIN v : i \in DOMAIN Seen(v, k) /\ Seen(v, k)[i] = v[i]
           /\ \A i \in DOMAIN Seen(v, k) :
                \/ i \in DOMAIN v
                \/ /\ i > Len(v)
                   /\ \E j \in DOMAIN k : Seen(v, k)[i] = k[j] /\ k[j].row \notin Rows(v)
<1> DEFINE places == {i \in DOMAIN k : k[i].row \notin Rows(v)}
<1>1. places \in SUBSET (DOMAIN k) /\ \A p \in places : k[p].row \notin Rows(v)
  OBVIOUS
<1> HIDE DEF places
<1> PICK t : t = Those(k, places)
  OBVIOUS
<1>0. t \in Seq(Hits) /\ \A i \in DOMAIN t : \E p \in places : t[i] = k[p]
  BY <1>1, SelectedHits
<1>2. Apart(t)
  BY <1>1, SelectedApart
<1>s. PICK s : s = v \o t
  OBVIOUS
<1>3. Seen(v, k) = s
  BY <1>s DEF Seen, places
<1> PICK n \in Nat : n = Len(v) /\ DOMAIN v = 1 .. n
  OBVIOUS
<1> PICK m \in Nat : m = Len(t) /\ DOMAIN t = 1 .. m
  BY <1>0
<1>4. s \in Seq(Hits) /\ Len(s) = n + m /\ DOMAIN s = 1 .. n + m
  BY <1>0, <1>s
<1>5. \A i \in 1 .. n : s[i] = v[i]
  BY <1>0, <1>s
<1>6. \A i \in n + 1 .. n + m : s[i] = t[i - n] /\ i - n \in 1 .. m
  BY <1>0, <1>s
<1>7. \A i \in n + 1 .. n + m : \E j \in DOMAIN k : s[i] = k[j] /\ k[j].row \notin Rows(v)
  <2> TAKE i \in n + 1 .. n + m
  <2>1. s[i] = t[i - n] /\ i - n \in 1 .. m
    BY <1>6
  <2>2. PICK p \in places : t[i - n] = k[p]
    BY <1>0, <2>1
  <2> QED
    BY <1>1, <2>1, <2>2
<1>8. \A i \in 1 .. n : v[i].row \in Rows(v)
  BY DEF Rows
<1>9. Apart(s)
  <2> SUFFICES ASSUME NEW i \in 1 .. n + m, NEW j \in 1 .. n + m, i < j PROVE s[i].row # s[j].row
    <3>1. \A i, j \in 1 .. n + m : i # j => i < j \/ j < i
      OBVIOUS
    <3> SUFFICES ASSUME NEW i \in 1 .. n + m, NEW j \in 1 .. n + m, i # j PROVE s[i].row # s[j].row
      BY <1>4 DEF Apart
    <3>2. CASE i < j
      BY <3>2
    <3>3. CASE j < i
      BY <3>3
    <3> QED
      BY <3>1, <3>2, <3>3
  <2>1. CASE j <= n
    BY <1>5, <2>1 DEF Apart
  <2>2. CASE i <= n /\ j > n
    <3>1. s[i].row \in Rows(v) /\ s[j].row \notin Rows(v)
      BY <1>5, <1>7, <1>8, <2>2
    <3> QED
      BY <3>1
  <2>3. CASE i > n
    <3>1. s[i] = t[i - n] /\ s[j] = t[j - n] /\ i - n \in 1 .. m /\ j - n \in 1 .. m /\ i - n # j - n
      BY <1>6, <2>3
    <3> PICK a \in DOMAIN t : a = i - n
      BY <3>1
    <3> PICK b \in DOMAIN t : b = j - n
      BY <3>1
    <3>2. a # b /\ s[i] = t[a] /\ s[j] = t[b]
      BY <3>1
    <3>3. t[a].row # t[b].row
      BY <1>2, <3>2 DEF Apart
    <3> QED
      BY <3>2, <3>3
  <2> QED
    BY <2>1, <2>2, <2>3
<1>10. \A i \in 1 .. n + m : i \in 1 .. n \/ (i > n /\ i \in n + 1 .. n + m)
  OBVIOUS
<1>11. \A i \in DOMAIN v : i \in DOMAIN s
  BY <1>4
<1>12. n <= n + m
  OBVIOUS
<1>13. \A i \in DOMAIN s : \/ i \in DOMAIN v
                            \/ (i > Len(v) /\ \E j \in DOMAIN k : s[i] = k[j] /\ k[j].row \notin Rows(v))
  BY <1>4, <1>7, <1>10
<1> QED
  BY <1>3, <1>4, <1>5, <1>9, <1>11, <1>12, <1>13

ItemOK(h, world, budget, candidates) ==
    /\ h \in Hits /\ h.source \in {"vector", "keyword", "fused"}
    /\ FoundBy(h) => LevelOf[h.row] = budget.level /\ h.similarity = world.similarity[h.row]
    /\ ~FoundBy(h) => LevelOf[h.row] = "chunk"
    /\ Within(candidates, h.row)

ScoreOK(h, limit) == LevelOf[h.row] = "clause" =>
    h.score <= 39060 /\ (limit <= SafeLimit => h.score >= 15675)

LEMMA MergedIs ==
    ASSUME NEW m, NEW world, NEW budget, NEW candidates, m \in Seq(Hits), Apart(m),
           \A i \in DOMAIN m : ItemOK(m[i], world, budget, candidates)
    PROVE  MergedOK(m, world, budget, candidates)
BY DEF MergedOK, ItemOK

LEMMA SeenItem ==
    ASSUME NEW world, WorldOK(world), NEW budget, BudgetOK(budget), NEW candidates,
           NEW v, VectorOK(v, world, budget, candidates), NEW k, KeywordOK(k, budget, candidates),
           NEW h, \/ \E i \in DOMAIN v : h = v[i]
                  \/ \E j \in DOMAIN k : h = k[j] /\ k[j].row \notin Rows(v)
    PROVE  /\ ItemOK(Fused(v, k, h), world, budget, candidates)
           /\ ScoreOK(Fused(v, k, h), budget.limit)
           /\ Fused(v, k, h).row = h.row
           /\ Fused(v, k, h).score = Share(v, h.row) + Share(k, h.row)
<1>1. v \in Seq(Hits) /\ Apart(v) /\ Len(v) <= budget.limit /\ budget.limit \in Nat
  BY DEF VectorOK, BudgetOK
<1>2. k \in Seq(Hits) /\ \A j \in DOMAIN k : k[j].row \in Passages /\ LevelOf[k[j].row] = "chunk"
  BY HitsFacts DEF KeywordOK
<1> PICK score \in Nat : score = Share(v, h.row) + Share(k, h.row)
  <2>1. Share(v, h.row) \in Nat /\ Share(k, h.row) \in Nat
    BY <1>1, <1>2, ShareFacts
  <2> QED
    BY <2>1
<1> PICK p : p = h.row
  OBVIOUS
<1>3. CASE \E i \in DOMAIN v : h = v[i]
  <2> PICK i \in DOMAIN v : h = v[i]
    BY <1>3
  <2>1. /\ h \in Hits /\ p \in Passages /\ h.source = "vector" /\ LevelOf[p] = budget.level
        /\ h.similarity \in Measure /\ h.similarity = world.similarity[p] /\ Within(candidates, p)
    BY <1>1, HitsFacts DEF VectorOK
  <2>2. p \in Rows(v) /\ RankOf(v, p) = i
    BY <1>1, RankIs
  <2>3. FusedSimilarity(v, k, p) = h.similarity
    BY <2>2 DEF FusedSimilarity
  <2> PICK source : source = IF p \in Rows(v) \cap Rows(k) THEN "fused" ELSE h.source
    OBVIOUS
  <2>4. source \in {"vector", "fused"} /\ source \in Origin
    BY <2>1 DEF Origin
  <2>5. Fused(v, k, h) = Hit(p, score, source, h.similarity)
    BY <2>3 DEF Fused
  <2> PICK g : g = Fused(v, k, h)
    OBVIOUS
  <2>6. g \in Hits /\ g.row = p /\ g.score = score /\ g.source = source /\ g.similarity = h.similarity
    BY <2>1, <2>4, <2>5, HitFacts
  <2>7. ItemOK(g, world, budget, candidates)
    BY <2>1, <2>4, <2>6 DEF ItemOK, FoundBy
  <2>8. ScoreOK(g, budget.limit)
    <3> SUFFICES ASSUME LevelOf[p] = "clause"
                 PROVE  score <= 39060 /\ (budget.limit <= SafeLimit => score >= 15675)
      BY <2>6 DEF ScoreOK
    <3>1. p \notin Rows(k)
      BY <1>2 DEF Rows
    <3>2. Share(k, p) = 0
      BY <3>1 DEF Share
    <3>3. Share(v, p) \in Nat /\ Share(v, p) <= 39060 /\ (Len(v) <= SafeLimit => Share(v, p) >= 15675)
      BY <1>1, <2>2, ShareFacts
    <3>4. Len(v) \in Nat /\ SafeLimit \in Nat
      BY <1>1 DEF SafeLimit
    <3>5. budget.limit <= SafeLimit => Len(v) <= SafeLimit
      BY <1>1, <3>4
    <3>6. score = Share(v, p)
      BY <3>2, <3>3
    <3> QED
      BY <3>3, <3>5, <3>6
  <2> QED
    BY <2>6, <2>7, <2>8
<1>4. CASE \E j \in DOMAIN k : h = k[j] /\ k[j].row \notin Rows(v)
  <2> PICK j \in DOMAIN k : h = k[j] /\ k[j].row \notin Rows(v)
    BY <1>4
  <2>1. /\ h \in Hits /\ p \in Passages /\ h.source = "keyword" /\ LevelOf[p] = "chunk"
        /\ Within(candidates, p)
    BY <1>2, HitsFacts DEF KeywordOK
  <2>2. FusedSimilarity(v, k, p) = Nowhere /\ Nowhere \in Measure
    BY DEF FusedSimilarity, Measure
  <2>3. "keyword" \in Origin
    BY DEF Origin
  <2>4. Fused(v, k, h) = Hit(p, score, "keyword", Nowhere)
    BY <2>1, <2>2 DEF Fused
  <2> PICK g : g = Fused(v, k, h)
    OBVIOUS
  <2>5. g \in Hits /\ g.row = p /\ g.score = score /\ g.source = "keyword"
    BY <2>1, <2>2, <2>3, <2>4, HitFacts
  <2>6. ItemOK(g, world, budget, candidates) /\ ScoreOK(g, budget.limit)
    BY <2>1, <2>5 DEF ItemOK, ScoreOK, FoundBy
  <2> QED
    BY <2>5, <2>6
<1> QED
  BY <1>3, <1>4

(* Before sorting.                                                         *)
LEMMA AllFusedFacts ==
    ASSUME NEW world, WorldOK(world), NEW budget, BudgetOK(budget), NEW candidates,
           NEW v, VectorOK(v, world, budget, candidates), NEW k, KeywordOK(k, budget, candidates)
    PROVE  /\ AllFused(v, k) \in Seq(Hits) /\ Apart(AllFused(v, k))
           /\ Len(v) <= Len(AllFused(v, k))
           /\ \A i \in DOMAIN AllFused(v, k) :
                 /\ ItemOK(AllFused(v, k)[i], world, budget, candidates)
                 /\ ScoreOK(AllFused(v, k)[i], budget.limit)
           /\ \A i \in DOMAIN v : AllFused(v, k)[i].row = v[i].row
           /\ v # <<>> => Before(AllFused(v, k))[1] \subseteq 2 .. Len(v)
<1>1. v \in Seq(Hits) /\ Apart(v) /\ k \in Seq(Hits) /\ Apart(k)
  BY DEF VectorOK, KeywordOK
<1> PICK s : s = Seen(v, k)
  OBVIOUS
<1>2. /\ s \in Seq(Hits) /\ Apart(s) /\ Len(v) <= Len(s)
      /\ \A i \in DOMAIN v : i \in DOMAIN s /\ s[i] = v[i]
      /\ \A i \in DOMAIN s : \/ i \in DOMAIN v
                             \/ /\ i > Len(v)
                                /\ \E j \in DOMAIN k : s[i] = k[j] /\ k[j].row \notin Rows(v)
  BY <1>1, SeenFacts
<1> PICK n \in Nat : n = Len(s) /\ DOMAIN s = 1 .. n
  BY <1>2
<1>3. \A i \in 1 .. n : \/ \E j \in DOMAIN v : s[i] = v[j]
                        \/ \E j \in DOMAIN k : s[i] = k[j] /\ k[j].row \notin Rows(v)
  BY <1>2
<1> PICK a : a = AllFused(v, k)
  OBVIOUS
<1>4. DOMAIN a = 1 .. n /\ a = [i \in 1 .. n |-> Fused(v, k, s[i])]
  BY DEF AllFused
<1>5. \A i \in 1 .. n : /\ ItemOK(a[i], world, budget, candidates) /\ ScoreOK(a[i], budget.limit)
                        /\ a[i].row = s[i].row
                        /\ a[i].score = Share(v, s[i].row) + Share(k, s[i].row)
  <2> TAKE i \in 1 .. n
  <2>1. a[i] = Fused(v, k, s[i])
    BY <1>4
  <2> QED
    BY <1>3, <2>1, SeenItem
<1>6. a \in Seq(Hits) /\ Len(a) = n
  <2>1. \A i \in 1 .. n : a[i] \in Hits
    BY <1>5 DEF ItemOK
  <2>2. a \in [1 .. n -> Hits]
    BY <1>4, <2>1
  <2> QED
    BY <2>2
<1>7. Apart(a)
  BY <1>2, <1>4, <1>5 DEF Apart
<1>8. \A i \in DOMAIN v : a[i].row = v[i].row
  BY <1>2, <1>5
<1>9. ASSUME v # <<>> PROVE Before(a)[1] \subseteq 2 .. Len(v)
  <2> PICK m \in Nat : m = Len(v) /\ DOMAIN v = 1 .. m
    BY <1>1
  <2>1. m >= 1 /\ 1 \in 1 .. m /\ 1 \in 1 .. n /\ m <= n
    <3>1. m # 0
      BY <1>1, <1>9
    <3> QED
      BY <1>2, <3>1
  <2> SUFFICES ASSUME NEW j \in 1 .. n, j \in Before(a)[1] PROVE j \in 2 .. m
    BY <1>4, <2>1 DEF Before
  <2> PICK x \in Nat : x = a[1].score
    BY <1>6, <2>1, HitsFacts
  <2> PICK y \in Nat : y = a[j].score
    BY <1>6, HitsFacts
  <2>2. y > x \/ (y = x /\ j < 1)
    BY <1>4, <2>1 DEF Before
  <2>3. y > x /\ j # 1
    BY <2>2
  <2>4. x >= 39060
    <3>1. RankOf(v, v[1].row) = 1 /\ v[1].row \in Rows(v)
      BY <1>1, <2>1, RankIs
    <3>2. Share(v, v[1].row) = 39060
      BY <3>1, UnitFacts DEF Share
    <3>3. Share(k, v[1].row) \in Nat
      BY <1>1, ShareFacts
    <3>4. x = Share(v, v[1].row) + Share(k, v[1].row)
      BY <1>2, <1>5, <2>1
    <3> QED
      BY <3>2, <3>3, <3>4
  <2>5. j <= m
    <3> SUFFICES ASSUME j > m PROVE FALSE
      OBVIOUS
    <3>1. s[j].row \notin Rows(v)
      BY <1>2
    <3>2. Share(v, s[j].row) = 0
      BY <3>1 DEF Share
    <3>3. Share(k, s[j].row) \in Nat /\ Share(k, s[j].row) <= 39060
      BY <1>1, ShareFacts
    <3>4. y = Share(v, s[j].row) + Share(k, s[j].row)
      BY <1>5
    <3> QED
      BY <2>3, <2>4, <3>2, <3>3, <3>4
  <2> QED
    BY <2>3, <2>5
<1> QED
  BY <1>2, <1>4, <1>5, <1>6, <1>7, <1>8, <1>9

-----------------------------------------------------------------------------
(* The folds of the model, each with one value per element it has read.    *)

LEMMA Along ==
    ASSUME NEW n \in Nat, NEW acc, NEW inv, acc[0] \in inv[0],
           \A i \in 1 .. n : acc[i - 1] \in inv[i - 1] => acc[i] \in inv[i]
    PROVE  acc[n] \in inv[n]
<1> DEFINE Good == {i \in Nat : i <= n => acc[i] \in inv[i]}
<1>1. 0 \in Good
  OBVIOUS
<1>2. ASSUME NEW i \in Nat, i \in Good PROVE i + 1 \in Good
  <2>1. i + 1 <= n => i + 1 \in 1 .. n /\ (i + 1) - 1 = i /\ i <= n
    OBVIOUS
  <2> QED
    BY <1>2, <2>1
<1>3. \A i \in Nat : i \in Good
  <2> HIDE DEF Good
  <2> QED
    BY <1>1, <1>2, NaturalsAreAll
<1> QED
  BY <1>3

(* Level after level. *)
SearchLevelStays(world, plan, V, U) == \A a \in V, x \in U : SearchLevel(world, plan, a, x) \in V
SearchLevelPasses(world, plan, V, base, s, acc) ==
    /\ acc \in [0 .. Len(s) -> V] /\ acc[0] = base
    /\ \A i \in 1 .. Len(s) : acc[i] = SearchLevel(world, plan, acc[i - 1], s[i])
    /\ FoldLeft(LAMBDA a, x : SearchLevel(world, plan, a, x), base, s) = acc[Len(s)]

LEMMA SearchLevelRuns ==
    ASSUME NEW world, NEW plan, NEW V, NEW U, NEW base, NEW s
    PROVE  SearchLevelStays(world, plan, V, U) /\ base \in V /\ s \in Seq(U)
             => \E acc : SearchLevelPasses(world, plan, V, base, s, acc)
<1> SUFFICES ASSUME \A a \in V, x \in U : SearchLevel(world, plan, a, x) \in V, base \in V, s \in Seq(U)
             PROVE  \E acc : SearchLevelPasses(world, plan, V, base, s, acc)
  BY DEF SearchLevelStays
<1> DEFINE step == [a \in V |-> [x \in U |-> SearchLevel(world, plan, a, x)]]
<1>1. \A a \in V, x \in U : step[a][x] \in V /\ step[a][x] = SearchLevel(world, plan, a, x)
  OBVIOUS
<1> HIDE DEF step
<1>2. StaysIn(V, U, step)
  BY <1>1 DEF StaysIn
<1>s. PICK whole : whole = FoldLeft(LAMBDA a, x : SearchLevel(world, plan, a, x), base, s)
  OBVIOUS
<1>3. PICK g \in [SUBSET DOMAIN s -> V] : \A t \in SUBSET DOMAIN s :
         g[t] = IF t = {} THEN base ELSE step[g[t \ {Max(t)}]][s[Max(t)]]
  <2>1. HasFold(V, step, base, s)
    BY <1>2, FoldIs, Zenon
  <2> QED
    BY <2>1 DEF HasFold
<1>4. \A t \in SUBSET DOMAIN s : t # {} => s[Max(t)] \in U
  BY MaxUpTo, DOMAIN s = 1 .. Len(s), Len(s) \in Nat
<1>5. g = [t \in SUBSET DOMAIN s |-> IF t = {} THEN base ELSE
             LET x == Max(t) IN SearchLevel(world, plan, g[t \ {x}], s[x])]
  <2>1. \A t \in SUBSET DOMAIN s : t # {} =>
           step[g[t \ {Max(t)}]][s[Max(t)]] = SearchLevel(world, plan, g[t \ {Max(t)}], s[Max(t)])
    BY <1>1, <1>3, <1>4
  <2> QED
    BY <1>3, <2>1
<1>6. PICK f :
         /\ f = [t \in SUBSET DOMAIN s |-> IF t = {} THEN base ELSE
                  LET x == Max(t) IN SearchLevel(world, plan, f[t \ {x}], s[x])]
         /\ whole = f[DOMAIN s]
  BY <1>5, <1>s, Zenon DEF FoldLeft, MapThenFoldSet
<1>7. f[{}] = base
  BY <1>6
<1>8. ASSUME NEW t \in SUBSET DOMAIN s, t # {}, f[t \ {Max(t)}] \in V
      PROVE  f[t] = step[f[t \ {Max(t)}]][s[Max(t)]]
  BY <1>1, <1>4, <1>6, <1>8
<1>9. GoesThrough(f, V, step, base, s)
  <2>1. IsFold(f, V, step, base, s)
    BY <1>7, <1>8 DEF IsFold
  <2> QED
    BY <1>2, <2>1, FoldRuns, Zenon
<1>10. PICK acc \in [0 .. Len(s) -> V] :
         /\ acc[0] = base
         /\ \A i \in 1 .. Len(s) : acc[i] = step[acc[i - 1]][s[i]]
         /\ f[DOMAIN s] = acc[Len(s)]
  BY <1>9 DEF GoesThrough
<1>11. \A i \in 1 .. Len(s) : acc[i] = SearchLevel(world, plan, acc[i - 1], s[i])
  <2> TAKE i \in 1 .. Len(s)
  <2>1. acc[i - 1] \in V /\ s[i] \in U
    OBVIOUS
  <2> QED
    BY <1>1, <1>10, <2>1
<1>12. SearchLevelPasses(world, plan, V, base, s, acc)
  <2>1. FoldLeft(LAMBDA a, x : SearchLevel(world, plan, a, x), base, s) = acc[Len(s)]
    BY <1>s, <1>6, <1>10
  <2> QED
    BY <1>10, <1>11, <2>1, Zenon DEF SearchLevelPasses
<1> QED
  BY <1>12

(* Seed after seed, by the chunks around it. *)
WidenStays(V, U) == \A a \in V, x \in U : Widen(a, x) \in V
WidenPasses(V, base, s, acc) ==
    /\ acc \in [0 .. Len(s) -> V] /\ acc[0] = base
    /\ \A i \in 1 .. Len(s) : acc[i] = Widen(acc[i - 1], s[i])
    /\ FoldLeft(Widen, base, s) = acc[Len(s)]

LEMMA WidenRuns ==
    ASSUME NEW V, NEW U, NEW base, NEW s
    PROVE  WidenStays(V, U) /\ base \in V /\ s \in Seq(U)
             => \E acc : WidenPasses(V, base, s, acc)
<1> SUFFICES ASSUME \A a \in V, x \in U : Widen(a, x) \in V, base \in V, s \in Seq(U)
             PROVE  \E acc : WidenPasses(V, base, s, acc)
  BY DEF WidenStays
<1> DEFINE step == [a \in V |-> [x \in U |-> Widen(a, x)]]
<1>1. \A a \in V, x \in U : step[a][x] \in V /\ step[a][x] = Widen(a, x)
  OBVIOUS
<1> HIDE DEF step
<1>2. StaysIn(V, U, step)
  BY <1>1 DEF StaysIn
<1>s. PICK whole : whole = FoldLeft(Widen, base, s)
  OBVIOUS
<1>3. PICK g \in [SUBSET DOMAIN s -> V] : \A t \in SUBSET DOMAIN s :
         g[t] = IF t = {} THEN base ELSE step[g[t \ {Max(t)}]][s[Max(t)]]
  <2>1. HasFold(V, step, base, s)
    BY <1>2, FoldIs, Zenon
  <2> QED
    BY <2>1 DEF HasFold
<1>4. \A t \in SUBSET DOMAIN s : t # {} => s[Max(t)] \in U
  BY MaxUpTo, DOMAIN s = 1 .. Len(s), Len(s) \in Nat
<1>5. g = [t \in SUBSET DOMAIN s |-> IF t = {} THEN base ELSE
             LET x == Max(t) IN Widen(g[t \ {x}], s[x])]
  <2>1. \A t \in SUBSET DOMAIN s : t # {} =>
           step[g[t \ {Max(t)}]][s[Max(t)]] = Widen(g[t \ {Max(t)}], s[Max(t)])
    BY <1>1, <1>3, <1>4
  <2> QED
    BY <1>3, <2>1
<1>6. PICK f :
         /\ f = [t \in SUBSET DOMAIN s |-> IF t = {} THEN base ELSE
                  LET x == Max(t) IN Widen(f[t \ {x}], s[x])]
         /\ whole = f[DOMAIN s]
  BY <1>5, <1>s, Zenon DEF FoldLeft, MapThenFoldSet
<1>7. f[{}] = base
  BY <1>6
<1>8. ASSUME NEW t \in SUBSET DOMAIN s, t # {}, f[t \ {Max(t)}] \in V
      PROVE  f[t] = step[f[t \ {Max(t)}]][s[Max(t)]]
  BY <1>1, <1>4, <1>6, <1>8
<1>9. GoesThrough(f, V, step, base, s)
  <2>1. IsFold(f, V, step, base, s)
    BY <1>7, <1>8 DEF IsFold
  <2> QED
    BY <1>2, <2>1, FoldRuns, Zenon
<1>10. PICK acc \in [0 .. Len(s) -> V] :
         /\ acc[0] = base
         /\ \A i \in 1 .. Len(s) : acc[i] = step[acc[i - 1]][s[i]]
         /\ f[DOMAIN s] = acc[Len(s)]
  BY <1>9 DEF GoesThrough
<1>11. \A i \in 1 .. Len(s) : acc[i] = Widen(acc[i - 1], s[i])
  <2> TAKE i \in 1 .. Len(s)
  <2>1. acc[i - 1] \in V /\ s[i] \in U
    OBVIOUS
  <2> QED
    BY <1>1, <1>10, <2>1
<1>12. WidenPasses(V, base, s, acc)
  <2>1. FoldLeft(Widen, base, s) = acc[Len(s)]
    BY <1>s, <1>6, <1>10
  <2> QED
    BY <1>10, <1>11, <2>1, Zenon DEF WidenPasses
<1> QED
  BY <1>12

LEMMA WidenEnds ==
    ASSUME NEW V, NEW U, NEW base, NEW s
    PROVE  WidenStays(V, U) /\ base \in V /\ s \in Seq(U)
             => FoldLeft(Widen, base, s) \in V
<1> SUFFICES ASSUME WidenStays(V, U), base \in V, s \in Seq(U)
             PROVE  FoldLeft(Widen, base, s) \in V
  OBVIOUS
<1>1. PICK acc : WidenPasses(V, base, s, acc)
  BY WidenRuns, Zenon
<1>2. acc \in [0 .. Len(s) -> V] /\ FoldLeft(Widen, base, s) = acc[Len(s)]
  BY <1>1, Zenon DEF WidenPasses
<1>3. Len(s) \in 0 .. Len(s)
  <2>1. Len(s) \in Nat
    OBVIOUS
  <2> QED
    BY <2>1
<1>4. acc[Len(s)] \in V
  BY <1>2, <1>3, Zenon
<1> QED
  BY <1>2, <1>4, Zenon

(* Seed after seed, by its references. *)
FollowStays(V, U) == \A a \in V, x \in U : Follow(a, x) \in V
FollowPasses(V, base, s, acc) ==
    /\ acc \in [0 .. Len(s) -> V] /\ acc[0] = base
    /\ \A i \in 1 .. Len(s) : acc[i] = Follow(acc[i - 1], s[i])
    /\ FoldLeft(Follow, base, s) = acc[Len(s)]

LEMMA FollowRuns ==
    ASSUME NEW V, NEW U, NEW base, NEW s
    PROVE  FollowStays(V, U) /\ base \in V /\ s \in Seq(U)
             => \E acc : FollowPasses(V, base, s, acc)
<1> SUFFICES ASSUME \A a \in V, x \in U : Follow(a, x) \in V, base \in V, s \in Seq(U)
             PROVE  \E acc : FollowPasses(V, base, s, acc)
  BY DEF FollowStays
<1> DEFINE step == [a \in V |-> [x \in U |-> Follow(a, x)]]
<1>1. \A a \in V, x \in U : step[a][x] \in V /\ step[a][x] = Follow(a, x)
  OBVIOUS
<1> HIDE DEF step
<1>2. StaysIn(V, U, step)
  BY <1>1 DEF StaysIn
<1>s. PICK whole : whole = FoldLeft(Follow, base, s)
  OBVIOUS
<1>3. PICK g \in [SUBSET DOMAIN s -> V] : \A t \in SUBSET DOMAIN s :
         g[t] = IF t = {} THEN base ELSE step[g[t \ {Max(t)}]][s[Max(t)]]
  <2>1. HasFold(V, step, base, s)
    BY <1>2, FoldIs, Zenon
  <2> QED
    BY <2>1 DEF HasFold
<1>4. \A t \in SUBSET DOMAIN s : t # {} => s[Max(t)] \in U
  BY MaxUpTo, DOMAIN s = 1 .. Len(s), Len(s) \in Nat
<1>5. g = [t \in SUBSET DOMAIN s |-> IF t = {} THEN base ELSE
             LET x == Max(t) IN Follow(g[t \ {x}], s[x])]
  <2>1. \A t \in SUBSET DOMAIN s : t # {} =>
           step[g[t \ {Max(t)}]][s[Max(t)]] = Follow(g[t \ {Max(t)}], s[Max(t)])
    BY <1>1, <1>3, <1>4
  <2> QED
    BY <1>3, <2>1
<1>6. PICK f :
         /\ f = [t \in SUBSET DOMAIN s |-> IF t = {} THEN base ELSE
                  LET x == Max(t) IN Follow(f[t \ {x}], s[x])]
         /\ whole = f[DOMAIN s]
  BY <1>5, <1>s, Zenon DEF FoldLeft, MapThenFoldSet
<1>7. f[{}] = base
  BY <1>6
<1>8. ASSUME NEW t \in SUBSET DOMAIN s, t # {}, f[t \ {Max(t)}] \in V
      PROVE  f[t] = step[f[t \ {Max(t)}]][s[Max(t)]]
  BY <1>1, <1>4, <1>6, <1>8
<1>9. GoesThrough(f, V, step, base, s)
  <2>1. IsFold(f, V, step, base, s)
    BY <1>7, <1>8 DEF IsFold
  <2> QED
    BY <1>2, <2>1, FoldRuns, Zenon
<1>10. PICK acc \in [0 .. Len(s) -> V] :
         /\ acc[0] = base
         /\ \A i \in 1 .. Len(s) : acc[i] = step[acc[i - 1]][s[i]]
         /\ f[DOMAIN s] = acc[Len(s)]
  BY <1>9 DEF GoesThrough
<1>11. \A i \in 1 .. Len(s) : acc[i] = Follow(acc[i - 1], s[i])
  <2> TAKE i \in 1 .. Len(s)
  <2>1. acc[i - 1] \in V /\ s[i] \in U
    OBVIOUS
  <2> QED
    BY <1>1, <1>10, <2>1
<1>12. FollowPasses(V, base, s, acc)
  <2>1. FoldLeft(Follow, base, s) = acc[Len(s)]
    BY <1>s, <1>6, <1>10
  <2> QED
    BY <1>10, <1>11, <2>1, Zenon DEF FollowPasses
<1> QED
  BY <1>12

LEMMA FollowEnds ==
    ASSUME NEW V, NEW U, NEW base, NEW s
    PROVE  FollowStays(V, U) /\ base \in V /\ s \in Seq(U)
             => FoldLeft(Follow, base, s) \in V
<1> SUFFICES ASSUME FollowStays(V, U), base \in V, s \in Seq(U)
             PROVE  FoldLeft(Follow, base, s) \in V
  OBVIOUS
<1>1. PICK acc : FollowPasses(V, base, s, acc)
  BY FollowRuns, Zenon
<1>2. acc \in [0 .. Len(s) -> V] /\ FoldLeft(Follow, base, s) = acc[Len(s)]
  BY <1>1, Zenon DEF FollowPasses
<1>3. Len(s) \in 0 .. Len(s)
  <2>1. Len(s) \in Nat
    OBVIOUS
  <2> QED
    BY <2>1
<1>4. acc[Len(s)] \in V
  BY <1>2, <1>3, Zenon
<1> QED
  BY <1>2, <1>4, Zenon

(* Hit after hit, to the best record of each row. *)
PlaceStays(V, U) == \A a \in V, x \in U : Place(a, x) \in V
PlacePasses(V, base, s, acc) ==
    /\ acc \in [0 .. Len(s) -> V] /\ acc[0] = base
    /\ \A i \in 1 .. Len(s) : acc[i] = Place(acc[i - 1], s[i])
    /\ FoldLeft(Place, base, s) = acc[Len(s)]

LEMMA PlaceRuns ==
    ASSUME NEW V, NEW U, NEW base, NEW s
    PROVE  PlaceStays(V, U) /\ base \in V /\ s \in Seq(U)
             => \E acc : PlacePasses(V, base, s, acc)
<1> SUFFICES ASSUME \A a \in V, x \in U : Place(a, x) \in V, base \in V, s \in Seq(U)
             PROVE  \E acc : PlacePasses(V, base, s, acc)
  BY DEF PlaceStays
<1> DEFINE step == [a \in V |-> [x \in U |-> Place(a, x)]]
<1>1. \A a \in V, x \in U : step[a][x] \in V /\ step[a][x] = Place(a, x)
  OBVIOUS
<1> HIDE DEF step
<1>2. StaysIn(V, U, step)
  BY <1>1 DEF StaysIn
<1>s. PICK whole : whole = FoldLeft(Place, base, s)
  OBVIOUS
<1>3. PICK g \in [SUBSET DOMAIN s -> V] : \A t \in SUBSET DOMAIN s :
         g[t] = IF t = {} THEN base ELSE step[g[t \ {Max(t)}]][s[Max(t)]]
  <2>1. HasFold(V, step, base, s)
    BY <1>2, FoldIs, Zenon
  <2> QED
    BY <2>1 DEF HasFold
<1>4. \A t \in SUBSET DOMAIN s : t # {} => s[Max(t)] \in U
  BY MaxUpTo, DOMAIN s = 1 .. Len(s), Len(s) \in Nat
<1>5. g = [t \in SUBSET DOMAIN s |-> IF t = {} THEN base ELSE
             LET x == Max(t) IN Place(g[t \ {x}], s[x])]
  <2>1. \A t \in SUBSET DOMAIN s : t # {} =>
           step[g[t \ {Max(t)}]][s[Max(t)]] = Place(g[t \ {Max(t)}], s[Max(t)])
    BY <1>1, <1>3, <1>4
  <2> QED
    BY <1>3, <2>1
<1>6. PICK f :
         /\ f = [t \in SUBSET DOMAIN s |-> IF t = {} THEN base ELSE
                  LET x == Max(t) IN Place(f[t \ {x}], s[x])]
         /\ whole = f[DOMAIN s]
  BY <1>5, <1>s, Zenon DEF FoldLeft, MapThenFoldSet
<1>7. f[{}] = base
  BY <1>6
<1>8. ASSUME NEW t \in SUBSET DOMAIN s, t # {}, f[t \ {Max(t)}] \in V
      PROVE  f[t] = step[f[t \ {Max(t)}]][s[Max(t)]]
  BY <1>1, <1>4, <1>6, <1>8
<1>9. GoesThrough(f, V, step, base, s)
  <2>1. IsFold(f, V, step, base, s)
    BY <1>7, <1>8 DEF IsFold
  <2> QED
    BY <1>2, <2>1, FoldRuns, Zenon
<1>10. PICK acc \in [0 .. Len(s) -> V] :
         /\ acc[0] = base
         /\ \A i \in 1 .. Len(s) : acc[i] = step[acc[i - 1]][s[i]]
         /\ f[DOMAIN s] = acc[Len(s)]
  BY <1>9 DEF GoesThrough
<1>11. \A i \in 1 .. Len(s) : acc[i] = Place(acc[i - 1], s[i])
  <2> TAKE i \in 1 .. Len(s)
  <2>1. acc[i - 1] \in V /\ s[i] \in U
    OBVIOUS
  <2> QED
    BY <1>1, <1>10, <2>1
<1>12. PlacePasses(V, base, s, acc)
  <2>1. FoldLeft(Place, base, s) = acc[Len(s)]
    BY <1>s, <1>6, <1>10
  <2> QED
    BY <1>10, <1>11, <2>1, Zenon DEF PlacePasses
<1> QED
  BY <1>12

(* Hit after hit, kept or left. *)
AdmitStays(V, U) == \A a \in V, x \in U : Admit(a, x) \in V
AdmitPasses(V, base, s, acc) ==
    /\ acc \in [0 .. Len(s) -> V] /\ acc[0] = base
    /\ \A i \in 1 .. Len(s) : acc[i] = Admit(acc[i - 1], s[i])
    /\ FoldLeft(Admit, base, s) = acc[Len(s)]

LEMMA AdmitRuns ==
    ASSUME NEW V, NEW U, NEW base, NEW s
    PROVE  AdmitStays(V, U) /\ base \in V /\ s \in Seq(U)
             => \E acc : AdmitPasses(V, base, s, acc)
<1> SUFFICES ASSUME \A a \in V, x \in U : Admit(a, x) \in V, base \in V, s \in Seq(U)
             PROVE  \E acc : AdmitPasses(V, base, s, acc)
  BY DEF AdmitStays
<1> DEFINE step == [a \in V |-> [x \in U |-> Admit(a, x)]]
<1>1. \A a \in V, x \in U : step[a][x] \in V /\ step[a][x] = Admit(a, x)
  OBVIOUS
<1> HIDE DEF step
<1>2. StaysIn(V, U, step)
  BY <1>1 DEF StaysIn
<1>s. PICK whole : whole = FoldLeft(Admit, base, s)
  OBVIOUS
<1>3. PICK g \in [SUBSET DOMAIN s -> V] : \A t \in SUBSET DOMAIN s :
         g[t] = IF t = {} THEN base ELSE step[g[t \ {Max(t)}]][s[Max(t)]]
  <2>1. HasFold(V, step, base, s)
    BY <1>2, FoldIs, Zenon
  <2> QED
    BY <2>1 DEF HasFold
<1>4. \A t \in SUBSET DOMAIN s : t # {} => s[Max(t)] \in U
  BY MaxUpTo, DOMAIN s = 1 .. Len(s), Len(s) \in Nat
<1>5. g = [t \in SUBSET DOMAIN s |-> IF t = {} THEN base ELSE
             LET x == Max(t) IN Admit(g[t \ {x}], s[x])]
  <2>1. \A t \in SUBSET DOMAIN s : t # {} =>
           step[g[t \ {Max(t)}]][s[Max(t)]] = Admit(g[t \ {Max(t)}], s[Max(t)])
    BY <1>1, <1>3, <1>4
  <2> QED
    BY <1>3, <2>1
<1>6. PICK f :
         /\ f = [t \in SUBSET DOMAIN s |-> IF t = {} THEN base ELSE
                  LET x == Max(t) IN Admit(f[t \ {x}], s[x])]
         /\ whole = f[DOMAIN s]
  BY <1>5, <1>s, Zenon DEF FoldLeft, MapThenFoldSet
<1>7. f[{}] = base
  BY <1>6
<1>8. ASSUME NEW t \in SUBSET DOMAIN s, t # {}, f[t \ {Max(t)}] \in V
      PROVE  f[t] = step[f[t \ {Max(t)}]][s[Max(t)]]
  BY <1>1, <1>4, <1>6, <1>8
<1>9. GoesThrough(f, V, step, base, s)
  <2>1. IsFold(f, V, step, base, s)
    BY <1>7, <1>8 DEF IsFold
  <2> QED
    BY <1>2, <2>1, FoldRuns, Zenon
<1>10. PICK acc \in [0 .. Len(s) -> V] :
         /\ acc[0] = base
         /\ \A i \in 1 .. Len(s) : acc[i] = step[acc[i - 1]][s[i]]
         /\ f[DOMAIN s] = acc[Len(s)]
  BY <1>9 DEF GoesThrough
<1>11. \A i \in 1 .. Len(s) : acc[i] = Admit(acc[i - 1], s[i])
  <2> TAKE i \in 1 .. Len(s)
  <2>1. acc[i - 1] \in V /\ s[i] \in U
    OBVIOUS
  <2> QED
    BY <1>1, <1>10, <2>1
<1>12. AdmitPasses(V, base, s, acc)
  <2>1. FoldLeft(Admit, base, s) = acc[Len(s)]
    BY <1>s, <1>6, <1>10
  <2> QED
    BY <1>10, <1>11, <2>1, Zenon DEF AdmitPasses
<1> QED
  BY <1>12

(* Passage after passage, into the package. *)
OfferStays(ask, costOf, V, U) == \A a \in V, x \in U : Offer(ask, costOf, a, x) \in V
OfferPasses(ask, costOf, V, base, s, acc) ==
    /\ acc \in [0 .. Len(s) -> V] /\ acc[0] = base
    /\ \A i \in 1 .. Len(s) : acc[i] = Offer(ask, costOf, acc[i - 1], s[i])
    /\ FoldLeft(LAMBDA a, x : Offer(ask, costOf, a, x), base, s) = acc[Len(s)]

LEMMA OfferRuns ==
    ASSUME NEW ask, NEW costOf, NEW V, NEW U, NEW base, NEW s
    PROVE  OfferStays(ask, costOf, V, U) /\ base \in V /\ s \in Seq(U)
             => \E acc : OfferPasses(ask, costOf, V, base, s, acc)
<1> SUFFICES ASSUME \A a \in V, x \in U : Offer(ask, costOf, a, x) \in V, base \in V, s \in Seq(U)
             PROVE  \E acc : OfferPasses(ask, costOf, V, base, s, acc)
  BY DEF OfferStays
<1> DEFINE step == [a \in V |-> [x \in U |-> Offer(ask, costOf, a, x)]]
<1>1. \A a \in V, x \in U : step[a][x] \in V /\ step[a][x] = Offer(ask, costOf, a, x)
  OBVIOUS
<1> HIDE DEF step
<1>2. StaysIn(V, U, step)
  BY <1>1 DEF StaysIn
<1>s. PICK whole : whole = FoldLeft(LAMBDA a, x : Offer(ask, costOf, a, x), base, s)
  OBVIOUS
<1>3. PICK g \in [SUBSET DOMAIN s -> V] : \A t \in SUBSET DOMAIN s :
         g[t] = IF t = {} THEN base ELSE step[g[t \ {Max(t)}]][s[Max(t)]]
  <2>1. HasFold(V, step, base, s)
    BY <1>2, FoldIs, Zenon
  <2> QED
    BY <2>1 DEF HasFold
<1>4. \A t \in SUBSET DOMAIN s : t # {} => s[Max(t)] \in U
  BY MaxUpTo, DOMAIN s = 1 .. Len(s), Len(s) \in Nat
<1>5. g = [t \in SUBSET DOMAIN s |-> IF t = {} THEN base ELSE
             LET x == Max(t) IN Offer(ask, costOf, g[t \ {x}], s[x])]
  <2>1. \A t \in SUBSET DOMAIN s : t # {} =>
           step[g[t \ {Max(t)}]][s[Max(t)]] = Offer(ask, costOf, g[t \ {Max(t)}], s[Max(t)])
    BY <1>1, <1>3, <1>4
  <2> QED
    BY <1>3, <2>1
<1>6. PICK f :
         /\ f = [t \in SUBSET DOMAIN s |-> IF t = {} THEN base ELSE
                  LET x == Max(t) IN Offer(ask, costOf, f[t \ {x}], s[x])]
         /\ whole = f[DOMAIN s]
  BY <1>5, <1>s, Zenon DEF FoldLeft, MapThenFoldSet
<1>7. f[{}] = base
  BY <1>6
<1>8. ASSUME NEW t \in SUBSET DOMAIN s, t # {}, f[t \ {Max(t)}] \in V
      PROVE  f[t] = step[f[t \ {Max(t)}]][s[Max(t)]]
  BY <1>1, <1>4, <1>6, <1>8
<1>9. GoesThrough(f, V, step, base, s)
  <2>1. IsFold(f, V, step, base, s)
    BY <1>7, <1>8 DEF IsFold
  <2> QED
    BY <1>2, <2>1, FoldRuns, Zenon
<1>10. PICK acc \in [0 .. Len(s) -> V] :
         /\ acc[0] = base
         /\ \A i \in 1 .. Len(s) : acc[i] = step[acc[i - 1]][s[i]]
         /\ f[DOMAIN s] = acc[Len(s)]
  BY <1>9 DEF GoesThrough
<1>11. \A i \in 1 .. Len(s) : acc[i] = Offer(ask, costOf, acc[i - 1], s[i])
  <2> TAKE i \in 1 .. Len(s)
  <2>1. acc[i - 1] \in V /\ s[i] \in U
    OBVIOUS
  <2> QED
    BY <1>1, <1>10, <2>1
<1>12. OfferPasses(ask, costOf, V, base, s, acc)
  <2>1. FoldLeft(LAMBDA a, x : Offer(ask, costOf, a, x), base, s) = acc[Len(s)]
    BY <1>s, <1>6, <1>10
  <2> QED
    BY <1>10, <1>11, <2>1, Zenon DEF OfferPasses
<1> QED
  BY <1>12

-----------------------------------------------------------------------------
LEMMA FuseFacts ==
    ASSUME NEW world, WorldOK(world), NEW budget, BudgetOK(budget), NEW candidates,
           NEW v, VectorOK(v, world, budget, candidates), NEW k, KeywordOK(k, budget, candidates)
    PROVE  /\ MergedOK(Fuse(v, k, budget.limit), world, budget, candidates)
           /\ Scores(Fuse(v, k, budget.limit), budget.limit)
           /\ v # <<>> => v[1].row \in Rows(Fuse(v, k, budget.limit))
<1>a. PICK a : a = AllFused(v, k)
  OBVIOUS
<1>1. /\ a \in Seq(Hits) /\ Apart(a) /\ Len(v) <= Len(a)
      /\ \A i \in DOMAIN a : ItemOK(a[i], world, budget, candidates) /\ ScoreOK(a[i], budget.limit)
      /\ \A i \in DOMAIN v : a[i].row = v[i].row
      /\ v # <<>> => Before(a)[1] \subseteq 2 .. Len(v)
  BY <1>a, AllFusedFacts
<1> PICK t : t = ByScore(a)
  OBVIOUS
<1>2. t \in Seq(Hits) /\ Sorted(t, a)
  BY <1>1, ByScoreFacts
<1>3. /\ DOMAIN t = DOMAIN a /\ Apart(t)
      /\ \A i \in DOMAIN t : \E j \in DOMAIN a : t[i] = a[j]
  BY <1>1, <1>2, SortedFacts
<1> PICK limit \in Nat : limit = budget.limit
  BY DEF BudgetOK
<1> PICK f : f = First(t, limit)
  OBVIOUS
<1>4. Fuse(v, k, budget.limit) = f
  BY <1>a, FuseIs
<1>5. /\ f \in Seq(Hits) /\ DOMAIN f \subseteq DOMAIN t
      /\ \A i \in DOMAIN t : i \in DOMAIN f <=> i <= limit
      /\ \A i \in DOMAIN f : f[i] = t[i]
  BY <1>2, FirstFacts
<1>6. \A i \in DOMAIN f : ItemOK(f[i], world, budget, candidates) /\ ScoreOK(f[i], limit)
  BY <1>1, <1>3, <1>5
<1>7. Apart(f)
  BY <1>3, <1>5 DEF Apart
<1>8. MergedOK(f, world, budget, candidates)
  BY <1>5, <1>6, <1>7, MergedIs
<1>9. Scores(f, limit)
  BY <1>6 DEF Scores, ScoreOK
<1>10. ASSUME v # <<>> PROVE v[1].row \in Rows(f)
  <2> PICK m \in Nat : m = Len(v) /\ DOMAIN v = 1 .. m
    BY DEF VectorOK
  <2> PICK n \in Nat : n = Len(a) /\ DOMAIN a = 1 .. n
    BY <1>1
  <2>1. m >= 1 /\ m <= limit /\ m <= n /\ 1 \in 1 .. n /\ 1 \in DOMAIN v
    <3>1. m # 0
      BY <1>10 DEF VectorOK
    <3>2. m <= limit
      BY DEF VectorOK
    <3> QED
      BY <1>1, <3>1, <3>2
  <2>2. Cardinality(1 .. n) = n
    BY PlacesCount
  <2>3. PICK order \in [1 .. n -> 1 .. n] :
          InTurn(order, Before(a), 1 .. n) /\ \A j \in 1 .. n : t[j] = a[order[j]]
    BY <1>2 DEF Sorted
  <2>4. PICK i \in 1 .. n : order[i] = 1
    BY <2>1, <2>2, <2>3 DEF InTurn
  <2>5. Cardinality(Before(a)[1]) = i - 1
    BY <2>2, <2>3, <2>4 DEF InTurn
  <2>6. Cardinality(Before(a)[1]) <= m - 1
    <3>1. Before(a)[1] \subseteq (1 .. m) \ {1}
      BY <1>1, <1>10
    <3>2. IsFiniteSet(1 .. m) /\ Cardinality(1 .. m) = m /\ 1 \in 1 .. m
      BY <2>1, PlacesCount
    <3>3. IsFiniteSet((1 .. m) \ {1}) /\ Cardinality((1 .. m) \ {1}) = m - 1
      BY <3>2, FS_RemoveElement
    <3> QED
      BY <3>1, <3>3, FS_Subset
  <2>7. i <= limit
    BY <2>1, <2>5, <2>6
  <2>8. i \in DOMAIN f /\ f[i] = a[1] /\ a[1].row = v[1].row
    BY <1>1, <1>3, <1>5, <2>1, <2>3, <2>4, <2>7
  <2> QED
    BY <2>8 DEF Rows
<1> QED
  BY <1>4, <1>8, <1>9, <1>10

(* One level, whichever way the question is asked.                         *)
Merged(world, plan, budget, candidates) ==
    LET vector  == VectorLeg(world, plan, budget, candidates)
        keyword == KeywordLeg(world, plan, budget, candidates)
    IN  IF plan.mode = "hybrid" THEN Fuse(vector, keyword, budget.limit)
        ELSE vector \o keyword

LEMMA LevelFacts ==
    ASSUME NEW world, WorldOK(world), NEW budget, BudgetOK(budget), NEW candidates,
           NEW plan, plan.mode \in {"hybrid", "semantic", "keyword"},
           NEW v, v = VectorLeg(world, plan, budget, candidates),
           NEW m, m = Merged(world, plan, budget, candidates)
    PROVE  /\ VectorOK(v, world, budget, candidates)
           /\ MergedOK(m, world, budget, candidates)
           /\ plan.mode = "hybrid" => Scores(m, budget.limit)
           /\ v # <<>> => v[1].row \in Rows(m)
<1> PICK k : k = KeywordLeg(world, plan, budget, candidates)
  OBVIOUS
<1>1. VectorOK(v, world, budget, candidates)
  BY NoLeg, VectorFound DEF VectorLeg
<1>2. KeywordOK(k, budget, candidates)
  BY NoLeg, KeywordFound DEF KeywordLeg
<1>3. m = IF plan.mode = "hybrid" THEN Fuse(v, k, budget.limit) ELSE v \o k
  BY DEF Merged
<1>4. CASE plan.mode = "hybrid"
  BY <1>1, <1>2, <1>3, <1>4, FuseFacts
<1>5. CASE plan.mode = "semantic"
  <2>1. k = <<>>
    BY <1>5 DEF KeywordLeg
  <2>2. v \in Seq(Hits) /\ Apart(v)
    BY <1>1 DEF VectorOK
  <2>3. m = v
    BY <1>3, <1>5, <2>1, <2>2
  <2>4. MergedOK(v, world, budget, candidates)
    <3>1. \A i \in DOMAIN v : ItemOK(v[i], world, budget, candidates)
      <4> TAKE i \in DOMAIN v
      <4>1. v[i] \in Hits /\ v[i].source = "vector" /\ v[i].similarity = world.similarity[v[i].row]
            /\ LevelOf[v[i].row] = budget.level /\ Within(candidates, v[i].row)
        BY <1>1, <2>2, HitsFacts DEF VectorOK
      <4> QED
        BY <4>1 DEF ItemOK, FoundBy
    <3> QED
      BY <2>2, <3>1, MergedIs
  <2>5. v # <<>> => 1 \in DOMAIN v
    BY <2>2
  <2>6. v # <<>> => v[1].row \in Rows(v)
    BY <2>5 DEF Rows
  <2> QED
    BY <1>1, <1>5, <2>3, <2>4, <2>6
<1>6. CASE plan.mode = "keyword"
  <2>1. v = <<>>
    BY <1>6 DEF VectorLeg
  <2>2. k \in Seq(Hits) /\ Apart(k)
    BY <1>2 DEF KeywordOK
  <2>3. m = k
    BY <1>3, <1>6, <2>1, <2>2
  <2>4. MergedOK(k, world, budget, candidates)
    <3>1. \A i \in DOMAIN k : ItemOK(k[i], world, budget, candidates)
      <4> TAKE i \in DOMAIN k
      <4>1. k[i] \in Hits /\ k[i].source = "keyword" /\ LevelOf[k[i].row] = "chunk"
            /\ Within(candidates, k[i].row)
        BY <1>2, <2>2, HitsFacts DEF KeywordOK
      <4> QED
        BY <4>1 DEF ItemOK, FoundBy
    <3> QED
      BY <2>2, <3>1, MergedIs
  <2> QED
    BY <1>1, <1>6, <2>1, <2>3, <2>4
<1> QED
  BY <1>4, <1>5, <1>6

-----------------------------------------------------------------------------
(* The levels in turn.                                                     *)

Joined(s, a, b) ==
    /\ Len(s) = Len(a) + Len(b)
    /\ \A i \in DOMAIN a : i \in DOMAIN s /\ s[i] = a[i]
    /\ \A j \in DOMAIN b : Len(a) + j \in DOMAIN s /\ s[Len(a) + j] = b[j]
    /\ \A i \in DOMAIN s : i \in DOMAIN a \/ \E j \in DOMAIN b : i = Len(a) + j
    /\ \A i \in DOMAIN a, j \in DOMAIN b : i < Len(a) + j

LEMMA JoinFacts ==
    ASSUME NEW T, NEW a \in Seq(T), NEW b \in Seq(T), NEW s, s = a \o b
    PROVE  s \in Seq(T) /\ Joined(s, a, b)
<1> PICK n \in Nat : n = Len(a) /\ DOMAIN a = 1 .. n
  OBVIOUS
<1> PICK m \in Nat : m = Len(b) /\ DOMAIN b = 1 .. m
  OBVIOUS
<1>1. s \in Seq(T) /\ Len(s) = n + m /\ DOMAIN s = 1 .. n + m
  OBVIOUS
<1>2. \A i \in 1 .. n : i \in 1 .. n + m /\ s[i] = a[i]
  OBVIOUS
<1>3. \A j \in 1 .. m : n + j \in 1 .. n + m /\ s[n + j] = b[j]
  OBVIOUS
<1>4. \A i \in 1 .. n + m : i \in 1 .. n \/ (i - n \in 1 .. m /\ i = n + (i - n))
  OBVIOUS
<1>5. \A i \in 1 .. n, j \in 1 .. m : i < n + j
  OBVIOUS
<1> QED
  BY <1>1, <1>2, <1>3, <1>4, <1>5 DEF Joined

Budgets == [level : {"summary", "clause", "chunk"}, limit : Nat, floor : Nat]

LevelsOK(levels) ==
    /\ levels \in Seq(Budgets)
    /\ \A i, j \in DOMAIN levels : i < j =>
          <<levels[i].level, levels[j].level>>
             \in {<<"summary", "clause">>, <<"summary", "chunk">>, <<"clause", "chunk">>}

LEMMA LevelsTurn ==
    ASSUME NEW levels, LevelsOK(levels), NEW i \in DOMAIN levels, NEW j \in DOMAIN levels, i < j
    PROVE  levels[i].level # levels[j].level /\ levels[i].level # "chunk"
BY DEF LevelsOK

SafeLevels(plan) == \A i \in DOMAIN plan.levels : plan.levels[i].limit <= SafeLimit

FoundOK(world, plan, start, hits, n) ==
    \A i \in DOMAIN hits :
       /\ hits[i].source \in {"vector", "keyword", "fused"}
       /\ FoundBy(hits[i]) => /\ hits[i].similarity = world.similarity[hits[i].row]
                              /\ \E l \in 1 .. n : plan.levels[l].level = LevelOf[hits[i].row]
       /\ ~FoundBy(hits[i]) => LevelOf[hits[i].row] = "chunk"
       /\ Within(start, hits[i].row)

FoundOnce(hits) ==
    \A i, j \in DOMAIN hits : i < j /\ hits[i].row = hits[j].row => ~FoundBy(hits[i])

Bounded(hits, safe) ==
    \A i \in DOMAIN hits : LevelOf[hits[i].row] = "clause" =>
        hits[i].score <= 39060 /\ (safe => hits[i].score >= 15675)

MeasuredOK(world, found) ==
    \A x \in found.measured : \E i \in DOMAIN found.hits :
        /\ LevelOf[found.hits[i].row] \in AnsweringLevels
        /\ world.similarity[found.hits[i].row] >= x

Narrower(candidates, start) == start # {} => candidates # {} /\ candidates \subseteq start

Searches == [hits : Seq(Hits), measured : SUBSET (0 .. 100), candidates : SUBSET (DOMAIN TypeOf)]

QuestionOK(world, plan) ==
    /\ WorldOK(world) /\ LevelsOK(plan.levels)
    /\ plan.mode \in {"hybrid", "semantic", "keyword"}

SearchOK(world, plan, start, found, n) ==
    /\ found \in Searches
    /\ FoundOK(world, plan, start, found.hits, n)
    /\ FoundOnce(found.hits)
    /\ plan.mode = "hybrid" => Bounded(found.hits, SafeLevels(plan))
    /\ MeasuredOK(world, found)
    /\ Narrower(found.candidates, start)

After(found, budget, v, m) ==
    [hits |-> found.hits \o m,
     measured |-> found.measured \union
        (IF budget.level \in AnsweringLevels THEN {v[i].similarity : i \in DOMAIN v} ELSE {}),
     candidates |-> IF budget.level = "summary" /\ m # <<>>
                    THEN {ContractOf[p] : p \in Rows(m)}
                    ELSE found.candidates]

LEMMA SearchLevelIs ==
    ASSUME NEW world, NEW plan, NEW found, NEW budget
    PROVE  SearchLevel(world, plan, found, budget) =
             After(found, budget, VectorLeg(world, plan, budget, found.candidates),
                   Merged(world, plan, budget, found.candidates))
BY Zenon DEF SearchLevel, Merged, After

LEMMA SearchLevelTyped ==
    ASSUME NEW world, WorldOK(world), NEW plan, plan.mode \in {"hybrid", "semantic", "keyword"},
           NEW found \in Searches, NEW budget \in Budgets
    PROVE  SearchLevel(world, plan, found, budget) \in Searches
<1>1. BudgetOK(budget)
  BY DEF BudgetOK, Budgets, LevelNames
<1> PICK v : v = VectorLeg(world, plan, budget, found.candidates)
  OBVIOUS
<1> PICK m : m = Merged(world, plan, budget, found.candidates)
  OBVIOUS
<1>2. VectorOK(v, world, budget, found.candidates) /\ MergedOK(m, world, budget, found.candidates)
  BY <1>1, LevelFacts
<1>3. found.hits \in Seq(Hits) /\ found.measured \in SUBSET (0 .. 100)
      /\ found.candidates \in SUBSET (DOMAIN TypeOf)
  BY DEF Searches
<1>4. m \in Seq(Hits) /\ v \in Seq(Hits)
  BY <1>2 DEF MergedOK, VectorOK
<1>5. found.hits \o m \in Seq(Hits)
  BY <1>3, <1>4, JoinFacts
<1>6. {v[i].similarity : i \in DOMAIN v} \subseteq 0 .. 100
  <2> SUFFICES ASSUME NEW i \in DOMAIN v PROVE v[i].similarity \in 0 .. 100
    OBVIOUS
  <2>1. v[i].row \in Passages /\ v[i].similarity = world.similarity[v[i].row]
    BY <1>2, <1>4, HitsFacts DEF VectorOK
  <2>2. world.similarity \in [Passages -> 0 .. 100]
    BY DEF WorldOK
  <2> QED
    BY <2>1, <2>2
<1>7. {ContractOf[p] : p \in Rows(m)} \subseteq DOMAIN TypeOf
  <2> SUFFICES ASSUME NEW i \in DOMAIN m PROVE ContractOf[m[i].row] \in DOMAIN TypeOf
    BY DEF Rows
  <2>1. m[i].row \in Passages
    BY <1>4, HitsFacts
  <2> QED
    BY <2>1, PassageAssumption
<1> DEFINE ms == found.measured \union (IF budget.level \in AnsweringLevels
                                        THEN {v[i].similarity : i \in DOMAIN v} ELSE {})
           cs == IF budget.level = "summary" /\ m # <<>> THEN {ContractOf[p] : p \in Rows(m)}
                 ELSE found.candidates
<1>8. ms \in SUBSET (0 .. 100) /\ cs \in SUBSET (DOMAIN TypeOf)
  BY <1>3, <1>6, <1>7
<1>9. SearchLevel(world, plan, found, budget) = [hits |-> found.hits \o m, measured |-> ms, candidates |-> cs]
  <2>1. SearchLevel(world, plan, found, budget) = After(found, budget, v, m)
    BY SearchLevelIs
  <2> QED
    BY <2>1 DEF After
<1> HIDE DEF ms, cs
<1> QED
  BY <1>5, <1>8, <1>9 DEF Searches

(* The first of the vector leg is the most similar.                        *)
LEMMA BestFirst ==
    ASSUME NEW v, NEW world, WorldOK(world), NEW budget, NEW candidates,
           VectorOK(v, world, budget, candidates), NEW i \in DOMAIN v
    PROVE  /\ 1 \in DOMAIN v /\ v # <<>>
           /\ world.similarity[v[1].row] >= world.similarity[v[i].row]
<1>1. v \in Seq(Hits)
  BY DEF VectorOK
<1>2. 1 \in DOMAIN v /\ v # <<>> /\ i \in Int /\ i >= 1
  BY <1>1, DOMAIN v = 1 .. Len(v), Len(v) \in Nat
<1>3. v[1].row \in Passages /\ v[i].row \in Passages
  BY <1>1, <1>2, HitsFacts
<1> PICK y \in 0 .. 100 : y = world.similarity[v[1].row]
  BY <1>3 DEF WorldOK
<1>4. CASE i = 1
  <2>1. y = world.similarity[v[i].row] /\ y >= y
    BY <1>4
  <2> QED
    BY <1>2, <2>1
<1>5. CASE i # 1
  <2>1. 1 < i
    BY <1>2, <1>5
  <2> QED
    BY <1>2, <2>1 DEF VectorOK
<1> QED
  BY <1>4, <1>5

LEMMA SearchGoesOn ==
    ASSUME NEW world, NEW plan, NEW start, NEW n, NEW found
    PROVE  /\ QuestionOK(world, plan) /\ n \in 1 .. Len(plan.levels)
           /\ SearchOK(world, plan, start, found, n - 1)
           => SearchOK(world, plan, start, SearchLevel(world, plan, found, plan.levels[n]), n)
<1> SUFFICES ASSUME WorldOK(world), plan.mode \in {"hybrid", "semantic", "keyword"}, LevelsOK(plan.levels),
                    n \in 1 .. Len(plan.levels), SearchOK(world, plan, start, found, n - 1)
             PROVE  SearchOK(world, plan, start, SearchLevel(world, plan, found, plan.levels[n]), n)
  BY DEF QuestionOK
<1>0. plan.levels \in Seq(Budgets) /\ Len(plan.levels) \in Nat /\ DOMAIN plan.levels = 1 .. Len(plan.levels)
  BY DEF LevelsOK
<1> PICK budget \in Budgets : budget = plan.levels[n]
  BY <1>0
<1>1. BudgetOK(budget)
  BY DEF BudgetOK, Budgets, LevelNames
<1> PICK cands : cands = found.candidates
  OBVIOUS
<1> PICK v : v = VectorLeg(world, plan, budget, cands)
  OBVIOUS
<1> PICK m : m = Merged(world, plan, budget, cands)
  OBVIOUS
<1>2. /\ VectorOK(v, world, budget, cands) /\ MergedOK(m, world, budget, cands)
      /\ plan.mode = "hybrid" => Scores(m, budget.limit)
      /\ v # <<>> => v[1].row \in Rows(m)
  BY <1>1, LevelFacts
<1> PICK later : later = SearchLevel(world, plan, found, budget)
  OBVIOUS
<1>3. later \in Searches
  BY SearchLevelTyped DEF SearchOK
<1> PICK hits : hits = found.hits
  OBVIOUS
<1>4. hits \in Seq(Hits) /\ m \in Seq(Hits) /\ v \in Seq(Hits)
  BY <1>2 DEF SearchOK, Searches, MergedOK, VectorOK
<1>s. PICK s : s = hits \o m
  OBVIOUS
<1>t. s \in Seq(Hits) /\ Joined(s, hits, m)
  BY <1>4, <1>s, JoinFacts
<1>5. /\ \A i \in DOMAIN hits : i \in DOMAIN s /\ s[i] = hits[i]
      /\ \A j \in DOMAIN m : Len(hits) + j \in DOMAIN s /\ s[Len(hits) + j] = m[j]
      /\ \A i \in DOMAIN s : i \in DOMAIN hits \/ \E j \in DOMAIN m : i = Len(hits) + j
      /\ \A i \in DOMAIN hits, j \in DOMAIN m : i < Len(hits) + j
  BY <1>t DEF Joined
<1>6. /\ later.hits = s
      /\ later.measured = found.measured \union (IF budget.level \in AnsweringLevels
                                                THEN {v[i].similarity : i \in DOMAIN v} ELSE {})
      /\ later.candidates = IF budget.level = "summary" /\ m # <<>>
                           THEN {ContractOf[p] : p \in Rows(m)} ELSE cands
  <2>1. later = After(found, budget, v, m)
    BY SearchLevelIs
  <2> QED
    <3> DEFINE ms == found.measured \union (IF budget.level \in AnsweringLevels
                                            THEN {v[i].similarity : i \in DOMAIN v} ELSE {})
               cs == IF budget.level = "summary" /\ m # <<>>
                     THEN {ContractOf[p] : p \in Rows(m)} ELSE found.candidates
    <3>1. later = [hits |-> found.hits \o m, measured |-> ms, candidates |-> cs]
      BY <2>1 DEF After
    <3>2. cs = IF budget.level = "summary" /\ m # <<>> THEN {ContractOf[p] : p \in Rows(m)} ELSE cands
      OBVIOUS
    <3>3. ms = found.measured \union (IF budget.level \in AnsweringLevels
                                      THEN {v[i].similarity : i \in DOMAIN v} ELSE {})
      OBVIOUS
    <3> HIDE DEF ms, cs
    <3>5. found.hits \o m = s
      BY <1>s
    <3>6. later = [hits |-> s, measured |-> ms, candidates |-> cs]
      BY <3>1, <3>5, Zenon
    <3>4. later.hits = s /\ later.measured = ms /\ later.candidates = cs
      BY <3>6
    <3> QED
      BY <3>2, <3>3, <3>4, Zenon
<1>7. Narrower(cands, start)
  BY DEF SearchOK
<1>8. \A i \in DOMAIN m : Within(start, m[i].row)
  <2> TAKE i \in DOMAIN m
  <2>1. Within(cands, m[i].row)
    BY <1>2 DEF MergedOK
  <2> QED
    BY <1>7, <2>1 DEF Within, Narrower
<1>9. FoundOK(world, plan, start, s, n)
  <2> SUFFICES ASSUME NEW i \in DOMAIN s
               PROVE  /\ s[i].source \in {"vector", "keyword", "fused"}
                      /\ FoundBy(s[i]) => /\ s[i].similarity = world.similarity[s[i].row]
                                          /\ \E l \in 1 .. n : plan.levels[l].level = LevelOf[s[i].row]
                      /\ ~FoundBy(s[i]) => LevelOf[s[i].row] = "chunk"
                      /\ Within(start, s[i].row)
    BY DEF FoundOK
  <2>1. CASE i \in DOMAIN hits
    <3>1. 1 .. n - 1 \subseteq 1 .. n
      OBVIOUS
    <3>2. FoundOK(world, plan, start, hits, n - 1)
      BY DEF SearchOK
    <3>3. s[i] = hits[i]
      BY <1>5, <2>1
    <3>4. /\ hits[i].source \in {"vector", "keyword", "fused"}
          /\ FoundBy(hits[i]) => /\ hits[i].similarity = world.similarity[hits[i].row]
                                 /\ \E l \in 1 .. n - 1 : plan.levels[l].level = LevelOf[hits[i].row]
          /\ ~FoundBy(hits[i]) => LevelOf[hits[i].row] = "chunk"
          /\ Within(start, hits[i].row)
      BY <2>1, <3>2 DEF FoundOK
    <3>5. FoundBy(hits[i]) => \E l \in 1 .. n : plan.levels[l].level = LevelOf[hits[i].row]
      BY <3>1, <3>4
    <3> QED
      BY <3>3, <3>4, <3>5
  <2>2. CASE \E j \in DOMAIN m : i = Len(hits) + j
    <3> PICK j \in DOMAIN m : i = Len(hits) + j
      BY <2>2
    <3>1. s[i] = m[j]
      BY <1>5
    <3>2. n \in 1 .. n
      OBVIOUS
    <3> QED
      BY <1>2, <1>8, <3>1, <3>2 DEF MergedOK
  <2> QED
    BY <1>5, <2>1, <2>2
<1>10. \A i \in DOMAIN hits, j \in DOMAIN m : FoundBy(hits[i]) => hits[i].row # m[j].row
  <2> TAKE i \in DOMAIN hits, j \in DOMAIN m
  <2> HAVE FoundBy(hits[i])
  <2>1. PICK l \in 1 .. n - 1 : plan.levels[l].level = LevelOf[hits[i].row]
    BY DEF SearchOK, FoundOK
  <2>2. l \in DOMAIN plan.levels /\ n \in DOMAIN plan.levels /\ l < n
    BY <1>0
  <2>3. plan.levels[l].level # budget.level /\ plan.levels[l].level # "chunk"
    BY <2>2, LevelsTurn
  <2>4. LevelOf[m[j].row] \in {budget.level, "chunk"}
    BY <1>2 DEF MergedOK
  <2> QED
    BY <2>1, <2>3, <2>4
<1>11. FoundOnce(s)
  <2> SUFFICES ASSUME NEW i \in DOMAIN s, NEW j \in DOMAIN s, i < j, s[i].row = s[j].row, FoundBy(s[i])
               PROVE  FALSE
    BY DEF FoundOnce
  <2>0. i \in Int /\ j \in Int /\ Len(hits) \in Int
    BY <1>4, <1>t, DOMAIN s = 1 .. Len(s), Len(s) \in Nat
  <2>1. CASE i \in DOMAIN hits /\ j \in DOMAIN hits
    <3>1. FoundOnce(hits)
      BY DEF SearchOK
    <3> QED
      BY <1>5, <2>1, <3>1 DEF FoundOnce
  <2>2. CASE i \in DOMAIN hits /\ \E b \in DOMAIN m : j = Len(hits) + b
    BY <1>5, <1>10, <2>2
  <2>3. CASE (\E a \in DOMAIN m : i = Len(hits) + a) /\ \E b \in DOMAIN m : j = Len(hits) + b
    <3> PICK a \in DOMAIN m, b \in DOMAIN m : i = Len(hits) + a /\ j = Len(hits) + b
      BY <2>3
    <3>1. a # b
      OBVIOUS
    <3>2. m[a].row = m[b].row
      BY <1>5
    <3> QED
      BY <1>2, <3>1, <3>2 DEF MergedOK, Apart
  <2>4. CASE (\E a \in DOMAIN m : i = Len(hits) + a) /\ j \in DOMAIN hits
    <3> PICK a \in DOMAIN m : i = Len(hits) + a
      BY <2>4
    <3>1. j < i
      BY <1>5, <2>4
    <3> QED
      BY <2>0, <3>1
  <2> QED
    BY <1>5, <2>1, <2>2, <2>3, <2>4
<1>12. plan.mode = "hybrid" => Bounded(s, SafeLevels(plan))
  <2> SUFFICES ASSUME plan.mode = "hybrid", NEW i \in DOMAIN s, LevelOf[s[i].row] = "clause"
               PROVE  s[i].score <= 39060 /\ (SafeLevels(plan) => s[i].score >= 15675)
    BY DEF Bounded
  <2>1. CASE i \in DOMAIN hits
    <3>1. Bounded(hits, SafeLevels(plan))
      BY DEF SearchOK
    <3> QED
      BY <1>5, <2>1, <3>1 DEF Bounded
  <2>2. CASE \E j \in DOMAIN m : i = Len(hits) + j
    <3> PICK j \in DOMAIN m : i = Len(hits) + j
      BY <2>2
    <3>1. s[i] = m[j] /\ Scores(m, budget.limit)
      BY <1>2, <1>5
    <3>2. SafeLevels(plan) => budget.limit <= SafeLimit
      BY <1>0 DEF SafeLevels
    <3> QED
      BY <3>1, <3>2 DEF Scores
  <2> QED
    BY <1>5, <2>1, <2>2
<1>13. MeasuredOK(world, later)
  <2> SUFFICES ASSUME NEW x \in later.measured
               PROVE  \E i \in DOMAIN s : /\ LevelOf[s[i].row] \in AnsweringLevels
                                          /\ world.similarity[s[i].row] >= x
    BY <1>6 DEF MeasuredOK
  <2>1. CASE x \in found.measured
    <3>1. PICK i \in DOMAIN hits : /\ LevelOf[hits[i].row] \in AnsweringLevels
                                   /\ world.similarity[hits[i].row] >= x
      BY <2>1 DEF SearchOK, MeasuredOK
    <3>2. i \in DOMAIN s /\ s[i] = hits[i]
      BY <1>5
    <3> QED
      BY <3>1, <3>2
  <2>2. CASE x \notin found.measured
    <3>1. PICK i \in DOMAIN v : x = v[i].similarity /\ budget.level \in AnsweringLevels
      BY <1>6, <2>2
    <3>2. 1 \in DOMAIN v /\ v # <<>> /\ world.similarity[v[1].row] >= world.similarity[v[i].row]
      BY <1>2, BestFirst
    <3>3. LevelOf[v[1].row] = budget.level /\ x = world.similarity[v[i].row]
      BY <1>2, <3>1, <3>2 DEF VectorOK
    <3>5. world.similarity[v[1].row] >= x
      BY <3>2, <3>3, Zenon
    <3>6. PICK j \in DOMAIN m : m[j].row = v[1].row
      BY <1>2, <3>2 DEF Rows
    <3>7. Len(hits) + j \in DOMAIN s /\ s[Len(hits) + j] = m[j]
      BY <1>5
    <3> QED
      BY <3>1, <3>3, <3>5, <3>6, <3>7
  <2> QED
    BY <2>1, <2>2
<1>14. Narrower(later.candidates, start)
  <2> SUFFICES ASSUME budget.level = "summary", m # <<>>, start # {}
               PROVE  later.candidates # {} /\ later.candidates \subseteq start
    BY <1>6, <1>7 DEF Narrower
  <2>1. later.candidates = {ContractOf[p] : p \in Rows(m)}
    BY <1>6
  <2>2. \A p \in Rows(m) : ContractOf[p] \in start
    BY <1>8 DEF Rows, Within
  <2>3. 1 \in DOMAIN m
    BY <1>4
  <2>4. m[1].row \in Rows(m)
    BY <2>3 DEF Rows
  <2> QED
    BY <2>1, <2>2, <2>4
<1> QED
  BY <1>3, <1>6, <1>9, <1>11, <1>12, <1>13, <1>14 DEF SearchOK

LEMMA SearchedFacts ==
    ASSUME NEW world, NEW plan, QuestionOK(world, plan), NEW start \in SUBSET (DOMAIN TypeOf)
    PROVE  SearchOK(world, plan, start, Searched(world, plan, start), Len(plan.levels))
<1>0. WorldOK(world) /\ plan.mode \in {"hybrid", "semantic", "keyword"} /\ plan.levels \in Seq(Budgets)
  BY DEF QuestionOK, LevelsOK
<1> PICK levels \in Seq(Budgets) : levels = plan.levels
  BY <1>0
<1> PICK n \in Nat : n = Len(levels)
  OBVIOUS
<1>b. PICK base : base = [hits |-> <<>>, measured |-> {}, candidates |-> start]
  OBVIOUS
<1>2. base \in Searches /\ base.hits = <<>> /\ base.measured = {} /\ base.candidates = start
  BY <1>b DEF Searches
<1>3. SearchLevelStays(world, plan, Searches, Budgets)
  BY <1>0, SearchLevelTyped DEF SearchLevelStays
<1>4. PICK acc : SearchLevelPasses(world, plan, Searches, base, levels, acc)
  BY <1>2, <1>3, SearchLevelRuns, Zenon
<1>5. /\ acc[0] = base
      /\ \A i \in 1 .. n : acc[i] = SearchLevel(world, plan, acc[i - 1], levels[i])
  BY <1>4 DEF SearchLevelPasses
<1>6. Searched(world, plan, start) = acc[n]
  BY <1>4, <1>b, Zenon DEF Searched, SearchLevelPasses
<1> DEFINE inv == [i \in 0 .. n |-> {a \in Searches : SearchOK(world, plan, start, a, i)}]
<1>7. base \in inv[0]
  <2>1. DOMAIN base.hits = {}
    BY <1>2
  <2>2. FoundOK(world, plan, start, base.hits, 0) /\ FoundOnce(base.hits)
        /\ Bounded(base.hits, SafeLevels(plan))
    BY <2>1 DEF FoundOK, FoundOnce, Bounded
  <2>3. MeasuredOK(world, base) /\ Narrower(base.candidates, start)
    BY <1>2 DEF MeasuredOK, Narrower
  <2>4. SearchOK(world, plan, start, base, 0)
    BY <1>2, <2>2, <2>3 DEF SearchOK
  <2> QED
    BY <1>2, <2>4
<1>8. \A i \in 1 .. n : acc[i - 1] \in inv[i - 1] => acc[i] \in inv[i]
  <2> TAKE i \in 1 .. n
  <2> HAVE acc[i - 1] \in inv[i - 1]
  <2>1. i - 1 \in 0 .. n /\ i \in 0 .. n
    OBVIOUS
  <2>2. SearchOK(world, plan, start, acc[i - 1], i - 1)
    BY <2>1
  <2>3. SearchOK(world, plan, start, SearchLevel(world, plan, acc[i - 1], plan.levels[i]), i)
    BY <2>2, SearchGoesOn
  <2>4. acc[i] = SearchLevel(world, plan, acc[i - 1], plan.levels[i])
    BY <1>5
  <2>5. acc[i] \in Searches
    BY <2>3, <2>4 DEF SearchOK
  <2> QED
    BY <2>1, <2>3, <2>4, <2>5
<1>9. acc[n] \in inv[n]
  <2> HIDE DEF inv
  <2> QED
    BY <1>5, <1>7, <1>8, Along
<1> QED
  BY <1>6, <1>9

-----------------------------------------------------------------------------
(* What expansion adds.                                                    *)

LEMMA SeqIs == ASSUME NEW T, NEW k \in Nat, NEW s \in [1 .. k -> T] PROVE s \in Seq(T)
OBVIOUS

NeighbourOK(h, hits) ==
    /\ h \in Hits /\ h.source = "neighbour" /\ h.row \notin Rows(hits) /\ LevelOf[h.row] = "chunk"
    /\ \E i \in DOMAIN hits : ContractOf[h.row] = ContractOf[hits[i].row]

GraphOK(h, hits) ==
    /\ h \in Hits /\ h.source = "graph" /\ LevelOf[h.row] = "clause"
    /\ \E i \in DOMAIN hits : /\ ContractOf[h.row] = ContractOf[hits[i].row]
                              /\ LevelOf[hits[i].row] = "clause"
                              /\ h.score = (hits[i].score * 2) \div 5

LEMMA SeedFacts ==
    ASSUME NEW hits \in Seq(Hits), NEW level, NEW n \in Nat,
           NEW seeds, seeds = First(AtLevel(hits, level), n)
    PROVE  seeds \in Seq({h \in ToSet(hits) : LevelOf[h.row] = level})
<1> DEFINE places == {i \in DOMAIN hits : LevelOf[hits[i].row] = level}
           S == {h \in ToSet(hits) : LevelOf[h.row] = level}
<1>1. places \in SUBSET (DOMAIN hits) /\ \A i \in places : hits[i] \in S
  BY DEF ToSet
<1>2. AtLevel(hits, level) = Those(hits, places)
  BY DEF AtLevel
<1> HIDE DEF places
<1> PICK t : t = Those(hits, places)
  OBVIOUS
<1>3. t \in Seq(Hits) /\ \A i \in DOMAIN t : \E p \in places : t[i] = hits[p]
  BY <1>1, SelectedHits
<1>4. \A i \in DOMAIN t : t[i] \in S
  BY <1>1, <1>3
<1> HIDE DEF S
<1>5. t \in Seq(S)
  <2> PICK k \in Nat : k = Len(t) /\ DOMAIN t = 1 .. k /\ t \in [1 .. k -> Hits]
    BY <1>3
  <2>1. t \in [1 .. k -> S]
    BY <1>4
  <2> QED
    BY <2>1
<1>6. seeds = First(t, n)
  BY <1>2
<1>7. seeds \in Seq(S)
  BY <1>5, <1>6, FirstFacts
<1> QED
  BY <1>7 DEF S

LEMMA ShareOfSeed == ASSUME NEW s \in Nat PROVE s \div 2 \in Nat /\ (s * 2) \div 5 \in Nat
OBVIOUS

WidenOK(found, hits, S, shown) ==
    /\ found \in [seen : SUBSET S, more : Seq({h \in Hits : NeighbourOK(h, hits)})]
    /\ shown \subseteq found.seen

ShownIn(shown, hits) == \A p \in Rows(hits) : LevelOf[p] = "chunk" => p \in shown

LEMMA WidenKeeps ==
    ASSUME NEW hits, NEW S, NEW shown, NEW found, NEW seed
    PROVE  /\ hits \in Seq(Hits) /\ Passages \subseteq S /\ ShownIn(shown, hits)
           /\ WidenOK(found, hits, S, shown)
           /\ seed \in {h \in ToSet(hits) : LevelOf[h.row] = "chunk"}
           => WidenOK(Widen(found, seed), hits, S, shown)
<1> SUFFICES ASSUME hits \in Seq(Hits), Passages \subseteq S,
                    \A p \in Rows(hits) : LevelOf[p] = "chunk" => p \in shown,
                    found \in [seen : SUBSET S, more : Seq({h \in Hits : NeighbourOK(h, hits)})],
                    shown \subseteq found.seen,
                    seed \in {h \in ToSet(hits) : LevelOf[h.row] = "chunk"}
             PROVE  /\ Widen(found, seed) \in [seen : SUBSET S, more : Seq({h \in Hits : NeighbourOK(h, hits)})]
                    /\ shown \subseteq Widen(found, seed).seen
  BY DEF WidenOK, ShownIn
<1> DEFINE N == {h \in Hits : NeighbourOK(h, hits)}
           around == Neighbours[seed.row]
           places == {i \in DOMAIN around : around[i] \notin found.seen}
           C == {q \in Passages : LevelOf[q] = "chunk" /\ ContractOf[q] = ContractOf[seed.row]}
<1>1. PICK i \in DOMAIN hits : seed = hits[i]
  BY DEF ToSet
<1>2. seed.row \in Passages /\ seed.score \in Nat /\ LevelOf[seed.row] = "chunk"
  BY <1>1, HitsFacts
<1>3. around \in Seq(C)
  BY <1>2, PassageAssumption
<1>4. places \in SUBSET (DOMAIN around) /\ \A p \in places : around[p] \notin found.seen
  OBVIOUS
<1>5. found.seen \in SUBSET S /\ found.more \in Seq(N)
  OBVIOUS
<1> PICK fresh : fresh = Those(around, places)
  OBVIOUS
<1>w. PICK more : more = [k \in DOMAIN fresh |-> Hit(fresh[k], seed.score \div 2, "neighbour", Nowhere)]
  OBVIOUS
<1>6. Widen(found, seed) = [seen |-> found.seen \union ToSet(fresh), more |-> found.more \o more]
  BY <1>w, Zenon DEF Widen
<1>c. C \subseteq Passages /\ \A q \in C : LevelOf[q] = "chunk" /\ ContractOf[q] = ContractOf[seed.row]
  OBVIOUS
<1>n. \A h \in Hits : NeighbourOK(h, hits) => h \in N
  OBVIOUS
<1> HIDE DEF around, places, C, N
<1>7. fresh \in Seq(C) /\ \A k \in DOMAIN fresh : \E p \in places : fresh[k] = around[p]
  BY <1>3, <1>4, SelectedHits
<1>8. \A k \in DOMAIN fresh : fresh[k] \in C /\ fresh[k] \notin found.seen
  BY <1>4, <1>7
<1>9. \A k \in DOMAIN fresh : more[k] \in N
  <2> TAKE k \in DOMAIN fresh
  <2> PICK q : q = fresh[k]
    OBVIOUS
  <2> PICK score \in Nat : score = seed.score \div 2
    BY <1>2, ShareOfSeed
  <2>1. q \in Passages /\ LevelOf[q] = "chunk" /\ ContractOf[q] = ContractOf[seed.row] /\ q \notin found.seen
    BY <1>8, <1>c
  <2>2. "neighbour" \in Origin /\ Nowhere \in Measure
    BY DEF Origin, Measure
  <2>3. more[k] = Hit(q, score, "neighbour", Nowhere)
    BY <1>w
  <2> PICK h : h = more[k]
    OBVIOUS
  <2>4. h \in Hits /\ h.row = q /\ h.source = "neighbour"
    BY <2>1, <2>2, <2>3, HitFacts
  <2>5. q \notin Rows(hits)
    BY <2>1
  <2>6. NeighbourOK(h, hits)
    BY <1>1, <2>1, <2>4, <2>5 DEF NeighbourOK
  <2> QED
    BY <1>n, <2>4, <2>6
<1>10. more \in Seq(N)
  <2> PICK k \in Nat : k = Len(fresh) /\ DOMAIN fresh = 1 .. k
    BY <1>7
  <2>1. more \in [1 .. k -> N]
    BY <1>9, <1>w
  <2> QED
    BY <2>1, SeqIs, Zenon
<1>11. found.more \o more \in Seq(N)
  BY <1>5, <1>10, JoinFacts
<1>12. ToSet(fresh) \subseteq Passages
  BY <1>8, <1>c DEF ToSet
<1>13. found.seen \union ToSet(fresh) \in SUBSET S
  BY <1>5, <1>12
<1> PICK a : a = found.seen \union ToSet(fresh)
  OBVIOUS
<1> PICK b \in Seq(N) : b = found.more \o more
  BY <1>11
<1>14. Widen(found, seed) = [seen |-> a, more |-> b]
  BY <1>6
<1>15. a \in SUBSET S /\ shown \subseteq a
  BY <1>13
<1>16. Widen(found, seed) \in [seen : SUBSET S, more : Seq(N)]
  BY <1>14, <1>15
<1>17. shown \subseteq Widen(found, seed).seen
  BY <1>14, <1>15
<1> QED
  BY <1>16, <1>17 DEF N

LEMMA NeighboursFacts ==
    ASSUME NEW hits \in Seq(Hits), NEW n \in Nat
    PROVE  ExpandNeighbours(hits, n) \in Seq({h \in Hits : NeighbourOK(h, hits)})
<1> PICK shown : shown = {ChunkOf[p] : p \in Rows(hits)} \ {Nowhere}
  OBVIOUS
<1> PICK seeds : seeds = First(AtLevel(hits, "chunk"), n)
  OBVIOUS
<1> DEFINE S == shown \union Passages
           U == {h \in ToSet(hits) : LevelOf[h.row] = "chunk"}
           V == {f \in [seen : SUBSET S, more : Seq({h \in Hits : NeighbourOK(h, hits)})] :
                   shown \subseteq f.seen}
<1>b. PICK base : base = [seen |-> shown, more |-> <<>>]
  OBVIOUS
<1>1. \A p \in Rows(hits) : LevelOf[p] = "chunk" => p \in shown
  <2> SUFFICES ASSUME NEW i \in DOMAIN hits, LevelOf[hits[i].row] = "chunk" PROVE hits[i].row \in shown
    BY DEF Rows
  <2>1. hits[i].row \in Passages
    BY HitsFacts
  <2>2. ChunkOf[hits[i].row] = hits[i].row /\ ChunkOf[hits[i].row] # Nowhere
    BY <2>1, PassageAssumption
  <2>3. hits[i].row \in Rows(hits)
    BY DEF Rows
  <2> QED
    BY <2>2, <2>3
<1>2. WidenStays(V, U)
  <2> SUFFICES ASSUME NEW a \in V, NEW x \in U PROVE Widen(a, x) \in V
    BY DEF WidenStays
  <2>1. WidenOK(a, hits, S, shown)
    BY DEF WidenOK
  <2>2. Passages \subseteq S /\ ShownIn(shown, hits)
    BY <1>1 DEF ShownIn
  <2>3. WidenOK(Widen(a, x), hits, S, shown)
    BY <2>1, <2>2, WidenKeeps, Zenon
  <2> QED
    BY <2>3 DEF WidenOK
<1>3. base \in V
  <2>1. shown \in SUBSET S /\ <<>> \in Seq({h \in Hits : NeighbourOK(h, hits)})
    OBVIOUS
  <2> HIDE DEF S
  <2>2. base \in [seen : SUBSET S, more : Seq({h \in Hits : NeighbourOK(h, hits)})] /\ base.seen = shown
    BY <1>b, <2>1
  <2> QED
    BY <2>2
<1>4. seeds \in Seq(U)
  BY SeedFacts
<1>5. ExpandNeighbours(hits, n) = FoldLeft(Widen, base, seeds).more
  BY <1>b, Zenon DEF ExpandNeighbours
<1>6. \A f \in V : f.more \in Seq({h \in Hits : NeighbourOK(h, hits)})
  OBVIOUS
<1> HIDE DEF V, U, S
<1>7. FoldLeft(Widen, base, seeds) \in V
  BY <1>2, <1>3, <1>4, WidenEnds, Zenon
<1> QED
  BY <1>5, <1>6, <1>7

LEMMA FollowKeeps ==
    ASSUME NEW hits \in Seq(Hits), NEW wide \in Seq(Hits),
           \A h \in ToSet(wide) : LevelOf[h.row] = "clause" => h \in ToSet(hits),
           NEW found \in [seen : SUBSET Nat, more : Seq({h \in Hits : GraphOK(h, hits)})],
           NEW seed \in {h \in ToSet(wide) : LevelOf[h.row] = "clause"}
    PROVE  Follow(found, seed) \in [seen : SUBSET Nat, more : Seq({h \in Hits : GraphOK(h, hits)})]
<1> DEFINE N == {h \in Hits : GraphOK(h, hits)}
           edges == EdgesOf[NumberOf[seed.row]]
           fresh == {i \in DOMAIN edges : /\ edges[i] \notin found.seen
                                          /\ \A j \in 1 .. i - 1 : edges[j] # edges[i]}
           places == {i \in fresh : Referred(seed, edges[i]) # {}}
<1>1. PICK i \in DOMAIN hits : seed = hits[i]
  BY DEF ToSet
<1>2. seed.row \in Passages /\ seed.score \in Nat /\ LevelOf[seed.row] = "clause"
  BY <1>1, HitsFacts
<1>3. edges \in Seq(Nat)
  BY <1>2, PassageAssumption
<1>4. places \in SUBSET (DOMAIN edges) /\ fresh \in SUBSET (DOMAIN edges)
      /\ \A p \in places : Referred(seed, edges[p]) # {}
  OBVIOUS
<1>5. found.seen \in SUBSET Nat /\ found.more \in Seq(N)
  OBVIOUS
<1> PICK there : there = Those(edges, places)
  OBVIOUS
<1>w. PICK more : more = [k \in DOMAIN there |->
                            Hit(TheReferred(seed, there[k]), (seed.score * 2) \div 5, "graph", Nowhere)]
  OBVIOUS
<1>6. Follow(found, seed) = [seen |-> found.seen \union {edges[k] : k \in fresh}, more |-> found.more \o more]
  BY <1>w, Zenon DEF Follow
<1>c. \A x : \A p \in Referred(seed, x) : p \in Passages /\ LevelOf[p] = "clause" /\ ContractOf[p] = ContractOf[seed.row]
  BY DEF Referred
<1>n. \A h \in Hits : GraphOK(h, hits) => h \in N
  OBVIOUS
<1> HIDE DEF edges, places, N, fresh
<1>7. there \in Seq(Nat) /\ \A k \in DOMAIN there : \E p \in places : there[k] = edges[p]
  BY <1>3, <1>4, SelectedHits
<1>8. \A k \in DOMAIN there : Referred(seed, there[k]) # {}
  BY <1>4, <1>7
<1>9. \A k \in DOMAIN there : more[k] \in N
  <2> TAKE k \in DOMAIN there
  <2> PICK q : q = TheReferred(seed, there[k])
    OBVIOUS
  <2> PICK score \in Nat : score = (seed.score * 2) \div 5
    BY <1>2, ShareOfSeed
  <2>0. q \in Referred(seed, there[k])
    BY <1>8, Zenon DEF TheReferred
  <2>1. q \in Passages /\ LevelOf[q] = "clause" /\ ContractOf[q] = ContractOf[seed.row]
    BY <1>c, <2>0
  <2>2. "graph" \in Origin /\ Nowhere \in Measure
    BY DEF Origin, Measure
  <2>3. more[k] = Hit(q, score, "graph", Nowhere)
    BY <1>w
  <2> PICK h : h = more[k]
    OBVIOUS
  <2>4. h \in Hits /\ h.row = q /\ h.source = "graph" /\ h.score = score
    BY <2>1, <2>2, <2>3, HitFacts
  <2>6. GraphOK(h, hits)
    BY <1>1, <1>2, <2>1, <2>4 DEF GraphOK
  <2> QED
    BY <1>n, <2>4, <2>6
<1>10. more \in Seq(N)
  <2> PICK k \in Nat : k = Len(there) /\ DOMAIN there = 1 .. k
    BY <1>7
  <2>1. more \in [1 .. k -> N]
    BY <1>9, <1>w
  <2> QED
    BY <2>1, SeqIs, Zenon
<1>11. found.more \o more \in Seq(N)
  BY <1>5, <1>10, JoinFacts
<1>12. \A k \in fresh : edges[k] \in Nat
  BY <1>3, <1>4
<1>13. found.seen \union {edges[k] : k \in fresh} \in SUBSET Nat
  BY <1>5, <1>12
<1> PICK a : a = found.seen \union {edges[k] : k \in fresh}
  OBVIOUS
<1> PICK b \in Seq(N) : b = found.more \o more
  BY <1>11
<1>14. Follow(found, seed) = [seen |-> a, more |-> b]
  BY <1>6
<1>15. a \in SUBSET Nat
  BY <1>13
<1>16. Follow(found, seed) \in [seen : SUBSET Nat, more : Seq(N)]
  BY <1>14, <1>15
<1> QED
  BY <1>16 DEF N

LEMMA GraphFacts ==
    ASSUME NEW hits \in Seq(Hits), NEW wide \in Seq(Hits),
           \A h \in ToSet(wide) : LevelOf[h.row] = "clause" => h \in ToSet(hits)
    PROVE  ExpandGraph(wide) \in Seq({h \in Hits : GraphOK(h, hits)})
<1> PICK seeds : seeds = First(AtLevel(wide, "clause"), 10)
  OBVIOUS
<1> DEFINE U == {h \in ToSet(wide) : LevelOf[h.row] = "clause"}
           V == [seen : SUBSET Nat, more : Seq({h \in Hits : GraphOK(h, hits)})]
<1>b. PICK base : base = [seen |-> {}, more |-> <<>>]
  OBVIOUS
<1>2. FollowStays(V, U)
  <2> SUFFICES ASSUME NEW a \in V, NEW x \in U PROVE Follow(a, x) \in V
    BY DEF FollowStays
  <2> QED
    BY FollowKeeps
<1>3. base \in V
  BY <1>b
<1>4. seeds \in Seq(U)
  BY SeedFacts, 10 \in Nat
<1>5. ExpandGraph(wide) = FoldLeft(Follow, base, seeds).more
  BY <1>b, Zenon DEF ExpandGraph
<1>6. \A f \in V : f.more \in Seq({h \in Hits : GraphOK(h, hits)})
  OBVIOUS
<1> HIDE DEF V, U
<1>7. FoldLeft(Follow, base, seeds) \in V
  BY <1>2, <1>3, <1>4, FollowEnds, Zenon
<1> QED
  BY <1>5, <1>6, <1>7

ExpandedOK(e, hits) ==
    /\ e \in Seq(Hits)
    /\ \A i \in DOMAIN hits : i \in DOMAIN e /\ e[i] = hits[i]
    /\ \A i \in DOMAIN e : i \notin DOMAIN hits =>
          /\ \A j \in DOMAIN hits : j < i
          /\ NeighbourOK(e[i], hits) \/ GraphOK(e[i], hits)

LEMMA ExpandsBy ==
    ASSUME NEW hits \in Seq(Hits), NEW e, ExpandedOK(e, hits),
           NEW more \in Seq(Hits), \A j \in DOMAIN more : NeighbourOK(more[j], hits) \/ GraphOK(more[j], hits),
           NEW s, s = e \o more
    PROVE  ExpandedOK(s, hits)
<1>1. e \in Seq(Hits)
  BY DEF ExpandedOK
<1>2. s \in Seq(Hits) /\ Joined(s, e, more)
  BY <1>1, JoinFacts
<1>3. \A i \in DOMAIN hits : i \in DOMAIN s /\ s[i] = hits[i]
  BY <1>2 DEF Joined, ExpandedOK
<1>4. ASSUME NEW i \in DOMAIN s, i \notin DOMAIN hits
      PROVE  (\A j \in DOMAIN hits : j < i) /\ (NeighbourOK(s[i], hits) \/ GraphOK(s[i], hits))
  <2>1. CASE i \in DOMAIN e
    BY <1>2, <1>4, <2>1 DEF Joined, ExpandedOK
  <2>2. CASE \E j \in DOMAIN more : i = Len(e) + j
    <3> PICK j \in DOMAIN more : i = Len(e) + j
      BY <2>2
    <3>1. s[i] = more[j] /\ \A k \in DOMAIN e : k < i
      BY <1>2 DEF Joined
    <3>2. \A k \in DOMAIN hits : k \in DOMAIN e
      BY DEF ExpandedOK
    <3> QED
      BY <3>1, <3>2
  <2> QED
    BY <1>2, <2>1, <2>2 DEF Joined
<1> QED
  BY <1>2, <1>3, <1>4 DEF ExpandedOK

LEMMA ExpandedFacts ==
    ASSUME NEW hits \in Seq(Hits), NEW plan, plan.maxChunks \in Nat
    PROVE  ExpandedOK(Expanded(plan, hits), hits)
<1> PICK nb : nb = ExpandNeighbours(hits, plan.maxChunks)
  OBVIOUS
<1>1. nb \in Seq({h \in Hits : NeighbourOK(h, hits)})
  BY NeighboursFacts
<1>2. nb \in Seq(Hits) /\ \A j \in DOMAIN nb : NeighbourOK(nb[j], hits)
  <2> PICK k \in Nat : k = Len(nb) /\ DOMAIN nb = 1 .. k
    BY <1>1
  <2>1. \A j \in 1 .. k : nb[j] \in Hits /\ NeighbourOK(nb[j], hits)
    BY <1>1
  <2>2. nb \in [1 .. k -> Hits]
    BY <1>1, <2>1
  <2> QED
    BY <2>1, <2>2
<1>3. ExpandedOK(hits, hits)
  BY DEF ExpandedOK
<1> PICK wide : wide = IF plan.widen THEN hits \o nb ELSE hits
  OBVIOUS
<1>4. ExpandedOK(wide, hits)
  BY <1>2, <1>3, ExpandsBy
<1>5. wide \in Seq(Hits)
  BY <1>4 DEF ExpandedOK
<1>6. ASSUME NEW h \in ToSet(wide), LevelOf[h.row] = "clause" PROVE h \in ToSet(hits)
  <2>1. PICK i \in DOMAIN wide : h = wide[i]
    BY DEF ToSet
  <2>2. \A j \in DOMAIN nb : LevelOf[nb[j].row] = "chunk"
    BY <1>2 DEF NeighbourOK
  <2>3. CASE ~plan.widen
    BY <2>3
  <2>4. CASE plan.widen
    <3>1. Joined(wide, hits, nb)
      BY <1>2, <2>4, JoinFacts
    <3>2. i \in DOMAIN hits /\ h = hits[i]
      BY <1>6, <2>1, <2>2, <3>1 DEF Joined
    <3> QED
      BY <3>2 DEF ToSet
  <2> QED
    BY <2>3, <2>4
<1> PICK more : more = ExpandGraph(wide)
  OBVIOUS
<1>7. more \in Seq({h \in Hits : GraphOK(h, hits)})
  BY <1>5, <1>6, GraphFacts
<1>8. more \in Seq(Hits) /\ \A j \in DOMAIN more : GraphOK(more[j], hits)
  <2> PICK k \in Nat : k = Len(more) /\ DOMAIN more = 1 .. k
    BY <1>7
  <2>1. \A j \in 1 .. k : more[j] \in Hits /\ GraphOK(more[j], hits)
    BY <1>7
  <2>2. more \in [1 .. k -> Hits]
    BY <1>7, <2>1
  <2> QED
    BY <2>1, <2>2
<1>9. ExpandedOK(wide \o more, hits)
  BY <1>4, <1>8, ExpandsBy
<1>10. Expanded(plan, hits) = IF plan.graph THEN wide \o more ELSE wide
  BY Zenon DEF Expanded
<1> QED
  BY <1>4, <1>9, <1>10

(* What the searches and the expansion hand on to de-duplication.          *)
Kept(e) == \A i, j \in DOMAIN e : i < j /\ e[i].row = e[j].row /\ FoundBy(e[i]) => e[j].score <= e[i].score

LEMMA ExpandedKeeps ==
    ASSUME NEW world, NEW plan, NEW start, NEW found, NEW n, SearchOK(world, plan, start, found, n),
           NEW e, ExpandedOK(e, found.hits)
    PROVE  /\ \A i \in DOMAIN e : FoundBy(e[i]) => e[i].similarity = world.similarity[e[i].row]
           /\ \A i \in DOMAIN e : Within(start, e[i].row)
           /\ plan.mode = "hybrid" /\ SafeLevels(plan) => Kept(e)
<1> PICK hits \in Seq(Hits) : hits = found.hits
  BY DEF SearchOK, Searches
<1>1. FoundOK(world, plan, start, hits, n) /\ FoundOnce(hits)
      /\ (plan.mode = "hybrid" => Bounded(hits, SafeLevels(plan)))
  BY DEF SearchOK
<1>2. \A i \in DOMAIN e : i \in DOMAIN hits => e[i] = hits[i]
  BY DEF ExpandedOK
<1>3. \A i \in DOMAIN e : i \notin DOMAIN hits => NeighbourOK(e[i], hits) \/ GraphOK(e[i], hits)
  BY DEF ExpandedOK
<1>4. \A i \in DOMAIN e : FoundBy(e[i]) => i \in DOMAIN hits
  BY <1>3 DEF FoundBy, NeighbourOK, GraphOK
<1>5. \A i \in DOMAIN e : FoundBy(e[i]) => e[i].similarity = world.similarity[e[i].row]
  BY <1>1, <1>2, <1>4 DEF FoundOK
<1>6. ASSUME NEW i \in DOMAIN e PROVE Within(start, e[i].row)
  <2>1. CASE i \in DOMAIN hits
    BY <1>1, <1>2, <2>1 DEF FoundOK
  <2>2. CASE i \notin DOMAIN hits
    <3>1. PICK j \in DOMAIN hits : ContractOf[e[i].row] = ContractOf[hits[j].row]
      BY <1>3, <2>2 DEF NeighbourOK, GraphOK
    <3> QED
      BY <1>1, <3>1 DEF FoundOK, Within
  <2> QED
    BY <2>1, <2>2
<1>7. ASSUME plan.mode = "hybrid", SafeLevels(plan), NEW i \in DOMAIN e, NEW j \in DOMAIN e,
             i < j, e[i].row = e[j].row, FoundBy(e[i])
      PROVE  e[j].score <= e[i].score
  <2>1. i \in DOMAIN hits /\ e[i] = hits[i]
    BY <1>2, <1>4, <1>7
  <2>2. CASE j \in DOMAIN hits
    BY <1>1, <1>2, <1>7, <2>1, <2>2 DEF FoundOnce
  <2>3. CASE j \notin DOMAIN hits /\ NeighbourOK(e[j], hits)
    <3>1. e[j].row \in Rows(hits)
      BY <1>7, <2>1 DEF Rows
    <3> QED
      BY <2>3, <3>1 DEF NeighbourOK
  <2>4. CASE j \notin DOMAIN hits /\ GraphOK(e[j], hits)
    <3>1. PICK k \in DOMAIN hits : /\ LevelOf[hits[k].row] = "clause"
                                   /\ e[j].score = (hits[k].score * 2) \div 5
      BY <2>4 DEF GraphOK
    <3>2. LevelOf[e[j].row] = "clause"
      BY <2>4 DEF GraphOK
    <3>3. hits[i].score >= 15675 /\ hits[k].score <= 39060
      BY <1>1, <1>7, <2>1, <3>1, <3>2 DEF Bounded
    <3> PICK x \in Nat : x = hits[i].score
      BY <2>1, HitsFacts
    <3> PICK y \in Nat : y = hits[k].score
      BY HitsFacts
    <3>4. y <= 39060 => (y * 2) \div 5 <= 15675
      OBVIOUS
    <3> PICK z \in Nat : z = (y * 2) \div 5
      BY ShareOfSeed
    <3> QED
      BY <2>1, <3>1, <3>3, <3>4
  <2> QED
    BY <1>3, <2>2, <2>3, <2>4
<1> QED
  BY <1>5, <1>6, <1>7 DEF Kept

-----------------------------------------------------------------------------
(* De-duplication.                                                         *)

LEMMA RepeatsBack ==
    ASSUME NEW p \in Passages, NEW q \in Passages, Repeats(p, q)
    PROVE  Repeats(q, p)
<1>1. Cardinality(Words[p]) \in Nat /\ Cardinality(Words[q]) \in Nat
  BY PassageAssumption, FS_CardinalityType
<1>2. Words[p] \cap Words[q] = Words[q] \cap Words[p]
  OBVIOUS
<1> PICK a \in Nat : a = Cardinality(Words[p])
  BY <1>1
<1> PICK b \in Nat : b = Cardinality(Words[q])
  BY <1>1
<1> PICK c : c = Cardinality(Words[p] \cap Words[q])
  OBVIOUS
<1>3. (IF a < b THEN a ELSE b) = (IF b < a THEN b ELSE a)
  OBVIOUS
<1>4. Cardinality(Words[q] \cap Words[p]) = c
  BY <1>2
<1>5. Words[p] # {} /\ Words[q] # {} /\ 10 * c >= 8 * (IF a < b THEN a ELSE b)
  BY DEF Repeats
<1>6. Words[p] # {} /\ Words[q] # {} /\ 10 * c >= 8 * (IF b < a THEN b ELSE a)
  BY <1>3, <1>5
<1> QED
  BY <1>4, <1>6 DEF Repeats

BestOK(b, e, n) ==
    /\ b \in Seq(Hits) /\ Apart(b)
    /\ \A k \in 1 .. n : \E j \in DOMAIN b : b[j].row = e[k].row /\ b[j].score >= e[k].score
    /\ \A j \in DOMAIN b : \E k \in 1 .. n : b[j].row = e[k].row
    /\ Kept(e) => \A j \in DOMAIN b : FoundBy(b[j]) => \E k \in 1 .. n : b[j] = e[k]

Grown(t, s, x) ==
    \E l \in DOMAIN t : /\ t[l] = x
                        /\ \A i \in DOMAIN s : i \in DOMAIN t /\ i # l /\ t[i] = s[i]
                        /\ \A i \in DOMAIN t : i \in DOMAIN s \/ i = l

LEMMA AppendFacts ==
    ASSUME NEW T, NEW s \in Seq(T), NEW x \in T
    PROVE  Append(s, x) \in Seq(T) /\ Grown(Append(s, x), s, x)
<1> PICK n \in Nat : n = Len(s) /\ DOMAIN s = 1 .. n
  OBVIOUS
<1>t. PICK t : t = Append(s, x)
  OBVIOUS
<1>1. t \in Seq(T) /\ DOMAIN t = 1 .. n + 1
  BY <1>t
<1>2. \A i \in 1 .. n : i \in 1 .. n + 1 /\ t[i] = s[i] /\ i # n + 1
  BY <1>t
<1>3. n + 1 \in 1 .. n + 1 /\ t[n + 1] = x
  BY <1>t
<1>4. \A i \in 1 .. n + 1 : i \in 1 .. n \/ i = n + 1
  OBVIOUS
<1>5. Grown(t, s, x)
  BY <1>1, <1>2, <1>3, <1>4 DEF Grown
<1> QED
  BY <1>t, <1>1, <1>5

(* A record of a row, that takes over the provenance of the one before.    *)
Taken(h, old) == [h EXCEPT !.source = IF old.source \in {"vector", "keyword", "fused"}
                                      THEN old.source ELSE h.source]

LEMMA TakenFacts ==
    ASSUME NEW h \in Hits, NEW old \in Hits
    PROVE  /\ Taken(h, old) \in Hits /\ Taken(h, old).row = h.row /\ Taken(h, old).score = h.score
           /\ FoundBy(Taken(h, old)) => FoundBy(old) \/ Taken(h, old) = h
<1>1. h.source \in Origin /\ old.source \in Origin
  BY DEF Hits
<1> PICK source \in Origin : source = IF old.source \in {"vector", "keyword", "fused"}
                                      THEN old.source ELSE h.source
  BY <1>1
<1> PICK g : g = [h EXCEPT !.source = source]
  OBVIOUS
<1>2. g = Taken(h, old)
  BY DEF Taken
<1>3. g \in Hits /\ g.row = h.row /\ g.score = h.score /\ g.source = source
  BY DEF Hits
<1>4. source = h.source => g = h
  BY DEF Hits
<1>5. FoundBy(g) => FoundBy(old) \/ g = h
  BY <1>3, <1>4 DEF FoundBy
<1> QED
  BY <1>2, <1>3, <1>5

Added(d, b, h) == h.row \notin Rows(b) /\ d = Append(b, h)
Left(d, b, h) == \E i \in DOMAIN b : b[i].row = h.row /\ h.score <= b[i].score /\ d = b
Replaced(d, b, h) ==
    \E i \in DOMAIN b : b[i].row = h.row /\ h.score > b[i].score /\ d = [b EXCEPT ![i] = Taken(h, b[i])]

LEMMA PlaceIs ==
    ASSUME NEW b \in Seq(Hits), NEW h \in Hits
    PROVE  Added(Place(b, h), b, h) \/ Left(Place(b, h), b, h) \/ Replaced(Place(b, h), b, h)
<1> PICK d : d = Place(b, h)
  OBVIOUS
<1>1. CASE h.row \notin Rows(b)
  BY <1>1 DEF Place, Added
<1>2. CASE h.row \in Rows(b)
  <2>0. RankOf(b, h.row) \in DOMAIN b /\ b[RankOf(b, h.row)].row = h.row
    BY <1>2, RankFacts
  <2>1. h.score \in Nat /\ b[RankOf(b, h.row)].score \in Nat
    BY <2>0, HitsFacts DEF Hits
  <2>2. d = IF h.score <= b[RankOf(b, h.row)].score THEN b
            ELSE [b EXCEPT ![RankOf(b, h.row)] = Taken(h, b[RankOf(b, h.row)])]
    BY <1>2, Zenon DEF Place, Taken
  <2> PICK i : i = RankOf(b, h.row)
    OBVIOUS
  <2>3. i \in DOMAIN b /\ b[i].row = h.row /\ h.score \in Nat /\ b[i].score \in Nat
    BY <2>0, <2>1
  <2>4. d = IF h.score <= b[i].score THEN b ELSE [b EXCEPT ![i] = Taken(h, b[i])]
    BY <2>2, Zenon
  <2>5. CASE h.score <= b[i].score
    BY <2>3, <2>4, <2>5, Zenon DEF Left
  <2>6. CASE h.score > b[i].score
    <3>1. d = [b EXCEPT ![i] = Taken(h, b[i])]
      <4>1. ~(h.score <= b[i].score)
        BY <2>3, <2>6
      <4> QED
        BY <2>4, <4>1, Zenon
    <3> QED
      BY <2>3, <2>6, <3>1, Zenon DEF Replaced
  <2> QED
    BY <2>3, <2>5, <2>6
<1> QED
  BY <1>1, <1>2

LEMMA PlaceTyped ==
    ASSUME NEW b \in Seq(Hits), Apart(b), NEW h \in Hits, NEW d, d = Place(b, h)
    PROVE  d \in Seq(Hits) /\ Apart(d)
<1>1. CASE Added(d, b, h)
  <2>1. d = Append(b, h) /\ \A i \in DOMAIN b : b[i].row # h.row
    BY <1>1 DEF Added, Rows
  <2>2. d \in Seq(Hits) /\ Grown(d, b, h)
    BY <2>1, AppendFacts
  <2> QED
    BY <2>1, <2>2 DEF Grown, Apart
<1>2. CASE Left(d, b, h)
  BY <1>2 DEF Left
<1>3. CASE Replaced(d, b, h)
  <2>1. PICK i \in DOMAIN b : b[i].row = h.row /\ d = [b EXCEPT ![i] = Taken(h, b[i])]
    BY <1>3 DEF Replaced
  <2>2. b[i] \in Hits
    BY HitsFacts
  <2> PICK g \in Hits : g = Taken(h, b[i]) /\ g.row = h.row
    BY <2>2, TakenFacts
  <2>3. /\ d \in Seq(Hits) /\ DOMAIN d = DOMAIN b /\ d[i] = g
        /\ \A j \in DOMAIN b : j # i => d[j] = b[j]
    BY <2>1
  <2>4. \A j \in DOMAIN b : d[j].row = b[j].row
    BY <2>1, <2>3
  <2> QED
    BY <2>3, <2>4 DEF Apart
<1> QED
  BY <1>1, <1>2, <1>3, PlaceIs

LEMMA PlaceGoesOn ==
    ASSUME NEW e, NEW n, NEW b
    PROVE  e \in Seq(Hits) /\ n \in 1 .. Len(e) /\ BestOK(b, e, n - 1) => BestOK(Place(b, e[n]), e, n)
<1> SUFFICES ASSUME e \in Seq(Hits), n \in 1 .. Len(e), BestOK(b, e, n - 1)
             PROVE  BestOK(Place(b, e[n]), e, n)
  OBVIOUS
<1> PICK h \in Hits : h = e[n]
  OBVIOUS
<1>1. /\ b \in Seq(Hits) /\ Apart(b)
      /\ \A k \in 1 .. n - 1 : \E j \in DOMAIN b : b[j].row = e[k].row /\ b[j].score >= e[k].score
      /\ \A j \in DOMAIN b : \E k \in 1 .. n - 1 : b[j].row = e[k].row
      /\ Kept(e) => \A j \in DOMAIN b : FoundBy(b[j]) => \E k \in 1 .. n - 1 : b[j] = e[k]
  BY DEF BestOK
<1>2. /\ n \in 1 .. n /\ \A k \in 1 .. n - 1 : k \in 1 .. n /\ k < n /\ k \in DOMAIN e
      /\ n \in DOMAIN e /\ \A k \in 1 .. n : k \in 1 .. n - 1 \/ k = n
  OBVIOUS
<1>3. h.score \in Nat /\ \A j \in DOMAIN b : b[j].score \in Nat /\ b[j] \in Hits
  BY <1>1, HitsFacts DEF Hits
<1> PICK d : d = Place(b, h)
  OBVIOUS
<1>0. d \in Seq(Hits) /\ Apart(d)
  BY <1>1, PlaceTyped
<1>4. CASE Added(d, b, h)
  <2>0. Grown(d, b, h)
    BY <1>1, <1>4, AppendFacts DEF Added
  <2>1. PICK l \in DOMAIN d : /\ d[l] = h
                              /\ \A i \in DOMAIN b : i \in DOMAIN d /\ d[i] = b[i]
                              /\ \A i \in DOMAIN d : i \in DOMAIN b \/ i = l
    BY <2>0 DEF Grown
  <2>4. \A k \in 1 .. n : \E j \in DOMAIN d : d[j].row = e[k].row /\ d[j].score >= e[k].score
    <3> TAKE k \in 1 .. n
    <3>1. CASE k = n
      BY <1>3, <2>1, <3>1
    <3>2. CASE k \in 1 .. n - 1
      <4>1. PICK j \in DOMAIN b : b[j].row = e[k].row /\ b[j].score >= e[k].score
        BY <1>1, <3>2
      <4> QED
        BY <2>1, <4>1
    <3> QED
      BY <1>2, <3>1, <3>2
  <2>5. \A j \in DOMAIN d : \E k \in 1 .. n : d[j].row = e[k].row
    <3> TAKE j \in DOMAIN d
    <3>1. CASE j = l
      BY <1>2, <2>1, <3>1
    <3>2. CASE j \in DOMAIN b
      <4>1. PICK k \in 1 .. n - 1 : b[j].row = e[k].row
        BY <1>1, <3>2
      <4> QED
        BY <1>2, <2>1, <3>2, <4>1
    <3> QED
      BY <2>1, <3>1, <3>2
  <2>6. ASSUME Kept(e), NEW j \in DOMAIN d, FoundBy(d[j]) PROVE \E k \in 1 .. n : d[j] = e[k]
    <3>1. CASE j = l
      BY <1>2, <2>1, <3>1
    <3>2. CASE j \in DOMAIN b
      <4>1. PICK k \in 1 .. n - 1 : b[j] = e[k]
        BY <1>1, <2>1, <2>6, <3>2
      <4> QED
        BY <1>2, <2>1, <3>2, <4>1
    <3> QED
      BY <2>1, <3>1, <3>2
  <2> QED
    BY <1>0, <2>4, <2>5, <2>6 DEF BestOK
<1>5. CASE Left(d, b, h)
  <2>1. d = b /\ \E i \in DOMAIN b : b[i].row = h.row /\ h.score <= b[i].score
    BY <1>5 DEF Left
  <2>4. \A k \in 1 .. n : \E j \in DOMAIN d : d[j].row = e[k].row /\ d[j].score >= e[k].score
    <3> TAKE k \in 1 .. n
    <3>1. CASE k = n
      BY <1>3, <2>1, <3>1
    <3>2. CASE k \in 1 .. n - 1
      BY <1>1, <2>1, <3>2
    <3> QED
      BY <1>2, <3>1, <3>2
  <2>5. \A j \in DOMAIN d : \E k \in 1 .. n : d[j].row = e[k].row
    BY <1>1, <1>2, <2>1
  <2>6. Kept(e) => \A j \in DOMAIN d : FoundBy(d[j]) => \E k \in 1 .. n : d[j] = e[k]
    BY <1>1, <1>2, <2>1
  <2> QED
    BY <1>0, <2>4, <2>5, <2>6 DEF BestOK
<1>6. CASE Replaced(d, b, h)
  <2> PICK i \in DOMAIN b : b[i].row = h.row /\ h.score > b[i].score /\ d = [b EXCEPT ![i] = Taken(h, b[i])]
    BY <1>6 DEF Replaced
  <2> PICK g \in Hits : /\ g = Taken(h, b[i]) /\ g.row = h.row /\ g.score = h.score
                        /\ FoundBy(g) => FoundBy(b[i]) \/ g = h
    BY <1>3, TakenFacts
  <2>1. /\ d \in Seq(Hits) /\ DOMAIN d = DOMAIN b /\ d[i] = g
        /\ \A j \in DOMAIN b : j # i => d[j] = b[j]
    BY <1>1
  <2>2. \A j \in DOMAIN b : d[j].row = b[j].row /\ d[j].score >= b[j].score
    <3> TAKE j \in DOMAIN b
    <3>1. CASE j = i
      BY <1>3, <2>1, <3>1
    <3>2. CASE j # i
      BY <1>3, <2>1, <3>2
    <3> QED
      BY <3>1, <3>2
  <2>4. \A k \in 1 .. n : \E j \in DOMAIN d : d[j].row = e[k].row /\ d[j].score >= e[k].score
    <3> TAKE k \in 1 .. n
    <3>1. CASE k = n
      BY <1>3, <2>1, <3>1
    <3>2. CASE k \in 1 .. n - 1
      <4>1. PICK j \in DOMAIN b : b[j].row = e[k].row /\ b[j].score >= e[k].score
        BY <1>1, <3>2
      <4> PICK x \in Nat : x = e[k].score
        BY <1>2, <3>2, HitsFacts
      <4> PICK y \in Nat : y = b[j].score
        BY <1>3
      <4> PICK z \in Nat : z = d[j].score
        BY <2>1, HitsFacts
      <4>2. z >= y /\ y >= x /\ d[j].row = e[k].row
        BY <2>2, <4>1
      <4>3. z >= x
        BY <4>2
      <4> QED
        BY <2>1, <4>2, <4>3
    <3> QED
      BY <1>2, <3>1, <3>2
  <2>5. \A j \in DOMAIN d : \E k \in 1 .. n : d[j].row = e[k].row
    BY <1>1, <1>2, <2>1, <2>2
  <2>6. ASSUME Kept(e), NEW j \in DOMAIN d, FoundBy(d[j]) PROVE \E k \in 1 .. n : d[j] = e[k]
    <3>1. CASE j # i
      BY <1>1, <1>2, <2>1, <2>6, <3>1
    <3>2. CASE j = i /\ g = h
      BY <1>2, <2>1, <3>2
    <3>3. CASE j = i /\ FoundBy(b[i])
      <4>1. PICK k \in 1 .. n - 1 : b[i] = e[k]
        BY <1>1, <2>6, <3>3
      <4>2. h.score <= b[i].score
        <5>1. k \in DOMAIN e /\ n \in DOMAIN e /\ k < n /\ e[k].row = e[n].row /\ FoundBy(e[k])
          BY <1>2, <3>3, <4>1
        <5> QED
          BY <2>6, <4>1, <5>1 DEF Kept
      <4> QED
        BY <1>3, <4>2
    <3> QED
      BY <2>1, <2>6, <3>1, <3>2, <3>3
  <2> QED
    BY <1>0, <2>4, <2>5, <2>6 DEF BestOK
<1> QED
  BY <1>1, <1>4, <1>5, <1>6, PlaceIs

LEMMA BestFacts ==
    ASSUME NEW e \in Seq(Hits)
    PROVE  BestOK(BestOfEach(e), e, Len(e))
<1> PICK n \in Nat : n = Len(e)
  OBVIOUS
<1> DEFINE V == {b \in Seq(Hits) : Apart(b)}
           inv == [i \in 0 .. n |-> {b \in V : BestOK(b, e, i)}]
<1>1. PlaceStays(V, Hits)
  <2> SUFFICES ASSUME NEW b \in Seq(Hits), Apart(b), NEW h \in Hits
               PROVE  Place(b, h) \in Seq(Hits) /\ Apart(Place(b, h))
    BY DEF PlaceStays
  <2> QED
    BY PlaceTyped
<1>2. <<>> \in V
  BY DEF Apart
<1>3. <<>> \in inv[0]
  <2>1. BestOK(<<>>, e, 0)
    BY DEF BestOK, Apart
  <2> QED
    BY <1>2, <2>1
<1>4. PICK acc : PlacePasses(V, <<>>, e, acc)
  <2> HIDE DEF V
  <2> QED
    BY <1>1, <1>2, PlaceRuns, Zenon
<1>5. acc[0] = <<>> /\ \A i \in 1 .. n : acc[i] = Place(acc[i - 1], e[i])
  BY <1>4 DEF PlacePasses
<1>6. BestOfEach(e) = acc[n]
  BY <1>4, Zenon DEF PlacePasses, BestOfEach
<1>7. \A i \in 1 .. n : acc[i - 1] \in inv[i - 1] => acc[i] \in inv[i]
  <2> TAKE i \in 1 .. n
  <2> HAVE acc[i - 1] \in inv[i - 1]
  <2>1. i - 1 \in 0 .. n /\ i \in 0 .. n /\ i \in 1 .. Len(e)
    OBVIOUS
  <2>2. BestOK(acc[i - 1], e, i - 1)
    BY <2>1
  <2>3. BestOK(Place(acc[i - 1], e[i]), e, i)
    BY <2>1, <2>2, PlaceGoesOn
  <2>4. BestOK(acc[i], e, i)
    BY <1>5, <2>3
  <2>5. acc[i] \in V
    BY <2>4 DEF BestOK
  <2> QED
    BY <2>1, <2>4, <2>5
<1>8. acc[n] \in inv[n]
  <2> HIDE DEF inv
  <2> QED
    BY <1>3, <1>5, <1>7, Along
<1> QED
  BY <1>6, <1>8

(* Of sorted hits, those that repeat none before them.                     *)
Falling(t) == \A i, j \in DOMAIN t : i < j => t[i].score >= t[j].score

Stands(g, h) == (g.row = h.row \/ Repeats(g.row, h.row)) /\ g.score >= h.score

KeptOK(d, t, n) ==
    /\ d \in Seq(Hits)
    /\ \A j \in DOMAIN d : \E k \in 1 .. n : d[j] = t[k]
    /\ \A k \in 1 .. n : \E j \in DOMAIN d : Stands(d[j], t[k])
    /\ \A i, j \in DOMAIN d : i # j => d[i].row # d[j].row /\ ~Repeats(d[i].row, d[j].row)

LEMMA AdmitGoesOn ==
    ASSUME NEW t, NEW n, NEW d
    PROVE  /\ t \in Seq(Hits) /\ Apart(t) /\ Falling(t) /\ n \in 1 .. Len(t) /\ KeptOK(d, t, n - 1)
           => KeptOK(Admit(d, t[n]), t, n)
<1> SUFFICES ASSUME t \in Seq(Hits), Apart(t), Falling(t), n \in 1 .. Len(t), KeptOK(d, t, n - 1)
             PROVE  KeptOK(Admit(d, t[n]), t, n)
  OBVIOUS
<1> PICK h \in Hits : h = t[n]
  OBVIOUS
<1>1. /\ d \in Seq(Hits)
      /\ \A j \in DOMAIN d : \E k \in 1 .. n - 1 : d[j] = t[k]
      /\ \A k \in 1 .. n - 1 : \E j \in DOMAIN d : Stands(d[j], t[k])
      /\ \A i, j \in DOMAIN d : i # j => d[i].row # d[j].row /\ ~Repeats(d[i].row, d[j].row)
  BY DEF KeptOK
<1>2. /\ n \in 1 .. n /\ \A k \in 1 .. n - 1 : k \in 1 .. n /\ k < n /\ k \in DOMAIN t
      /\ n \in DOMAIN t /\ \A k \in 1 .. n : k \in 1 .. n - 1 \/ k = n
  OBVIOUS
<1>3. h.row \in Passages /\ h.score \in Nat /\ \A j \in DOMAIN d : d[j].row \in Passages
  BY <1>1, HitsFacts DEF Hits
<1> PICK f : f = Admit(d, h)
  OBVIOUS
<1>4. CASE \E p \in Rows(d) : Repeats(h.row, p)
  <2>1. f = d
    BY <1>4 DEF Admit
  <2>2. PICK j \in DOMAIN d : Repeats(h.row, d[j].row)
    BY <1>4 DEF Rows
  <2>3. Repeats(d[j].row, h.row)
    BY <1>3, <2>2, RepeatsBack
  <2>4. d[j].score >= h.score
    <3>1. PICK k \in 1 .. n - 1 : d[j] = t[k]
      BY <1>1
    <3>2. t[k].score >= t[n].score
      BY <1>2 DEF Falling
    <3> QED
      BY <3>1, <3>2
  <2>5. Stands(d[j], t[n])
    BY <2>3, <2>4 DEF Stands
  <2>6. \A k \in 1 .. n : \E i \in DOMAIN f : Stands(f[i], t[k])
    BY <1>1, <1>2, <2>1, <2>5
  <2>7. \A i \in DOMAIN f : \E k \in 1 .. n : f[i] = t[k]
    BY <1>1, <1>2, <2>1
  <2>8. /\ f \in Seq(Hits)
        /\ \A a, b \in DOMAIN f : a # b => f[a].row # f[b].row /\ ~Repeats(f[a].row, f[b].row)
    BY <1>1, <2>1
  <2> QED
    BY <2>6, <2>7, <2>8 DEF KeptOK
<1>5. CASE \A p \in Rows(d) : ~Repeats(h.row, p)
  <2>0. f = Append(d, h)
    BY <1>5 DEF Admit
  <2>1. f \in Seq(Hits) /\ Grown(f, d, h)
    BY <1>1, <2>0, AppendFacts
  <2>2. PICK l \in DOMAIN f : /\ f[l] = h
                              /\ \A i \in DOMAIN d : i \in DOMAIN f /\ f[i] = d[i]
                              /\ \A i \in DOMAIN f : i \in DOMAIN d \/ i = l
    BY <2>1 DEF Grown
  <2>3. Stands(h, h)
    BY <1>3 DEF Stands
  <2>4. \A k \in 1 .. n : \E i \in DOMAIN f : Stands(f[i], t[k])
    <3> TAKE k \in 1 .. n
    <3>1. CASE k = n
      BY <2>2, <2>3, <3>1
    <3>2. CASE k \in 1 .. n - 1
      BY <1>1, <2>2, <3>2
    <3> QED
      BY <1>2, <3>1, <3>2
  <2>5. \A i \in DOMAIN f : \E k \in 1 .. n : f[i] = t[k]
    <3> TAKE i \in DOMAIN f
    <3>1. CASE i = l
      BY <1>2, <2>2, <3>1
    <3>2. CASE i \in DOMAIN d
      <4>1. PICK k \in 1 .. n - 1 : d[i] = t[k]
        BY <1>1, <3>2
      <4> QED
        BY <1>2, <2>2, <3>2, <4>1
    <3> QED
      BY <2>2, <3>1, <3>2
  <2>6. \A i \in DOMAIN d : /\ d[i].row # h.row /\ ~Repeats(h.row, d[i].row)
                            /\ ~Repeats(d[i].row, h.row)
    <3> TAKE i \in DOMAIN d
    <3>1. PICK k \in 1 .. n - 1 : d[i] = t[k]
      BY <1>1
    <3>2. t[k].row # t[n].row
      BY <1>2 DEF Apart
    <3>3. ~Repeats(h.row, d[i].row)
      BY <1>5 DEF Rows
    <3>4. ~Repeats(d[i].row, h.row)
      BY <1>3, <3>3, RepeatsBack
    <3> QED
      BY <3>1, <3>2, <3>3, <3>4
  <2>7. \A i, j \in DOMAIN f : i # j => f[i].row # f[j].row /\ ~Repeats(f[i].row, f[j].row)
    <3> TAKE i, j \in DOMAIN f
    <3> HAVE i # j
    <3>1. CASE i \in DOMAIN d /\ j \in DOMAIN d
      <4>1. f[i] = d[i] /\ f[j] = d[j]
        BY <2>2, <3>1
      <4>2. d[i].row # d[j].row /\ ~Repeats(d[i].row, d[j].row)
        BY <1>1, <3>1, Zenon
      <4> QED
        BY <4>1, <4>2
    <3>2. CASE i = l /\ j \in DOMAIN d
      BY <2>2, <2>6, <3>2
    <3>3. CASE i \in DOMAIN d /\ j = l
      BY <2>2, <2>6, <3>3
    <3> QED
      BY <2>2, <3>1, <3>2, <3>3
  <2> QED
    BY <2>1, <2>4, <2>5, <2>7 DEF KeptOK
<1> QED
  BY <1>4, <1>5

LEMMA SuppressFacts ==
    ASSUME NEW t \in Seq(Hits), Apart(t), Falling(t)
    PROVE  KeptOK(SuppressNearDuplicates(t), t, Len(t))
<1> PICK n \in Nat : n = Len(t)
  OBVIOUS
<1> DEFINE V == Seq(Hits)
           inv == [i \in 0 .. n |-> {d \in V : KeptOK(d, t, i)}]
<1>1. AdmitStays(V, Hits)
  <2> SUFFICES ASSUME NEW d \in Seq(Hits), NEW h \in Hits
               PROVE  Admit(d, h) \in Seq(Hits)
    BY DEF AdmitStays
  <2> QED
    BY DEF Admit
<1>2. <<>> \in V
  OBVIOUS
<1>3. <<>> \in inv[0]
  <2>1. KeptOK(<<>>, t, 0)
    BY DEF KeptOK
  <2> QED
    BY <1>2, <2>1
<1>4. PICK acc : AdmitPasses(V, <<>>, t, acc)
  <2> HIDE DEF V
  <2> QED
    BY <1>1, <1>2, AdmitRuns, Zenon
<1>5. acc[0] = <<>> /\ \A i \in 1 .. n : acc[i] = Admit(acc[i - 1], t[i])
  BY <1>4 DEF AdmitPasses
<1>6. SuppressNearDuplicates(t) = acc[n]
  BY <1>4, Zenon DEF AdmitPasses, SuppressNearDuplicates
<1>7. \A i \in 1 .. n : acc[i - 1] \in inv[i - 1] => acc[i] \in inv[i]
  <2> TAKE i \in 1 .. n
  <2> HAVE acc[i - 1] \in inv[i - 1]
  <2>1. i - 1 \in 0 .. n /\ i \in 0 .. n /\ i \in 1 .. Len(t)
    OBVIOUS
  <2>2. KeptOK(acc[i - 1], t, i - 1)
    BY <2>1
  <2>3. KeptOK(Admit(acc[i - 1], t[i]), t, i)
    BY <2>1, <2>2, AdmitGoesOn
  <2>4. KeptOK(acc[i], t, i)
    BY <1>5, <2>3
  <2>5. acc[i] \in V
    BY <2>4 DEF KeptOK
  <2> QED
    BY <2>1, <2>4, <2>5
<1>8. acc[n] \in inv[n]
  <2> HIDE DEF inv
  <2> QED
    BY <1>3, <1>5, <1>7, Along
<1> QED
  BY <1>6, <1>8

(* What de-duplication hands on: for each hit one at least as good of its   *)
(* row or of a row that repeats it, no two of the same text, and those a    *)
(* search measured as the search left them.                                *)
DedupOK(d, e) ==
    /\ d \in Seq(Hits) /\ Apart(d)
    /\ \A k \in DOMAIN e : \E j \in DOMAIN d : Stands(d[j], e[k])
    /\ \A i, j \in DOMAIN d : i # j => ~Repeats(d[i].row, d[j].row)
    /\ \A j \in DOMAIN d : \E k \in DOMAIN e : d[j].row = e[k].row
    /\ Kept(e) => \A j \in DOMAIN d : FoundBy(d[j]) => \E k \in DOMAIN e : d[j] = e[k]

Rearranged(t, b) ==
    /\ \A i \in DOMAIN t : \E j \in DOMAIN b : t[i] = b[j]
    /\ \A j \in DOMAIN b : \E i \in DOMAIN t : t[i] = b[j]

LEMMA SortedSame ==
    ASSUME NEW b, NEW t
    PROVE  b \in Seq(Hits) /\ Apart(b) /\ Sorted(t, b) => Rearranged(t, b) /\ Falling(t) /\ Apart(t)
<1> SUFFICES ASSUME b \in Seq(Hits), Apart(b), Sorted(t, b)
             PROVE  Rearranged(t, b) /\ Falling(t) /\ Apart(t)
  OBVIOUS
<1>1. \A i, j \in DOMAIN t : i < j => t[i].score >= t[j].score
  BY SortedFacts
<1>2. Apart(t)
  BY SortedFacts
<1>3. \A i \in DOMAIN t : \E j \in DOMAIN b : t[i] = b[j]
  BY SortedFacts
<1>4. \A j \in DOMAIN b : \E i \in DOMAIN t : t[i] = b[j]
  BY SortedFacts
<1>5. Rearranged(t, b)
  BY <1>3, <1>4, Zenon DEF Rearranged
<1>6. Falling(t)
  BY <1>1, Zenon DEF Falling
<1> QED
  BY <1>2, <1>5, <1>6

LEMMA DeduplicateFacts ==
    ASSUME NEW e \in Seq(Hits)
    PROVE  DedupOK(Deduplicate(e), e)
<1> PICK b : b = BestOfEach(e)
  OBVIOUS
<1> PICK t : t = ByScore(b)
  OBVIOUS
<1> PICK d : d = SuppressNearDuplicates(t)
  OBVIOUS
<1>d. d = Deduplicate(e)
  BY DEF Deduplicate
<1>e. DOMAIN e = 1 .. Len(e)
  OBVIOUS
<1>1. /\ b \in Seq(Hits) /\ Apart(b)
      /\ \A k \in DOMAIN e : \E j \in DOMAIN b : b[j].row = e[k].row /\ b[j].score >= e[k].score
      /\ \A j \in DOMAIN b : \E k \in DOMAIN e : b[j].row = e[k].row
      /\ Kept(e) => \A j \in DOMAIN b : FoundBy(b[j]) => \E k \in DOMAIN e : b[j] = e[k]
  <2>1. BestOK(b, e, Len(e))
    BY BestFacts
  <2> QED
    BY <1>e, <2>1, Zenon DEF BestOK
<1>2. t \in Seq(Hits) /\ Sorted(t, b)
  BY <1>1, ByScoreFacts
<1>3. /\ \A i \in DOMAIN t : \E j \in DOMAIN b : t[i] = b[j]
      /\ \A j \in DOMAIN b : \E i \in DOMAIN t : t[i] = b[j]
      /\ Falling(t) /\ Apart(t)
  <2>1. Rearranged(t, b) /\ Falling(t) /\ Apart(t)
    BY <1>1, <1>2, SortedSame, Zenon
  <2> QED
    BY <2>1, Zenon DEF Rearranged
<1>4. DOMAIN t = 1 .. Len(t)
  BY <1>2
<1>5. /\ d \in Seq(Hits)
      /\ \A j \in DOMAIN d : \E k \in DOMAIN t : d[j] = t[k]
      /\ \A k \in DOMAIN t : \E j \in DOMAIN d : Stands(d[j], t[k])
      /\ \A i, j \in DOMAIN d : i # j => d[i].row # d[j].row /\ ~Repeats(d[i].row, d[j].row)
  <2>1. KeptOK(d, t, Len(t))
    BY <1>2, <1>3, SuppressFacts
  <2>2. /\ d \in Seq(Hits)
        /\ \A j \in DOMAIN d : \E k \in 1 .. Len(t) : d[j] = t[k]
        /\ \A k \in 1 .. Len(t) : \E j \in DOMAIN d : Stands(d[j], t[k])
        /\ \A i, j \in DOMAIN d : i # j => d[i].row # d[j].row /\ ~Repeats(d[i].row, d[j].row)
    BY <2>1, Zenon DEF KeptOK
  <2>3. \A k : k \in DOMAIN t <=> k \in 1 .. Len(t)
    BY <1>4
  <2>4. \A j \in DOMAIN d : \E k \in DOMAIN t : d[j] = t[k]
    <3> TAKE j \in DOMAIN d
    <3>1. PICK k \in 1 .. Len(t) : d[j] = t[k]
      BY <2>2
    <3> QED
      BY <2>3, <3>1
  <2>5. \A k \in DOMAIN t : \E j \in DOMAIN d : Stands(d[j], t[k])
    <3> TAKE k \in DOMAIN t
    <3> QED
      BY <2>2, <2>3
  <2> QED
    BY <2>2, <2>4, <2>5, Zenon
<1>6. \A k \in DOMAIN e : \E j \in DOMAIN d : Stands(d[j], e[k])
  <2> TAKE k \in DOMAIN e
  <2>1. PICK j \in DOMAIN b : b[j].row = e[k].row /\ b[j].score >= e[k].score
    BY <1>1
  <2>2. PICK i \in DOMAIN t : t[i] = b[j]
    BY <1>3
  <2>3. PICK l \in DOMAIN d : Stands(d[l], t[i])
    BY <1>5
  <2> PICK x \in Nat : x = e[k].score
    BY HitsFacts
  <2> PICK y \in Nat : y = b[j].score
    BY <1>1, HitsFacts
  <2> PICK z \in Nat : z = d[l].score
    BY <1>5, HitsFacts
  <2>4. y >= x /\ z >= y
    BY <2>1, <2>2, <2>3 DEF Stands
  <2>5. z >= x
    BY <2>4
  <2>6. d[l].row = e[k].row \/ Repeats(d[l].row, e[k].row)
    BY <2>1, <2>2, <2>3 DEF Stands
  <2> QED
    BY <2>5, <2>6 DEF Stands
<1>7. \A j \in DOMAIN d : \E i \in DOMAIN b : d[j] = b[i]
  <2> TAKE j \in DOMAIN d
  <2>1. PICK k \in DOMAIN t : d[j] = t[k]
    BY <1>5
  <2>2. PICK i \in DOMAIN b : t[k] = b[i]
    BY <1>3
  <2> QED
    BY <2>1, <2>2
<1>8. \A j \in DOMAIN d : \E k \in DOMAIN e : d[j].row = e[k].row
  <2> TAKE j \in DOMAIN d
  <2>1. PICK i \in DOMAIN b : d[j] = b[i]
    BY <1>7
  <2>2. PICK k \in DOMAIN e : b[i].row = e[k].row
    BY <1>1
  <2> QED
    BY <2>1, <2>2
<1>9. ASSUME Kept(e), NEW j \in DOMAIN d, FoundBy(d[j]) PROVE \E k \in DOMAIN e : d[j] = e[k]
  <2>1. PICK i \in DOMAIN b : d[j] = b[i]
    BY <1>7
  <2>2. FoundBy(b[i])
    BY <1>9, <2>1
  <2>3. PICK k \in DOMAIN e : b[i] = e[k]
    BY <1>1, <1>9, <2>2
  <2> QED
    BY <2>1, <2>3
<1>10. Apart(d) /\ \A i, j \in DOMAIN d : i # j => ~Repeats(d[i].row, d[j].row)
  BY <1>5 DEF Apart
<1>11. DedupOK(d, e)
  BY <1>5, <1>6, <1>8, <1>9, <1>10 DEF DedupOK
<1> QED
  BY <1>d, <1>11

-----------------------------------------------------------------------------
(* Re-ranking.                                                             *)

Judged(n, scored, sc, me) ==
    [j \in 1 .. n |->
        IF j \in scored THEN {i \in scored : \/ sc[i] > sc[j]
                                             \/ sc[i] = sc[j] /\ me[i] < me[j]}
        ELSE scored \union {i \in 1 .. n : i < j}]

LEMMA JudgedOrders ==
    ASSUME NEW n \in Nat, NEW scored \in SUBSET (1 .. n), NEW sc \in [scored -> Nat],
           NEW me \in [scored -> Nat], \A i, j \in scored : me[i] = me[j] => i = j
    PROVE  Orders(Judged(n, scored, sc, me), 1 .. n)
<1> DEFINE S == 1 .. n
           a == Judged(n, scored, sc, me)
<1>1. IsFiniteSet(S)
  BY PlacesCount
<1>2. /\ \A i \in scored : i \in S /\ sc[i] \in Nat /\ me[i] \in Nat
      /\ \A i \in S : i \in Int
  OBVIOUS
<1>3. \A j \in S : j \in scored => a[j] = {i \in scored : \/ sc[i] > sc[j]
                                                          \/ sc[i] = sc[j] /\ me[i] < me[j]}
  BY DEF Judged
<1>4. \A j \in S : j \notin scored => a[j] = scored \union {i \in S : i < j}
  BY DEF Judged
<1>m. \A i, j \in scored : me[i] = me[j] => i = j
  OBVIOUS
<1> HIDE DEF a, S
<1>5. \A x \in S : a[x] \in SUBSET (S \ {x})
  <2> TAKE x \in S
  <2>1. CASE x \in scored
    <3>1. \A z \in a[x] : z \in scored /\ (sc[z] > sc[x] \/ (sc[z] = sc[x] /\ me[z] < me[x]))
      BY <1>3, <2>1
    <3>2. \A z \in a[x] : z \in S /\ z # x
      <4> TAKE z \in a[x]
      <4>1. z \in scored /\ (sc[z] > sc[x] \/ (sc[z] = sc[x] /\ me[z] < me[x]))
        BY <3>1
      <4>2. sc[x] \in Nat /\ me[x] \in Nat /\ z \in S
        BY <1>2, <2>1, <4>1
      <4> QED
        BY <4>1, <4>2
    <3> QED
      BY <3>2
  <2>2. CASE x \notin scored
    <3>1. \A z \in a[x] : z \in scored \/ (z \in S /\ z < x)
      BY <1>4, <2>2
    <3>2. \A z \in a[x] : z \in S /\ z # x
      <4> TAKE z \in a[x]
      <4>1. z \in scored \/ (z \in S /\ z < x)
        BY <3>1
      <4>2. CASE z \in scored
        BY <1>2, <2>2, <4>2
      <4>3. CASE z \in S /\ z < x
        <5>1. z \in Int /\ x \in Int
          BY <1>2, <4>3
        <5> QED
          BY <4>3, <5>1
      <4> QED
        BY <4>1, <4>2, <4>3
    <3> QED
      BY <3>2
  <2> QED
    BY <2>1, <2>2
<1>6. \A x, y \in S : x # y => x \in a[y] \/ y \in a[x]
  <2> TAKE x, y \in S
  <2> HAVE x # y
  <2>1. CASE x \in scored /\ y \in scored
    <3>1. me[x] # me[y] /\ me[x] \in Nat /\ me[y] \in Nat /\ sc[x] \in Nat /\ sc[y] \in Nat
      BY <1>2, <1>m, <2>1
    <3>2. x \in a[y] <=> \/ sc[x] > sc[y]
                         \/ sc[x] = sc[y] /\ me[x] < me[y]
      BY <1>3, <2>1
    <3>3. y \in a[x] <=> \/ sc[y] > sc[x]
                         \/ sc[y] = sc[x] /\ me[y] < me[x]
      BY <1>3, <2>1
    <3> QED
      BY <3>1, <3>2, <3>3
  <2>2. CASE x \in scored /\ y \notin scored
    BY <1>4, <2>2
  <2>3. CASE x \notin scored /\ y \in scored
    BY <1>4, <2>3
  <2>4. CASE x \notin scored /\ y \notin scored
    BY <1>2, <1>4, <2>4
  <2> QED
    BY <2>1, <2>2, <2>3, <2>4
<1>7. \A x, y \in S : x \in a[y] => a[x] \subseteq a[y]
  <2> SUFFICES ASSUME NEW x \in S, NEW y \in S, x \in a[y], NEW z \in a[x] PROVE z \in a[y]
    OBVIOUS
  <2>1. CASE y \in scored
    <3>1. x \in scored /\ (sc[x] > sc[y] \/ (sc[x] = sc[y] /\ me[x] < me[y]))
      BY <1>3, <2>1
    <3>2. z \in scored /\ (sc[z] > sc[x] \/ (sc[z] = sc[x] /\ me[z] < me[x]))
      BY <1>3, <3>1
    <3>3. sc[z] > sc[y] \/ (sc[z] = sc[y] /\ me[z] < me[y])
      BY <1>2, <2>1, <3>1, <3>2
    <3> QED
      BY <1>3, <2>1, <3>2, <3>3
  <2>2. CASE y \notin scored /\ x \in scored
    BY <1>3, <1>4, <2>2
  <2>3. CASE y \notin scored /\ x \notin scored
    <3>1. x < y
      BY <1>4, <2>3
    <3>2. z \in scored \/ (z \in S /\ z < x)
      BY <1>4, <2>3
    <3>3. z \in scored \/ (z \in S /\ z < y)
      BY <1>2, <3>1, <3>2
    <3> QED
      BY <1>4, <2>3, <3>3
  <2> QED
    BY <2>1, <2>2, <2>3
<1>8. Orders(a, S)
  BY <1>1, <1>5, <1>6, <1>7 DEF Orders
<1> QED
  BY <1>8 DEF a, S

LEMMA NamedFacts ==
    ASSUME NEW ranking \in Seq(Wanted), NEW i \in Nat, Named(ranking, i) # {}
    PROVE  /\ ScoreOf(ranking, i) \in 0 .. 100 /\ ScoreOf(ranking, i) \in Nat
           /\ Mention(ranking, i) \in Nat
           /\ Mention(ranking, i) \in DOMAIN ranking
           /\ ranking[Mention(ranking, i)].index = i - 1
<1> PICK S : S = Named(ranking, i)
  OBVIOUS
<1>1. DOMAIN ranking = 1 .. Len(ranking) /\ Len(ranking) \in Nat
  OBVIOUS
<1> PICK n \in Nat : n = Len(ranking)
  BY <1>1
<1>2. S \in SUBSET (1 .. n) /\ S # {} /\ \A k \in S : ranking[k].index = i - 1
  BY <1>1 DEF Named
<1>3. Max(S) \in S
  BY <1>2, MaxUpTo
<1>4. IsFiniteSet(S) /\ S \in SUBSET Int
  BY <1>2, PlacesCount, FS_Subset
<1>5. Min(S) \in S
  BY <1>2, <1>4, MinFacts
<1>6. Max(S) \in DOMAIN ranking /\ Min(S) \in DOMAIN ranking /\ Min(S) \in Nat
  BY <1>1, <1>2, <1>3, <1>5
<1>7. ranking[Max(S)] \in Wanted
  BY <1>6
<1>8. ranking[Max(S)].score \in 0 .. 100
  BY <1>7 DEF Wanted
<1> QED
  <2>0. \A x \in 0 .. 100 : x \in Nat
    OBVIOUS
  <2>1. ranking[Max(S)].score \in Nat
    BY <1>8, <2>0, Zenon
  <2> QED
    BY <1>2, <1>5, <1>6, <1>8, <2>1 DEF ScoreOf, Mention

SameHit(g, h) ==
    g.row = h.row /\ g.score = h.score /\ g.source = h.source /\ g.similarity = h.similarity

Shuffled(r, d) ==
    /\ r \in Seq(Hits) /\ Apart(r)
    /\ \A i \in DOMAIN r : \E j \in DOMAIN d : SameHit(r[i], d[j])
    /\ \A j \in DOMAIN d : \E i \in DOMAIN r : SameHit(r[i], d[j])

(* A hit with the relevance the model gave it.                             *)
Relevant(h, x) == [h EXCEPT !.relevance = x]

LEMMA RelevantFacts ==
    ASSUME NEW h \in Hits, NEW x \in 0 .. 100
    PROVE  Relevant(h, x) \in Hits /\ SameHit(Relevant(h, x), h)
<1>1. x \in Measure
  BY DEF Measure
<1> QED
  BY <1>1 DEF Relevant, SameHit, Hits

LEMMA ApplyFacts ==
    ASSUME NEW ranking \in Seq(Wanted), NEW d \in Seq(Hits), Apart(d)
    PROVE  Shuffled(Apply(ranking, d), d)
<1> PICK n \in Nat : n = Len(d) /\ DOMAIN d = 1 .. n
  OBVIOUS
<1> PICK scored : scored = {i \in DOMAIN d : Named(ranking, i) # {}}
  OBVIOUS
<1> DEFINE sc == [i \in scored |-> ScoreOf(ranking, i)]
           me == [i \in scored |-> Mention(ranking, i)]
           judged(i) == IF i \in scored THEN [d[i] EXCEPT !.relevance = ScoreOf(ranking, i)]
                        ELSE d[i]
<1>1. scored \in SUBSET (1 .. n) /\ \A i \in scored : i \in Nat /\ Named(ranking, i) # {}
  OBVIOUS
<1>2. /\ \A i \in scored : ScoreOf(ranking, i) \in 0 .. 100 /\ Mention(ranking, i) \in Nat
      /\ \A i \in scored : ScoreOf(ranking, i) \in Nat
      /\ \A i \in scored : ranking[Mention(ranking, i)].index = i - 1
  BY <1>1, NamedFacts
<1>3. sc \in [scored -> Nat] /\ me \in [scored -> Nat]
  <2>1. \A i \in scored : ScoreOf(ranking, i) \in Nat /\ Mention(ranking, i) \in Nat
    BY <1>2, Zenon
  <2> QED
    BY <2>1
<1>4. \A i, j \in scored : me[i] = me[j] => i = j
  <2> TAKE i, j \in scored
  <2> HAVE me[i] = me[j]
  <2>1. i - 1 = j - 1
    BY <1>2
  <2> QED
    BY <1>1, <2>1
<1> DEFINE a == Judged(n, scored, sc, me)
<1>5. Orders(a, 1 .. n)
  <2> HIDE DEF sc, me
  <2> QED
    BY <1>1, <1>3, <1>4, JudgedOrders
<1>6. a = [j \in DOMAIN d |->
             IF j \in scored
             THEN {i \in scored : \/ ScoreOf(ranking, i) > ScoreOf(ranking, j)
                                  \/ /\ ScoreOf(ranking, i) = ScoreOf(ranking, j)
                                     /\ Mention(ranking, i) < Mention(ranking, j)}
             ELSE scored \union {i \in DOMAIN d : i < j}]
  BY DEF Judged
<1> HIDE DEF a
<1> PICK order : order = InOrder(1 .. n, a)
  OBVIOUS
<1>7. InTurn(order, a, 1 .. n) /\ Cardinality(1 .. n) = n
  BY <1>5, OrderFacts, PlacesCount
<1>8. /\ order \in [1 .. n -> 1 .. n]
      /\ \A x \in 1 .. n : \E i \in 1 .. n : order[i] = x
      /\ \A i, j \in 1 .. n : i < j <=> order[i] \in a[order[j]]
  BY <1>7 DEF InTurn
<1>9. \A i, j \in 1 .. n : order[i] = order[j] => i = j
  <2> SUFFICES ASSUME NEW i \in 1 .. n, NEW j \in 1 .. n, i # j, order[i] = order[j] PROVE FALSE
    OBVIOUS
  <2>1. order[i] \in 1 .. n /\ order[i] \notin a[order[i]]
    BY <1>5, <1>8 DEF Orders
  <2>2. i < j \/ j < i
    OBVIOUS
  <2> QED
    BY <1>8, <2>1, <2>2
<1> PICK t : t = [k \in DOMAIN order |-> judged(order[k])]
  OBVIOUS
<1>10. t = Apply(ranking, d)
  <2> HIDE DEF sc, me
  <2> QED
    BY <1>6 DEF Apply
<1>11. \A i \in 1 .. n : judged(i) \in Hits /\ SameHit(judged(i), d[i])
  <2> TAKE i \in 1 .. n
  <2>1. d[i] \in Hits
    BY HitsFacts
  <2>2. CASE i \in scored
    BY <1>2, <2>1, <2>2, RelevantFacts DEF Relevant
  <2>3. CASE i \notin scored
    BY <2>1, <2>3 DEF SameHit
  <2> QED
    BY <2>2, <2>3
<1> HIDE DEF judged, sc, me
<1>12. DOMAIN t = 1 .. n /\ \A k \in 1 .. n : t[k] = judged(order[k])
  BY <1>8
<1>13. t \in Seq(Hits)
  <2>1. t \in [1 .. n -> Hits]
    BY <1>8, <1>11, <1>12
  <2> QED
    BY <2>1, SeqIs
<1>14. \A k \in 1 .. n : SameHit(t[k], d[order[k]])
  BY <1>8, <1>11, <1>12
<1>15. Apart(t)
  <2>1. \A i, j \in 1 .. n : i # j => t[i].row # t[j].row
    <3> TAKE i, j \in 1 .. n
    <3> HAVE i # j
    <3>1. order[i] \in DOMAIN d /\ order[j] \in DOMAIN d /\ order[i] # order[j]
      BY <1>8, <1>9
    <3>2. d[order[i]].row # d[order[j]].row
      BY <3>1, Zenon DEF Apart
    <3> QED
      BY <1>14, <3>2 DEF SameHit
  <2> QED
    <3> SUFFICES ASSUME NEW i \in DOMAIN t, NEW j \in DOMAIN t, i # j PROVE t[i].row # t[j].row
      BY DEF Apart
    <3>1. i \in 1 .. n /\ j \in 1 .. n
      BY <1>12
    <3> QED
      BY <2>1, <3>1
<1>16. Shuffled(t, d)
  <2>1. \A i \in DOMAIN t : \E j \in DOMAIN d : SameHit(t[i], d[j])
    BY <1>8, <1>12, <1>14
  <2>2. \A j \in DOMAIN d : \E i \in DOMAIN t : SameHit(t[i], d[j])
    BY <1>8, <1>12, <1>14
  <2> QED
    BY <1>13, <1>15, <2>1, <2>2 DEF Shuffled
<1> QED
  BY <1>10, <1>16

LEMMA RankedFacts ==
    ASSUME NEW ranking \in Seq(Wanted), NEW d \in Seq(Hits), Apart(d)
    PROVE  Shuffled(Ranked(ranking, d), d)
<1>1. Shuffled(d, d)
  BY DEF Shuffled, SameHit
<1> QED
  BY <1>1, ApplyFacts DEF Ranked

-----------------------------------------------------------------------------
(* The parts of a re-ranked list.                                          *)
JoinsOf(s, a, b) ==
    /\ s \in Seq(Hits) /\ Apart(s)
    /\ \A i \in DOMAIN s : \/ \E j \in DOMAIN a : s[i] = a[j]
                           \/ \E j \in DOMAIN b : s[i] = b[j]
    /\ \A j \in DOMAIN a : \E i \in DOMAIN s : s[i] = a[j]
    /\ \A j \in DOMAIN b : \E i \in DOMAIN s : s[i] = b[j]

Distinct(a, b) == \A i \in DOMAIN a, j \in DOMAIN b : a[i].row # b[j].row

LEMMA JoinsFacts ==
    ASSUME NEW a \in Seq(Hits), NEW b \in Seq(Hits), Apart(a), Apart(b), Distinct(a, b),
           NEW s, s = a \o b
    PROVE  JoinsOf(s, a, b)
<1>1. s \in Seq(Hits) /\ Joined(s, a, b)
  BY JoinFacts
<1>2. /\ \A i \in DOMAIN a : i \in DOMAIN s /\ s[i] = a[i]
      /\ \A j \in DOMAIN b : Len(a) + j \in DOMAIN s /\ s[Len(a) + j] = b[j]
      /\ \A i \in DOMAIN s : i \in DOMAIN a \/ \E j \in DOMAIN b : i = Len(a) + j
  BY <1>1 DEF Joined
<1>3. \A i \in DOMAIN s : \/ i \in DOMAIN a /\ s[i] = a[i]
                          \/ \E j \in DOMAIN b : i = Len(a) + j /\ s[i] = b[j]
  BY <1>2
<1>4. Apart(s)
  <2> SUFFICES ASSUME NEW i \in DOMAIN s, NEW j \in DOMAIN s, i # j PROVE s[i].row # s[j].row
    BY DEF Apart
  <2>1. CASE i \in DOMAIN a /\ s[i] = a[i] /\ j \in DOMAIN a /\ s[j] = a[j]
    BY <2>1 DEF Apart
  <2>2. CASE (i \in DOMAIN a /\ s[i] = a[i]) /\ (\E l \in DOMAIN b : j = Len(a) + l /\ s[j] = b[l])
    BY <2>2 DEF Distinct
  <2>3. CASE (j \in DOMAIN a /\ s[j] = a[j]) /\ (\E l \in DOMAIN b : i = Len(a) + l /\ s[i] = b[l])
    BY <2>3 DEF Distinct
  <2>4. CASE (\E l \in DOMAIN b : i = Len(a) + l /\ s[i] = b[l])
               /\ (\E l \in DOMAIN b : j = Len(a) + l /\ s[j] = b[l])
    <3>1. PICK l \in DOMAIN b : i = Len(a) + l /\ s[i] = b[l]
      BY <2>4
    <3>2. PICK m \in DOMAIN b : j = Len(a) + m /\ s[j] = b[m]
      BY <2>4
    <3>3. l # m
      BY <3>1, <3>2
    <3> QED
      BY <3>1, <3>2, <3>3 DEF Apart
  <2> QED
    BY <1>3, <2>1, <2>2, <2>3, <2>4
<1>5. \A i \in DOMAIN s : \/ \E j \in DOMAIN a : s[i] = a[j]
                          \/ \E j \in DOMAIN b : s[i] = b[j]
  BY <1>3
<1>6. \A j \in DOMAIN a : \E i \in DOMAIN s : s[i] = a[j]
  BY <1>2
<1>7. \A j \in DOMAIN b : \E i \in DOMAIN s : s[i] = b[j]
  BY <1>2
<1> QED
  BY <1>1, <1>4, <1>5, <1>6, <1>7 DEF JoinsOf

LastExpansions(r) == \A i, j \in DOMAIN r : i < j /\ IsExpansion(r[i]) => IsExpansion(r[j])

LEMMA ExpansionsLast ==
    ASSUME NEW a \in Seq(Hits), NEW b \in Seq(Hits), NEW r, r = a \o b,
           \A i \in DOMAIN a : ~IsExpansion(a[i]), \A i \in DOMAIN b : IsExpansion(b[i])
    PROVE  LastExpansions(r)
<1>1. r \in Seq(Hits) /\ Joined(r, a, b)
  BY JoinFacts
<1>2. /\ \A i \in DOMAIN a : i \in DOMAIN r /\ r[i] = a[i]
      /\ \A j \in DOMAIN b : Len(a) + j \in DOMAIN r /\ r[Len(a) + j] = b[j]
      /\ \A i \in DOMAIN r : i \in DOMAIN a \/ \E j \in DOMAIN b : i = Len(a) + j
      /\ \A i \in DOMAIN a, j \in DOMAIN b : i < Len(a) + j
  BY <1>1 DEF Joined
<1> SUFFICES ASSUME NEW i \in DOMAIN r, NEW j \in DOMAIN r, i < j, IsExpansion(r[i])
             PROVE  IsExpansion(r[j])
  BY DEF LastExpansions
<1>3. i \notin DOMAIN a
  BY <1>2
<1>4. PICK k \in DOMAIN b : i = Len(a) + k
  BY <1>2, <1>3
<1>5. j \notin DOMAIN a
  <2> SUFFICES ASSUME j \in DOMAIN a PROVE FALSE
    OBVIOUS
  <2>1. j < i
    BY <1>2, <1>4
  <2>2. i \in Int /\ j \in Int
    BY <1>1, DOMAIN r = 1 .. Len(r), Len(r) \in Nat
  <2> QED
    BY <2>1, <2>2
<1>6. PICK l \in DOMAIN b : j = Len(a) + l
  BY <1>2, <1>5
<1> QED
  BY <1>2, <1>6

LEMMA SameSource ==
    ASSUME NEW g, NEW h, SameHit(g, h)
    PROVE  IsExpansion(g) <=> IsExpansion(h)
BY DEF SameHit, IsExpansion

LEMMA PrimaryFacts ==
    ASSUME NEW d \in Seq(Hits), Apart(d)
    PROVE  /\ Primary(d) \in Seq(Hits) /\ Apart(Primary(d))
           /\ \A i \in DOMAIN Primary(d) : \E j \in DOMAIN d : Primary(d)[i] = d[j] /\ ~IsExpansion(d[j])
           /\ \A j \in DOMAIN d : ~IsExpansion(d[j]) => \E i \in DOMAIN Primary(d) : Primary(d)[i] = d[j]
           /\ Expansions(d) \in Seq(Hits) /\ Apart(Expansions(d))
           /\ \A i \in DOMAIN Expansions(d) : \E j \in DOMAIN d : Expansions(d)[i] = d[j] /\ IsExpansion(d[j])
           /\ \A j \in DOMAIN d : IsExpansion(d[j]) => \E i \in DOMAIN Expansions(d) : Expansions(d)[i] = d[j]
<1> DEFINE P == {i \in DOMAIN d : ~IsExpansion(d[i])}
           X == {i \in DOMAIN d : IsExpansion(d[i])}
<1> PICK p : p = Primary(d)
  OBVIOUS
<1> PICK x : x = Expansions(d)
  OBVIOUS
<1>1. p = Those(d, P) /\ x = Those(d, X)
  BY DEF Primary, Expansions
<1>2. /\ P \in SUBSET (DOMAIN d) /\ X \in SUBSET (DOMAIN d)
      /\ \A j : j \in P <=> j \in DOMAIN d /\ ~IsExpansion(d[j])
      /\ \A j : j \in X <=> j \in DOMAIN d /\ IsExpansion(d[j])
  OBVIOUS
<1> HIDE DEF P, X
<1>3. /\ p \in Seq(Hits) /\ Apart(p)
      /\ \A i \in DOMAIN p : \E q \in P : p[i] = d[q]
      /\ \A q \in P : \E i \in DOMAIN p : p[i] = d[q]
  BY <1>1, <1>2, SelectedHits, SelectedApart
<1>4. /\ x \in Seq(Hits) /\ Apart(x)
      /\ \A i \in DOMAIN x : \E q \in X : x[i] = d[q]
      /\ \A q \in X : \E i \in DOMAIN x : x[i] = d[q]
  BY <1>1, <1>2, SelectedHits, SelectedApart
<1>5. \A i \in DOMAIN p : \E j \in DOMAIN d : p[i] = d[j] /\ ~IsExpansion(d[j])
  BY <1>2, <1>3
<1>6. \A i \in DOMAIN x : \E j \in DOMAIN d : x[i] = d[j] /\ IsExpansion(d[j])
  BY <1>2, <1>4
<1>7. \A j \in DOMAIN d : ~IsExpansion(d[j]) => \E i \in DOMAIN p : p[i] = d[j]
  BY <1>2, <1>3
<1>8. \A j \in DOMAIN d : IsExpansion(d[j]) => \E i \in DOMAIN x : x[i] = d[j]
  BY <1>2, <1>4
<1> QED
  BY <1>3, <1>4, <1>5, <1>6, <1>7, <1>8

LEMMA RerankFacts ==
    ASSUME NEW ranking \in Seq(Wanted), NEW d \in Seq(Hits), Apart(d), NEW topK \in Nat
    PROVE  Shuffled(Rerank(ranking, d, topK), d) /\ LastExpansions(Rerank(ranking, d, topK))
<1>p. PICK p : p = Primary(d)
  OBVIOUS
<1>x. PICK x : x = Expansions(d)
  OBVIOUS
<1>r. PICK ranked : ranked = Ranked(ranking, p)
  OBVIOUS
<1>k. PICK kept : kept = First(ranked, topK)
  OBVIOUS
<1>q. PICK Q : Q = {i \in DOMAIN d : /\ ~IsExpansion(d[i])
                                      /\ d[i].row \notin Rows(kept)}
  OBVIOUS
<1>t. PICK tail : tail = Those(d, Q)
  OBVIOUS
<1>m. PICK mid : mid = [i \in DOMAIN tail |-> ranked[RankOf(ranked, tail[i].row)]]
  OBVIOUS
<1>f. PICK front : front = kept \o mid
  OBVIOUS
<1>s. PICK r : r = front \o x
  OBVIOUS
<1>0. r = Rerank(ranking, d, topK)
  BY <1>p, <1>x, <1>r, <1>k, <1>q, <1>t, <1>m, <1>f, <1>s, Zenon DEF Rerank
<1>1. /\ p \in Seq(Hits) /\ Apart(p)
      /\ \A i \in DOMAIN p : \E j \in DOMAIN d : p[i] = d[j] /\ ~IsExpansion(d[j])
      /\ \A j \in DOMAIN d : ~IsExpansion(d[j]) => \E i \in DOMAIN p : p[i] = d[j]
      /\ x \in Seq(Hits) /\ Apart(x)
      /\ \A i \in DOMAIN x : \E j \in DOMAIN d : x[i] = d[j] /\ IsExpansion(d[j])
      /\ \A j \in DOMAIN d : IsExpansion(d[j]) => \E i \in DOMAIN x : x[i] = d[j]
  BY <1>p, <1>x, PrimaryFacts
<1>2. Shuffled(ranked, p)
  BY <1>1, <1>r, RankedFacts
<1>3. /\ ranked \in Seq(Hits) /\ Apart(ranked)
      /\ \A i \in DOMAIN ranked : \E j \in DOMAIN d : SameHit(ranked[i], d[j]) /\ ~IsExpansion(d[j])
      /\ \A j \in DOMAIN d : ~IsExpansion(d[j]) => \E i \in DOMAIN ranked : SameHit(ranked[i], d[j])
  <2>1. /\ ranked \in Seq(Hits) /\ Apart(ranked)
        /\ \A i \in DOMAIN ranked : \E j \in DOMAIN p : SameHit(ranked[i], p[j])
        /\ \A j \in DOMAIN p : \E i \in DOMAIN ranked : SameHit(ranked[i], p[j])
    BY <1>2 DEF Shuffled
  <2>2. \A i \in DOMAIN ranked : \E j \in DOMAIN d : SameHit(ranked[i], d[j]) /\ ~IsExpansion(d[j])
    <3> TAKE i \in DOMAIN ranked
    <3>1. PICK k \in DOMAIN p : SameHit(ranked[i], p[k])
      BY <2>1
    <3>2. PICK j \in DOMAIN d : p[k] = d[j] /\ ~IsExpansion(d[j])
      BY <1>1
    <3> QED
      BY <3>1, <3>2
  <2>3. \A j \in DOMAIN d : ~IsExpansion(d[j]) => \E i \in DOMAIN ranked : SameHit(ranked[i], d[j])
    <3> TAKE j \in DOMAIN d
    <3> HAVE ~IsExpansion(d[j])
    <3>1. PICK k \in DOMAIN p : p[k] = d[j]
      BY <1>1
    <3>2. PICK i \in DOMAIN ranked : SameHit(ranked[i], p[k])
      BY <2>1
    <3> QED
      BY <3>1, <3>2
  <2> QED
    BY <2>1, <2>2, <2>3
<1>4. /\ kept \in Seq(Hits) /\ Apart(kept)
      /\ \A i \in DOMAIN kept : i \in DOMAIN ranked /\ kept[i] = ranked[i]
  <2>1. /\ kept \in Seq(Hits) /\ DOMAIN kept \subseteq DOMAIN ranked
        /\ \A i \in DOMAIN kept : kept[i] = ranked[i]
    BY <1>3, <1>k, FirstFacts
  <2>2. Apart(kept)
    <3> SUFFICES ASSUME NEW i \in DOMAIN kept, NEW j \in DOMAIN kept, i # j PROVE kept[i].row # kept[j].row
      BY DEF Apart
    <3>1. i \in DOMAIN ranked /\ j \in DOMAIN ranked /\ kept[i] = ranked[i] /\ kept[j] = ranked[j]
      BY <2>1
    <3>2. ranked[i].row # ranked[j].row
      BY <1>3, <3>1, Zenon DEF Apart
    <3> QED
      BY <3>1, <3>2
  <2>3. \A i \in DOMAIN kept : i \in DOMAIN ranked /\ kept[i] = ranked[i]
    BY <2>1
  <2> QED
    BY <2>1, <2>2, <2>3
<1>5. /\ tail \in Seq(Hits) /\ Apart(tail)
      /\ \A i \in DOMAIN tail : \E q \in Q : tail[i] = d[q]
      /\ \A q \in Q : \E i \in DOMAIN tail : tail[i] = d[q]
  <2>1. Q \in SUBSET (DOMAIN d)
    BY <1>q
  <2>2. Apart(tail)
    BY <1>t, <2>1, SelectedApart
  <2>3. tail \in Seq(Hits)
    BY <1>t, <2>1, SelectedHits
  <2>4. \A i \in DOMAIN tail : \E q \in Q : tail[i] = d[q]
    BY <1>t, <2>1, SelectedHits
  <2>5. \A q \in Q : \E i \in DOMAIN tail : tail[i] = d[q]
    BY <1>t, <2>1, SelectedHits
  <2> QED
    BY <2>2, <2>3, <2>4, <2>5
<1>6. \A i \in DOMAIN tail : /\ mid[i] \in Hits /\ SameHit(mid[i], tail[i])
                             /\ tail[i].row \notin Rows(kept) /\ ~IsExpansion(tail[i])
  <2> TAKE i \in DOMAIN tail
  <2>1. PICK q \in Q : tail[i] = d[q]
    BY <1>5
  <2>2. q \in DOMAIN d /\ ~IsExpansion(d[q]) /\ d[q].row \notin Rows(kept)
    BY <1>q
  <2>3. PICK m \in DOMAIN ranked : SameHit(ranked[m], d[q])
    BY <1>3, <2>2
  <2>4. ranked[m].row = tail[i].row
    BY <2>1, <2>3 DEF SameHit
  <2>5. RankOf(ranked, ranked[m].row) = m
    BY <1>3, RankIs
  <2>6. mid[i] = ranked[m]
    BY <1>m, <2>4, <2>5
  <2>7. ranked[m] \in Hits
    BY <1>3, HitsFacts
  <2> QED
    BY <2>1, <2>2, <2>3, <2>6, <2>7
<1>7. mid \in Seq(Hits) /\ DOMAIN mid = DOMAIN tail
  <2>0. DOMAIN tail = 1 .. Len(tail) /\ Len(tail) \in Nat
    BY <1>5
  <2>1. PICK n \in Nat : DOMAIN tail = 1 .. n
    BY <2>0
  <2>2. mid \in [DOMAIN tail -> Hits]
    BY <1>6, <1>m
  <2>3. mid \in [1 .. n -> Hits]
    BY <2>1, <2>2
  <2> QED
    BY <2>2, <2>3, SeqIs
<1>8. Apart(mid)
  <2> SUFFICES ASSUME NEW i \in DOMAIN mid, NEW j \in DOMAIN mid, i # j PROVE mid[i].row # mid[j].row
    BY DEF Apart
  <2>0. i \in DOMAIN tail /\ j \in DOMAIN tail
    BY <1>7
  <2>1. tail[i].row # tail[j].row
    BY <1>5, <2>0, Zenon DEF Apart
  <2> QED
    BY <1>6, <1>7, <2>1 DEF SameHit
<1>9. Distinct(kept, mid)
  <2> SUFFICES ASSUME NEW i \in DOMAIN kept, NEW j \in DOMAIN mid PROVE kept[i].row # mid[j].row
    BY DEF Distinct
  <2>1. kept[i].row \in Rows(kept)
    BY DEF Rows
  <2>2. mid[j].row \notin Rows(kept)
    BY <1>6, <1>7 DEF SameHit
  <2> QED
    BY <2>1, <2>2
<1>10. JoinsOf(front, kept, mid)
  BY <1>4, <1>7, <1>8, <1>9, <1>f, JoinsFacts
<1>11. /\ front \in Seq(Hits) /\ Apart(front)
       /\ \A i \in DOMAIN front : \/ \E j \in DOMAIN kept : front[i] = kept[j]
                                  \/ \E j \in DOMAIN mid : front[i] = mid[j]
       /\ \A j \in DOMAIN kept : \E i \in DOMAIN front : front[i] = kept[j]
       /\ \A j \in DOMAIN mid : \E i \in DOMAIN front : front[i] = mid[j]
  BY <1>10 DEF JoinsOf
<1>12. \A i \in DOMAIN front : \E j \in DOMAIN d : SameHit(front[i], d[j]) /\ ~IsExpansion(d[j])
  <2> TAKE i \in DOMAIN front
  <2>1. CASE \E j \in DOMAIN kept : front[i] = kept[j]
    <3>1. PICK j \in DOMAIN kept : front[i] = kept[j]
      BY <2>1
    <3>2. j \in DOMAIN ranked /\ front[i] = ranked[j]
      BY <1>4, <3>1
    <3> QED
      BY <1>3, <3>2
  <2>2. CASE \E j \in DOMAIN mid : front[i] = mid[j]
    <3>1. PICK j \in DOMAIN tail : front[i] = mid[j]
      BY <1>7, <2>2
    <3>2. PICK q \in Q : tail[j] = d[q]
      BY <1>5
    <3>3. SameHit(front[i], d[q]) /\ ~IsExpansion(d[q]) /\ q \in DOMAIN d
      BY <1>6, <1>q, <3>1, <3>2
    <3> QED
      BY <3>3
  <2> QED
    BY <1>11, <2>1, <2>2, Zenon
<1>13. Distinct(front, x)
  <2> SUFFICES ASSUME NEW i \in DOMAIN front, NEW j \in DOMAIN x PROVE front[i].row # x[j].row
    BY DEF Distinct
  <2>1. PICK k \in DOMAIN d : SameHit(front[i], d[k]) /\ ~IsExpansion(d[k])
    BY <1>12
  <2>2. PICK l \in DOMAIN d : x[j] = d[l] /\ IsExpansion(d[l])
    BY <1>1
  <2>3. d[k].row # d[l].row
    <3>1. k # l
      BY <2>1, <2>2
    <3> QED
      BY <3>1 DEF Apart
  <2> QED
    BY <2>1, <2>2, <2>3 DEF SameHit
<1>14. JoinsOf(r, front, x)
  BY <1>1, <1>11, <1>13, <1>s, JoinsFacts
<1>15. /\ r \in Seq(Hits) /\ Apart(r)
       /\ \A i \in DOMAIN r : \/ \E j \in DOMAIN front : r[i] = front[j]
                              \/ \E j \in DOMAIN x : r[i] = x[j]
       /\ \A j \in DOMAIN front : \E i \in DOMAIN r : r[i] = front[j]
       /\ \A j \in DOMAIN x : \E i \in DOMAIN r : r[i] = x[j]
  BY <1>14 DEF JoinsOf
<1>16. \A i \in DOMAIN r : \E j \in DOMAIN d : SameHit(r[i], d[j])
  <2> TAKE i \in DOMAIN r
  <2>1. CASE \E j \in DOMAIN front : r[i] = front[j]
    BY <1>12, <2>1
  <2>2. CASE \E j \in DOMAIN x : r[i] = x[j]
    <3>1. PICK j \in DOMAIN x : r[i] = x[j]
      BY <2>2
    <3>2. PICK k \in DOMAIN d : x[j] = d[k]
      BY <1>1, Zenon
    <3> QED
      BY <3>1, <3>2 DEF SameHit
  <2> QED
    BY <1>15, <2>1, <2>2, Zenon
<1>17. \A j \in DOMAIN d : \E i \in DOMAIN r : SameHit(r[i], d[j])
  <2> TAKE j \in DOMAIN d
  <2>1. CASE IsExpansion(d[j])
    <3>1. PICK k \in DOMAIN x : x[k] = d[j]
      BY <1>1, <2>1
    <3>2. PICK i \in DOMAIN r : r[i] = x[k]
      BY <1>15, Zenon
    <3> QED
      BY <3>1, <3>2 DEF SameHit
  <2>2. CASE ~IsExpansion(d[j]) /\ d[j].row \in Rows(kept)
    <3>1. PICK k \in DOMAIN kept : kept[k].row = d[j].row
      BY <2>2 DEF Rows
    <3>2. k \in DOMAIN ranked /\ kept[k] = ranked[k]
      BY <1>4
    <3>3. PICK l \in DOMAIN d : SameHit(kept[k], d[l])
      BY <1>3, <3>2
    <3>4. d[l].row = d[j].row
      BY <3>1, <3>3 DEF SameHit
    <3>5. l = j
      BY <3>4 DEF Apart
    <3>6. PICK m \in DOMAIN front : front[m] = kept[k]
      BY <1>11, Zenon
    <3>7. PICK i \in DOMAIN r : r[i] = front[m]
      BY <1>15, Zenon
    <3> QED
      BY <3>3, <3>5, <3>6, <3>7
  <2>3. CASE ~IsExpansion(d[j]) /\ d[j].row \notin Rows(kept)
    <3>1. j \in Q
      BY <1>q, <2>3
    <3>2. PICK k \in DOMAIN tail : tail[k] = d[j]
      BY <1>5, <3>1
    <3>3. k \in DOMAIN mid /\ SameHit(mid[k], d[j])
      BY <1>6, <1>7, <3>2
    <3>6. PICK m \in DOMAIN front : front[m] = mid[k]
      BY <1>11, <3>3, Zenon
    <3>7. PICK i \in DOMAIN r : r[i] = front[m]
      BY <1>15, Zenon
    <3> QED
      BY <3>3, <3>6, <3>7
  <2> QED
    BY <2>1, <2>2, <2>3
<1>18. LastExpansions(r)
  <2>1. \A i \in DOMAIN front : ~IsExpansion(front[i])
    BY <1>12, SameSource
  <2>2. \A i \in DOMAIN x : IsExpansion(x[i])
    BY <1>1
  <2>3. front \in Seq(Hits) /\ x \in Seq(Hits)
    BY <1>1, <1>11
  <2> QED
    BY <1>s, <2>1, <2>2, <2>3, ExpansionsLast
<1>19. Shuffled(r, d)
  BY <1>15, <1>16, <1>17, Zenon DEF Shuffled
<1> QED
  BY <1>0, <1>18, <1>19

-----------------------------------------------------------------------------
(* The evidence of a question.                                             *)

LEMMA NothingSearched ==
    ASSUME NEW world, NEW plan, plan.levels = <<>>, NEW start \in SUBSET (DOMAIN TypeOf)
    PROVE  Searched(world, plan, start).hits = <<>>
<1>b. PICK base : base = [hits |-> <<>>, measured |-> {}, candidates |-> start]
  OBVIOUS
<1>1. SearchLevelStays(world, plan, {base}, {}) /\ base \in {base} /\ <<>> \in Seq({})
  BY DEF SearchLevelStays
<1>2. PICK acc : SearchLevelPasses(world, plan, {base}, base, <<>>, acc)
  BY <1>1, SearchLevelRuns, Zenon
<1>3. FoldLeft(LAMBDA a, x : SearchLevel(world, plan, a, x), base, <<>>) = acc[Len(<<>>)]
  BY <1>2, Zenon DEF SearchLevelPasses
<1>4. acc[0] = base
  BY <1>2, Zenon DEF SearchLevelPasses
<1>5. Len(<<>>) = 0
  OBVIOUS
<1>6. Searched(world, plan, start) = FoldLeft(LAMBDA a, x : SearchLevel(world, plan, a, x), base, <<>>)
  BY <1>b, Zenon DEF Searched
<1>7. Searched(world, plan, start) = base
  BY <1>3, <1>4, <1>5, <1>6, Zenon
<1> QED
  BY <1>b, <1>7

(* What the searches of a question are, whatever its filters.              *)
Narrowed(plan, searched) == [plan EXCEPT !.levels = IF searched THEN @ ELSE <<>>]

LEMMA NarrowedFacts ==
    ASSUME NEW world, WorldOK(world), NEW plan, PlanOK(plan), NEW searched \in BOOLEAN
    PROVE  /\ QuestionOK(world, Narrowed(plan, searched))
           /\ Narrowed(plan, searched).mode = plan.mode
           /\ SafeLevels(plan) => SafeLevels(Narrowed(plan, searched))
           /\ ~searched => Narrowed(plan, searched).levels = <<>>
<1>p. PICK p : p = Narrowed(plan, searched)
  OBVIOUS
<1>0. /\ plan.levels \in Seq(Budgets) /\ plan.mode \in {"hybrid", "semantic", "keyword"}
      /\ \A i, j \in DOMAIN plan.levels : i < j =>
            <<plan.levels[i].level, plan.levels[j].level>>
               \in {<<"summary", "clause">>, <<"summary", "chunk">>, <<"clause", "chunk">>}
  BY DEF PlanOK, Budgets
<1>1. p.mode = plan.mode /\ p.levels = IF searched THEN plan.levels ELSE <<>>
  BY <1>p DEF PlanOK, Narrowed
<1>2. LevelsOK(plan.levels)
  BY <1>0 DEF LevelsOK
<1>3. LevelsOK(<<>>)
  BY DEF LevelsOK
<1>4. LevelsOK(p.levels)
  BY <1>1, <1>2, <1>3
<1>5. SafeLevels(plan) => SafeLevels(p)
  BY <1>1 DEF SafeLevels
<1>6. QuestionOK(world, p)
  BY <1>0, <1>1, <1>4 DEF QuestionOK
<1>7. ~searched => p.levels = <<>>
  BY <1>1
<1> QED
  BY <1>1, <1>5, <1>6, <1>7, <1>p

LEMMA MatchedFacts ==
    ASSUME NEW plan, PlanOK(plan)
    PROVE  /\ Candidates(plan) \in SUBSET (DOMAIN TypeOf)
           /\ plan.named # {} => /\ Candidates(plan) = Matched(plan)
                                 /\ Matched(plan) \subseteq plan.named
<1>1. Matched(plan) \in SUBSET (DOMAIN TypeOf)
  BY DEF Matched
<1>2. ASSUME plan.named # {} PROVE Matched(plan) \subseteq plan.named /\ ~Truncated(plan)
  <2>1. Matched(plan) \subseteq plan.named
    BY <1>2 DEF Matched
  <2>2. IsFiniteSet(plan.named) /\ Cardinality(plan.named) <= MaxCandidates /\ MaxCandidates \in Nat
    BY PassageAssumption DEF PlanOK
  <2>3. /\ Cardinality(Matched(plan)) \in Nat /\ Cardinality(plan.named) \in Nat
        /\ Cardinality(Matched(plan)) <= Cardinality(plan.named)
    BY <2>1, <2>2, FS_Subset, FS_CardinalityType
  <2>4. ~(Cardinality(Matched(plan)) > MaxCandidates)
    BY <2>2, <2>3
  <2> QED
    BY <2>1, <2>4 DEF Truncated
<1> QED
  BY <1>1, <1>2 DEF Candidates

(* The searches, seen as SearchedFacts sees them.                          *)
FoundIs(world, plan, found) ==
    \E narrow :
       /\ SearchOK(world, narrow, Candidates(plan), found, Len(narrow.levels))
       /\ narrow.mode = plan.mode /\ (SafeLevels(plan) => SafeLevels(narrow))

LEMMA FoundFacts ==
    ASSUME NEW world, WorldOK(world), NEW plan, PlanOK(plan), NEW found, found = Found(world, plan)
    PROVE  /\ FoundIs(world, plan, found)
           /\ plan.named # {} /\ Matched(plan) = {} => found.hits = <<>>
<1>s. PICK searched \in BOOLEAN :
         searched = (plan.scoped /\ (Matched(plan) # {} \/ ~(plan.named # {} \/ plan.types # {})))
  <2>1. (plan.scoped /\ (Matched(plan) # {} \/ ~(plan.named # {} \/ plan.types # {}))) \in BOOLEAN
    BY DEF PlanOK
  <2> QED
    BY <2>1
<1>n. PICK narrow : narrow = Narrowed(plan, searched)
  OBVIOUS
<1>c. PICK start : start = Candidates(plan)
  OBVIOUS
<1>1. found = Searched(world, narrow, start)
  BY <1>s, <1>n, <1>c, Zenon DEF Found, Narrowed
<1>2. /\ QuestionOK(world, narrow) /\ narrow.mode = plan.mode
      /\ SafeLevels(plan) => SafeLevels(narrow)
      /\ ~searched => narrow.levels = <<>>
  BY <1>n, NarrowedFacts
<1>3. start \in SUBSET (DOMAIN TypeOf)
  BY <1>c, MatchedFacts
<1>4. SearchOK(world, narrow, start, found, Len(narrow.levels))
  BY <1>1, <1>2, <1>3, SearchedFacts
<1>5. FoundIs(world, plan, found)
  BY <1>2, <1>4, <1>c, Zenon DEF FoundIs
<1>6. ASSUME plan.named # {}, Matched(plan) = {} PROVE found.hits = <<>>
  <2>1. ~searched
    BY <1>s, <1>6
  <2> QED
    BY <1>1, <1>2, <1>3, <2>1, NothingSearched
<1> QED
  BY <1>5, <1>6

(* What is handed on, whether or not it was re-ranked.                     *)
LEMMA EvidenceIs ==
    ASSUME NEW world, NEW plan, PlanOK(plan), NEW ranking \in Seq(Wanted),
           NEW e \in Seq(Hits), e = Expanded(plan, Found(world, plan).hits),
           NEW d, d = Deduplicate(e), NEW v, v = Evidence(world, plan, ranking)
    PROVE  DedupOK(d, e) /\ Shuffled(v, d) /\ (plan.rerank => LastExpansions(v))
<1>1. DedupOK(d, e)
  BY DeduplicateFacts
<1>2. d \in Seq(Hits) /\ Apart(d)
  BY <1>1 DEF DedupOK
<1>3. v = IF plan.rerank THEN Rerank(ranking, d, plan.topK) ELSE d
  BY DEF Evidence
<1>4. plan.topK \in Nat /\ plan.rerank \in BOOLEAN
  BY DEF PlanOK
<1>5. Shuffled(d, d)
  BY <1>2 DEF Shuffled, SameHit
<1>6. CASE plan.rerank
  BY <1>1, <1>2, <1>3, <1>4, <1>6, RerankFacts
<1>7. CASE ~plan.rerank
  BY <1>1, <1>3, <1>5, <1>7
<1> QED
  BY <1>4, <1>6, <1>7

-----------------------------------------------------------------------------
(* What is lost, repeated, out of scope or unmeasured: nothing.            *)

LEMMA LosesNothing ==
    ASSUME NEW e, e \in Seq(Hits), NEW d, DedupOK(d, e), NEW v, Shuffled(v, d)
    PROVE  NothingLost(e, v)
<1>1. \A k \in DOMAIN e : \E j \in DOMAIN d : Stands(d[j], e[k])
  BY Zenon DEF DedupOK
<1>2. \A j \in DOMAIN d : \E i \in DOMAIN v : SameHit(v[i], d[j])
  BY Zenon DEF Shuffled
<1> SUFFICES ASSUME NEW k \in DOMAIN e
             PROVE  \E j \in DOMAIN v : /\ v[j].row = e[k].row \/ Repeats(v[j].row, e[k].row)
                                        /\ v[j].score >= e[k].score
  BY DEF NothingLost
<1>3. PICK j \in DOMAIN d : Stands(d[j], e[k])
  BY <1>1
<1>4. PICK i \in DOMAIN v : SameHit(v[i], d[j])
  BY <1>2
<1>5. v[i].row = e[k].row \/ Repeats(v[i].row, e[k].row)
  BY <1>3, <1>4 DEF Stands, SameHit
<1>6. v[i].score >= e[k].score
  BY <1>3, <1>4 DEF Stands, SameHit
<1> QED
  BY <1>5, <1>6

LEMMA RepeatsNothing ==
    ASSUME NEW e, NEW d, DedupOK(d, e), NEW v, Shuffled(v, d), NEW reranked, reranked => LastExpansions(v)
    PROVE  NothingTwice(v, reranked)
<1>1. /\ \A i, j \in DOMAIN d : i # j => ~Repeats(d[i].row, d[j].row)
      /\ \A i, j \in DOMAIN v : i # j => v[i].row # v[j].row
      /\ \A i \in DOMAIN v : \E j \in DOMAIN d : SameHit(v[i], d[j])
      /\ v \in Seq(Hits)
  BY Zenon DEF Shuffled, DedupOK, Apart
<1> SUFFICES ASSUME NEW i \in DOMAIN v, NEW j \in DOMAIN v, i < j
             PROVE  /\ v[i].row # v[j].row /\ ~Repeats(v[i].row, v[j].row)
                    /\ reranked /\ IsExpansion(v[i]) => IsExpansion(v[j])
  BY DEF NothingTwice
<1>2. i # j
  <2>1. i \in Int /\ j \in Int
    BY <1>1
  <2> QED
    BY <2>1
<1>3. v[i].row # v[j].row
  BY <1>1, <1>2
<1>4. PICK k \in DOMAIN d : SameHit(v[i], d[k])
  BY <1>1
<1>5. PICK l \in DOMAIN d : SameHit(v[j], d[l])
  BY <1>1
<1>6. k # l
  BY <1>3, <1>4, <1>5 DEF SameHit
<1>7. ~Repeats(d[k].row, d[l].row)
  BY <1>1, <1>6, Zenon
<1>8. ~Repeats(v[i].row, v[j].row)
  BY <1>4, <1>5, <1>7 DEF SameHit
<1>9. reranked /\ IsExpansion(v[i]) => IsExpansion(v[j])
  BY DEF LastExpansions
<1> QED
  BY <1>3, <1>8, <1>9

(* Every passage of the evidence is one of the expanded list.              *)
LEMMA RowsFrom ==
    ASSUME NEW e, NEW d, DedupOK(d, e), NEW v, Shuffled(v, d), NEW i \in DOMAIN v
    PROVE  \E k \in DOMAIN e : v[i].row = e[k].row
<1>1. PICK j \in DOMAIN d : SameHit(v[i], d[j])
  BY Zenon DEF Shuffled
<1>2. PICK k \in DOMAIN e : d[j].row = e[k].row
  BY Zenon DEF DedupOK
<1> QED
  BY <1>1, <1>2 DEF SameHit

LEMMA StaysInScope ==
    ASSUME NEW world, WorldOK(world), NEW plan, PlanOK(plan), NEW found, found = Found(world, plan),
           NEW e, e = Expanded(plan, found.hits), NEW d, DedupOK(d, e), NEW v, Shuffled(v, d)
    PROVE  InScope(plan, v)
<1> SUFFICES ASSUME plan.named # {}, NEW i \in DOMAIN v PROVE ContractOf[v[i].row] \in plan.named
  BY DEF InScope
<1>1. PICK k \in DOMAIN e : v[i].row = e[k].row
  BY RowsFrom
<1>2. /\ FoundIs(world, plan, found)
      /\ Matched(plan) = {} => found.hits = <<>>
      /\ Candidates(plan) = Matched(plan) /\ Matched(plan) \subseteq plan.named
  BY FoundFacts, MatchedFacts
<1>3. PICK narrow : SearchOK(world, narrow, Candidates(plan), found, Len(narrow.levels))
  BY <1>2 DEF FoundIs
<1>4. found.hits \in Seq(Hits)
  BY <1>3 DEF SearchOK, Searches
<1>5. ExpandedOK(e, found.hits)
  <2>1. plan.maxChunks \in Nat
    BY DEF PlanOK
  <2> QED
    BY <1>4, <2>1, ExpandedFacts
<1>6. CASE Matched(plan) # {}
  <2>1. Within(Candidates(plan), e[k].row)
    BY <1>3, <1>5, ExpandedKeeps
  <2> QED
    BY <1>1, <1>2, <1>6, <2>1 DEF Within
<1>7. CASE Matched(plan) = {}
  <2>1. found.hits = <<>>
    BY <1>2, <1>7
  <2>2. DOMAIN found.hits = {}
    BY <2>1
  <2>3. NeighbourOK(e[k], found.hits) \/ GraphOK(e[k], found.hits)
    BY <1>5, <2>2 DEF ExpandedOK
  <2> QED
    BY <2>2, <2>3 DEF NeighbourOK, GraphOK
<1> QED
  BY <1>6, <1>7

LEMMA MeasuresKept ==
    ASSUME NEW world, WorldOK(world), NEW plan, PlanOK(plan), NEW found, found = Found(world, plan),
           plan.mode = "hybrid", SafeLevels(plan),
           NEW e, e = Expanded(plan, found.hits), NEW d, DedupOK(d, e), NEW v, Shuffled(v, d)
    PROVE  SimilarityKept(world, v)
<1>1. PICK narrow : /\ SearchOK(world, narrow, Candidates(plan), found, Len(narrow.levels))
                    /\ narrow.mode = plan.mode /\ (SafeLevels(plan) => SafeLevels(narrow))
  BY FoundFacts DEF FoundIs
<1>2. found.hits \in Seq(Hits)
  BY <1>1 DEF SearchOK, Searches
<1>3. ExpandedOK(e, found.hits)
  <2>1. plan.maxChunks \in Nat
    BY DEF PlanOK
  <2> QED
    BY <1>2, <2>1, ExpandedFacts
<1>4. /\ \A k \in DOMAIN e : FoundBy(e[k]) => e[k].similarity = world.similarity[e[k].row]
      /\ Kept(e)
  BY <1>1, <1>3, ExpandedKeeps
<1> SUFFICES ASSUME NEW i \in DOMAIN v, FoundBy(v[i])
             PROVE  v[i].similarity = world.similarity[v[i].row]
  BY DEF SimilarityKept, FoundBy
<1>5. PICK j \in DOMAIN d : SameHit(v[i], d[j])
  BY Zenon DEF Shuffled
<1>6. FoundBy(d[j])
  BY <1>5 DEF SameHit, FoundBy
<1>7. PICK k \in DOMAIN e : d[j] = e[k]
  BY <1>4, <1>6, Zenon DEF DedupOK
<1>8. e[k].similarity = world.similarity[e[k].row]
  BY <1>4, <1>6, <1>7
<1> QED
  BY <1>5, <1>7, <1>8 DEF SameHit

LEMMA PercentIsNat == \A x \in 0 .. 100 : x \in Nat
OBVIOUS

LEMMA IsVouched ==
    ASSUME NEW world, WorldOK(world), NEW plan, PlanOK(plan), NEW found, found = Found(world, plan),
           NEW e, e = Expanded(plan, found.hits), NEW d, DedupOK(d, e), NEW ready, Shuffled(ready.evidence, d),
           ready.plan = plan, plan.threshold > 0, Max({0} \union found.measured) >= plan.threshold
    PROVE  Vouched(world, ready)
<1>1. PICK narrow : SearchOK(world, narrow, Candidates(plan), found, Len(narrow.levels))
  BY FoundFacts DEF FoundIs
<1>2. found.hits \in Seq(Hits) /\ found.measured \in SUBSET (0 .. 100)
  BY <1>1 DEF SearchOK, Searches
<1>3. MeasuredOK(world, found)
  BY <1>1 DEF SearchOK
<1>4. ExpandedOK(e, found.hits)
  <2>1. plan.maxChunks \in Nat
    BY DEF PlanOK
  <2> QED
    BY <1>2, <2>1, ExpandedFacts
<1>m. PICK M : M = {0} \union found.measured
  OBVIOUS
<1>5. Max(M) \in M
  <2>1. IsFiniteSet(0 .. 100)
    <3>1. 0 \in Int /\ 100 \in Int
      OBVIOUS
    <3> QED
      BY <3>1, FS_Interval
  <2>0. 0 \in 0 .. 100
    OBVIOUS
  <2>2. M \in SUBSET (0 .. 100) /\ M # {}
    BY <1>2, <1>m, <2>0, Zenon
  <2>3. IsFiniteSet(M) /\ \A y \in M : y \in Int
    <3>1. \A y \in 0 .. 100 : y \in Int
      OBVIOUS
    <3> QED
      BY <2>1, <2>2, <3>1, FS_Subset, Zenon
  <2> QED
    BY <2>2, <2>3, MaxFacts
<1>x. PICK x : x = Max(M)
  OBVIOUS
<1>6. plan.threshold \in Nat
  BY DEF PlanOK
<1>7. x \in found.measured /\ x >= plan.threshold
  <2>1. x >= plan.threshold
    BY <1>m, <1>x
  <2>2. x # 0
    BY <1>6, <2>1
  <2> QED
    BY <1>5, <1>m, <1>x, <2>1, <2>2
<1>8. PICK i \in DOMAIN found.hits : /\ LevelOf[found.hits[i].row] \in AnsweringLevels
                                     /\ world.similarity[found.hits[i].row] >= x
  BY <1>3, <1>7 DEF MeasuredOK
<1>p. PICK p : p = found.hits[i].row
  OBVIOUS
<1>9. p \in Passages /\ LevelOf[p] \in {"clause", "chunk"} /\ world.similarity[p] >= x
  BY <1>2, <1>8, <1>p, HitsFacts DEF AnsweringLevels
<1>10. world.similarity[p] >= plan.threshold
  <2>1. world.similarity[p] \in Nat
    BY <1>9, PercentIsNat DEF WorldOK
  <2>2. x \in Nat
    BY <1>2, <1>7, PercentIsNat, Zenon
  <2> QED
    BY <1>6, <1>7, <1>9, <2>1, <2>2
<1>11. i \in DOMAIN e /\ e[i].row = p
  BY <1>4, <1>8, <1>p DEF ExpandedOK
<1>12. PICK j \in DOMAIN d : Stands(d[j], e[i])
  BY <1>11, Zenon DEF DedupOK
<1>13. PICK k \in DOMAIN ready.evidence : SameHit(ready.evidence[k], d[j])
  BY Zenon DEF Shuffled
<1>14. ready.evidence[k].row = p \/ Repeats(ready.evidence[k].row, p)
  BY <1>11, <1>12, <1>13 DEF Stands, SameHit
<1> QED
  BY <1>9, <1>10, <1>14 DEF Vouched

-----------------------------------------------------------------------------
(* What prepare() hands on: the parts of EvidenceAccounted.                *)
Accounts(world, ready) ==
    /\ NothingLost(Expanded(ready.plan, Found(world, ready.plan).hits), ready.evidence)
    /\ NothingTwice(ready.evidence, ready.plan.rerank)
    /\ InScope(ready.plan, ready.evidence)
    /\ ready.plan.mode = "hybrid" /\ SafeLevels(ready.plan) => SimilarityKept(world, ready.evidence)
    /\ ready.sufficient /\ ready.plan.threshold > 0 => Vouched(world, ready)

LEMMA PreparedFacts ==
    ASSUME NEW world, WorldOK(world), NEW plan, PlanOK(plan), NEW ranking \in Seq(Wanted),
           NEW ready, ready = Prepare(world, plan, ranking)
    PROVE  ready.evidence \in Seq(Hits) /\ Apart(ready.evidence) /\ Accounts(world, ready)
<1>r. PICK retry : retry = (Evidence(world, plan, ranking) = <<>> /\ plan.types # {})
  OBVIOUS
<1>p. PICK p : p = IF retry THEN [plan EXCEPT !.types = {}] ELSE plan
  OBVIOUS
<1>1. PlanOK(p)
  <2>1. CASE retry
    <3>1. p = [plan EXCEPT !.types = {}]
      BY <1>p, <2>1
    <3> QED
      BY <3>1 DEF PlanOK
  <2>2. CASE ~retry
    BY <1>p, <2>2
  <2> QED
    BY <2>1, <2>2
<1>f. PICK found : found = Found(world, p)
  OBVIOUS
<1>e. PICK e : e = Expanded(p, found.hits)
  OBVIOUS
<1>d. PICK d : d = Deduplicate(e)
  OBVIOUS
<1>v. PICK v : v = Evidence(world, p, ranking)
  OBVIOUS
<1>s. PICK enough : enough = (v # <<>> /\ Max({0} \union found.measured) >= plan.threshold)
  OBVIOUS
<1>2. ready = [plan |-> p, evidence |-> v, relaxed |-> retry, sufficient |-> enough]
  BY <1>r, <1>p, <1>f, <1>v, <1>s, Zenon DEF Prepare
<1>t. p.threshold = plan.threshold
  BY <1>p DEF PlanOK
<1>3. /\ ready.plan = p /\ ready.evidence = v
      /\ ready.sufficient => Max({0} \union found.measured) >= p.threshold
  <2>1. ready.plan = p /\ ready.evidence = v /\ ready.sufficient = enough
    BY <1>2
  <2>2. enough => Max({0} \union found.measured) >= p.threshold
    BY <1>s, <1>t, Zenon
  <2> QED
    BY <2>1, <2>2, Zenon
<1>4. e \in Seq(Hits)
  <2>1. PICK narrow : SearchOK(world, narrow, Candidates(p), found, Len(narrow.levels))
    BY <1>1, <1>f, FoundFacts DEF FoundIs
  <2>2. found.hits \in Seq(Hits)
    BY <2>1 DEF SearchOK, Searches
  <2>3. p.maxChunks \in Nat
    BY <1>1 DEF PlanOK
  <2>4. ExpandedOK(e, found.hits)
    BY <1>e, <2>2, <2>3, ExpandedFacts
  <2> QED
    BY <2>4 DEF ExpandedOK
<1>5. DedupOK(d, e) /\ Shuffled(v, d) /\ (p.rerank => LastExpansions(v))
  BY <1>1, <1>4, <1>f, <1>e, <1>d, <1>v, EvidenceIs
<1>6. NothingLost(e, v)
  BY <1>4, <1>5, LosesNothing
<1>7. NothingTwice(v, p.rerank)
  BY <1>5, RepeatsNothing
<1>8. InScope(p, v)
  BY <1>1, <1>5, <1>f, <1>e, StaysInScope
<1>9. p.mode = "hybrid" /\ SafeLevels(p) => SimilarityKept(world, v)
  BY <1>1, <1>5, <1>f, <1>e, MeasuresKept
<1>10. ready.sufficient /\ p.threshold > 0 => Vouched(world, ready)
  <2> SUFFICES ASSUME ready.sufficient, p.threshold > 0 PROVE Vouched(world, ready)
    OBVIOUS
  <2>1. Max({0} \union found.measured) >= p.threshold
    BY <1>3
  <2>2. Shuffled(ready.evidence, d)
    BY <1>3, <1>5
  <2> QED
    BY <1>1, <1>3, <1>5, <1>f, <1>e, <2>1, <2>2, IsVouched
<1>11. v \in Seq(Hits) /\ Apart(v)
  BY <1>5 DEF Shuffled
<1> QED
  BY <1>3, <1>6, <1>7, <1>8, <1>9, <1>10, <1>11, <1>e, <1>f, Zenon DEF Accounts

(* What was asked, found and answered, one from the other.                 *)
Calls == [ask : Asks, costOf : Costs, text : Replies]

PreparedFrom(ready) ==
    \E q \in Questions : ready = Prepare(q.world, q.plan, q.ranking)

AskInv ==
    /\ stage = "asked" => call \in Questions
    /\ stage = "prepared" => /\ call \in Questions
                             /\ prepared = Prepare(call.world, call.plan, call.ranking)
    /\ stage = "answered" => /\ PreparedFrom(prepared) /\ call \in Calls
                             /\ reply = Answer(prepared, call.ask, call.costOf, call.text)
                             /\ call.ask.outcome = "ok" \/ call.text.groups = <<>>

LEMMA AskInvHolds == AskSpec => []AskInv
<1>1. AskInit => AskInv
  BY DEF AskInit, AskInv
<1>2. AskInv /\ [AskNext]_questionVars => AskInv'
  <2> SUFFICES ASSUME AskInv, [AskNext]_questionVars PROVE AskInv'
    OBVIOUS
  <2>1. CASE AskPrepare
    BY <2>1, Zenon DEF AskPrepare, AskInv
  <2>2. CASE AskAnswer
    <3>1. PICK ask \in Asks, costOf \in Costs, text \in Replies :
             /\ ask.outcome = "ok" \/ text.groups = <<>>
             /\ call' = [ask |-> ask, costOf |-> costOf, text |-> text]
             /\ reply' = Answer(prepared, ask, costOf, text)
      BY <2>2, Zenon DEF AskAnswer
    <3>2. stage = "prepared" /\ stage' = "answered" /\ prepared' = prepared
      BY <2>2, Zenon DEF AskAnswer
    <3>3. PreparedFrom(prepared)
      BY <3>2, Zenon DEF AskInv, PreparedFrom
    <3>4. call' \in Calls /\ call'.ask = ask /\ call'.costOf = costOf /\ call'.text = text
      BY <3>1 DEF Calls
    <3>5. reply' = Answer(prepared', call'.ask, call'.costOf, call'.text)
      BY <3>1, <3>2, <3>4, Zenon
    <3>6. PreparedFrom(prepared')
      BY <3>2, <3>3, Zenon
    <3>7. call'.ask.outcome = "ok" \/ call'.text.groups = <<>>
      BY <3>1, <3>4, Zenon
    <3>8. stage' # "asked" /\ stage' # "prepared"
      BY <3>2
    <3> QED
      BY <3>4, <3>5, <3>6, <3>7, <3>8, Zenon DEF AskInv, PreparedFrom
  <2>3. CASE UNCHANGED questionVars
    BY <2>3, Zenon DEF questionVars, AskInv, PreparedFrom
  <2> QED
    BY <2>1, <2>2, <2>3 DEF AskNext
<1> QED
  BY <1>1, <1>2, PTL DEF AskSpec

LEMMA QuestionFacts ==
    ASSUME NEW q \in Questions
    PROVE  WorldOK(q.world) /\ PlanOK(q.plan) /\ q.ranking \in Seq(Wanted)
<1>1. q.world \in Worlds /\ q.plan \in Plans /\ q.ranking \in Rankings
  BY DEF Questions
<1> QED
  BY <1>1, QuestionAssumption DEF WorldOK

\* Whatever was indexed and asked, the evidence prepare() hands on accounts for
\* each hit that was found: retrieve(), _fuse() and _deduplicate() drop one only
\* for a better record or copy of it, _rerank() only changes the order, nothing
\* comes from outside the question's scope, and "sufficient" has a passage that
\* vouches for it.
THEOREM AlwaysAccounted == AskSpec => []EvidenceAccounted
<1>1. AskInv => EvidenceAccounted
  <2> SUFFICES ASSUME AskInv, stage = "prepared" PROVE EvidenceAccounted
    BY DEF EvidenceAccounted
  <2>1. call \in Questions /\ prepared = Prepare(call.world, call.plan, call.ranking)
    BY DEF AskInv
  <2>2. WorldOK(call.world) /\ PlanOK(call.plan) /\ call.ranking \in Seq(Wanted)
    BY <2>1, QuestionFacts
  <2>3. Accounts(call.world, prepared)
    BY <2>1, <2>2, PreparedFacts
  <2> QED
    BY <2>3, Zenon DEF Accounts, EvidenceAccounted, SafeLevels
<1> QED
  BY <1>1, AskInvHolds, PTL

-----------------------------------------------------------------------------
(* The package: its order, its history and its passages.                   *)

(* Two lists without repetition of the same hits.                          *)
SameHits(t, s) ==
    /\ \A i \in DOMAIN t : \E j \in DOMAIN s : t[i] = s[j]
    /\ \A j \in DOMAIN s : \E i \in DOMAIN t : t[i] = s[j]

BlankIn(t, costOf) == Cardinality({i \in DOMAIN t : costOf[t[i].row] = 0})

LEMMA SameLength ==
    ASSUME NEW s, NEW t, NEW costOf
    PROVE  s \in Seq(Hits) /\ t \in Seq(Hits) /\ Apart(s) /\ Apart(t) /\ SameHits(t, s)
           => Len(t) = Len(s) /\ BlankIn(t, costOf) = BlankIn(s, costOf)
<1> SUFFICES ASSUME s \in Seq(Hits), t \in Seq(Hits), Apart(s), Apart(t), SameHits(t, s)
             PROVE  Len(t) = Len(s) /\ BlankIn(t, costOf) = BlankIn(s, costOf)
  OBVIOUS
<1>d. DOMAIN t = 1 .. Len(t) /\ DOMAIN s = 1 .. Len(s) /\ Len(t) \in Nat /\ Len(s) \in Nat
  OBVIOUS
<1>e. PICK f : f = [i \in DOMAIN t |-> CHOOSE j \in DOMAIN s : t[i] = s[j]]
  OBVIOUS
<1>1. \A i \in DOMAIN t : f[i] \in DOMAIN s /\ t[i] = s[f[i]]
  BY <1>e, Zenon DEF SameHits
<1>2. f \in [DOMAIN t -> DOMAIN s]
  BY <1>1, <1>e
<1>3. \A i, j \in DOMAIN t : f[i] = f[j] => i = j
  <2> SUFFICES ASSUME NEW i \in DOMAIN t, NEW j \in DOMAIN t, f[i] = f[j], i # j PROVE FALSE
    OBVIOUS
  <2>1. t[i].row # t[j].row
    BY Zenon DEF Apart
  <2>2. t[i] = t[j]
    BY <1>1, Zenon
  <2> QED
    BY <2>1, <2>2
<1>4. \A j \in DOMAIN s : \E i \in DOMAIN t : f[i] = j
  <2> TAKE j \in DOMAIN s
  <2>1. PICK i \in DOMAIN t : t[i] = s[j]
    BY Zenon DEF SameHits
  <2>2. s[f[i]] = s[j] /\ f[i] \in DOMAIN s
    BY <1>1, <2>1, Zenon
  <2>3. f[i] = j
    BY <2>2, Zenon DEF Apart
  <2> QED
    BY <2>3
<1>5. Len(t) = Len(s)
  <2>1. f \in Bijection(DOMAIN t, DOMAIN s)
    BY <1>2, <1>3, <1>4 DEF Bijection, Injection, Surjection, IsInjective
  <2>2. ExistsBijection(DOMAIN t, DOMAIN s)
    BY <2>1 DEF ExistsBijection
  <2>3. IsFiniteSet(DOMAIN t) /\ Cardinality(DOMAIN t) = Len(t) /\ Cardinality(DOMAIN s) = Len(s)
    BY <1>d, PlacesCount
  <2> QED
    BY <2>2, <2>3, FS_Bijection
<1>b. PICK A : A = {i \in DOMAIN t : costOf[t[i].row] = 0}
  OBVIOUS
<1>c. PICK B : B = {i \in DOMAIN s : costOf[s[i].row] = 0}
  OBVIOUS
<1>g. PICK g : g = [i \in A |-> f[i]]
  OBVIOUS
<1>6. \A i \in A : g[i] \in B /\ i \in DOMAIN t /\ g[i] = f[i]
  BY <1>1, <1>b, <1>c, <1>g
<1>7. \A j \in B : \E i \in A : g[i] = j
  <2> TAKE j \in B
  <2>1. j \in DOMAIN s /\ costOf[s[j].row] = 0
    BY <1>c
  <2>2. PICK i \in DOMAIN t : f[i] = j
    BY <1>4, <2>1
  <2>3. i \in A
    BY <1>1, <1>b, <2>1, <2>2
  <2> QED
    BY <1>6, <2>2, <2>3
<1>8. g \in Bijection(A, B)
  <2>1. g \in [A -> B]
    BY <1>6, <1>g
  <2>2. \A i, j \in A : g[i] = g[j] => i = j
    BY <1>3, <1>6
  <2> QED
    BY <1>7, <2>1, <2>2 DEF Bijection, Injection, Surjection, IsInjective
<1>9. Cardinality(A) = Cardinality(B)
  <2>1. ExistsBijection(A, B)
    BY <1>8 DEF ExistsBijection
  <2>2. IsFiniteSet(A)
    <3>1. IsFiniteSet(DOMAIN t)
      BY <1>d, PlacesCount
    <3>2. A \in SUBSET (DOMAIN t)
      BY <1>b
    <3> QED
      BY <3>1, <3>2, FS_Subset
  <2> QED
    BY <2>1, <2>2, FS_Bijection
<1> QED
  BY <1>5, <1>9, <1>b, <1>c DEF BlankIn

(* Clauses first, if the question wants them; expansions last.             *)
LEMMA PrioritiseFacts ==
    ASSUME NEW s \in Seq(Hits), Apart(s), NEW clausesFirst \in BOOLEAN,
           NEW t, t = Prioritise(s, clausesFirst)
    PROVE  t \in Seq(Hits) /\ Apart(t) /\ SameHits(t, s) /\ LastExpansions(t)
<1>f. PICK F : F = {i \in DOMAIN s : /\ ~IsExpansion(s[i])
                                     /\ clausesFirst /\ LevelOf[s[i].row] = "clause"}
  OBVIOUS
<1>r. PICK R : R = {i \in DOMAIN s : ~IsExpansion(s[i])} \ F
  OBVIOUS
<1>a. PICK a : a = Those(s, F)
  OBVIOUS
<1>b. PICK b : b = Those(s, R)
  OBVIOUS
<1>x. PICK x : x = Expansions(s)
  OBVIOUS
<1>c. PICK c : c = a \o b
  OBVIOUS
<1>1. /\ F \in SUBSET (DOMAIN s) /\ R \in SUBSET (DOMAIN s)
      /\ \A i \in DOMAIN s : ~IsExpansion(s[i]) <=> (i \in F \/ i \in R)
      /\ \A i \in F : i \notin R
  BY <1>f, <1>r
<1>2. t = c \o x
  <2>1. t = (a \o b) \o x
    BY <1>f, <1>r, <1>a, <1>b, <1>x, Zenon DEF Prioritise
  <2> QED
    BY <1>c, <2>1
<1>3. a \in Seq(Hits) /\ b \in Seq(Hits)
  BY <1>1, <1>a, <1>b, SelectedHits
<1>4. Apart(a) /\ Apart(b)
  BY <1>1, <1>a, <1>b, SelectedApart
<1>5. \A i \in DOMAIN a : \E q \in F : a[i] = s[q]
  BY <1>1, <1>a, SelectedHits
<1>6. \A q \in F : \E i \in DOMAIN a : a[i] = s[q]
  BY <1>1, <1>a, SelectedHits
<1>7. \A i \in DOMAIN b : \E q \in R : b[i] = s[q]
  BY <1>1, <1>b, SelectedHits
<1>8. \A q \in R : \E i \in DOMAIN b : b[i] = s[q]
  BY <1>1, <1>b, SelectedHits
<1>9. Distinct(a, b)
  <2> SUFFICES ASSUME NEW i \in DOMAIN a, NEW j \in DOMAIN b PROVE a[i].row # b[j].row
    BY DEF Distinct
  <2>1. PICK k \in F : a[i] = s[k]
    BY <1>5
  <2>2. PICK l \in R : b[j] = s[l]
    BY <1>7
  <2>3. k \in DOMAIN s /\ l \in DOMAIN s /\ k # l
    BY <1>1
  <2> QED
    BY <2>1, <2>2, <2>3, Zenon DEF Apart
<1>10. JoinsOf(c, a, b)
  BY <1>3, <1>4, <1>9, <1>c, JoinsFacts
<1>11. /\ c \in Seq(Hits) /\ Apart(c)
       /\ \A i \in DOMAIN c : \/ \E j \in DOMAIN a : c[i] = a[j]
                              \/ \E j \in DOMAIN b : c[i] = b[j]
       /\ \A j \in DOMAIN a : \E i \in DOMAIN c : c[i] = a[j]
       /\ \A j \in DOMAIN b : \E i \in DOMAIN c : c[i] = b[j]
  BY <1>10, Zenon DEF JoinsOf
<1>12. \A i \in DOMAIN c : \E q \in DOMAIN s : c[i] = s[q] /\ ~IsExpansion(s[q])
  <2> TAKE i \in DOMAIN c
  <2>1. CASE \E j \in DOMAIN a : c[i] = a[j]
    <3>1. PICK j \in DOMAIN a : c[i] = a[j]
      BY <2>1
    <3>2. PICK q \in F : a[j] = s[q]
      BY <1>5
    <3> QED
      BY <1>1, <3>1, <3>2
  <2>2. CASE \E j \in DOMAIN b : c[i] = b[j]
    <3>1. PICK j \in DOMAIN b : c[i] = b[j]
      BY <2>2
    <3>2. PICK q \in R : b[j] = s[q]
      BY <1>7
    <3> QED
      BY <1>1, <3>1, <3>2
  <2> QED
    BY <1>11, <2>1, <2>2, Zenon
<1>13. /\ x \in Seq(Hits) /\ Apart(x)
       /\ \A i \in DOMAIN x : \E j \in DOMAIN s : x[i] = s[j] /\ IsExpansion(s[j])
       /\ \A j \in DOMAIN s : IsExpansion(s[j]) => \E i \in DOMAIN x : x[i] = s[j]
  BY <1>x, PrimaryFacts
<1>14. Distinct(c, x)
  <2> SUFFICES ASSUME NEW i \in DOMAIN c, NEW j \in DOMAIN x PROVE c[i].row # x[j].row
    BY DEF Distinct
  <2>1. PICK k \in DOMAIN s : c[i] = s[k] /\ ~IsExpansion(s[k])
    BY <1>12
  <2>2. PICK l \in DOMAIN s : x[j] = s[l] /\ IsExpansion(s[l])
    BY <1>13
  <2>3. k # l
    BY <2>1, <2>2
  <2> QED
    BY <2>1, <2>2, <2>3, Zenon DEF Apart
<1>15. JoinsOf(t, c, x)
  BY <1>2, <1>11, <1>13, <1>14, JoinsFacts
<1>16. /\ t \in Seq(Hits) /\ Apart(t)
       /\ \A i \in DOMAIN t : \/ \E j \in DOMAIN c : t[i] = c[j]
                              \/ \E j \in DOMAIN x : t[i] = x[j]
       /\ \A j \in DOMAIN c : \E i \in DOMAIN t : t[i] = c[j]
       /\ \A j \in DOMAIN x : \E i \in DOMAIN t : t[i] = x[j]
  BY <1>15, Zenon DEF JoinsOf
<1>17. \A i \in DOMAIN t : \E j \in DOMAIN s : t[i] = s[j]
  <2> TAKE i \in DOMAIN t
  <2>1. CASE \E j \in DOMAIN c : t[i] = c[j]
    <3>1. PICK j \in DOMAIN c : t[i] = c[j]
      BY <2>1
    <3>2. PICK q \in DOMAIN s : c[j] = s[q]
      BY <1>12
    <3> QED
      BY <3>1, <3>2
  <2>2. CASE \E j \in DOMAIN x : t[i] = x[j]
    <3>1. PICK j \in DOMAIN x : t[i] = x[j]
      BY <2>2
    <3>2. PICK q \in DOMAIN s : x[j] = s[q]
      BY <1>13, Zenon
    <3> QED
      BY <3>1, <3>2
  <2> QED
    BY <1>16, <2>1, <2>2, Zenon
<1>18. \A j \in DOMAIN s : \E i \in DOMAIN t : t[i] = s[j]
  <2> TAKE j \in DOMAIN s
  <2>1. CASE IsExpansion(s[j])
    <3>1. PICK k \in DOMAIN x : x[k] = s[j]
      BY <1>13, <2>1
    <3>2. PICK i \in DOMAIN t : t[i] = x[k]
      BY <1>16, Zenon
    <3> QED
      BY <3>1, <3>2
  <2>2. CASE j \in F
    <3>1. PICK k \in DOMAIN a : a[k] = s[j]
      BY <1>6, <2>2
    <3>2. PICK l \in DOMAIN c : c[l] = a[k]
      BY <1>11, Zenon
    <3>3. PICK i \in DOMAIN t : t[i] = c[l]
      BY <1>16, Zenon
    <3> QED
      BY <3>1, <3>2, <3>3
  <2>3. CASE j \in R
    <3>1. PICK k \in DOMAIN b : b[k] = s[j]
      BY <1>8, <2>3
    <3>2. PICK l \in DOMAIN c : c[l] = b[k]
      BY <1>11, Zenon
    <3>3. PICK i \in DOMAIN t : t[i] = c[l]
      BY <1>16, Zenon
    <3> QED
      BY <3>1, <3>2, <3>3
  <2> QED
    BY <1>1, <2>1, <2>2, <2>3
<1>19. LastExpansions(t)
  <2>1. \A i \in DOMAIN c : ~IsExpansion(c[i])
    BY <1>12
  <2>2. \A i \in DOMAIN x : IsExpansion(x[i])
    BY <1>13
  <2>3. c \in Seq(Hits) /\ x \in Seq(Hits)
    BY <1>11, <1>13
  <2> QED
    BY <1>2, <2>1, <2>2, <2>3, ExpansionsLast
<1> QED
  BY <1>16, <1>17, <1>18, <1>19, Zenon DEF SameHits

(* The history kept fits its share, or is a single turn.                   *)
LEMMA CostFacts ==
    ASSUME NEW turns \in Seq(Nat)
    PROVE  CostOfTurns(turns) \in Nat /\ (turns = <<>> => CostOfTurns(turns) = 0)
<1>d. DOMAIN turns = 1 .. Len(turns) /\ Len(turns) \in Nat
  OBVIOUS
<1> DEFINE cost == [i \in DOMAIN turns |-> turns[i] + 8]
<1>1. CostOfTurns(turns) = SumOver(cost, DOMAIN turns)
  BY Zenon DEF CostOfTurns, SumOver
<1>c. \A i \in DOMAIN turns : cost[i] = turns[i] + 8
  OBVIOUS
<1> HIDE DEF cost
<1>2. IsFiniteSet(DOMAIN turns)
  BY <1>d, PlacesCount
<1>3. \A i \in DOMAIN turns : cost[i] \in Int /\ cost[i] >= 0
  <2> TAKE i \in DOMAIN turns
  <2>1. turns[i] \in Nat
    OBVIOUS
  <2> QED
    BY <1>c, <2>1
<1>4. SumOver(cost, DOMAIN turns) \in Int
  BY <1>2, <1>3, SumIsInt
<1>5. SumOver(cost, {}) = 0
  BY SumEmpty
<1>6. SumOver(cost, {}) <= SumOver(cost, DOMAIN turns)
  <2>1. {} \in SUBSET (DOMAIN turns) /\ \A i \in {} : cost[i] \in Int /\ cost[i] <= cost[i]
    OBVIOUS
  <2> QED
    BY <1>2, <1>3, <2>1, SumMonotone
<1>7. turns = <<>> => DOMAIN turns = {}
  OBVIOUS
<1> QED
  BY <1>1, <1>4, <1>5, <1>6, <1>7

LEMMA TrimFacts ==
    ASSUME NEW turns \in Seq(Nat), NEW budget \in Nat, NEW kept, kept = TrimHistory(turns, budget)
    PROVE  /\ kept \in Seq(Nat)
           /\ 100 * CostOfTurns(kept) <= 15 * budget \/ Len(kept) = 1
<1>n. PICK n \in Nat : n = Len(turns)
  OBVIOUS
<1>a. PICK a \in Nat : a = (IF n > 6 THEN n - 5 ELSE 1)
  OBVIOUS
<1>r. PICK recent : recent = SubSeq(turns, a, n)
  OBVIOUS
<1>1. recent \in Seq(Nat)
  <2>1. a >= 1
    BY <1>a
  <2>2. \A i \in a .. n : turns[i] \in Nat
    BY <1>n, <2>1
  <2> QED
    BY <1>r, <2>2, SubSeqProperties
<1>m. PICK m \in Nat : m = Len(recent)
  BY <1>1
<1>c. PICK ceiling \in Nat : ceiling = (budget * 15) \div 100
  <2>1. (budget * 15) \div 100 \in Nat
    OBVIOUS
  <2> QED
    BY <2>1
<1>2. 100 * ceiling <= 15 * budget
  BY <1>c
<1>f. PICK fits : fits = {i \in DOMAIN recent : i = Len(recent)
                            \/ CostOfTurns(SubSeq(recent, i, Len(recent))) <= ceiling}
  OBVIOUS
<1>3. kept = IF recent = <<>> THEN <<>> ELSE SubSeq(recent, Min(fits), Len(recent))
  BY <1>n, <1>a, <1>r, <1>c, <1>f, Zenon DEF TrimHistory
<1>4. CASE recent = <<>>
  <2>1. kept = <<>>
    BY <1>3, <1>4
  <2>2. kept \in Seq(Nat)
    BY <2>1
  <2>3. CostOfTurns(kept) = 0
    BY <2>1, <2>2, CostFacts, Zenon
  <2> QED
    BY <2>2, <2>3
<1>5. CASE recent # <<>>
  <2>1. DOMAIN recent = 1 .. m /\ m >= 1
    BY <1>1, <1>m, <1>5
  <2>2. fits \in SUBSET (1 .. m) /\ m \in fits
    BY <1>f, <1>m, <2>1
  <2>3. Min(fits) \in fits
    <3>1. IsFiniteSet(1 .. m)
      BY PlacesCount
    <3>2. IsFiniteSet(fits)
      BY <2>2, <3>1, FS_Subset
    <3>3. \A y \in fits : y \in Int
      BY <2>2
    <3>4. fits # {}
      BY <2>2
    <3> QED
      BY <3>2, <3>3, <3>4, MinFacts
  <2>k. PICK k \in 1 .. m : k = Min(fits)
    BY <2>2, <2>3
  <2>4. kept = SubSeq(recent, k, m)
    BY <1>3, <1>5, <1>m, <2>k
  <2>5. kept \in Seq(Nat) /\ Len(kept) = m - k + 1
    <3>1. \A i \in k .. m : recent[i] \in Nat
      BY <1>1, <2>1
    <3> QED
      BY <2>4, <3>1, SubSeqProperties
  <2>6. k = m \/ CostOfTurns(kept) <= ceiling
    BY <1>f, <1>m, <2>3, <2>k, <2>4
  <2>7. CostOfTurns(kept) \in Nat
    BY <2>5, CostFacts
  <2>8. CASE k = m
    BY <2>5, <2>8
  <2>9. CASE CostOfTurns(kept) <= ceiling
    BY <1>2, <2>5, <2>7, <2>9
  <2> QED
    BY <2>6, <2>8, <2>9
<1> QED
  BY <1>4, <1>5

-----------------------------------------------------------------------------
(* Passage after passage, into the package.                                *)
Packages == [citations : Seq(Hits), turns : Seq(Nat), spent : Nat, evidence : Nat, dropped : Nat]

AskOK(ask) ==
    /\ ask.budget \in Nat /\ ask.turns \in Seq(Nat) /\ ask.metadataCost \in Nat
    /\ ask.maxCitations \in Nat /\ ask.clausesFirst \in BOOLEAN

Blanks(p, costOf, n) == {i \in 1 .. n : costOf[p[i].row] = 0}

LEMMA BlanksGrow ==
    ASSUME NEW p, NEW costOf, NEW n \in Nat, n >= 1
    PROVE  /\ Cardinality(Blanks(p, costOf, n)) \in Nat
           /\ Cardinality(Blanks(p, costOf, n - 1)) \in Nat
           /\ Cardinality(Blanks(p, costOf, n - 1)) <= Cardinality(Blanks(p, costOf, n))
           /\ costOf[p[n].row] = 0 =>
                Cardinality(Blanks(p, costOf, n)) = Cardinality(Blanks(p, costOf, n - 1)) + 1
<1>a. PICK A : A = Blanks(p, costOf, n - 1)
  OBVIOUS
<1>b. PICK B : B = Blanks(p, costOf, n)
  OBVIOUS
<1>1. IsFiniteSet(1 .. n)
  BY PlacesCount
<1>2. A \subseteq B /\ B \in SUBSET (1 .. n) /\ n \notin A
  BY <1>a, <1>b DEF Blanks
<1>3. IsFiniteSet(A) /\ IsFiniteSet(B)
  BY <1>1, <1>2, FS_Subset
<1>4. Cardinality(A) \in Nat /\ Cardinality(B) \in Nat /\ Cardinality(A) <= Cardinality(B)
  BY <1>2, <1>3, FS_Subset, FS_CardinalityType
<1>5. ASSUME costOf[p[n].row] = 0 PROVE Cardinality(B) = Cardinality(A) + 1
  <2>1. B = A \union {n}
    BY <1>5, <1>a, <1>b DEF Blanks
  <2> QED
    BY <1>2, <1>3, <2>1, FS_AddElement
<1> QED
  BY <1>4, <1>5, <1>a, <1>b

Dropped(next, package) == next = [package EXCEPT !.dropped = @ + 1]
Cites(next, package, h, cost) ==
    next = [package EXCEPT !.citations = Append(@, h), !.spent = @ + cost, !.evidence = @ + cost]

LEMMA OfferIs ==
    ASSUME NEW ask, NEW costOf, NEW package, NEW h, NEW next, next = Offer(ask, costOf, package, h),
           NEW n, n = Len(package.citations)
    PROVE  \/ n >= ask.maxCitations /\ Dropped(next, package)
           \/ ~(n >= ask.maxCitations) /\ costOf[h.row] = 0 /\ next = package
           \/ /\ ~(n >= ask.maxCitations) /\ ~Admits(package, costOf[h.row] + 30, ask.budget, n)
              /\ Dropped(next, package)
           \/ /\ Admits(package, costOf[h.row] + 30, ask.budget, n)
              /\ Cites(next, package, h, costOf[h.row] + 30)
<1>1. next = IF n >= ask.maxCitations THEN [package EXCEPT !.dropped = @ + 1]
             ELSE IF costOf[h.row] = 0 THEN package
             ELSE IF ~Admits(package, costOf[h.row] + 30, ask.budget, n) THEN [package EXCEPT !.dropped = @ + 1]
             ELSE [package EXCEPT !.citations = Append(@, h), !.spent = @ + (costOf[h.row] + 30),
                                  !.evidence = @ + (costOf[h.row] + 30)]
  BY Zenon DEF Offer
<1> QED
  BY <1>1, Zenon DEF Dropped, Cites

LEMMA OfferTyped ==
    ASSUME NEW ask, NEW costOf \in [Passages -> Nat], NEW package \in Packages, NEW h \in Hits
    PROVE  Offer(ask, costOf, package, h) \in Packages
<1>n. PICK next : next = Offer(ask, costOf, package, h)
  OBVIOUS
<1> SUFFICES next \in Packages
  BY <1>n
<1>c. PICK cost \in Nat : cost = costOf[h.row] + 30
  <2>1. h.row \in Passages
    BY DEF Hits
  <2>2. costOf[h.row] \in Nat
    BY <2>1
  <2> QED
    BY <2>2
<1>1. Dropped(next, package) \/ next = package \/ Cites(next, package, h, cost)
  BY <1>n, <1>c, OfferIs, Zenon
<1>2. CASE Dropped(next, package)
  <2>1. package.dropped + 1 \in Nat
    BY DEF Packages
  <2> QED
    BY <1>2, <2>1 DEF Dropped, Packages
<1>3. CASE next = package
  BY <1>3
<1>4. CASE Cites(next, package, h, cost)
  <2>1. package.citations \in Seq(Hits) /\ package.spent \in Nat /\ package.evidence \in Nat
    BY DEF Packages
  <2>2. Append(package.citations, h) \in Seq(Hits) /\ package.spent + cost \in Nat
           /\ package.evidence + cost \in Nat
    BY <2>1
  <2> QED
    BY <1>4, <2>2 DEF Cites, Packages
<1> QED
  BY <1>1, <1>2, <1>3, <1>4

OfferedOK(package, p, ask, costOf, n) ==
    /\ package \in Packages
    /\ Len(package.citations) + package.dropped <= n
    /\ n <= Len(package.citations) + package.dropped + Cardinality(Blanks(p, costOf, n))
    /\ package.dropped > 0 => Len(package.citations) >= MinItems \/ Len(package.citations) >= ask.maxCitations
    /\ package.spent <= ask.budget \/ Len(package.citations) <= MinItems
    /\ \A k \in DOMAIN package.citations : \E i \in 1 .. n : package.citations[k] = p[i]
    /\ LastExpansions(package.citations)

LEMMA OfferGoesOn ==
    ASSUME NEW p, NEW ask, NEW costOf, NEW package, NEW n
    PROVE  /\ p \in Seq(Hits) /\ LastExpansions(p) /\ AskOK(ask) /\ costOf \in [Passages -> Nat]
           /\ n \in 1 .. Len(p) /\ OfferedOK(package, p, ask, costOf, n - 1)
           => OfferedOK(Offer(ask, costOf, package, p[n]), p, ask, costOf, n)
<1> SUFFICES ASSUME p \in Seq(Hits), LastExpansions(p), AskOK(ask), costOf \in [Passages -> Nat],
                    n \in 1 .. Len(p), OfferedOK(package, p, ask, costOf, n - 1)
             PROVE  OfferedOK(Offer(ask, costOf, package, p[n]), p, ask, costOf, n)
  OBVIOUS
<1>h. PICK h \in Hits : h = p[n]
  OBVIOUS
<1>x. PICK next : next = Offer(ask, costOf, package, h)
  OBVIOUS
<1>0. n \in Nat /\ n >= 1 /\ n \in DOMAIN p
  OBVIOUS
<1>c. PICK c \in Nat : c = costOf[h.row]
  <2>1. h.row \in Passages
    BY DEF Hits
  <2> QED
    BY <2>1
<1>m. PICK max \in Nat : max = ask.maxCitations
  BY DEF AskOK
<1>b. PICK budget \in Nat : budget = ask.budget
  BY DEF AskOK
<1>1. package \in Packages
  BY Zenon DEF OfferedOK
<1>s. PICK cited : cited = package.citations
  OBVIOUS
<1>2. cited \in Seq(Hits) /\ package.dropped \in Nat /\ package.spent \in Nat
  BY <1>1, <1>s DEF Packages
<1>k. PICK k \in Nat : k = Len(cited)
  BY <1>2
<1>d. PICK dropped \in Nat : dropped = package.dropped
  BY <1>2
<1>p. PICK spent \in Nat : spent = package.spent
  BY <1>2
<1>v. PICK blank \in Nat : blank = Cardinality(Blanks(p, costOf, n - 1))
  BY <1>0, BlanksGrow
<1>w. PICK blanks \in Nat : blanks = Cardinality(Blanks(p, costOf, n))
  BY <1>0, BlanksGrow
<1>3. blank <= blanks /\ (c = 0 => blanks = blank + 1)
  BY <1>0, <1>c, <1>h, <1>v, <1>w, BlanksGrow
<1>4. /\ k + dropped <= n - 1 /\ n - 1 <= k + dropped + blank
      /\ dropped > 0 => k >= 3 \/ k >= max
      /\ spent <= budget \/ k <= 3
      /\ \A l \in DOMAIN cited : \E i \in 1 .. n - 1 : cited[l] = p[i]
      /\ LastExpansions(cited)
  BY <1>s, <1>k, <1>d, <1>p, <1>v, <1>m, <1>b, Zenon DEF OfferedOK, MinItems
<1>5. next \in Packages
  BY <1>1, <1>x, OfferTyped
<1>6. \A i \in 1 .. n - 1 : i \in 1 .. n /\ i \in DOMAIN p /\ i < n
  BY <1>0
<1>8. \A j \in DOMAIN cited : \E i \in 1 .. n : cited[j] = p[i]
  BY <1>4, <1>6
<1>9. ASSUME Dropped(next, package), k >= 3 \/ k >= max PROVE OfferedOK(next, p, ask, costOf, n)
  <2>1. next.citations = cited /\ next.dropped = dropped + 1 /\ next.spent = spent
    BY <1>1, <1>9, <1>s, <1>d, <1>p DEF Dropped, Packages
  <2>2. /\ dropped + 1 \in Nat /\ k + (dropped + 1) <= n /\ n <= k + (dropped + 1) + blanks
    BY <1>3, <1>4, <1>0
  <2>e. PICK e \in Nat : e = dropped + 1
    BY <2>2
  <2>3. /\ next.dropped = e /\ k + e <= n /\ n <= k + e + blanks
        /\ e > 0 => k >= 3 \/ k >= max
    BY <1>9, <2>1, <2>2, <2>e
  <2>4. /\ Len(next.citations) + next.dropped <= n
        /\ n <= Len(next.citations) + next.dropped + Cardinality(Blanks(p, costOf, n))
        /\ next.dropped > 0 => Len(next.citations) >= MinItems \/ Len(next.citations) >= ask.maxCitations
        /\ next.spent <= ask.budget \/ Len(next.citations) <= MinItems
    BY <1>4, <1>b, <1>k, <1>m, <1>w, <2>1, <2>3, Zenon DEF MinItems
  <2>5. /\ \A j \in DOMAIN next.citations : \E i \in 1 .. n : next.citations[j] = p[i]
        /\ LastExpansions(next.citations)
    BY <1>4, <1>8, <2>1, Zenon
  <2> QED
    BY <1>5, <2>4, <2>5, Zenon DEF OfferedOK
<1>10. ASSUME next = package, c = 0 PROVE OfferedOK(next, p, ask, costOf, n)
  <2>1. next.citations = cited /\ next.dropped = dropped /\ next.spent = spent
    BY <1>10, <1>s, <1>d, <1>p
  <2>2. k + dropped <= n /\ n <= k + dropped + blanks
    BY <1>3, <1>4, <1>10, <1>0
  <2>4. /\ Len(next.citations) + next.dropped <= n
        /\ n <= Len(next.citations) + next.dropped + Cardinality(Blanks(p, costOf, n))
        /\ next.dropped > 0 => Len(next.citations) >= MinItems \/ Len(next.citations) >= ask.maxCitations
        /\ next.spent <= ask.budget \/ Len(next.citations) <= MinItems
    BY <1>4, <1>b, <1>k, <1>m, <1>w, <2>1, <2>2, Zenon DEF MinItems
  <2>5. /\ \A j \in DOMAIN next.citations : \E i \in 1 .. n : next.citations[j] = p[i]
        /\ LastExpansions(next.citations)
    BY <1>4, <1>8, <2>1, Zenon
  <2> QED
    BY <1>5, <2>4, <2>5, Zenon DEF OfferedOK
<1>11. ASSUME Cites(next, package, h, c + 30), k < 3 \/ spent + (c + 30) <= budget
       PROVE  OfferedOK(next, p, ask, costOf, n)
  <2>a. PICK t : t = Append(cited, h)
    OBVIOUS
  <2>1. next.citations = t /\ next.dropped = dropped /\ next.spent = spent + (c + 30)
    BY <1>1, <1>11, <1>s, <1>d, <1>p, <2>a DEF Cites, Packages
  <2>2. /\ t \in Seq(Hits) /\ Len(t) = k + 1 /\ DOMAIN t = 1 .. k + 1 /\ t[k + 1] = h
        /\ DOMAIN cited = 1 .. k /\ \A j \in 1 .. k : t[j] = cited[j]
    BY <1>2, <1>k, <2>a
  <2>3. /\ k + 1 \in Nat /\ spent + (c + 30) \in Nat
        /\ (k + 1) + dropped <= n /\ n <= (k + 1) + dropped + blanks
        /\ dropped > 0 => k + 1 >= 3 \/ k + 1 >= max
        /\ spent + (c + 30) <= budget \/ k + 1 <= 3
    BY <1>0, <1>3, <1>4, <1>11
  <2>4. \A j \in DOMAIN t : \E i \in 1 .. n : t[j] = p[i]
    <3> TAKE j \in DOMAIN t
    <3>1. CASE j = k + 1
      BY <1>0, <1>h, <2>2, <3>1
    <3>2. CASE j \in 1 .. k
      <4>1. j \in DOMAIN cited /\ t[j] = cited[j]
        BY <2>2, <3>2
      <4> QED
        BY <1>8, <4>1
    <3>3. j = k + 1 \/ j \in 1 .. k
      BY <2>2
    <3> QED
      BY <3>1, <3>2, <3>3
  <2>5. LastExpansions(t)
    <3> SUFFICES ASSUME NEW i \in DOMAIN t, NEW j \in DOMAIN t, i < j, IsExpansion(t[i])
                 PROVE  IsExpansion(t[j])
      BY DEF LastExpansions
    <3>1. i \in 1 .. k /\ i \in DOMAIN cited /\ t[i] = cited[i]
      BY <2>2
    <3>2. CASE j \in 1 .. k
      <4>1. j \in DOMAIN cited /\ t[j] = cited[j]
        BY <2>2, <3>2
      <4> QED
        BY <1>4, <3>1, <4>1 DEF LastExpansions
    <3>3. CASE j = k + 1
      <4>1. PICK q \in 1 .. n - 1 : cited[i] = p[q]
        BY <1>4, <3>1
      <4>2. q \in DOMAIN p /\ q < n /\ IsExpansion(p[q])
        BY <1>6, <3>1, <4>1
      <4>3. IsExpansion(p[n])
        BY <1>0, <4>2 DEF LastExpansions
      <4> QED
        BY <1>h, <2>2, <3>3, <4>3
    <3>4. j = k + 1 \/ j \in 1 .. k
      BY <2>2
    <3> QED
      BY <3>2, <3>3, <3>4
  <2>l. PICK l \in Nat : l = k + 1
    BY <2>3
  <2>s. PICK s \in Nat : s = spent + (c + 30)
    BY <2>3
  <2>6. /\ l + dropped <= n /\ n <= l + dropped + blanks
        /\ dropped > 0 => l >= 3 \/ l >= max
        /\ s <= budget \/ l <= 3
    BY <2>3, <2>l, <2>s
  <2>7. /\ next.citations = t /\ next.dropped = dropped /\ next.spent = s
        /\ Len(next.citations) = l
    BY <2>1, <2>2, <2>l, <2>s
  <2>8. /\ Len(next.citations) + next.dropped <= n
        /\ n <= Len(next.citations) + next.dropped + Cardinality(Blanks(p, costOf, n))
        /\ next.dropped > 0 => Len(next.citations) >= MinItems \/ Len(next.citations) >= ask.maxCitations
        /\ next.spent <= ask.budget \/ Len(next.citations) <= MinItems
    BY <1>b, <1>m, <1>w, <2>6, <2>7, Zenon DEF MinItems
  <2>9. /\ \A j \in DOMAIN next.citations : \E i \in 1 .. n : next.citations[j] = p[i]
        /\ LastExpansions(next.citations)
    BY <2>1, <2>4, <2>5, Zenon
  <2> QED
    BY <1>5, <2>8, <2>9, Zenon DEF OfferedOK
<1>12. \/ k >= max /\ Dropped(next, package)
       \/ c = 0 /\ next = package
       \/ ~Admits(package, c + 30, budget, k) /\ Dropped(next, package)
       \/ Admits(package, c + 30, budget, k) /\ Cites(next, package, h, c + 30)
  BY <1>x, <1>s, <1>k, <1>c, <1>m, <1>b, OfferIs, Zenon
<1>13. Admits(package, c + 30, budget, k) => k < 3 \/ spent + (c + 30) <= budget
  BY <1>p DEF Admits, MinItems
<1>14. ~Admits(package, c + 30, budget, k) => k >= 3
  BY DEF Admits, MinItems
<1>15. OfferedOK(next, p, ask, costOf, n)
  BY <1>9, <1>10, <1>11, <1>12, <1>13, <1>14
<1> QED
  BY <1>15, <1>h, <1>x

-----------------------------------------------------------------------------
(* The package that is sent.                                               *)

LEMMA OfferTurns ==
    ASSUME NEW ask, NEW costOf, NEW package \in Packages, NEW h \in Hits
    PROVE  Offer(ask, costOf, package, h).turns = package.turns
<1>n. PICK next : next = Offer(ask, costOf, package, h)
  OBVIOUS
<1>c. PICK cost : cost = costOf[h.row] + 30
  OBVIOUS
<1>1. Dropped(next, package) \/ next = package \/ Cites(next, package, h, cost)
  BY <1>n, <1>c, OfferIs, Zenon
<1>2. Dropped(next, package) => next.turns = package.turns
  BY DEF Dropped, Packages
<1>3. Cites(next, package, h, cost) => next.turns = package.turns
  BY DEF Cites, Packages
<1> QED
  BY <1>1, <1>2, <1>3, <1>n

LEMMA LesserOf ==
    ASSUME NEW a \in Nat, NEW b \in Nat
    PROVE  Min({a, b}) \in Nat /\ Min({a, b}) <= a /\ Min({a, b}) <= b
<1>1. IsFiniteSet({a, b})
  <2>1. IsFiniteSet({} \union {a})
    BY FS_EmptySet, FS_AddElement
  <2>2. IsFiniteSet(({} \union {a}) \union {b})
    BY <2>1, FS_AddElement
  <2>3. ({} \union {a}) \union {b} = {a, b}
    OBVIOUS
  <2> QED
    BY <2>2, <2>3
<1>2. Min({a, b}) \in {a, b} /\ \A y \in {a, b} : Min({a, b}) <= y
  <2>1. {a, b} # {} /\ \A x \in {a, b} : x \in Int
    OBVIOUS
  <2> QED
    BY <1>1, <2>1, MinFacts
<1> QED
  BY <1>2

LEMMA AssembleFacts ==
    ASSUME NEW s \in Seq(Hits), Apart(s), NEW ask, AskOK(ask), NEW costOf \in [Passages -> Nat],
           NEW package, package = Assemble(s, ask, costOf)
    PROVE  package \in Packages /\ PackageFits(package, s, ask, costOf)
<1>t. PICK turns : turns = TrimHistory(ask.turns, ask.budget)
  OBVIOUS
<1>b. PICK budget \in Nat : budget = ask.budget
  BY DEF AskOK
<1>1. turns \in Seq(Nat) /\ (100 * CostOfTurns(turns) <= 15 * ask.budget \/ Len(turns) = 1)
  <2>1. ask.turns \in Seq(Nat) /\ ask.budget \in Nat
    BY DEF AskOK
  <2> QED
    BY <1>t, <2>1, TrimFacts
<1>p. PICK p : p = Prioritise(s, ask.clausesFirst)
  OBVIOUS
<1>2. p \in Seq(Hits) /\ Apart(p) /\ SameHits(p, s) /\ LastExpansions(p)
  <2>1. ask.clausesFirst \in BOOLEAN
    BY DEF AskOK
  <2> QED
    BY <1>p, <2>1, PrioritiseFacts
<1>3. Len(p) = Len(s) /\ BlankIn(p, costOf) = BlankIn(s, costOf)
  BY <1>2, SameLength, Zenon
<1>s. PICK base : base = [citations |-> <<>>, turns |-> turns,
                          spent |-> ask.metadataCost + CostOfTurns(turns), evidence |-> 0, dropped |-> 0]
  OBVIOUS
<1>4. base \in Packages /\ base.turns = turns
  <2>1. ask.metadataCost \in Nat /\ CostOfTurns(turns) \in Nat
    BY <1>1, CostFacts DEF AskOK
  <2>2. ask.metadataCost + CostOfTurns(turns) \in Nat
    BY <2>1
  <2> QED
    BY <1>1, <1>s, <2>2 DEF Packages
<1> DEFINE V == {x \in Packages : x.turns = turns}
<1>5. OfferStays(ask, costOf, V, Hits)
  <2> SUFFICES ASSUME NEW x \in Packages, x.turns = turns, NEW h \in Hits
               PROVE  Offer(ask, costOf, x, h) \in Packages /\ Offer(ask, costOf, x, h).turns = turns
    BY DEF OfferStays
  <2>1. Offer(ask, costOf, x, h) \in Packages
    BY OfferTyped
  <2>2. Offer(ask, costOf, x, h).turns = x.turns
    BY OfferTurns
  <2> QED
    BY <2>1, <2>2
<1>6. base \in V
  BY <1>4
<1>7. PICK acc : OfferPasses(ask, costOf, V, base, p, acc)
  <2> HIDE DEF V
  <2> QED
    BY <1>2, <1>5, <1>6, OfferRuns, Zenon
<1>n. PICK n \in Nat : n = Len(p) /\ DOMAIN p = 1 .. n
  BY <1>2
<1>8. /\ acc \in [0 .. n -> V] /\ acc[0] = base
      /\ \A i \in 1 .. n : acc[i] = Offer(ask, costOf, acc[i - 1], p[i])
  BY <1>7, <1>n, Zenon DEF OfferPasses
<1>9. package = acc[n]
  <2>1. FoldLeft(LAMBDA a, x : Offer(ask, costOf, a, x), base, p) = acc[n]
    BY <1>7, <1>n, Zenon DEF OfferPasses
  <2>2. package = FoldLeft(LAMBDA a, x : Offer(ask, costOf, a, x), base, p)
    BY <1>t, <1>p, <1>s, Zenon DEF Assemble
  <2> QED
    BY <2>1, <2>2, Zenon
<1> DEFINE inv == [i \in 0 .. n |-> {x \in Packages : OfferedOK(x, p, ask, costOf, i)}]
<1>10. OfferedOK(base, p, ask, costOf, 0)
  <2>1. base.citations = <<>> /\ base.dropped = 0
    BY <1>s
  <2>2. Cardinality(Blanks(p, costOf, 0)) = 0
    <3>1. Blanks(p, costOf, 0) = {}
      BY DEF Blanks
    <3> QED
      BY <3>1, FS_EmptySet
  <2>3. LastExpansions(<<>>)
    BY DEF LastExpansions
  <2>4. Len(base.citations) = 0 /\ DOMAIN base.citations = {}
    BY <2>1
  <2> QED
    BY <1>4, <2>1, <2>2, <2>3, <2>4 DEF OfferedOK, MinItems
<1>11. acc[0] \in inv[0]
  BY <1>4, <1>8, <1>10
<1>12. \A i \in 1 .. n : acc[i - 1] \in inv[i - 1] => acc[i] \in inv[i]
  <2> TAKE i \in 1 .. n
  <2> HAVE acc[i - 1] \in inv[i - 1]
  <2>1. i - 1 \in 0 .. n /\ i \in 0 .. n /\ i \in 1 .. Len(p)
    BY <1>n
  <2>2. OfferedOK(acc[i - 1], p, ask, costOf, i - 1)
    BY <2>1
  <2>3. OfferedOK(Offer(ask, costOf, acc[i - 1], p[i]), p, ask, costOf, i)
    BY <1>2, <2>1, <2>2, OfferGoesOn, Zenon
  <2>4. OfferedOK(acc[i], p, ask, costOf, i)
    BY <1>8, <2>3
  <2>5. acc[i] \in Packages
    BY <2>4 DEF OfferedOK
  <2> QED
    BY <2>1, <2>4, <2>5
<1>13. acc[n] \in inv[n]
  <2> HIDE DEF inv, V
  <2> QED
    BY <1>11, <1>12, Along
<1>14. OfferedOK(package, p, ask, costOf, n)
  BY <1>9, <1>13
<1>15. package.turns = turns
  <2>1. n \in 0 .. n
    OBVIOUS
  <2> QED
    BY <1>8, <1>9, <2>1
<1>16. package \in Packages
  BY <1>14, Zenon DEF OfferedOK
<1>c. PICK c \in Nat : c = Len(package.citations)
  <2>1. package.citations \in Seq(Hits)
    BY <1>16 DEF Packages
  <2> QED
    BY <2>1
<1>d. PICK d \in Nat : d = package.dropped
  BY <1>16 DEF Packages
<1>m. PICK max \in Nat : max = ask.maxCitations
  BY DEF AskOK
<1>k. PICK blank \in Nat : blank = Cardinality({i \in DOMAIN s : costOf[s[i].row] = 0})
  <2>1. IsFiniteSet(1 .. Len(s)) /\ DOMAIN s = 1 .. Len(s)
    BY PlacesCount
  <2>2. IsFiniteSet({i \in DOMAIN s : costOf[s[i].row] = 0})
    BY <2>1, FS_Subset
  <2> QED
    BY <2>2, FS_CardinalityType
<1>17. Cardinality(Blanks(p, costOf, n)) = blank
  BY <1>3, <1>k, <1>n, Zenon DEF Blanks, BlankIn
<1>18. /\ c + d <= n /\ n <= c + d + blank
       /\ d > 0 => c >= 3 \/ c >= max
       /\ package.spent <= ask.budget \/ c <= MinItems
       /\ LastExpansions(package.citations)
  BY <1>14, <1>17, <1>c, <1>d, <1>m, Zenon DEF OfferedOK, MinItems
<1>19. c + d \in Len(s) - blank .. Len(s)
  <2>1. Len(s) = n
    BY <1>3, <1>n
  <2>2. c + d \in n - blank .. n
    BY <1>18
  <2> QED
    BY <2>1, <2>2
<1>20. d > 0 => c >= Min({MinItems, max})
  <2>1. Min({3, max}) \in Nat /\ Min({3, max}) <= 3 /\ Min({3, max}) <= max
    BY LesserOf, 3 \in Nat
  <2>2. d > 0 => c >= Min({3, max})
    BY <1>18, <2>1
  <2> QED
    BY <2>2 DEF MinItems
<1>21. \A i, j \in 1 .. c : i < j /\ IsExpansion(package.citations[i]) => IsExpansion(package.citations[j])
  <2>1. DOMAIN package.citations = 1 .. c
    BY <1>16, <1>c DEF Packages
  <2> QED
    BY <1>18, <2>1, Zenon DEF LastExpansions
<1>22. 100 * CostOfTurns(package.turns) <= 15 * ask.budget \/ Len(package.turns) = 1
  BY <1>1, <1>15, Zenon
<1>23. PackageFits(package, s, ask, costOf)
  BY <1>18, <1>19, <1>20, <1>21, <1>22, <1>c, <1>d, <1>k, <1>m, Zenon DEF PackageFits
<1> QED
  BY <1>16, <1>23

-----------------------------------------------------------------------------
(* Labels and confidence.                                                  *)

TakenFrom(t, s, places) ==
    /\ \A i \in DOMAIN t : \E p \in places : t[i] = s[p]
    /\ \A p \in places : \E i \in DOMAIN t : t[i] = s[p]

LEMMA SelectedSays ==
    ASSUME NEW T, NEW s, NEW places, NEW t
    PROVE  s \in Seq(T) /\ places \in SUBSET (DOMAIN s) /\ t = Those(s, places)
           => t \in Seq(T) /\ TakenFrom(t, s, places)
<1> SUFFICES ASSUME s \in Seq(T), places \in SUBSET (DOMAIN s), t = Those(s, places)
             PROVE  t \in Seq(T) /\ TakenFrom(t, s, places)
  OBVIOUS
<1>1. /\ t \in Seq(T)
      /\ \A i \in DOMAIN t : \E p \in places : t[i] = s[p]
      /\ \A p \in places : \E i \in DOMAIN t : t[i] = s[p]
  BY SelectedHits
<1> QED
  BY <1>1, Zenon DEF TakenFrom

LEMMA KeptLabels ==
    ASSUME NEW group \in Seq(Nat), NEW invalid,
           NEW t, t = Those(group, {k \in DOMAIN group : group[k] \notin invalid})
    PROVE  t \in Seq(Nat) /\ ToSet(t) = ToSet(group) \ invalid
<1>k. PICK K : K = {k \in DOMAIN group : group[k] \notin invalid}
  OBVIOUS
<1>1. K \in SUBSET (DOMAIN group)
  BY <1>k
<1>2. t = Those(group, K)
  BY <1>k
<1>g. group \in Seq(Nat)
  OBVIOUS
<1>3. t \in Seq(Nat) /\ TakenFrom(t, group, K)
  BY <1>g, <1>1, <1>2, SelectedSays, Zenon
<1>4. ASSUME NEW x \in ToSet(t) PROVE x \in ToSet(group) \ invalid
  <2>1. PICK i \in DOMAIN t : x = t[i]
    BY <1>4 DEF ToSet
  <2>2. PICK q \in K : t[i] = group[q]
    BY <1>3, Zenon DEF TakenFrom
  <2>3. q \in DOMAIN group /\ group[q] \notin invalid
    BY <1>k, <2>2
  <2> QED
    BY <2>1, <2>2, <2>3 DEF ToSet
<1>5. ASSUME NEW x \in ToSet(group), x \notin invalid PROVE x \in ToSet(t)
  <2>1. PICK q \in DOMAIN group : x = group[q]
    BY <1>5 DEF ToSet
  <2>2. q \in K
    BY <1>5, <1>k, <2>1
  <2>3. PICK i \in DOMAIN t : t[i] = group[q]
    BY <1>3, <2>2, Zenon DEF TakenFrom
  <2> QED
    BY <2>1, <2>3 DEF ToSet
<1>6. ToSet(t) = ToSet(group) \ invalid
  BY <1>4, <1>5
<1> QED
  BY <1>3, <1>6

LEMMA StripFacts ==
    ASSUME NEW groups \in Seq(Seq(Nat)), NEW invalid
    PROVE  Cited(StripLabels(groups, invalid)) = Cited(groups) \ invalid
<1>d. PICK n \in Nat : n = Len(groups) /\ DOMAIN groups = 1 .. n
  OBVIOUS
<1>l. PICK left : left = [i \in DOMAIN groups |->
                            Those(groups[i], {k \in DOMAIN groups[i] : groups[i][k] \notin invalid})]
  OBVIOUS
<1>p. PICK P : P = {i \in DOMAIN left : left[i] # <<>>}
  OBVIOUS
<1>t. PICK t : t = Those(left, P)
  OBVIOUS
<1>0. t = StripLabels(groups, invalid)
  BY <1>l, <1>p, <1>t, Zenon DEF StripLabels
<1>1. \A i \in DOMAIN groups : left[i] \in Seq(Nat) /\ ToSet(left[i]) = ToSet(groups[i]) \ invalid
  <2> TAKE i \in DOMAIN groups
  <2>1. groups[i] \in Seq(Nat)
    OBVIOUS
  <2>2. left[i] = Those(groups[i], {k \in DOMAIN groups[i] : groups[i][k] \notin invalid})
    BY <1>l
  <2> QED
    BY <2>1, <2>2, KeptLabels
<1>2. DOMAIN left = DOMAIN groups /\ left \in Seq(Seq(Nat))
  <2>1. DOMAIN left = DOMAIN groups
    BY <1>l
  <2>2. left \in [1 .. n -> Seq(Nat)]
    BY <1>d, <1>l, <1>1
  <2> QED
    BY <2>1, <2>2, SeqIs
<1>3. P \in SUBSET (DOMAIN left)
  BY <1>p
<1>s. TakenFrom(t, left, P)
  BY <1>2, <1>3, <1>t, SelectedSays, Zenon
<1>4. \A i \in DOMAIN t : \E q \in P : t[i] = left[q]
  BY <1>s, Zenon DEF TakenFrom
<1>5. \A q \in P : \E i \in DOMAIN t : t[i] = left[q]
  BY <1>s, Zenon DEF TakenFrom
<1>6. ASSUME NEW x \in Cited(t) PROVE x \in Cited(groups) \ invalid
  <2>1. PICK i \in DOMAIN t : x \in ToSet(t[i])
    BY <1>6 DEF Cited
  <2>2. PICK q \in P : t[i] = left[q]
    BY <1>4
  <2>3. q \in DOMAIN groups /\ x \in ToSet(groups[q]) /\ x \notin invalid
    BY <1>1, <1>2, <1>3, <2>1, <2>2
  <2> QED
    BY <2>3 DEF Cited
<1>7. ASSUME NEW x \in Cited(groups), x \notin invalid PROVE x \in Cited(t)
  <2>1. PICK q \in DOMAIN groups : x \in ToSet(groups[q])
    BY <1>7 DEF Cited
  <2>2. x \in ToSet(left[q])
    BY <1>1, <1>7, <2>1
  <2>3. left[q] # <<>>
    <3>1. ToSet(<<>>) = {}
      BY DEF ToSet
    <3> QED
      BY <2>2, <3>1
  <2>4. q \in P
    BY <1>2, <1>p, <2>1, <2>3
  <2>5. PICK i \in DOMAIN t : t[i] = left[q]
    BY <1>5, <2>4
  <2> QED
    BY <2>2, <2>5 DEF Cited
<1> QED
  BY <1>0, <1>6, <1>7

(* A sum of percentages.                                                   *)
LEMMA SumOfPercentages ==
    ASSUME NEW S, IsFiniteSet(S), NEW f, \A x \in S : f[x] \in 0 .. 100
    PROVE  SumOver(f, S) \in Nat /\ SumOver(f, S) <= 100 * Cardinality(S)
<1> DEFINE Bad == {T \in SUBSET S : ~(SumOver(f, T) \in Nat /\ SumOver(f, T) <= 100 * Cardinality(T))}
<1>1. \A x \in S : f[x] \in Int
  OBVIOUS
<1>2. Bad = {}
  <2> SUFFICES ASSUME Bad # {} PROVE FALSE
    OBVIOUS
  <2>1. PICK T \in Bad : \A U \in Bad : U \subseteq T => U = T
    <3>1. Bad \in SUBSET (SUBSET S)
      OBVIOUS
    <3> HIDE DEF Bad
    <3> QED
      BY <3>1, LeastSubset
  <2>2. T \in SUBSET S /\ IsFiniteSet(T)
    BY FS_Subset
  <2>3. ~(SumOver(f, T) \in Nat /\ SumOver(f, T) <= 100 * Cardinality(T))
    OBVIOUS
  <2>4. T # {}
    <3>1. SumOver(f, {}) = 0 /\ Cardinality({}) = 0
      BY SumEmpty, FS_EmptySet
    <3>2. SumOver(f, {}) \in Nat /\ SumOver(f, {}) <= 100 * Cardinality({})
      BY <3>1
    <3> QED
      BY <2>3, <3>2
  <2>5. PICK x \in T : TRUE
    BY <2>4
  <2>u. PICK U : U = T \ {x}
    OBVIOUS
  <2>6. U \in SUBSET S /\ U # T /\ U \subseteq T
    BY <2>2, <2>u
  <2>7. SumOver(f, U) \in Nat /\ SumOver(f, U) <= 100 * Cardinality(U)
    BY <2>1, <2>6
  <2>8. SumOver(f, T) = f[x] + SumOver(f, U)
    <3>1. \A y \in T : f[y] \in Int
      BY <1>1, <2>2
    <3> QED
      BY <2>2, <2>u, <3>1, SumTakeOut
  <2>9. Cardinality(T) \in Nat /\ Cardinality(U) = Cardinality(T) - 1
    BY <2>2, <2>u, FS_RemoveElement, FS_CardinalityType
  <2>10. f[x] \in 0 .. 100
    BY <2>2
  <2>a. PICK a \in Nat : a = f[x] /\ a <= 100
    BY <2>10
  <2>b. PICK b \in Nat : b = SumOver(f, U)
    BY <2>7
  <2>c. PICK c \in Nat : c = Cardinality(T)
    BY <2>9
  <2>11. b <= 100 * (c - 1)
    BY <2>7, <2>9, <2>b, <2>c
  <2>12. a + b \in Nat /\ a + b <= 100 * c
    BY <2>a, <2>11
  <2> QED
    BY <2>3, <2>8, <2>12, <2>a, <2>b, <2>c
<1>3. S \in SUBSET S /\ S \notin Bad
  BY <1>2
<1> QED
  BY <1>3

(* The arithmetic of a confidence that is at most half.                    *)
LEMMA TimesGrows == ASSUME NEW a \in Nat, NEW b \in Nat, NEW x \in Nat, a <= b PROVE a * x <= b * x
OBVIOUS

LEMMA QuotientBound ==
    ASSUME NEW x \in Nat, NEW y \in Nat, y >= 1, NEW n \in Nat, x < (n + 1) * y
    PROVE  x \div y \in Nat /\ x \div y <= n
<1>q. PICK q \in Int : q = x \div y
  OBVIOUS
<1>1. q * y <= x /\ x < (q + 1) * y
  BY <1>q
<1>2. q >= 0
  <2> SUFFICES ASSUME q + 1 <= 0 PROVE FALSE
    OBVIOUS
  <2>1. (q + 1) * y <= 0
    OBVIOUS
  <2> QED
    BY <1>1, <2>1
<1>3. q <= n
  <2> SUFFICES ASSUME n + 1 <= q PROVE FALSE
    OBVIOUS
  <2>1. (n + 1) * y <= q * y
    BY <1>2, TimesGrows
  <2>2. (n + 1) * y \in Int /\ q * y \in Int
    OBVIOUS
  <2> QED
    BY <1>1, <2>1, <2>2
<1> QED
  BY <1>2, <1>3, <1>q

LEMMA RoundedBound ==
    ASSUME NEW n \in Nat, NEW d \in Nat, d >= 1
    PROVE  Rounded(n, d) \in Nat /\ (n <= 5000 * d => Rounded(n, d) <= 5000)
<1>x. PICK x \in Nat : x = 2 * n + d
  OBVIOUS
<1>y. PICK y \in Nat : y = 2 * d /\ y >= 1
  OBVIOUS
<1>1. Rounded(n, d) = x \div y
  BY <1>x, <1>y DEF Rounded
<1>2. n <= 5000 * d => x < (5000 + 1) * y
  BY <1>x, <1>y
<1>3. x < (x + 1) * y
  <2>1. (x + 1) * 1 <= (x + 1) * y
    BY <1>y
  <2> QED
    BY <2>1
<1> QED
  BY <1>1, <1>2, <1>3, <1>x, <1>y, QuotientBound

HalfOK(c, k, s, m, f) ==
    /\ Rounded((5500 * c * k + 45 * s * m) * f, 200 * m * k) \in Nat
    /\ f <= 100 => Rounded((5500 * c * k + 45 * s * m) * f, 200 * m * k) <= 5000

LEMMA HalfAtMost ==
    ASSUME NEW c \in Nat, NEW k \in Nat, NEW s \in Nat, NEW m \in Nat, NEW f \in Nat,
           c <= m, s <= 100 * k, k >= 1, m >= 1
    PROVE  HalfOK(c, k, s, m, f)
<1>a. PICK a \in Nat : a = c * k
  OBVIOUS
<1>b. PICK b \in Nat : b = s * m
  OBVIOUS
<1>p. PICK p \in Nat : p = m * k /\ p >= 1
  <2>1. 1 * k <= m * k
    BY TimesGrows
  <2> QED
    BY <2>1
<1>1. a <= p
  BY <1>a, <1>p, TimesGrows
<1>2. b <= 100 * p
  <2>1. s * m <= (100 * k) * m
    BY TimesGrows
  <2>2. (100 * k) * m = 100 * (m * k)
    OBVIOUS
  <2> QED
    BY <1>b, <1>p, <2>1, <2>2
<1>w. PICK w \in Nat : w = 5500 * a + 45 * b
  OBVIOUS
<1>3. w <= 10000 * p
  BY <1>1, <1>2, <1>w
<1>n. PICK n \in Nat : n = w * f
  OBVIOUS
<1>4. (5500 * c * k + 45 * s * m) * f = n
  <2>1. 5500 * c * k = 5500 * a /\ 45 * s * m = 45 * b
    BY <1>a, <1>b
  <2> QED
    BY <1>n, <1>w, <2>1
<1>d. PICK d \in Nat : d = 200 * p /\ d >= 1
  BY <1>p
<1>5. 200 * m * k = d
  BY <1>d, <1>p
<1>6. f <= 100 => n <= 5000 * d
  <2> SUFFICES ASSUME f <= 100 PROVE n <= 5000 * d
    OBVIOUS
  <2>1. f * w <= 100 * w
    BY TimesGrows
  <2>2. n = f * w
    BY <1>n
  <2> QED
    BY <1>3, <1>d, <2>1, <2>2
<1>7. Rounded(n, d) \in Nat /\ (n <= 5000 * d => Rounded(n, d) <= 5000)
  BY <1>d, RoundedBound
<1> QED
  BY <1>4, <1>5, <1>6, <1>7 DEF HalfOK

-----------------------------------------------------------------------------
(* How sure an answer is.                                                  *)
LEMMA HalfSays ==
    ASSUME NEW c, NEW k, NEW s, NEW m, NEW f
    PROVE  /\ c \in Nat /\ k \in Nat /\ s \in Nat /\ m \in Nat /\ f \in Nat
           /\ c <= m /\ s <= 100 * k /\ k >= 1 /\ m >= 1
           => HalfOK(c, k, s, m, f)
<1> SUFFICES ASSUME c \in Nat, k \in Nat, s \in Nat, m \in Nat, f \in Nat,
                    c <= m, s <= 100 * k, k >= 1, m >= 1
             PROVE  HalfOK(c, k, s, m, f)
  OBVIOUS
<1> QED
  BY HalfAtMost, Zenon

SureAs(score, cited, invalid, says) ==
    /\ score \in Nat
    /\ cited = {} /\ ~says => score = 1500
    /\ cited # {} /\ invalid # {} => score <= 5000

LEMMA ConfidenceFacts ==
    ASSUME NEW package \in Packages, NEW cited \in SUBSET Labels(package), NEW invalid,
           NEW says \in BOOLEAN
    PROVE  SureAs(Confidence(package, cited, invalid, says), cited, invalid, says)
<1> DEFINE offered  == Len(package.citations)
           m        == IF offered < 5 THEN offered ELSE 5
           c        == IF Cardinality(cited) < m THEN Cardinality(cited) ELSE m
           strength == [l \in cited |-> IF package.citations[l].relevance # Nowhere
                                        THEN package.citations[l].relevance
                                        ELSE package.citations[l].similarity]
           measured == {l \in cited : strength[l] # Nowhere}
           k == IF measured = {} THEN 1 ELSE Cardinality(measured)
           sum == MapThenSumSet(LAMBDA l : strength[l], measured)
           s == IF measured = {} THEN 50 ELSE sum
           f == (IF invalid = {} THEN 20 ELSE 10) * (IF package.dropped = 0 THEN 10 ELSE 9)
           z == Rounded((5500 * c * k + 45 * s * m) * f, 200 * m * k)
<1> DEFINE none == IF ~says THEN 1500 ELSE IF offered > 0 THEN 7500 ELSE 6000
<1>0. Confidence(package, cited, invalid, says) = IF cited = {} THEN none ELSE z
  BY Zenon DEF Confidence
<1>s. sum = SumOver(strength, measured)
  BY Zenon DEF SumOver
<1> HIDE DEF sum
<1>r. PICK score : score = Confidence(package, cited, invalid, says)
  OBVIOUS
<1>1. score = IF cited = {} THEN none ELSE z
  <2> HIDE DEF none, z
  <2> QED
    BY <1>0, <1>r
<1>2. offered \in Nat /\ cited \subseteq 1 .. offered /\ package.citations \in Seq(Hits)
  BY DEF Packages, Labels
<1>3. IsFiniteSet(cited) /\ Cardinality(cited) \in Nat
  BY <1>2, PlacesCount, FS_Subset, FS_CardinalityType
<1>4. c \in Nat /\ m \in Nat /\ c <= m
  BY <1>2, <1>3
<1>5. \A l \in measured : strength[l] \in 0 .. 100
  <2> TAKE l \in measured
  <2>1. l \in cited /\ strength[l] # Nowhere
    OBVIOUS
  <2>2. package.citations[l] \in Hits
    BY <1>2, <2>1
  <2>3. package.citations[l].relevance \in Measure /\ package.citations[l].similarity \in Measure
    BY <2>2 DEF Hits
  <2>4. strength[l] \in Measure
    BY <2>1, <2>3
  <2> QED
    BY <2>1, <2>4 DEF Measure
<1>6. IsFiniteSet(measured) /\ Cardinality(measured) \in Nat
         /\ (measured # {} => Cardinality(measured) >= 1)
  <2>1. measured \subseteq cited
    OBVIOUS
  <2>2. IsFiniteSet(measured) /\ Cardinality(measured) \in Nat
    BY <1>3, <2>1, FS_Subset, FS_CardinalityType
  <2> HIDE DEF measured
  <2>3. measured # {} => Cardinality(measured) # 0
    BY <2>2, FS_EmptySet
  <2> QED
    BY <2>2, <2>3
<1>7. sum \in Nat /\ sum <= 100 * Cardinality(measured)
  <2> HIDE DEF strength, measured
  <2> QED
    BY <1>s, <1>5, <1>6, SumOfPercentages
<1>8. k \in Nat /\ k >= 1 /\ s \in Nat /\ s <= 100 * k
  <2> HIDE DEF strength, measured
  <2> QED
    BY <1>6, <1>7
<1>9. f \in Nat /\ (invalid # {} => f <= 100)
  OBVIOUS
<1>10. cited # {} => m >= 1
  <2>1. cited # {} => offered >= 1
    <3> SUFFICES ASSUME NEW l \in cited PROVE offered >= 1
      OBVIOUS
    <3>1. l \in 1 .. offered
      BY <1>2
    <3> HIDE DEF offered
    <3> QED
      BY <1>2, <3>1
  <2> QED
    BY <1>2, <2>1
<1>11. cited # {} => z \in Nat /\ (f <= 100 => z <= 5000)
  <2> SUFFICES ASSUME cited # {} PROVE z \in Nat /\ (f <= 100 => z <= 5000)
    OBVIOUS
  <2>1. m >= 1
    BY <1>10
  <2> HIDE DEF c, k, s, m, f
  <2>2. HalfOK(c, k, s, m, f)
    <3>1. c \in Nat /\ k \in Nat /\ s \in Nat /\ m \in Nat /\ f \in Nat
      BY <1>4, <1>8, <1>9
    <3>2. c <= m /\ s <= 100 * k /\ k >= 1 /\ m >= 1
      BY <1>4, <1>8, <2>1
    <3> QED
      BY <3>1, <3>2, HalfSays, Zenon
  <2> QED
    BY <2>2, Zenon DEF HalfOK
<1>12. cited = {} => /\ score \in {1500, 7500, 6000}
                     /\ ~says => score = 1500
  <2> HIDE DEF offered, z
  <2> QED
    BY <1>1
<1>13. cited # {} => score = z
  <2> HIDE DEF offered, z
  <2> QED
    BY <1>1
<1> HIDE DEF offered, z, f
<1>14. SureAs(score, cited, invalid, says)
  BY <1>9, <1>11, <1>12, <1>13 DEF SureAs
<1> QED
  BY <1>r, <1>14, Zenon

-----------------------------------------------------------------------------
(* The answer.                                                             *)
TextOK(text) ==
    text.groups \in Seq(Seq(Nat)) /\ text.long \in BOOLEAN /\ text.saysNothing \in BOOLEAN

(* An answer without any text of the model's.                              *)
Without(out, package) ==
    /\ out.kind # "answer" /\ out.groups = <<>> /\ out.citations = {}
    /\ out.sources \subseteq Labels(package)

LEMMA WithoutFacts ==
    ASSUME NEW answer, NEW text, NEW package, Without(answer, package)
    PROVE  Accountable(answer, text, package)
<1>1. Cited(<<>>) = {}
  BY DEF Cited
<1> QED
  BY <1>1 DEF Without, Accountable

LEMMA BandFacts ==
    ASSUME NEW score \in Nat
    PROVE  Band(score) # "low" => score >= 5500
BY DEF Band

(* What validation makes of the labels in a text.                          *)
Checked(answer, text, package) ==
    LET labels == Cited(text.groups) IN
    /\ Cited(answer.groups) = answer.citations
    /\ answer.citations = labels \cap Labels(package)
    /\ answer.invalid = labels \ Labels(package)
    /\ SureAs(answer.confidence, answer.citations, answer.invalid, text.saysNothing)
    /\ answer.invalid # {} => answer.needsReview
    /\ Band(answer.confidence) = "low" => answer.needsReview

LEMMA ValidateFacts ==
    ASSUME NEW text, TextOK(text), NEW package \in Packages, NEW answer, answer = Validate(text, package)
    PROVE  Checked(answer, text, package)
<1>l. PICK labels : labels = Cited(text.groups)
  OBVIOUS
<1>c. PICK cited : cited = labels \cap Labels(package)
  OBVIOUS
<1>i. PICK invalid : invalid = labels \ Labels(package)
  OBVIOUS
<1>s. PICK score : score = Confidence(package, cited, invalid, text.saysNothing)
  OBVIOUS
<1>g. PICK groups : groups = StripLabels(text.groups, invalid)
  OBVIOUS
<1>r. PICK review : review = (invalid # {} \/ (text.long /\ cited = {} /\ ~text.saysNothing)
                                \/ Band(score) = "low")
  OBVIOUS
<1>1. answer = [kind |-> "answer", groups |-> groups, citations |-> cited, invalid |-> invalid,
                confidence |-> score, needsReview |-> review]
  BY <1>l, <1>c, <1>i, <1>s, <1>g, <1>r, Zenon DEF Validate
<1>2. /\ answer.groups = groups /\ answer.citations = cited /\ answer.invalid = invalid
      /\ answer.confidence = score /\ answer.needsReview = review
  BY <1>1
<1>3. Cited(groups) = cited
  <2>1. text.groups \in Seq(Seq(Nat))
    BY DEF TextOK
  <2>2. Cited(StripLabels(text.groups, invalid)) = Cited(text.groups) \ invalid
    BY <2>1, StripFacts
  <2> QED
    BY <1>l, <1>c, <1>i, <1>g, <2>2
<1>4. SureAs(score, cited, invalid, text.saysNothing)
  <2>1. cited \in SUBSET Labels(package)
    BY <1>c
  <2>2. text.saysNothing \in BOOLEAN
    BY DEF TextOK
  <2> QED
    BY <1>s, <2>1, <2>2, ConfidenceFacts
<1>5. (invalid # {} => review) /\ (Band(score) = "low" => review)
  BY <1>r, Zenon
<1> QED
  BY <1>l, <1>c, <1>i, <1>2, <1>3, <1>4, <1>5, Zenon DEF Checked

Owns(answer, text) ==
    /\ ~answer.needsReview => \/ answer.citations # {}
                              \/ text.saysNothing
    /\ ~answer.needsReview => answer.confidence >= 5500
    /\ answer.invalid # {} => /\ answer.needsReview
                              /\ answer.citations # {} => answer.confidence <= 5000

LEMMA CheckedFacts ==
    ASSUME NEW answer, NEW text, NEW package, Checked(answer, text, package), text.saysNothing \in BOOLEAN
    PROVE  Owns(answer, text)
<1>1. /\ SureAs(answer.confidence, answer.citations, answer.invalid, text.saysNothing)
      /\ answer.invalid # {} => answer.needsReview
      /\ Band(answer.confidence) = "low" => answer.needsReview
  BY Zenon DEF Checked
<1>2. /\ answer.confidence \in Nat
      /\ answer.citations = {} /\ ~text.saysNothing => answer.confidence = 1500
      /\ answer.citations # {} /\ answer.invalid # {} => answer.confidence <= 5000
  BY <1>1 DEF SureAs
<1>3. Band(answer.confidence) # "low" => answer.confidence >= 5500
  BY <1>2, BandFacts
<1> QED
  BY <1>1, <1>2, <1>3 DEF Owns

(* The text of the model's, with the passages shown behind it.             *)
Shown(out, answer, package) ==
    /\ out.groups = answer.groups /\ out.citations = answer.citations
    /\ out.invalid = answer.invalid /\ out.confidence = answer.confidence
    /\ out.needsReview = answer.needsReview
    /\ out.sources = Sources(package, answer.citations)

LEMMA ShownFacts ==
    ASSUME NEW out, NEW answer, NEW text, NEW package, Checked(answer, text, package),
           Shown(out, answer, package), text.saysNothing \in BOOLEAN
    PROVE  Accountable(out, text, package)
<1>1. /\ Cited(out.groups) = out.citations
      /\ out.citations = Cited(text.groups) \cap Labels(package)
  BY Zenon DEF Checked, Shown
<1>2. Owns(out, text)
  <2>1. Owns(answer, text)
    BY CheckedFacts
  <2> QED
    BY <2>1 DEF Shown, Owns
<1>3. out.sources \subseteq Labels(package) /\ out.citations \subseteq out.sources
  <2>1. out.sources = IF out.citations # {} THEN out.citations ELSE Labels(package)
    BY Zenon DEF Shown, Sources
  <2> QED
    BY <1>1, <2>1
<1> QED
  BY <1>1, <1>2, <1>3 DEF Accountable, Owns

LEMMA AnswerFacts ==
    ASSUME NEW ready, NEW ask, NEW costOf, NEW text, TextOK(text),
           NEW package \in Packages, package = Assemble(ready.evidence, ask, costOf),
           NEW answer, answer = Answer(ready, ask, costOf, text)
    PROVE  Accountable(answer, text, package)
<1>v. PICK checked : checked = Validate(text, package)
  OBVIOUS
<1> DEFINE without(kind, sources, review) ==
             [kind |-> kind, groups |-> <<>>, citations |-> {}, invalid |-> {},
              confidence |-> 0, needsReview |-> review, sources |-> sources]
           shown == [kind |-> checked.kind, groups |-> checked.groups,
                     citations |-> checked.citations, invalid |-> checked.invalid,
                     confidence |-> checked.confidence, needsReview |-> checked.needsReview,
                     sources |-> Sources(package, checked.citations)]
<1>1. answer = IF ~ready.sufficient THEN without("insufficient", {}, FALSE)
               ELSE IF package.citations = <<>> /\ ask.metadataCost = 0 THEN without("empty", {}, FALSE)
               ELSE CASE ask.outcome = "failed"  -> without("unavailable", Labels(package), TRUE)
                      [] ask.outcome = "refused" -> without("refused", Labels(package), TRUE)
                      [] OTHER -> shown
  BY <1>v, Zenon DEF Answer
<1>2. \/ answer = without("insufficient", {}, FALSE) \/ answer = without("empty", {}, FALSE)
      \/ answer = without("unavailable", Labels(package), TRUE)
      \/ answer = without("refused", Labels(package), TRUE)
      \/ answer = shown
  <2> HIDE DEF without, shown
  <2> QED
    BY <1>1
<1>3. ASSUME NEW kind \in {"insufficient", "empty", "unavailable", "refused"},
             NEW sources \in {{}, Labels(package)}, NEW review \in BOOLEAN,
             answer = without(kind, sources, review)
      PROVE  Without(answer, package)
  BY <1>3 DEF Without
<1>4. ASSUME answer = shown PROVE Shown(answer, checked, package)
  BY <1>4 DEF Shown
<1>5. Checked(checked, text, package)
  BY <1>v, ValidateFacts
<1>6. Without(answer, package) \/ answer = shown
  <2> HIDE DEF without, shown
  <2> QED
    BY <1>2, <1>3
<1>7. CASE Without(answer, package)
  BY <1>7, WithoutFacts
<1>8. CASE answer = shown
  <2>1. Shown(answer, checked, package) /\ text.saysNothing \in BOOLEAN
    BY <1>4, <1>8, Zenon DEF TextOK
  <2> QED
    BY <1>5, <2>1, ShownFacts, Zenon
<1> QED
  BY <1>6, <1>7, <1>8, Zenon

LEMMA CallFacts ==
    ASSUME NEW c \in Calls
    PROVE  AskOK(c.ask) /\ c.costOf \in [Passages -> Nat] /\ TextOK(c.text)
<1>1. c.ask \in Asks /\ c.costOf \in Costs /\ c.text \in Replies
  BY DEF Calls
<1> QED
  BY <1>1, QuestionAssumption DEF AskOK, TextOK

\* Whatever the evidence, the budget, the prices and the text of the model's,
\* assemble() accounts for each passage and fits the window, and the answer that
\* _parse_citations(), _validate() and _confidence() make of the text cites only
\* what was sent, strips invented labels and is not sure of itself with one.
THEOREM AlwaysAccountable == AskSpec => []AnswerAccountable
<1>1. AskInv => AnswerAccountable
  <2> SUFFICES ASSUME AskInv, stage = "answered" PROVE AnswerAccountable
    BY DEF AnswerAccountable
  <2>1. PreparedFrom(prepared) /\ call \in Calls
           /\ reply = Answer(prepared, call.ask, call.costOf, call.text)
    BY DEF AskInv
  <2>2. PICK q \in Questions : prepared = Prepare(q.world, q.plan, q.ranking)
    BY <2>1 DEF PreparedFrom
  <2>3. prepared.evidence \in Seq(Hits) /\ Apart(prepared.evidence)
    <3>1. WorldOK(q.world) /\ PlanOK(q.plan) /\ q.ranking \in Seq(Wanted)
      BY QuestionFacts
    <3> QED
      BY <2>2, <3>1, PreparedFacts
  <2>4. AskOK(call.ask) /\ call.costOf \in [Passages -> Nat] /\ TextOK(call.text)
    BY <2>1, CallFacts
  <2>p. PICK package : package = Assemble(prepared.evidence, call.ask, call.costOf)
    OBVIOUS
  <2>5. package \in Packages /\ PackageFits(package, prepared.evidence, call.ask, call.costOf)
    BY <2>3, <2>4, <2>p, AssembleFacts
  <2>6. Accountable(reply, call.text, package)
    BY <2>1, <2>4, <2>5, <2>p, AnswerFacts
  <2> QED
    BY <2>p, <2>5, <2>6, Zenon DEF AnswerAccountable
<1> QED
  BY <1>1, AskInvHolds, PTL
===============================================================================
