------------------------ MODULE WorkflowEngineProofs ------------------------
(***************************************************************************)
(* What next_after() returns and what plan() passes over, for every number *)
(* of stages; the proofs about the modules that execute plans cite these.  *)
(***************************************************************************)
EXTENDS WorkflowEngine, FiniteSetTheorems, TLAPS

(***************************************************************************)
(* A set of stages that is not empty has a first one.  The set of stages   *)
(* from some member on is closed upwards, so it is the interval of its own *)
(* cardinality at the end of STAGE_ORDER, and the interval's first stage   *)
(* is a member.                                                            *)
(***************************************************************************)
LEMMA FirstStage ==
    ASSUME NEW S \in SUBSET Stage, S # {}
    PROVE  \E t \in S : \A u \in S : t <= u
<1> DEFINE Up == {u \in Stage : \E t \in S : t <= u}
           k == Cardinality(Up)
           first == NStages - k + 1
<1>n. NStages \in Nat
  BY EngineAssumption
<1>1. IsFiniteSet(Stage) /\ Cardinality(Stage) = NStages
  BY <1>n, EngineAssumption, FS_Interval DEF Stage
<1>2. IsFiniteSet(Up) /\ k \in Nat /\ k <= NStages /\ k # 0
  <2>1. Up \subseteq Stage /\ S \subseteq Up
    BY <1>n DEF Stage
  <2> HIDE DEF Up
  <2> QED BY <1>1, <2>1, FS_Subset, FS_CardinalityType, FS_EmptySet
<1>3. first \in Stage
  BY <1>n, <1>2 DEF Stage
<1>4. ASSUME NEW u \in Stage, NEW v \in Stage, u \in Up, u <= v
      PROVE  v \in Up
  BY <1>4, <1>n DEF Stage
<1>5. NStages \in Int /\ k \in Int /\ first \in Int
  BY <1>n, <1>2
<1>6. \A u \in Up : first <= u
  <2> SUFFICES ASSUME NEW u \in Up
               PROVE  first <= u
    OBVIOUS
  <2>1. u \in Stage /\ u \in Int /\ u <= NStages
    BY <1>n DEF Stage
  <2>2. (u..NStages) \subseteq Up
    BY <1>4, <1>n, <2>1 DEF Stage
  <2>3. Cardinality(u..NStages) = NStages - u + 1
    BY <2>1, <1>5, FS_Interval
  <2>4. Cardinality(u..NStages) <= k
    <3> HIDE DEF Up
    <3> QED BY <1>2, <2>2, FS_Subset
  <2>5. ASSUME NEW c \in Int, c <= NStages, NEW d \in Int, NStages - c + 1 <= d
        PROVE  NStages - d + 1 <= c
    BY <1>5, <2>5
  <2> HIDE DEF k
  <2> QED BY <2>1, <2>3, <2>4, <2>5, <1>5
<1>7. first \in Up
  <2> SUFFICES ASSUME first \notin Up
               PROVE  FALSE
    OBVIOUS
  <2>1. Up \subseteq (first + 1)..NStages
    <3> SUFFICES ASSUME NEW u \in Up
                 PROVE  u \in (first + 1)..NStages
      OBVIOUS
    <3>1. u \in Int /\ u <= NStages
      BY <1>n DEF Stage
    <3> HIDE DEF first, Up
    <3>2. first <= u /\ u # first
      BY <1>6
    <3> QED BY <3>1, <3>2, <1>5
  <2>2. first + 1 \in Int /\ k = NStages - first + 1
    <3> HIDE DEF k
    <3> QED BY <1>5
  <2>3. /\ IsFiniteSet((first + 1)..NStages)
        /\ Cardinality((first + 1)..NStages) =
             IF first + 1 > NStages THEN 0 ELSE NStages - (first + 1) + 1
    <3> HIDE DEF first
    <3> QED BY <2>2, <1>5, FS_Interval
  <2>4. k <= Cardinality((first + 1)..NStages)
    <3> HIDE DEF Up, first
    <3> QED BY <2>1, <2>3, FS_Subset
  <2> HIDE DEF first, k
  <2> QED BY <2>2, <2>3, <2>4, <1>2, <1>5
<1>8. PICK t \in S : t <= first
  BY <1>7
<1>9. S \subseteq Up /\ S \subseteq Int
  BY <1>n DEF Stage
<1> HIDE DEF Up, first
<1> QED BY <1>5, <1>6, <1>8, <1>9

(* What next_after() returns.                                              *)
LEMMA NextAfterIsNext ==
    ASSUME NEW p, NEW s \in Stage
    PROVE  LET n == NextAfter(p, s) IN
           \/ n = NoStage /\ \A t \in Stage : t > s => p[t] # "run"
           \/ /\ n \in Stage /\ n > s /\ p[n] = "run"
              /\ \A t \in Stage : t > s /\ t < n => p[t] # "run"
<1> DEFINE ahead == {t \in Stage : t > s /\ p[t] = "run"}
<1>1. CASE ahead = {}
  BY <1>1 DEF NextAfter
<1>2. CASE ahead # {}
  <2> DEFINE n == CHOOSE t \in ahead : \A u \in ahead : t <= u
  <2>1. \E t \in ahead : \A u \in ahead : t <= u
    BY <1>2, FirstStage
  <2>2. n \in ahead /\ \A u \in ahead : n <= u
    BY <2>1
  <2>3. NextAfter(p, s) = n
    BY <1>2 DEF NextAfter
  <2> HIDE DEF n
  <2> QED BY <2>2, <2>3, EngineAssumption DEF Stage
<1> QED BY <1>1, <1>2

(* A plan passes over a stage only if it found its checkpoint, or if the   *)
(* stage is before its scope, and every plan plans its last stage.         *)
LEMMA PlanPassesOver ==
    ASSUME NEW from \in Stage \cup {NoStage}, NEW now, NEW c,
           MissingBefore(from, c) = {}
    PROVE  /\ PlanOf(from, now, c) \in [Stage -> {"run", "skip", "absent"}]
           /\ PlanOf(from, now, c) # [s \in Stage |-> "absent"]
           /\ \A s \in Stage : PlanOf(from, now, c)[s] # "run" => c[s] # NoCheckpoint
           /\ \A s \in Stage : from # NoStage /\ s < from => c[s] # NoCheckpoint
<1>n. NStages \in Nat \ {0} /\ NoStage \notin Stage
  BY EngineAssumption
<1>1. \A s \in Stage : s \in Scope(from) \/ c[s] # NoCheckpoint
  BY DEF MissingBefore
<1>2. NStages \in Stage /\ NStages \in Scope(from)
  BY <1>n DEF Stage, Scope, StagesFrom
<1>3. \A s \in Stage : from # NoStage /\ s < from => s \notin Scope(from)
  BY <1>n DEF Stage, Scope, StagesFrom
<1>4. PlanOf(from, now, c) \in [Stage -> {"run", "skip", "absent"}]
  BY DEF PlanOf
<1>5. PlanOf(from, now, c)[NStages] # "absent"
  BY <1>2 DEF PlanOf
<1>6. ASSUME NEW s \in Stage, PlanOf(from, now, c)[s] = "skip"
      PROVE  c[s] # NoCheckpoint
  <2>1. s \in Scope(from) /\ ~PlannedToRun(s, from, now, c)
    BY <1>6 DEF PlanOf
  <2>2. ~MustRun(s, now[s], c[s])
    BY <2>1, <1>n DEF PlannedToRun, Stage
  <2> QED BY <2>2 DEF MustRun
<1>7. ASSUME NEW s \in Stage, PlanOf(from, now, c)[s] = "absent"
      PROVE  c[s] # NoCheckpoint
  BY <1>1, <1>7 DEF PlanOf
<1> QED BY <1>1, <1>2, <1>3, <1>4, <1>5, <1>6, <1>7

(* When stages are complete up to s, s included, the stages a plan passes  *)
(* over to reach the next one are complete as well.                        *)
LEMMA NextFollows ==
    ASSUME NEW plan, NEW D, NEW s \in Stage,
           \A t \in Stage : plan[t] # "run" => t \in D,
           \A t \in Stage : t < s => t \in D, s \in D
    PROVE  LET n == NextAfter(plan, s) IN
           n = NoStage \/ (n \in Stage /\ \A t \in Stage : t < n => t \in D)
<1> DEFINE n == NextAfter(plan, s)
<1>1. \/ n = NoStage
      \/ n \in Stage /\ \A t \in Stage : t > s /\ t < n => plan[t] # "run"
  BY NextAfterIsNext
<1> HIDE DEF n
<1>2. \A t \in Stage : t < s \/ t = s \/ t > s
  BY EngineAssumption DEF Stage
<1>3. n = NoStage \/ (n \in Stage /\ \A t \in Stage : t < n => t \in D)
  BY <1>1, <1>2
<1> QED BY <1>3 DEF n

=============================================================================
