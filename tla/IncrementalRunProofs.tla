------------------------ MODULE IncrementalRunProofs ------------------------
(***************************************************************************)
(* Theorems about plans and about incremental runs, for every number of    *)
(* stages, every set of versions and any sequence of jobs.                 *)
(***************************************************************************)
EXTENDS IncrementalRun, WorkflowEngineProofs

-----------------------------------------------------------------------------
(* Checkpoints are versions their stage may declare.                       *)
LEMMA CheckpointsTyped ==
    ASSUME NEW h, \A s \in Stage : h[s] \subseteq RunOf(s), NEW c \in Checkpoints(h)
    PROVE  /\ c \in [Stage -> {NoCheckpoint} \cup AnyPayload]
           /\ \A s \in Stage : c[s] \in {NoCheckpoint} \cup Payload[s]
<1>1. ASSUME NEW s \in Stage
      PROVE  CheckpointChoices(h[s]) \subseteq {NoCheckpoint} \cup Payload[s]
  <2>1. \A r \in h[s] : r.versions \in Payload[s]
    BY DEF RunOf
  <2> QED BY <2>1 DEF CheckpointChoices, Newest
<1> QED BY <1>1 DEF Checkpoints

-----------------------------------------------------------------------------
(***************************************************************************)
(* The strengthening.  Inside plan(), the stages before the cursor are     *)
(* decided as the declarative plan decides them, and the flag says whether *)
(* one of them has a reason of its own to run.  On the walk, the plan from *)
(* the stage under way on is a run of skips followed by runs only, and the *)
(* stages that ran so far are an interval that ends just before it.  The   *)
(* plan made after DOCPIPELINE keeps both: it covers every stage, and      *)
(* validation, which is first, always runs.                                *)
(***************************************************************************)
Shape ==
    /\ now \in [Stage -> AnyPayload]
    /\ runs \in [Stage -> SUBSET [attempt : 1..MaxAttempts, versions : AnyPayload]]
    /\ output \in [Stage -> {NoOutput} \cup [versions : AnyPayload, sound : BOOLEAN]]
    /\ found \in [Stage -> {NoCheckpoint} \cup AnyPayload]
    /\ asked \in [Stage -> AnyPayload]

DecidedAs(s) ==
    IF s < from \/ s >= cursor THEN "absent"
    ELSE IF PlannedToRun(s, from, asked, found) THEN "run" ELSE "skip"

LoopInv ==
    phase = "planning" =>
        /\ from <= cursor
        /\ ran = {}
        /\ upstream <=> \E t \in Stage : /\ from <= t /\ t < cursor
                                         /\ MustRun(t, asked[t], found[t])
        /\ \A s \in Stage : plan[s] = DecidedAs(s)

Suffix(p, s) == \A t, u \in Stage : s <= t /\ t <= u /\ p[t] = "run" => p[u] = "run"

WalkInv ==
    /\ phase # "idle" => ended = "none"
    /\ phase = "walking" =>
        /\ plan[at] \in {"run", "skip"}
        /\ Suffix(plan, at)
        /\ \A s \in ran : s < at /\ \A t \in Stage : s <= t /\ t < at => t \in ran
        /\ ran # {} => plan[at] = "run"

RunInv == TypeOK /\ Shape /\ LoopInv /\ WalkInv /\ NothingReusedAfterARun

(* A plan of plan() is absent, then skips, then runs.                      *)
LEMMA PlanIsSuffix ==
    ASSUME NEW f \in Stage \cup {NoStage}, NEW v, NEW c
    PROVE  /\ PlanOf(f, v, c) \in [Stage -> {"run", "skip", "absent"}]
           /\ \A s \in Stage : Suffix(PlanOf(f, v, c), s)
           /\ \A s \in Scope(f) : PlanOf(f, v, c)[s] \in {"run", "skip"}
<1>1. Scope(f) \subseteq Stage /\ \A t, u \in Stage : t \in Scope(f) /\ t <= u => u \in Scope(f)
  BY EngineAssumption DEF Scope, StagesFrom, Stage
<1>2. ASSUME NEW t \in Stage, NEW u \in Stage, t <= u, PlannedToRun(t, f, v, c)
      PROVE  PlannedToRun(u, f, v, c)
  BY <1>1, <1>2, EngineAssumption DEF PlannedToRun, Stage
<1> QED BY <1>1, <1>2 DEF PlanOf, Suffix

(* The plan made after DOCPIPELINE runs every stage.                       *)
LEMMA ReplanRunsAll ==
    ASSUME NEW v, NEW c
    PROVE  \A s \in Stage : PlanOf(NoStage, v, c)[s] = "run"
<1>1. 1 \in Stage /\ \A s \in Stage : 1 <= s
  BY EngineAssumption DEF Stage
<1>2. MustRun(1, v[1], c[1])
  BY RunAssumption DEF MustRun
<1>3. Scope(NoStage) = Stage
  BY DEF Scope
<1> QED BY <1>1, <1>2, <1>3 DEF PlanOf, PlannedToRun

-----------------------------------------------------------------------------
(* A new contract satisfies the invariant.                                 *)
LEMMA InitRunInv == Init => RunInv
<1> SUFFICES ASSUME Init
             PROVE  RunInv
  OBVIOUS
<1>n. NStages \in Nat \ {0} /\ NoStage \notin Stage
  BY EngineAssumption
<1>1. TypeOK
  <2>1. now \in [Stage -> AnyPayload] /\ \A s \in Stage : now[s] \in Payload[s]
    BY DEF Init
  <2>2. from \in Stage /\ cursor \in 1..NStages + 1
    BY <1>n DEF Init, Stage
  <2> QED BY <2>1, <2>2, <1>n DEF Init, TypeOK
<1>2. Shape
  BY DEF Init, Shape, AnyPayload
<1> QED BY <1>1, <1>2 DEF Init, RunInv, LoopInv, WalkInv, NothingReusedAfterARun

-----------------------------------------------------------------------------
(* Every action preserves the invariant, one lemma for each.               *)
LEMMA DeployKeeps ==
    ASSUME RunInv, NEW s \in Stage, NEW v \in Payload[s], Deploy(s, v)
    PROVE  RunInv'
<1> USE DEF Deploy, historyVars, planVars
<1>1. now' \in [Stage -> AnyPayload] /\ \A t \in Stage : now'[t] \in Payload[t]
  BY DEF RunInv, TypeOK, Shape, AnyPayload
<1>2. TypeOK'
  BY <1>1 DEF RunInv, TypeOK
<1>3. Shape'
  BY <1>1 DEF RunInv, Shape
<1>4. LoopInv'
  BY DEF RunInv, LoopInv
<1>5. WalkInv' /\ NothingReusedAfterARun'
  BY DEF RunInv, WalkInv, Suffix, NothingReusedAfterARun
<1> QED BY <1>2, <1>3, <1>4, <1>5 DEF RunInv

LEMMA StartJobKeeps ==
    ASSUME RunInv, NEW f \in Stage, StartJob(f)
    PROVE  RunInv'
<1> USE DEF StartJob, historyVars
<1>n. NStages \in Nat \ {0} /\ NoStage \notin Stage
  BY EngineAssumption
<1>1. /\ found' \in [Stage -> {NoCheckpoint} \cup AnyPayload]
      /\ \A s \in Stage : found'[s] \in {NoCheckpoint} \cup Payload[s]
  BY CheckpointsTyped DEF RunInv, TypeOK
<1>2. TypeOK'
  <2>1. cursor' \in 1..NStages + 1 /\ plan' \in [Stage -> {"run", "skip", "absent"}]
    BY <1>n DEF Stage
  <2>2. \A s \in Stage : asked'[s] \in Payload[s]
    BY DEF RunInv, TypeOK
  <2> QED BY <1>1, <2>1, <2>2, <1>n DEF RunInv, TypeOK
<1>3. Shape'
  BY <1>1 DEF RunInv, Shape
<1>4. LoopInv'
  <2>1. from' <= cursor' /\ \A t \in Stage : t < from' \/ t >= cursor'
    BY <1>n DEF Stage
  <2>2. ~\E t \in Stage : from' <= t /\ t < cursor'
    BY <1>n DEF Stage
  <2> QED BY <2>1, <2>2 DEF LoopInv, DecidedAs
<1>5. WalkInv' /\ NothingReusedAfterARun'
  BY DEF WalkInv, NothingReusedAfterARun
<1> QED BY <1>2, <1>3, <1>4, <1>5 DEF RunInv

(* One iteration of the loop decides one more stage.                       *)
LEMMA PlanStageKeeps ==
    ASSUME RunInv, PlanStage
    PROVE  RunInv'
<1> USE DEF PlanStage, historyVars
<1> DEFINE own(t) == MustRun(t, asked[t], found[t])
<1>n. NStages \in Nat \ {0} /\ NoStage \notin Stage
  BY EngineAssumption
<1>t. /\ cursor \in Stage /\ from \in Stage /\ from <= cursor
      /\ cursor' = cursor + 1
      /\ upstream \in BOOLEAN
      /\ plan \in [Stage -> {"run", "skip", "absent"}]
      /\ upstream <=> \E t \in Stage : from <= t /\ t < cursor /\ own(t)
      /\ \A s \in Stage : plan[s] = DecidedAs(s)
  BY <1>n DEF RunInv, TypeOK, LoopInv, Stage
<1>1. \A s \in Stage : PlannedToRun(s, from, asked, found) <=>
         \E t \in Stage : from <= t /\ t <= s /\ own(t)
  BY <1>n, <1>t DEF PlannedToRun, Scope, StagesFrom, Stage
<1>2. PlannedToRun(cursor, from, asked, found) <=> upstream \/ own(cursor)
  <2>1. \A t \in Stage : t <= cursor <=> t < cursor \/ t = cursor
    BY <1>n, <1>t DEF Stage
  <2> HIDE DEF own
  <2> QED BY <1>1, <1>t, <2>1
<1>3. plan'[cursor] = IF PlannedToRun(cursor, from, asked, found) THEN "run" ELSE "skip"
  BY <1>2, <1>t DEF PlannedAction
<1>4. upstream' <=> PlannedToRun(cursor, from, asked, found)
  <2>1. upstream => PlannedToRun(cursor, from, asked, found)
    BY <1>2
  <2>2. plan'[cursor] = "run" <=> PlannedToRun(cursor, from, asked, found)
    BY <1>3
  <2>3. upstream' <=> upstream \/ plan'[cursor] = "run"
    BY Zenon
  <2> QED BY <2>1, <2>2, <2>3, Zenon
<1>5. TypeOK'
  <2>1. cursor' \in 1..NStages + 1
    BY <1>n, <1>t DEF Stage
  <2>2. plan' \in [Stage -> {"run", "skip", "absent"}] /\ upstream' \in BOOLEAN
    BY <1>t, <1>3
  <2> QED BY <2>1, <2>2 DEF RunInv, TypeOK
<1>6. Shape'
  BY DEF RunInv, Shape
<1>7. LoopInv'
  <2>1. from' <= cursor' /\ ran' = {}
    BY <1>n, <1>t DEF RunInv, LoopInv, Stage
  <2>2. upstream' <=> \E t \in Stage : from' <= t /\ t < cursor' /\ own(t)'
    <3>1. \A t \in Stage : t < cursor' <=> t <= cursor
      BY <1>n, <1>t DEF Stage
    <3> QED BY <1>1, <1>4, <1>t, <3>1
  <2>3. ASSUME NEW s \in Stage
        PROVE  plan'[s] = DecidedAs(s)'
    <3>1. CASE s = cursor
      <4>1. ~(s < from) /\ ~(s >= cursor')
        BY <3>1, <1>n, <1>t DEF Stage
      <4> QED BY <3>1, <4>1, <1>3 DEF DecidedAs, PlannedToRun
    <3>2. CASE s # cursor
      <4>1. s >= cursor' <=> s >= cursor
        BY <3>2, <1>n, <1>t DEF Stage
      <4>2. plan'[s] = plan[s]
        BY <3>2, <1>t
      <4> QED BY <4>1, <4>2, <1>t DEF DecidedAs, PlannedToRun
    <3> QED BY <3>1, <3>2
  <2> QED BY <2>1, <2>2, <2>3 DEF LoopInv
<1>8. WalkInv' /\ NothingReusedAfterARun'
  BY DEF RunInv, WalkInv, NothingReusedAfterARun
<1> QED BY <1>5, <1>6, <1>7, <1>8 DEF RunInv

(* What the loop has computed when it is through.                          *)
LEMMA LoopDone ==
    ASSUME RunInv
    PROVE  LoopComputesPlan
<1> SUFFICES ASSUME phase = "planning", cursor > NStages
             PROVE  plan = PlanOf(from, asked, found)
  BY DEF LoopComputesPlan
<1>1. \A s \in Stage : s < cursor /\ (s \in Scope(from) <=> ~(s < from))
  BY EngineAssumption DEF RunInv, TypeOK, Scope, StagesFrom, Stage
<1>2. \A s \in Stage : ~(s >= cursor)
  BY <1>1, EngineAssumption DEF RunInv, TypeOK, Stage
<1>3. plan \in [Stage -> {"run", "skip", "absent"}]
  BY DEF RunInv, TypeOK
<1>4. \A s \in Stage : plan[s] = PlanOf(from, asked, found)[s]
  BY <1>1, <1>2 DEF RunInv, LoopInv, DecidedAs, PlanOf
<1> QED BY <1>3, <1>4 DEF PlanOf

LEMMA StartWalkKeeps ==
    ASSUME RunInv, StartWalk
    PROVE  RunInv'
<1> USE DEF StartWalk, historyVars, planVars
<1>n. NStages \in Nat \ {0} /\ NoStage \notin Stage
  BY EngineAssumption
<1>1. plan = PlanOf(from, asked, found) /\ from \in Stage /\ ran = {}
  BY LoopDone DEF LoopComputesPlan, RunInv, TypeOK, LoopInv
<1>2. from \in Scope(from)
  BY <1>1, <1>n DEF Scope, StagesFrom, Stage
<1>3. Suffix(plan, from) /\ plan[from] \in {"run", "skip"}
  BY <1>1, <1>2, PlanIsSuffix
<1>4. TypeOK'
  BY <1>1, <1>n DEF RunInv, TypeOK
<1>5. Shape'
  BY DEF RunInv, Shape
<1>6. LoopInv' /\ WalkInv'
  BY <1>1, <1>3 DEF RunInv, LoopInv, WalkInv, Suffix
<1>7. NothingReusedAfterARun'
  BY DEF RunInv, NothingReusedAfterARun
<1> QED BY <1>4, <1>5, <1>6, <1>7 DEF RunInv

LEMMA RunStageKeeps ==
    ASSUME RunInv, NEW s \in Stage, RunStage(s)
    PROVE  RunInv'
<1> DEFINE next == NextAfter(plan', s)
<1>n. NStages \in Nat \ {0} /\ NoStage \notin Stage
  BY EngineAssumption
<1>1. /\ phase = "walking" /\ at = s /\ plan[s] = "run" /\ ended = "none"
      /\ plan \in [Stage -> {"run", "skip", "absent"}]
      /\ Suffix(plan, s)
      /\ ran \subseteq Stage
      /\ \A x \in ran : x < s /\ \A t \in Stage : x <= t /\ t < s => t \in ran
  BY DEF RunInv, TypeOK, WalkInv, RunStage
<1>2. /\ plan' \in [Stage -> {"run", "skip", "absent"}]
      /\ \A t \in Stage : t > s => plan'[t] = "run"
  <2>1. CASE plan' = plan
    BY <1>1, <2>1, <1>n DEF Suffix, Stage
  <2>2. CASE \E c \in Checkpoints(runs') : plan' = PlanOf(NoStage, now, c)
    BY <2>2, ReplanRunsAll, PlanIsSuffix
  <2> QED BY <2>1, <2>2 DEF RunStage
<1>3. ASSUME next = NoStage
      PROVE  LoopInv' /\ WalkInv' /\ NothingReusedAfterARun'
  <2>1. \A t \in Stage : t <= s
    BY <1>3, <1>2, <1>n, NextAfterIsNext DEF Stage
  <2>2. at' = NoStage /\ phase' = "idle" /\ ended' = "ready" /\ ran' = ran \cup {s}
    BY <1>3 DEF RunStage, Advance
  <2>3. NothingReusedAfterARun'
    <3> SUFFICES ASSUME NEW x \in ran', NEW t \in StagesFrom(x)
                 PROVE  t \in ran'
      BY DEF NothingReusedAfterARun
    <3>1. x \in Stage /\ t \in Stage /\ x <= t
      BY <2>2, <1>1, <1>n DEF StagesFrom, Stage
    <3>2. t < s \/ t = s
      BY <2>1, <3>1, <1>n DEF Stage
    <3>3. CASE t < s
      <4>1. x # s
        BY <3>1, <3>3, <1>n DEF Stage
      <4> QED BY <3>1, <3>3, <4>1, <2>2, <1>1
    <3> QED BY <3>2, <3>3, <2>2
  <2> QED BY <2>2, <2>3 DEF WalkInv, LoopInv
<1>4. ASSUME next # NoStage
      PROVE  LoopInv' /\ WalkInv' /\ NothingReusedAfterARun'
  <2>1. next \in Stage /\ next > s /\ \A t \in Stage : t < next => t <= s
    BY <1>4, <1>2, <1>n, NextAfterIsNext DEF Stage
  <2>2. at' = next /\ phase' = "walking" /\ ended' = "none" /\ ran' = ran \cup {s}
    BY <1>4, <1>1 DEF RunStage, Advance
  <2> HIDE DEF next
  <2>3. plan'[next] = "run" /\ Suffix(plan', next)
    BY <2>1, <1>2, <1>n DEF Suffix, Stage
  <2>4. ASSUME NEW x \in ran'
        PROVE  x < next /\ \A t \in Stage : x <= t /\ t < next => t \in ran'
    <3>1. x \in Stage /\ x <= s
      BY <2>2, <1>1, <1>n DEF Stage
    <3>2. x < next
      BY <3>1, <2>1, <1>n DEF Stage
    <3>3. ASSUME NEW t \in Stage, x <= t, t < next
          PROVE  t \in ran'
      <4>1. t < s \/ t = s
        BY <3>3, <2>1, <1>n DEF Stage
      <4>2. CASE t < s
        <5>1. x # s
          BY <3>1, <3>3, <4>2, <1>n DEF Stage
        <5> QED BY <3>3, <4>2, <5>1, <2>2, <1>1
      <4> QED BY <4>1, <4>2, <2>2
    <3> QED BY <3>2, <3>3
  <2> QED BY <2>2, <2>3, <2>4 DEF WalkInv, LoopInv, NothingReusedAfterARun
<1>5. TypeOK' /\ Shape'
  <2>1. /\ runs' \in [Stage -> SUBSET [attempt : 1..MaxAttempts, versions : AnyPayload]]
        /\ \A t \in Stage : runs'[t] \subseteq RunOf(t)
    <3>1. PICK a \in 1..MaxAttempts :
             runs' = [runs EXCEPT ![s] = @ \cup {[attempt |-> a, versions |-> now[s]]}]
      BY DEF RunStage
    <3>2. now[s] \in Payload[s] /\ now[s] \in AnyPayload
      BY DEF RunInv, TypeOK, AnyPayload
    <3> QED BY <3>1, <3>2 DEF RunInv, TypeOK, Shape, RunOf
  <2>2. /\ output' \in [Stage -> {NoOutput} \cup [versions : AnyPayload, sound : BOOLEAN]]
        /\ \A t \in Stage : output'[t] \in {NoOutput} \cup [versions : Payload[t], sound : BOOLEAN]
    <3>1. now[s] \in Payload[s] /\ now[s] \in AnyPayload
      BY DEF RunInv, TypeOK, AnyPayload
    <3>r. output' = [t \in Stage |->
                       IF t < s THEN output[t]
                       ELSE IF t > s THEN Unsound(output[t])
                       ELSE [versions |-> now[s],
                             sound |-> \A u \in 1..s - 1 :
                                           output[u] # NoOutput /\ output[u].sound]]
      BY DEF RunStage
    <3>2. ASSUME NEW t \in Stage
          PROVE  /\ output'[t] \in {NoOutput} \cup [versions : AnyPayload, sound : BOOLEAN]
                 /\ output'[t] \in {NoOutput} \cup [versions : Payload[t], sound : BOOLEAN]
      <4>1. CASE t < s
        <5>1. output'[t] = output[t]
          BY <4>1, <3>r
        <5> QED BY <5>1 DEF RunInv, TypeOK, Shape
      <4>2. CASE t > s
        <5>1. output'[t] = Unsound(output[t])
          BY <4>2, <3>r, <1>n DEF Stage
        <5> QED BY <5>1 DEF RunInv, TypeOK, Shape, Unsound
      <4>3. CASE t = s
        <5>1. output'[s] = [versions |-> now[s],
                            sound |-> \A u \in 1..s - 1 :
                                          output[u] # NoOutput /\ output[u].sound]
          BY <3>r, <1>n DEF Stage
        <5>2. (\A u \in 1..s - 1 : output[u] # NoOutput /\ output[u].sound) \in BOOLEAN
          OBVIOUS
        <5> QED BY <4>3, <5>1, <5>2, <3>1
      <4> QED BY <4>1, <4>2, <4>3, <1>n DEF Stage
    <3>3. output' = [t \in Stage |-> output'[t]]
      BY <3>r
    <3> QED BY <3>2, <3>3
  <2>3. /\ ran' \subseteq Stage /\ changed' = changed
        /\ now' = now /\ from' = from /\ found' = found /\ asked' = asked
        /\ cursor' = cursor /\ upstream' = upstream
        /\ tainted' \subseteq tainted
    BY <1>1 DEF RunStage, Advance
  <2>4. /\ at' \in Stage \cup {NoStage} /\ phase' \in {"idle", "walking"}
        /\ ended' \in {"none", "ready"}
        /\ (phase' = "walking") <=> (at' # NoStage)
    BY <1>1, NextAfterIsNext, <1>n DEF RunStage, Advance
  <2> QED BY <2>1, <2>2, <2>3, <2>4, <1>2 DEF RunInv, TypeOK, Shape
<1> QED BY <1>3, <1>4, <1>5 DEF RunInv

LEMMA SkipStageKeeps ==
    ASSUME RunInv, NEW s \in Stage, SkipStage(s)
    PROVE  RunInv'
<1> DEFINE next == NextAfter(plan, s)
<1> USE DEF SkipStage, historyVars, planVars
<1>n. NStages \in Nat \ {0} /\ NoStage \notin Stage
  BY EngineAssumption
<1>1. /\ phase = "walking" /\ at = s /\ ended = "none" /\ Suffix(plan, s)
      /\ ran = {} /\ ran' = {} /\ plan' = plan
  BY DEF RunInv, TypeOK, WalkInv
<1>2. TypeOK'
  <2>1. /\ at' \in Stage \cup {NoStage} /\ phase' \in {"idle", "walking"}
        /\ ended' \in {"none", "ready"} /\ tainted' \subseteq tainted
        /\ (phase' = "walking") <=> (at' # NoStage)
    BY <1>1, NextAfterIsNext, <1>n DEF Advance
  <2> QED BY <2>1 DEF RunInv, TypeOK
<1>3. Shape'
  BY DEF RunInv, Shape
<1>4. LoopInv' /\ NothingReusedAfterARun'
  BY <1>1 DEF LoopInv, Advance, NothingReusedAfterARun
<1>5. WalkInv'
  <2>1. phase' # "idle" => ended' = "none"
    BY <1>1 DEF Advance
  <2>2. ASSUME phase' = "walking"
        PROVE  plan'[at'] = "run" /\ Suffix(plan', at')
    <3>1. at' = next /\ next \in Stage /\ next > s /\ plan[next] = "run"
      BY <2>2, NextAfterIsNext DEF Advance
    <3> HIDE DEF next
    <3> QED BY <3>1, <1>1, <1>n DEF Suffix, Stage
  <2> QED BY <2>1, <2>2, <1>1 DEF WalkInv
<1> QED BY <1>2, <1>3, <1>4, <1>5 DEF RunInv

LEMMA FailStageKeeps ==
    ASSUME RunInv, NEW s \in Stage, FailStage(s)
    PROVE  RunInv'
<1> USE DEF planVars
<1>n. NStages \in Nat \ {0} /\ NoStage \notin Stage
  BY EngineAssumption
<1>1. PICK cleared \in BOOLEAN :
         output' = [t \in Stage |-> IF ~cleared \/ t < s THEN output[t]
                                   ELSE IF t = s THEN NoOutput ELSE Unsound(output[t])]
  BY DEF FailStage
<1>2. ASSUME NEW t \in Stage
      PROVE  /\ output'[t] \in {NoOutput} \cup [versions : AnyPayload, sound : BOOLEAN]
             /\ output'[t] \in {NoOutput} \cup [versions : Payload[t], sound : BOOLEAN]
  <2>1. output'[t] \in {output[t], NoOutput, Unsound(output[t])}
    BY <1>1
  <2> QED BY <2>1 DEF RunInv, TypeOK, Shape, Unsound
<1>3. TypeOK'
  BY <1>2, <1>n DEF RunInv, TypeOK, FailStage
<1>4. Shape'
  <2>1. output' \in [Stage -> {NoOutput} \cup [versions : AnyPayload, sound : BOOLEAN]]
    <3>1. output' = [t \in Stage |-> output'[t]]
      BY <1>1
    <3> QED BY <3>1, <1>2
  <2> QED BY <2>1 DEF RunInv, Shape, FailStage
<1>5. LoopInv' /\ WalkInv' /\ NothingReusedAfterARun'
  BY DEF FailStage, LoopInv, WalkInv, NothingReusedAfterARun
<1> QED BY <1>3, <1>4, <1>5 DEF RunInv

-----------------------------------------------------------------------------
(* The invariant holds throughout.                                         *)
THEOREM RunInvariant == Spec => []RunInv
<1>1. RunInv /\ [Next]_runVars => RunInv'
  <2> SUFFICES ASSUME RunInv, [Next]_runVars
               PROVE  RunInv'
    OBVIOUS
  <2>1. CASE \E s \in Stage : \E v \in Payload[s] : Deploy(s, v)
    BY <2>1, DeployKeeps
  <2>2. CASE \E f \in Stage : StartJob(f)
    BY <2>2, StartJobKeeps
  <2>3. CASE PlanStage
    BY <2>3, PlanStageKeeps
  <2>4. CASE StartWalk
    BY <2>4, StartWalkKeeps
  <2>5. CASE \E s \in Stage : RunStage(s)
    BY <2>5, RunStageKeeps
  <2>6. CASE \E s \in Stage : SkipStage(s)
    BY <2>6, SkipStageKeeps
  <2>7. CASE \E s \in Stage : FailStage(s)
    BY <2>7, FailStageKeeps
  <2>8. CASE UNCHANGED runVars
    BY <2>8 DEF runVars, RunInv, TypeOK, Shape, LoopInv, DecidedAs, WalkInv, Suffix,
                NothingReusedAfterARun
  <2> QED BY <2>1, <2>2, <2>3, <2>4, <2>5, <2>6, <2>7, <2>8 DEF Next
<1> QED BY InitRunInv, <1>1, PTL DEF Spec

(* Every variable keeps its type.                                          *)
THEOREM TypeCorrect == Spec => []TypeOK
<1>1. RunInv => TypeOK
  BY DEF RunInv
<1> QED BY RunInvariant, <1>1, PTL

(***************************************************************************)
(* The loop of plan() computes, for every number of stages and whatever    *)
(* the checkpoints, the plan in which a stage runs when it or a stage of   *)
(* the scope before it has a reason to.                                    *)
(***************************************************************************)
THEOREM PlansAreRight == Spec => []LoopComputesPlan
BY RunInvariant, LoopDone, PTL

(***************************************************************************)
(* No job becomes READY that ran a stage and not every stage after it,     *)
(* across versions, failures, resumed jobs and the plan made half way.     *)
(* It rests on validation, the first stage, never being reusable.          *)
(***************************************************************************)
THEOREM RunsAreSuffixes == Spec => []NothingReusedAfterARun
<1>1. RunInv => NothingReusedAfterARun
  BY DEF RunInv
<1> QED BY RunInvariant, <1>1, PTL

-----------------------------------------------------------------------------
(***************************************************************************)
(* What ReadyIsCurrent rests on.  Without a version rolled back, a run that *)
(* satisfies the versions in force is as good as the newest; without a     *)
(* failure, a stage that has succeeded has rows.                           *)
(***************************************************************************)
Holds(s) == output[s] # NoOutput /\ output[s].sound

HistoryTrue ==
    /\ "rollback" \notin tainted =>
         \A s \in Stage : \A r \in runs[s] :
            Matches(now[s], r.versions) /\ output[s] # NoOutput => output[s].versions = now[s]
    /\ "failure" \notin tainted => \A s \in Stage : runs[s] # {} => output[s] # NoOutput

(* Between jobs and before the first stage of one that runs, rows that are *)
(* there were computed from the rows there are.                            *)
RestSound ==
    "failure" \notin tainted /\ (phase # "walking" \/ ran = {}) =>
        \A s \in Stage : output[s] # NoOutput => output[s].sound

(* What a plan that is being made knows.                                   *)
PlanningKnows ==
    phase = "planning" =>
        /\ asked = now /\ changed = {}
        /\ \A s \in Stage : found[s] # NoCheckpoint => \E r \in runs[s] : r.versions = found[s]
        /\ \A s \in Stage : s < from => found[s] # NoCheckpoint

Reusable(s) == found[s] # NoCheckpoint /\ Matches(asked[s], found[s])

(* Stages behind the walk have succeeded, and what may be reused is good.  *)
BehindTheWalk ==
    phase = "walking" =>
        /\ \A s \in Stage : s < at => runs[s] # {}
        /\ \A s \in Stage : s >= at => plan[s] \in {"run", "skip"}
        /\ \A s \in Stage : plan[s] = "skip" => runs[s] # {} /\ Reusable(s)
        /\ "failure" \notin tainted => \A s \in Stage : s < at => Holds(s)
        /\ (\A s \in Stage : s < at => s \in ran) => \A s \in Stage : s < at => Holds(s)
        /\ "rollback" \notin tainted =>
             \A s \in Stage \ ran :
                Reusable(s) /\ output[s] # NoOutput => Matches(asked[s], output[s].versions)
        /\ \A s \in Stage : from <= s /\ s < at /\ s \notin ran => Reusable(s)
        /\ \A s \in Stage \ changed : asked[s] = now[s]
        /\ \A s \in ran \ changed : output[s] # NoOutput /\ output[s].versions = asked[s]

CurrentInv == HistoryTrue /\ RestSound /\ PlanningKnows /\ BehindTheWalk /\ ReadyIsCurrent

-----------------------------------------------------------------------------
(* A new contract has no history.                                          *)
LEMMA InitCurrent == Init => CurrentInv
BY DEF Init, CurrentInv, HistoryTrue, RestSound, PlanningKnows, BehindTheWalk, ReadyIsCurrent

LEMMA MatchesItself == \A v : Matches(v, v)
BY DEF Matches

(* Rows that there are have versions, and tell whether they are sound.     *)
LEMMA OutputTyped ==
    ASSUME RunInv, NEW s \in Stage
    PROVE  /\ output[s] # NoOutput => output[s] \in [versions : Payload[s], sound : BOOLEAN]
           /\ \A v \in Payload[s], b \in BOOLEAN : [versions |-> v, sound |-> b] # NoOutput
           /\ Unsound(output[s]) # NoOutput <=> output[s] # NoOutput
           /\ output[s] # NoOutput => Unsound(output[s]).versions = output[s].versions
<1>1. output[s] \in {NoOutput} \cup [versions : Payload[s], sound : BOOLEAN]
  BY DEF RunInv, TypeOK
<1>2. \A v \in Payload[s], b \in BOOLEAN : [versions |-> v, sound |-> b] # NoOutput
  <2>1. NoOutput \notin [versions : Payload[s], sound : BOOLEAN]
    BY RunAssumption
  <2> QED BY <2>1
<1>3. ASSUME output[s] # NoOutput
      PROVE  Unsound(output[s]) = [versions |-> output[s].versions, sound |-> FALSE]
  BY <1>1, <1>3 DEF Unsound
<1>4. CASE output[s] = NoOutput
  BY <1>2, <1>4 DEF Unsound
<1>5. CASE output[s] # NoOutput
  <2>1. output[s] \in [versions : Payload[s], sound : BOOLEAN] /\ output[s].versions \in Payload[s]
    BY <1>1, <1>5
  <2>2. Unsound(output[s]) # NoOutput /\ Unsound(output[s]).versions = output[s].versions
    <3>1. Unsound(output[s]) = [versions |-> output[s].versions, sound |-> FALSE]
      BY <1>3, <1>5
    <3>2. [versions |-> output[s].versions, sound |-> FALSE] # NoOutput
      BY <1>2, <2>1
    <3> QED BY <3>1, <3>2
  <2> QED BY <1>2, <1>5, <2>1, <2>2
<1> QED BY <1>4, <1>5

-----------------------------------------------------------------------------
(* Every action preserves the invariant, one lemma for each.               *)
LEMMA DeployCurrent ==
    ASSUME RunInv, CurrentInv, NEW s \in Stage, NEW v \in Payload[s], Deploy(s, v)
    PROVE  CurrentInv'
<1> USE DEF Deploy, historyVars, planVars
<1>1. tainted \subseteq tainted' /\ ("failure" \in tainted' => "failure" \in tainted)
  OBVIOUS
<1>2. HistoryTrue'
  <2>1. now' \in [Stage -> AnyPayload] /\ now'[s] = v /\ \A t \in Stage \ {s} : now'[t] = now[t]
    BY DEF RunInv, Shape, AnyPayload
  <2>2. ASSUME "rollback" \notin tainted', NEW t \in Stage, NEW r \in runs[t],
               Matches(now'[t], r.versions), output[t] # NoOutput
        PROVE  output[t].versions = now'[t]
    BY <1>1, <2>1, <2>2 DEF CurrentInv, HistoryTrue
  <2> QED BY <1>1, <2>2 DEF CurrentInv, HistoryTrue
<1>3. RestSound' /\ PlanningKnows'
  BY <1>1 DEF CurrentInv, RestSound, PlanningKnows
<1>4. BehindTheWalk'
  <2>1. phase' = "walking" => \A t \in Stage \ changed' : t # s /\ t \notin changed
    OBVIOUS
  <2>2. \A t \in Stage : t # s => now'[t] = now[t]
    BY DEF RunInv, Shape
  <2>3. changed \subseteq changed'
    OBVIOUS
  <2> QED BY <1>1, <2>1, <2>2, <2>3 DEF CurrentInv, BehindTheWalk, Holds, Reusable
<1>5. ReadyIsCurrent'
  BY <1>1 DEF CurrentInv, ReadyIsCurrent
<1> QED BY <1>2, <1>3, <1>4, <1>5 DEF CurrentInv

LEMMA StartJobCurrent ==
    ASSUME RunInv, CurrentInv, NEW f \in Stage, StartJob(f)
    PROVE  CurrentInv'
<1> USE DEF StartJob, historyVars
<1>1. HistoryTrue' /\ RestSound' /\ BehindTheWalk' /\ ReadyIsCurrent'
  BY DEF CurrentInv, HistoryTrue, RestSound, BehindTheWalk, ReadyIsCurrent
<1>2. found' \in Checkpoints(runs) /\ MissingBefore(f, found') = {}
  OBVIOUS
<1>3. ASSUME NEW t \in Stage, found'[t] # NoCheckpoint
      PROVE  \E r \in runs[t] : r.versions = found'[t]
  BY <1>2, <1>3 DEF Checkpoints, CheckpointChoices, Newest
<1>4. ASSUME NEW t \in Stage, t < f
      PROVE  found'[t] # NoCheckpoint
  <2>1. t \notin Scope(f)
    BY <1>4, EngineAssumption DEF Scope, StagesFrom, Stage
  <2> QED BY <1>2, <2>1 DEF MissingBefore
<1> QED BY <1>1, <1>3, <1>4 DEF CurrentInv, PlanningKnows

LEMMA PlanStageCurrent ==
    ASSUME RunInv, CurrentInv, PlanStage
    PROVE  CurrentInv'
BY DEF PlanStage, historyVars, RunInv, WalkInv, CurrentInv, HistoryTrue, RestSound, PlanningKnows,
       BehindTheWalk, ReadyIsCurrent

(* What the plan reuses has rows made by the versions in force.            *)
LEMMA StartWalkCurrent ==
    ASSUME RunInv, CurrentInv, StartWalk
    PROVE  CurrentInv'
<1> USE DEF StartWalk, historyVars, planVars
<1>n. NStages \in Nat \ {0} /\ NoStage \notin Stage
  BY EngineAssumption
<1>1. /\ plan = PlanOf(from, asked, found) /\ from \in Stage /\ ran = {}
      /\ ended = "none" /\ asked = now /\ phase = "planning"
  BY LoopDone DEF LoopComputesPlan, RunInv, TypeOK, LoopInv, WalkInv, CurrentInv, PlanningKnows
<1>2. \A t \in Stage : t \in Scope(from) <=> t >= from
  BY <1>1, <1>n DEF Scope, StagesFrom, Stage
<1>3. ASSUME NEW t \in Stage, found[t] # NoCheckpoint
      PROVE  runs[t] # {} /\ \E r \in runs[t] : r.versions = found[t]
  BY <1>1, <1>3 DEF CurrentInv, PlanningKnows
<1>4. ASSUME NEW t \in Stage, plan[t] = "skip"
      PROVE  Reusable(t)
  <2>1. t \in Scope(from) /\ ~PlannedToRun(t, from, asked, found)
    BY <1>1, <1>4 DEF PlanOf
  <2>2. ~MustRun(t, asked[t], found[t])
    BY <2>1, <1>n DEF PlannedToRun, Stage
  <2> QED BY <2>2 DEF MustRun, Reusable
<1>5. ASSUME "rollback" \notin tainted, NEW t \in Stage, Reusable(t), output[t] # NoOutput
      PROVE  Matches(asked[t], output[t].versions)
  BY <1>1, <1>3, <1>5, MatchesItself DEF CurrentInv, HistoryTrue, Reusable
<1>6. \A t \in Stage : t < from => runs[t] # {}
  BY <1>1, <1>3 DEF CurrentInv, PlanningKnows
<1>7. "failure" \notin tainted => \A t \in Stage : t < from => Holds(t)
  BY <1>1, <1>6 DEF CurrentInv, HistoryTrue, RestSound, Holds
<1>8. (\A t \in Stage : t < from => t \in ran) => \A t \in Stage : t < from => Holds(t)
  BY <1>1
<1>9. \A t \in Stage : t >= from => plan[t] \in {"run", "skip"}
  BY <1>1, <1>2, PlanIsSuffix
<1>10. ~\E t \in Stage : from <= t /\ t < from
  BY <1>1, <1>n DEF Stage
<1>11. BehindTheWalk'
  BY <1>1, <1>3, <1>4, <1>5, <1>6, <1>7, <1>8, <1>9, <1>10 DEF BehindTheWalk, Holds, Reusable
<1>12. HistoryTrue' /\ RestSound' /\ PlanningKnows' /\ ReadyIsCurrent'
  BY <1>1 DEF CurrentInv, HistoryTrue, RestSound, PlanningKnows, ReadyIsCurrent
<1> QED BY <1>11, <1>12 DEF CurrentInv

(***************************************************************************)
(* A stage that ran is sound when everything before it is, and the next    *)
(* one, if there is one, runs too.                                         *)
(***************************************************************************)
LEMMA RunStageFacts ==
    ASSUME RunInv, CurrentInv, NEW s \in Stage, RunStage(s)
    PROVE  /\ phase = "walking" /\ at = s /\ ended = "none" /\ plan[s] = "run"
           /\ ran' = ran \cup {s} /\ ran \subseteq Stage /\ s \notin ran
           /\ \A t \in Stage : t > s => plan'[t] = "run"
           /\ plan'[s] \in {"run", "skip"}
           /\ plan' = plan \/ \A t \in Stage : plan'[t] = "run"
           /\ \A t \in Stage : t < s => output'[t] = output[t] /\ runs'[t] = runs[t]
           /\ \A t \in Stage : t > s => output'[t] = Unsound(output[t]) /\ runs'[t] = runs[t]
           /\ output'[s].versions = now[s]
           /\ output'[s].sound <=> \A t \in Stage : t < s => Holds(t)
           /\ output'[s] # NoOutput
           /\ runs'[s] # {} /\ runs[s] \subseteq runs'[s]
           /\ \A r \in runs'[s] : r \in runs[s] \/ r.versions = now[s]
<1>n. NStages \in Nat \ {0} /\ NoStage \notin Stage
  BY EngineAssumption
<1>1. /\ phase = "walking" /\ at = s /\ plan[s] = "run" /\ ended = "none"
      /\ Suffix(plan, s) /\ ran \subseteq Stage /\ ran' = ran \cup {s}
      /\ \A x \in ran : x < s
  BY DEF RunInv, TypeOK, WalkInv, RunStage
<1>2. s \notin ran
  BY <1>1, <1>n DEF Stage
<1>3. plan' = plan \/ \A t \in Stage : plan'[t] = "run"
  BY ReplanRunsAll DEF RunStage
<1>4. \A t \in Stage : t > s => plan'[t] = "run"
  BY <1>1, <1>3, <1>n DEF Suffix, Stage
<1>5. plan'[s] \in {"run", "skip"}
  BY <1>1, <1>3
<1>6. output' = [t \in Stage |->
                    IF t < s THEN output[t]
                    ELSE IF t > s THEN Unsound(output[t])
                    ELSE [versions |-> now[s],
                          sound |-> \A u \in 1..s - 1 : output[u] # NoOutput /\ output[u].sound]]
  BY DEF RunStage
<1>7. /\ \A t \in Stage : t < s => output'[t] = output[t]
      /\ \A t \in Stage : t > s => output'[t] = Unsound(output[t])
      /\ output'[s] = [versions |-> now[s],
                       sound |-> \A u \in 1..s - 1 : output[u] # NoOutput /\ output[u].sound]
  BY <1>6, <1>n DEF Stage
<1>8. (\A u \in 1..s - 1 : output[u] # NoOutput /\ output[u].sound)
        <=> \A t \in Stage : t < s => Holds(t)
  <2>1. \A u : u \in 1..s - 1 <=> u \in Stage /\ u < s
    BY <1>n DEF Stage
  <2> QED BY <2>1 DEF Holds
<1>9. output'[s] # NoOutput
  <2>1. now[s] \in Payload[s]
    BY DEF RunInv, TypeOK
  <2>2. (\A u \in 1..s - 1 : output[u] # NoOutput /\ output[u].sound) \in BOOLEAN
    OBVIOUS
  <2> QED BY <1>7, <2>1, <2>2, OutputTyped
<1>10. PICK a \in 1..MaxAttempts :
          runs' = [runs EXCEPT ![s] = @ \cup {[attempt |-> a, versions |-> now[s]]}]
  BY DEF RunStage
<1>11. /\ runs'[s] = runs[s] \cup {[attempt |-> a, versions |-> now[s]]}
       /\ \A t \in Stage \ {s} : runs'[t] = runs[t]
  BY <1>10 DEF RunInv, Shape
<1>12. \A t \in Stage : t < s \/ t > s => runs'[t] = runs[t]
  BY <1>11, <1>n DEF Stage
<1>13. output'[s].versions = now[s] /\ (output'[s].sound <=> \A t \in Stage : t < s => Holds(t))
  BY <1>7, <1>8
<1>14. /\ runs'[s] # {} /\ runs[s] \subseteq runs'[s]
       /\ \A r \in runs'[s] : r \in runs[s] \/ r.versions = now[s]
  <2> DEFINE made == [attempt |-> a, versions |-> now[s]]
  <2>1. made.versions = now[s]
    OBVIOUS
  <2>2. runs'[s] = runs[s] \cup {made}
    BY <1>11
  <2> HIDE DEF made
  <2> QED BY <2>1, <2>2
<1>15. /\ \A t \in Stage : t < s => output'[t] = output[t] /\ runs'[t] = runs[t]
       /\ \A t \in Stage : t > s => output'[t] = Unsound(output[t]) /\ runs'[t] = runs[t]
  BY <1>7, <1>12
<1> QED BY <1>1, <1>2, <1>3, <1>4, <1>5, <1>9, <1>13, <1>14, <1>15

LEMMA RunStageCurrent ==
    ASSUME RunInv, CurrentInv, NEW s \in Stage, RunStage(s)
    PROVE  CurrentInv'
<1> DEFINE next == NextAfter(plan', s)
<1>n. NStages \in Nat \ {0} /\ NoStage \notin Stage
  BY EngineAssumption
<1>f. /\ phase = "walking" /\ at = s /\ ended = "none" /\ plan[s] = "run"
      /\ ran' = ran \cup {s} /\ ran \subseteq Stage /\ s \notin ran
      /\ \A t \in Stage : t > s => plan'[t] = "run"
      /\ plan'[s] \in {"run", "skip"}
      /\ plan' = plan \/ \A t \in Stage : plan'[t] = "run"
      /\ \A t \in Stage : t < s => output'[t] = output[t] /\ runs'[t] = runs[t]
      /\ \A t \in Stage : t > s => output'[t] = Unsound(output[t]) /\ runs'[t] = runs[t]
      /\ output'[s].versions = now[s]
      /\ output'[s].sound <=> \A t \in Stage : t < s => Holds(t)
      /\ output'[s] # NoOutput
      /\ runs'[s] # {} /\ runs[s] \subseteq runs'[s]
      /\ \A r \in runs'[s] : r \in runs[s] \/ r.versions = now[s]
  BY RunStageFacts
<1>u. /\ now' = now /\ asked' = asked /\ found' = found /\ from' = from /\ changed' = changed
      /\ tainted' \subseteq tainted /\ ("rollback" \in tainted => "rollback" \in tainted')
  BY DEF RunStage, Advance
<1>b. /\ \A t \in Stage : t < s => runs[t] # {}
      /\ \A t \in Stage : plan[t] = "skip" => runs[t] # {} /\ Reusable(t)
      /\ "failure" \notin tainted => \A t \in Stage : t < s => Holds(t)
      /\ (\A t \in Stage : t < s => t \in ran) => \A t \in Stage : t < s => Holds(t)
      /\ "rollback" \notin tainted =>
           \A t \in Stage \ ran :
              Reusable(t) /\ output[t] # NoOutput => Matches(asked[t], output[t].versions)
      /\ \A t \in Stage : from <= t /\ t < s /\ t \notin ran => Reusable(t)
      /\ \A t \in Stage \ changed : asked[t] = now[t]
      /\ \A t \in ran \ changed : output[t] # NoOutput /\ output[t].versions = asked[t]
  BY <1>f DEF CurrentInv, BehindTheWalk
<1>o. \A t \in Stage : t < s \/ t > s \/ t = s
  BY <1>n DEF Stage
(* Where everything before is sound, everything up to the stage is.        *)
<1>1. ASSUME \A t \in Stage : t < s => Holds(t)
      PROVE  \A t \in Stage : t <= s => output'[t] # NoOutput /\ output'[t].sound
  <2>1. \A t \in Stage : t <= s <=> t < s \/ t = s
    BY <1>n DEF Stage
  <2> QED BY <1>1, <1>f, <2>1 DEF Holds
<1>2. ASSUME \A t \in Stage : t < s => t \in ran'
      PROVE  \A t \in Stage : t < s => Holds(t)
  <2>1. \A t \in Stage : t < s => t # s
    BY <1>n DEF Stage
  <2> QED BY <1>2, <1>b, <1>f, <2>1
<1>3. \A t \in Stage : t # s => (output'[t] # NoOutput <=> output[t] # NoOutput)
                                 /\ (output[t] # NoOutput => output'[t].versions = output[t].versions)
  BY <1>f, <1>o, OutputTyped
(* What ran left rows of the versions asked for, or of ones deployed since. *)
<1>v. \A t \in ran' \ changed : output'[t] # NoOutput /\ output'[t].versions = asked[t]
  BY <1>3, <1>b, <1>f
<1>4. CASE next = NoStage
  <2>1. \A t \in Stage : t <= s
    BY <1>4, <1>f, <1>n, NextAfterIsNext DEF Stage
  <2>2. phase' = "idle" /\ ended' = "ready" /\ at' = NoStage
    BY <1>4 DEF RunStage, Advance
  <2>3. "failure" \notin tainted' => "failure" \notin tainted \/ ran' = Stage
    BY DEF RunStage, Advance
  <2>4. "failure" \notin tainted' => \A t \in Stage : output'[t] # NoOutput /\ output'[t].sound
    BY <1>1, <1>2, <1>b, <2>1, <2>3
  <2>5. HistoryTrue'
    <3>1. ASSUME "rollback" \notin tainted', NEW t \in Stage, NEW r \in runs'[t],
                 Matches(now[t], r.versions), output'[t] # NoOutput
          PROVE  output'[t].versions = now[t]
      BY <3>1, <1>3, <1>f, <1>o, <1>u DEF CurrentInv, HistoryTrue
    <3> QED BY <3>1, <2>4, <1>u DEF HistoryTrue
  <2>6. RestSound' /\ PlanningKnows' /\ BehindTheWalk'
    BY <2>2, <2>4 DEF RestSound, PlanningKnows, BehindTheWalk
  <2>7. ReadyIsCurrent'
    <3>1. ASSUME tainted' = {}, NEW t \in StagesFrom(from) \ ran'
          PROVE  Matches(asked[t], output'[t].versions)
      <4>1. t \in Stage /\ from <= t /\ t # s /\ t \notin ran
        BY <3>1, <1>f, <1>n DEF StagesFrom, Stage, RunInv, TypeOK
      <4>2. t < s
        BY <4>1, <2>1, <1>n DEF Stage
      <4>3. Reusable(t)
        BY <4>1, <4>2, <1>b
      <4>4. "rollback" \notin tainted /\ output[t] # NoOutput
        BY <1>u, <1>3, <2>4, <3>1, <4>1
      <4> QED BY <1>b, <1>3, <4>1, <4>3, <4>4
    <3> QED BY <3>1, <2>4, <1>u, <1>v DEF ReadyIsCurrent
  <2> QED BY <2>5, <2>6, <2>7 DEF CurrentInv
<1>5. CASE next # NoStage
  <2>1. next \in Stage /\ next > s
    BY <1>5, <1>f, NextAfterIsNext
  <2>2. \A t \in Stage : t < next <=> t <= s
    <3>1. \A t \in Stage : t > s /\ t < next => plan'[t] # "run"
      BY <1>5, NextAfterIsNext
    <3> HIDE DEF next
    <3> QED BY <3>1, <1>f, <2>1, <1>n DEF Stage
  <2>3. phase' = "walking" /\ at' = next /\ ended' = "none" /\ tainted' = tainted /\ ran' # {}
    BY <1>5, <1>f DEF RunStage, Advance
  <2> HIDE DEF next
  <2>4. HistoryTrue'
    <3>1. ASSUME "rollback" \notin tainted', NEW t \in Stage, NEW r \in runs'[t],
                 Matches(now[t], r.versions), output'[t] # NoOutput
          PROVE  output'[t].versions = now[t]
      BY <3>1, <1>3, <1>f, <1>o, <1>u DEF CurrentInv, HistoryTrue
    <3>2. ASSUME "failure" \notin tainted', NEW t \in Stage, runs'[t] # {}
          PROVE  output'[t] # NoOutput
      BY <3>2, <2>3, <1>3, <1>f, <1>o DEF CurrentInv, HistoryTrue
    <3> QED BY <3>1, <3>2, <1>u DEF HistoryTrue
  <2>5. RestSound' /\ PlanningKnows' /\ ReadyIsCurrent'
    BY <2>3 DEF RestSound, PlanningKnows, ReadyIsCurrent
  <2>6. BehindTheWalk'
    <3>1. \A t \in Stage : t < next => runs'[t] # {}
      BY <1>b, <1>f, <1>o, <2>2, <1>n DEF Stage
    <3>2. \A t \in Stage : t >= next => plan'[t] \in {"run", "skip"}
      BY <1>f, <2>1, <1>n DEF Stage
    <3>3. \A t \in Stage : plan'[t] = "skip" => runs'[t] # {} /\ Reusable(t)'
      <4>1. Reusable(s)' = Reusable(s) /\ \A t \in Stage : Reusable(t)' = Reusable(t)
        BY <1>u DEF Reusable
      <4> QED BY <1>b, <1>f, <1>o, <4>1
    <3>4. "failure" \notin tainted' => \A t \in Stage : t < next => Holds(t)'
      BY <1>1, <1>b, <2>2, <2>3 DEF Holds
    <3>5. (\A t \in Stage : t < next => t \in ran') => \A t \in Stage : t < next => Holds(t)'
      <4> SUFFICES ASSUME \A t \in Stage : t < next => t \in ran'
                   PROVE  \A t \in Stage : t < next => Holds(t)'
        OBVIOUS
      <4>1. \A t \in Stage : t < s => t \in ran'
        BY <2>2, <1>n DEF Stage
      <4> QED BY <4>1, <1>1, <1>2, <2>2 DEF Holds
    <3>6. ASSUME "rollback" \notin tainted', NEW t \in Stage \ ran', Reusable(t)',
                 output'[t] # NoOutput
          PROVE  Matches(asked[t], output'[t].versions)
      <4>1. t # s /\ t \notin ran /\ Reusable(t)
        BY <3>6, <1>f, <1>u DEF Reusable
      <4> QED BY <3>6, <4>1, <1>3, <1>b, <2>3
    <3>7. ASSUME NEW t \in Stage, from <= t, t < next, t \notin ran'
          PROVE  Reusable(t)'
      <4>1. t # s /\ t \notin ran /\ t < s
        BY <3>7, <1>f, <1>o, <2>2, <1>n DEF Stage
      <4> QED BY <3>7, <4>1, <1>b, <1>u DEF Reusable
    <3> QED BY <3>1, <3>2, <3>3, <3>4, <3>5, <3>6, <3>7, <2>3, <1>u, <1>v, <1>b DEF BehindTheWalk
  <2> QED BY <2>4, <2>5, <2>6 DEF CurrentInv
<1> QED BY <1>4, <1>5

(* A job skips before it has run anything, while all rows there are sound. *)
LEMMA SkipStageCurrent ==
    ASSUME RunInv, CurrentInv, NEW s \in Stage, SkipStage(s)
    PROVE  CurrentInv'
<1> DEFINE next == NextAfter(plan, s)
<1> USE DEF SkipStage, historyVars, planVars
<1>n. NStages \in Nat \ {0} /\ NoStage \notin Stage
  BY EngineAssumption
<1>1. /\ phase = "walking" /\ at = s /\ ended = "none" /\ plan[s] = "skip"
      /\ ran = {} /\ ran' = {} /\ changed' = changed
  BY DEF RunInv, TypeOK, WalkInv
<1>2. tainted' = tainted
  BY <1>1, <1>n DEF Advance, Stage
<1>3. /\ \A t \in Stage : t < s => runs[t] # {}
      /\ \A t \in Stage : t >= s => plan[t] \in {"run", "skip"}
      /\ \A t \in Stage : plan[t] = "skip" => runs[t] # {} /\ Reusable(t)
      /\ "rollback" \notin tainted =>
           \A t \in Stage :
              Reusable(t) /\ output[t] # NoOutput => Matches(asked[t], output[t].versions)
      /\ \A t \in Stage : from <= t /\ t < s => Reusable(t)
      /\ \A t \in Stage \ changed : asked[t] = now[t]
  BY <1>1 DEF CurrentInv, BehindTheWalk
<1>4. ASSUME NEW t \in Stage, runs[t] # {}, "failure" \notin tainted
      PROVE  Holds(t)
  BY <1>1, <1>4 DEF CurrentInv, HistoryTrue, RestSound, Holds
<1>5. \A t \in Stage : from <= t /\ (t <= s \/ plan[t] = "skip") => Reusable(t)
  BY <1>1, <1>3, <1>n DEF Stage
<1>6. HistoryTrue'
  BY <1>2 DEF CurrentInv, HistoryTrue
<1>7. RestSound' /\ PlanningKnows'
  BY <1>1, <1>2 DEF CurrentInv, RestSound, PlanningKnows, Advance
<1>8. CASE next = NoStage
  <2>1. phase' = "idle" /\ ended' = "ready"
    BY <1>8 DEF Advance
  <2>2. ASSUME NEW t \in Stage
        PROVE  runs[t] # {}
    <3>1. CASE t < s
      BY <3>1, <1>3
    <3>2. CASE t = s
      BY <3>2, <1>1, <1>3
    <3>3. CASE t > s
      <4>1. t >= s /\ plan[t] # "run"
        BY <3>3, <1>8, <1>n, NextAfterIsNext DEF Stage
      <4> QED BY <4>1, <1>3
    <3> QED BY <3>1, <3>2, <3>3, <1>n DEF Stage
  <2>3. ASSUME NEW t \in StagesFrom(from)
        PROVE  t \in Stage /\ Reusable(t)
    <3>1. t \in Stage /\ from <= t
      BY <1>n DEF StagesFrom, Stage, RunInv, TypeOK
    <3>2. t <= s \/ plan[t] = "skip"
      <4>1. t > s => plan[t] # "run"
        BY <3>1, <1>8, <1>n, NextAfterIsNext DEF Stage
      <4> QED BY <3>1, <4>1, <1>3, <1>n DEF Stage
    <3> QED BY <3>1, <3>2, <1>5
  <2>5. ReadyIsCurrent'
    BY <1>1, <1>2, <1>3, <1>4, <2>2, <2>3 DEF ReadyIsCurrent, Holds
  <2>4. BehindTheWalk'
    BY <2>1 DEF BehindTheWalk
  <2> QED BY <1>6, <1>7, <2>4, <2>5 DEF CurrentInv
<1>9. CASE next # NoStage
  <2>1. /\ next \in Stage /\ next > s
        /\ \A t \in Stage : t > s /\ t < next => plan[t] # "run"
    BY <1>9, NextAfterIsNext
  <2>2. phase' = "walking" /\ at' = next /\ ended' = "none"
    BY <1>1, <1>9 DEF Advance
  <2> HIDE DEF next
  <2>3. ASSUME NEW t \in Stage, t < next
        PROVE  runs[t] # {}
    <3>1. CASE t < s
      BY <3>1, <1>3
    <3>2. CASE t = s
      BY <3>2, <1>1, <1>3
    <3>3. CASE t > s
      <4>1. t >= s /\ plan[t] # "run"
        BY <2>1, <2>3, <3>3, <1>n DEF Stage
      <4> QED BY <4>1, <1>3
    <3> QED BY <3>1, <3>2, <3>3, <1>n DEF Stage
  <2>4. \A t \in Stage : t >= next => plan[t] \in {"run", "skip"}
    BY <1>3, <2>1, <1>n DEF Stage
  <2>5. ASSUME NEW t \in Stage, from <= t, t < next
        PROVE  Reusable(t)
    <3>1. t <= s \/ plan[t] = "skip"
      BY <2>1, <2>5, <1>3, <1>n DEF Stage
    <3> QED BY <2>5, <3>1, <1>5
  <2>6. ~\A t \in Stage : t < next => t \in ran'
    BY <1>1, <2>1, <1>n DEF Stage
  <2>7. BehindTheWalk'
    BY <1>2, <1>1, <1>3, <1>4, <2>2, <2>3, <2>4, <2>5, <2>6 DEF BehindTheWalk, Holds, Reusable
  <2>8. ReadyIsCurrent'
    BY <2>2 DEF ReadyIsCurrent
  <2> QED BY <1>6, <1>7, <2>7, <2>8 DEF CurrentInv
<1> QED BY <1>8, <1>9

LEMMA FailStageCurrent ==
    ASSUME RunInv, CurrentInv, NEW s \in Stage, FailStage(s)
    PROVE  CurrentInv'
<1> USE DEF FailStage, planVars
<1>1. phase' = "idle" /\ ended' = "failed" /\ "failure" \in tainted'
      /\ ("rollback" \in tainted => "rollback" \in tainted') /\ runs' = runs /\ now' = now
  OBVIOUS
<1>2. PICK cleared \in BOOLEAN :
         output' = [t \in Stage |-> IF ~cleared \/ t < s THEN output[t]
                                   ELSE IF t = s THEN NoOutput ELSE Unsound(output[t])]
  OBVIOUS
<1>3. ASSUME NEW t \in Stage, output'[t] # NoOutput
      PROVE  output[t] # NoOutput /\ output'[t].versions = output[t].versions
  <2>1. output'[t] = output[t] \/ output'[t] = Unsound(output[t])
    BY <1>2, <1>3
  <2> QED BY <1>3, <2>1, OutputTyped
<1>4. HistoryTrue'
  BY <1>1, <1>3 DEF CurrentInv, HistoryTrue
<1> QED BY <1>1, <1>4 DEF CurrentInv, RestSound, PlanningKnows, BehindTheWalk, ReadyIsCurrent

-----------------------------------------------------------------------------
(* The invariant holds throughout.                                         *)
THEOREM HistoryInvariant == Spec => []CurrentInv
<1>1. RunInv /\ CurrentInv /\ [Next]_runVars => CurrentInv'
  <2> SUFFICES ASSUME RunInv, CurrentInv, [Next]_runVars
               PROVE  CurrentInv'
    OBVIOUS
  <2>1. CASE \E s \in Stage : \E v \in Payload[s] : Deploy(s, v)
    BY <2>1, DeployCurrent
  <2>2. CASE \E f \in Stage : StartJob(f)
    BY <2>2, StartJobCurrent
  <2>3. CASE PlanStage
    BY <2>3, PlanStageCurrent
  <2>4. CASE StartWalk
    BY <2>4, StartWalkCurrent
  <2>5. CASE \E s \in Stage : RunStage(s)
    BY <2>5, RunStageCurrent
  <2>6. CASE \E s \in Stage : SkipStage(s)
    BY <2>6, SkipStageCurrent
  <2>7. CASE \E s \in Stage : FailStage(s)
    BY <2>7, FailStageCurrent
  <2>8. CASE UNCHANGED runVars
    BY <2>8 DEF runVars, CurrentInv, HistoryTrue, RestSound, PlanningKnows, BehindTheWalk,
                ReadyIsCurrent, Holds, Reusable
  <2> QED BY <2>1, <2>2, <2>3, <2>4, <2>5, <2>6, <2>7, <2>8 DEF Next
<1> QED BY InitCurrent, RunInvariant, <1>1, PTL DEF Spec

(***************************************************************************)
(* What a READY job answers for, whatever was deployed, resumed, skipped   *)
(* and planned again: sound rows for every stage where no failure is left  *)
(* over, rows of the versions planned with, or of ones deployed since,     *)
(* where a stage ran, and rows that match the versions planned with where  *)
(* it did not, unless there was a failure or a rollback.                   *)
(***************************************************************************)
THEOREM ReadyJobsAreCurrent == Spec => []ReadyIsCurrent
<1>1. CurrentInv => ReadyIsCurrent
  BY DEF CurrentInv
<1> QED BY HistoryInvariant, <1>1, PTL

=============================================================================
