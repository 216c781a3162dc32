--------------------------- MODULE WorkflowEngine ---------------------------
(***************************************************************************)
(* The decision plane (orchestrator/workflow.py with core/versions.py and  *)
(* STAGE_ORDER of core/enums.py): which stages of a job run, which reuse a *)
(* checkpoint, and which stage follows a completed one.  Operators only;   *)
(* the modules that execute plans extend this one.                         *)
(*                                                                         *)
(* Stages are their positions in STAGE_ORDER, from 1.  A version payload   *)
(* is a function on the version fields it declares, which is what          *)
(* model_dump(exclude_none=True) leaves once the empty values, which       *)
(* matches() passes over, are dropped as well.                             *)
(***************************************************************************)
EXTENDS Naturals, FiniteSets

CONSTANTS NStages,      \* length of STAGE_ORDER
          Cacheable,    \* the stages whose handler sets cacheable
          Available,    \* the stages whose handler can be imported
          NoStage,      \* None where a stage is optional
          NoCheckpoint  \* a stage with no succeeded run

Stage == 1..NStages

ASSUME EngineAssumption ==
    /\ NStages \in Nat \ {0}
    /\ Cacheable \subseteq Stage
    /\ Available \subseteq Stage
    /\ NoStage \notin Stage

(* stages_from(): the stage and every stage after it.                      *)
StagesFrom(from) == from..NStages

(* The scope of plan(from_stage=...).                                      *)
Scope(from) == IF from = NoStage THEN Stage ELSE StagesFrom(from)

(* Faulty: a stage whose checkpoint is never reused is not asked for one.  *)
MissingCacheable(from, checkpoints) ==
    {s \in Cacheable \ Scope(from) : checkpoints[s] = NoCheckpoint}

(* _validate_prerequisites(): what a plan from a stage finds missing.      *)
MissingBefore(from, checkpoints) ==
    {s \in Stage \ Scope(from) : checkpoints[s] = NoCheckpoint}

(***************************************************************************)
(* ComponentVersions.matches(), asymmetric: a field the current payload    *)
(* declares must be stored with the same value, a field only the stored    *)
(* payload has is ignored.                                                 *)
(***************************************************************************)
Matches(now, stored) ==
    \A f \in DOMAIN now : f \in DOMAIN stored /\ stored[f] = now[f]

(* Faulty: a checkpoint is reused whatever versions made it.               *)
MustRunOnlyIfNew(s, now, checkpoint) ==
    \/ checkpoint = NoCheckpoint
    \/ s \notin Available
    \/ s \notin Cacheable

(* _plan_stage() answers "run" for one stage judged by itself.             *)
MustRun(s, now, checkpoint) ==
    \/ checkpoint = NoCheckpoint
    \/ s \notin Available
    \/ s \notin Cacheable
    \/ ~Matches(now, checkpoint)

(* Faulty: a stage is judged by itself.                                    *)
PlannedAlone(s, from, now, checkpoints) == MustRun(s, now[s], checkpoints[s])

(***************************************************************************)
(* What plan() means: a stage of the scope runs exactly when it or a stage *)
(* before it in the scope has a reason of its own to run.                  *)
(***************************************************************************)
PlannedToRun(s, from, now, checkpoints) ==
    \E t \in Scope(from) : t <= s /\ MustRun(t, now[t], checkpoints[t])

PlanOf(from, now, checkpoints) ==
    [s \in Stage |->
        IF s \notin Scope(from) THEN "absent"
        ELSE IF PlannedToRun(s, from, now, checkpoints) THEN "run" ELSE "skip"]

(* Faulty: the search starts one stage too late.                           *)
NextAfterNext(plan, s) ==
    LET ahead == {t \in Stage : t > s + 1 /\ plan[t] = "run"} IN
    IF ahead = {} THEN NoStage ELSE CHOOSE t \in ahead : \A u \in ahead : t <= u

(* next_after(): the first stage of the plan after s that runs.            *)
NextAfter(plan, s) ==
    LET ahead == {t \in Stage : t > s /\ plan[t] = "run"} IN
    IF ahead = {} THEN NoStage ELSE CHOOSE t \in ahead : \A u \in ahead : t <= u

=============================================================================
