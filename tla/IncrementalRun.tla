--------------------------- MODULE IncrementalRun ---------------------------
(***************************************************************************)
(* Incremental reprocessing of one contract: its jobs one after another,   *)
(* each planned against the checkpoints the earlier ones left and then     *)
(* walked stage by stage (workflow.py, _execute of runner.py, and the run  *)
(* history of repositories/processing.py).  Versions change between and    *)
(* during jobs, stages fail for good, and a failed stage keeps what its    *)
(* cleanup deleted: _handle_failure returns, so the transaction commits.   *)
(***************************************************************************)
EXTENDS WorkflowEngine

CONSTANTS Payload,      \* Payload[s]: the version payloads stage s may declare
          MaxAttempts,  \* QUEUE_MAX_ATTEMPTS
          Clearing,     \* stages that delete their rows before writing new ones
          DocStage,     \* DOCPIPELINE, after which the runner plans again
          NoOutput,     \* what a stage without rows or artifacts has
          MaxJobs,      \* bound: jobs of the contract
          MaxDeploys    \* bound: version changes

ASSUME RunAssumption ==
    /\ MaxAttempts \in Nat \ {0}
    /\ Clearing \subseteq Stage
    /\ 1 \notin Cacheable     \* validation always runs
    /\ \A s \in Stage : NoCheckpoint \notin Payload[s]
    /\ \A s \in Stage : NoOutput \notin [versions : Payload[s], sound : BOOLEAN]

VARIABLES
    now,        \* now[s]: the versions in force for stage s
    runs,       \* runs[s]: the succeeded job_stage_runs of s
    output,     \* output[s]: the versions that made the rows s left, and whether
                \* they were computed from the upstream rows there are now
    phase,      \* "idle", "planning" (inside plan()) or "walking"
    from,       \* resume_from_stage of the job
    found,      \* the checkpoints plan() loaded
    asked,      \* the versions plan() compared them with
    cursor,     \* the stage the loop of plan() is at
    upstream,   \* upstream_reruns
    plan,       \* plan[s]: "run", "skip", or "absent" (not planned)
    at,         \* the stage of the message being executed
    ran,        \* history: stages whose handler ran in this job
    changed,    \* history: stages deployed since the plan of this job
    ended,      \* how the last job ended: "none", "ready" or "failed"
    tainted,    \* history: a failure since the last full run, a rolled back version
    jobs, deploys

historyVars == <<runs, output>>
planVars == <<found, asked, cursor, upstream, plan>>
runVars == <<now, runs, output, phase, from, found, asked, cursor, upstream,
             plan, at, ran, changed, ended, tainted, jobs, deploys>>

AnyPayload == UNION {Payload[s] : s \in Stage}
RunOf(s) == [attempt : 1..MaxAttempts, versions : Payload[s]]

TypeOK ==
    /\ \A s \in Stage : now[s] \in Payload[s] /\ asked[s] \in Payload[s]
    /\ \A s \in Stage : runs[s] \subseteq RunOf(s)
    /\ \A s \in Stage : output[s] \in {NoOutput} \cup [versions : Payload[s], sound : BOOLEAN]
    /\ \A s \in Stage : found[s] \in {NoCheckpoint} \cup Payload[s]
    /\ phase \in {"idle", "planning", "walking"}
    /\ from \in Stage
    /\ cursor \in 1..NStages + 1
    /\ upstream \in BOOLEAN
    /\ plan \in [Stage -> {"run", "skip", "absent"}]
    /\ at \in Stage \cup {NoStage}
    /\ ran \subseteq Stage /\ changed \subseteq Stage
    /\ ended \in {"none", "ready", "failed"}
    /\ tainted \subseteq {"failure", "rollback"}
    /\ (phase = "walking") <=> (at # NoStage)

-----------------------------------------------------------------------------
(***************************************************************************)
(* checkpoints(): succeeded runs in ascending attempt order, the last one  *)
(* read wins.  Attempts are numbered per job, so runs of different jobs    *)
(* tie, and the query leaves the order of a tie to the database.           *)
(***************************************************************************)
Newest(rs) == {r \in rs : \A q \in rs : q.attempt <= r.attempt}

CheckpointChoices(rs) ==
    IF rs = {} THEN {NoCheckpoint} ELSE {r.versions : r \in Newest(rs)}

Checkpoints(history) ==
    {c \in [Stage -> {NoCheckpoint} \cup AnyPayload] :
        \A s \in Stage : c[s] \in CheckpointChoices(history[s])}

Init ==
    /\ now \in {v \in [Stage -> AnyPayload] : \A s \in Stage : v[s] \in Payload[s]}
    /\ runs = [s \in Stage |-> {}]
    /\ output = [s \in Stage |-> NoOutput]
    /\ phase = "idle"
    /\ from = 1
    /\ found = [s \in Stage |-> NoCheckpoint]
    /\ asked = now
    /\ cursor = 1
    /\ upstream = FALSE
    /\ plan = [s \in Stage |-> "absent"]
    /\ at = NoStage
    /\ ran = {} /\ changed = {}
    /\ ended = "none"
    /\ tainted = {}
    /\ jobs = 0 /\ deploys = 0

(* New settings or new engine versions for one stage.                      *)
Deploy(s, v) ==
    /\ phase # "planning"
    /\ deploys < MaxDeploys
    /\ v # now[s]
    /\ now' = [now EXCEPT ![s] = v]
    /\ deploys' = deploys + 1
    /\ tainted' = IF \E r \in runs[s] : Matches(v, r.versions)
                  THEN tainted \cup {"rollback"} ELSE tainted
    /\ changed' = IF phase = "walking" THEN changed \cup {s} ELSE changed
    /\ UNCHANGED <<historyVars, phase, from, planVars, at, ran, ended, jobs>>

(***************************************************************************)
(* A new job, from stage 1 (an upload) or from any stage (a reprocess or a *)
(* retry): plan() loads the checkpoints and refuses a scope whose earlier  *)
(* stages never succeeded.                                                 *)
(***************************************************************************)
StartJob(f) ==
    /\ phase = "idle"
    /\ jobs < MaxJobs
    /\ \E c \in Checkpoints(runs) :
          /\ MissingBefore(f, c) = {}
          /\ found' = c
    /\ phase' = "planning"
    /\ from' = f
    /\ asked' = now
    /\ cursor' = f
    /\ upstream' = FALSE
    /\ plan' = [s \in Stage |-> "absent"]
    /\ ran' = {} /\ changed' = {}
    /\ ended' = "none"
    /\ jobs' = jobs + 1
    /\ UNCHANGED <<now, historyVars, at, tainted, deploys>>

(* Faulty: the running flag is not consulted.                              *)
PlannedRegardless(s, reruns) ==
    IF MustRun(s, asked[s], found[s]) THEN "run" ELSE "skip"

(* One iteration of the loop of plan().                                    *)
PlannedAction(s, reruns) ==
    IF reruns \/ MustRun(s, asked[s], found[s]) THEN "run" ELSE "skip"

(* Faulty: the flag only remembers whether the last stage had a reason of its own. *)
PlanStageForgetful ==
    /\ phase = "planning"
    /\ cursor <= NStages
    /\ plan' = [plan EXCEPT ![cursor] = PlannedAction(cursor, upstream)]
    /\ upstream' = MustRun(cursor, asked[cursor], found[cursor])
    /\ cursor' = cursor + 1
    /\ UNCHANGED <<now, historyVars, phase, from, found, asked, at, ran, changed,
                   ended, tainted, jobs, deploys>>

PlanStage ==
    /\ phase = "planning"
    /\ cursor <= NStages
    /\ plan' = [plan EXCEPT ![cursor] = PlannedAction(cursor, upstream)]
    /\ upstream' = (upstream \/ plan'[cursor] = "run")
    /\ cursor' = cursor + 1
    /\ UNCHANGED <<now, historyVars, phase, from, found, asked, at, ran, changed,
                   ended, tainted, jobs, deploys>>

(* The plan is stored, and the message of the first stage is executed.     *)
StartWalk ==
    /\ phase = "planning"
    /\ cursor > NStages
    /\ phase' = "walking"
    /\ at' = from
    /\ UNCHANGED <<now, historyVars, from, planVars, ran, changed, ended,
                   tainted, jobs, deploys>>

(***************************************************************************)
(* _dispatch_next, or _finalise_if_last when no stage remains.  A job that *)
(* becomes READY after running every stage makes up for earlier failures.  *)
(***************************************************************************)
Advance(p, s) ==
    LET next == NextAfter(p, s) IN
    /\ at' = next
    /\ phase' = IF next = NoStage THEN "idle" ELSE "walking"
    /\ ended' = IF next = NoStage THEN "ready" ELSE ended
    /\ tainted' = IF next = NoStage /\ ran' = Stage
                  THEN tainted \ {"failure"} ELSE tainted

Unsound(o) == IF o = NoOutput THEN o ELSE [o EXCEPT !.sound = FALSE]

(***************************************************************************)
(* A handler succeeds on attempt a, stamps the versions in force, and what *)
(* later stages hold was computed from rows that are gone.  The runner     *)
(* builds a full plan again after DOCPIPELINE, unless it handed nothing on. *)
(***************************************************************************)
RunStage(s) ==
    /\ phase = "walking" /\ at = s
    /\ plan[s] # "skip"
    /\ s \in Available
    /\ \E a \in 1..MaxAttempts :
          runs' = [runs EXCEPT ![s] = @ \cup {[attempt |-> a, versions |-> now[s]]}]
    /\ output' = [t \in Stage |->
                    IF t < s THEN output[t]
                    ELSE IF t > s THEN Unsound(output[t])
                    ELSE [versions |-> now[s],
                          sound |-> \A u \in 1..s - 1 :
                                        output[u] # NoOutput /\ output[u].sound]]
    /\ ran' = ran \cup {s}
    /\ \/ UNCHANGED plan
       \/ /\ s = DocStage
          /\ \E c \in Checkpoints(runs') : plan' = PlanOf(NoStage, now, c)
    /\ Advance(plan', s)
    /\ UNCHANGED <<now, from, found, asked, cursor, upstream, changed, jobs, deploys>>

(* A planned skip whose checkpoint is there: record_skipped.               *)
SkipStage(s) ==
    /\ phase = "walking" /\ at = s
    /\ plan[s] = "skip"
    /\ UNCHANGED ran
    /\ Advance(plan, s)
    /\ UNCHANGED <<now, historyVars, from, planVars, changed, jobs, deploys>>

(* The stage fails for good, before or after deleting its rows.            *)
FailStage(s) ==
    /\ phase = "walking" /\ at = s
    /\ plan[s] # "skip"
    /\ \E cleared \in BOOLEAN :
          /\ cleared => s \in Clearing \cap Available
          /\ output' = [t \in Stage |->
                          IF ~cleared \/ t < s THEN output[t]
                          ELSE IF t = s THEN NoOutput ELSE Unsound(output[t])]
    /\ phase' = "idle"
    /\ at' = NoStage
    /\ ended' = "failed"
    /\ tainted' = tainted \cup {"failure"}
    /\ UNCHANGED <<now, runs, from, planVars, ran, changed, jobs, deploys>>

Next ==
    \/ \E s \in Stage : \E v \in Payload[s] : Deploy(s, v)
    \/ \E f \in Stage : StartJob(f)
    \/ PlanStage
    \/ StartWalk
    \/ \E s \in Stage : RunStage(s)
    \/ \E s \in Stage : SkipStage(s)
    \/ \E s \in Stage : FailStage(s)

Spec == Init /\ [][Next]_runVars

-----------------------------------------------------------------------------
(***************************************************************************)
(* The loop of plan(), with its running flag, computes the declarative     *)
(* plan: a stage runs when it or a stage of the scope before it must.      *)
(***************************************************************************)
LoopComputesPlan ==
    phase = "planning" /\ cursor > NStages => plan = PlanOf(from, asked, found)

(***************************************************************************)
(* workflow.py:163: nothing after a stage that ran is reused.  A job that  *)
(* becomes READY ran every stage after the first it ran, although the plan *)
(* is made anew half way, against checkpoints the job itself has left.     *)
(***************************************************************************)
NothingReusedAfterARun ==
    ended = "ready" => \A s \in ran : StagesFrom(s) \subseteq ran

(***************************************************************************)
(* What a READY job answers for.  Every stage has rows, computed from the  *)
(* rows there are now, unless a job failed for good since the last full    *)
(* run.  A stage that ran in the job left rows of the versions the job was *)
(* planned with, or of ones deployed since.  A stage of the scope that did *)
(* not run, whether its message was recorded as skipped or jumped over by  *)
(* next_after(), has rows that match the versions planned with, unless a   *)
(* job failed since the last full run or a version was ever rolled back.   *)
(***************************************************************************)
ReadyIsCurrent ==
    ended = "ready" =>
        /\ "failure" \notin tainted =>
              \A s \in Stage : output[s] # NoOutput /\ output[s].sound
        /\ \A s \in ran \ changed :
              output[s] # NoOutput /\ output[s].versions = asked[s]
        /\ tainted = {} =>
              \A s \in StagesFrom(from) \ ran : Matches(asked[s], output[s].versions)

(***************************************************************************)
(* workflow.py:172: a job must not finish READY on rows that are deleted.  *)
(* The code allows it: a job that fails after its cleanup, retried from    *)
(* the stage that failed, reuses the checkpoint of an older job.           *)
(***************************************************************************)
ReadyHasOutput ==
    ended = "ready" => \A s \in Stage : output[s] # NoOutput

(***************************************************************************)
(* processing.py:387, "leaving the newest per stage": without failures, a  *)
(* reused output was made by the versions the plan asked for, even where   *)
(* one succeeded run outranks all others.  The code ranks the runs of all  *)
(* jobs by their attempt, a number that starts over with every job.        *)
(***************************************************************************)
ReusedMatchesVersions ==
    ended = "ready" /\ "failure" \notin tainted =>
        \A s \in StagesFrom(from) \ ran :
            Cardinality(Newest(runs[s])) = 1 => Matches(asked[s], output[s].versions)

=============================================================================
