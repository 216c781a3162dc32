------------------------------ MODULE Pipeline ------------------------------
(***************************************************************************)
(* The processing pipeline of one contract: jobs moved from stage to stage *)
(* by the runner (orchestrator/runner.py) over the Postgres stage queue,   *)
(* with the maintenance sweep and the operations of the jobs API and the   *)
(* CLI around it.                                                          *)
(*                                                                         *)
(* A worker that holds a row loads the job in a transaction, runs the      *)
(* handler, and commits what it writes in one piece; its first write to    *)
(* the job row locks it until the commit.  Reads take no lock.  Only after *)
(* the commit, and outside of it, the next stage or the retry is enqueued, *)
(* and the row is settled last: a crash falls between any two of these.    *)
(*                                                                         *)
(* Versions do not change here (IncrementalRun is about them), so a plan   *)
(* depends on which stages have a succeeded run.                           *)
(***************************************************************************)
EXTENDS StageQueue, WorkflowEngine

CONSTANTS Job,          \* processing_jobs rows, those not created yet included
          FirstJob,     \* the job of the upload
          NoJob,
          StateOf,      \* STAGE_TO_STATE
          Gate,         \* VALIDATION, whose handler may halt the job
          DocStage,     \* DOCPIPELINE, after which the runner plans again
          MaxFaults,    \* bound: crashes, errors and overdue stages
          MaxOps        \* bound: cancels, retries, reprocesses

ASSUME PipelineAssumption ==
    /\ Queue = Stage
    /\ FirstJob \in Job
    /\ NoJob \notin Job
    /\ \A s \in Stage : StateOf[s] \notin {"none", "QUEUED", "RETRYING"}

(* DOCPIPELINE is the third stage, and validation is not cacheable.        *)
ASSUME ReplanAssumption ==
    DocStage \in Stage => DocStage <= 3 /\ 1 \notin Cacheable

VARIABLES
    job,        \* job[j]: state, current stage, resume stage and stored plan
    msg,        \* msg[r]: the job the message of row r is for
    step,       \* step[sl]: how far run_stage() has come in the slot
    snap,       \* snap[sl]: what its session read of the job row
    todo,       \* todo[sl]: the stage it has to enqueue after its commit
    done,       \* stages with a succeeded run for the contract
    contract,   \* the contract's status
    sweeping,   \* the job find_stalled() returned and the sweep will fail
    cancelling, \* the job cancel_job() found unfinished and will cancel
    outdated,   \* history: stages with no output newer than their upstream's
    broken,     \* history: a chain of stages stopped before the last one, or
                \* two jobs ran handlers at once
    replanned,  \* history: a session replaced a plan that was stored meanwhile
    dropped,    \* history: what a worker had to enqueue, or its row, went with a
                \* row that another delivery of it settles
    byHand,     \* history: jobs the CLI dispatched a stage of
    faults, ops

jobVars == <<job, done, contract, outdated>>
opVars == <<sweeping, cancelling, byHand, ops>>
histVars == <<broken, replanned, dropped>>
pipeVars == <<queueVars, jobVars, msg, step, snap, todo, opVars, histVars, faults>>

Running == {StateOf[s] : s \in Stage}
Terminal == {"READY", "FAILED", "CANCELLED"}
JobState == {"none", "QUEUED", "RETRYING"} \cup Running \cup Terminal
Plan == [Stage -> {"run", "skip", "absent"}]
NoPlan == [s \in Stage |-> "absent"]
JobRow == [state : JobState, stage : Stage \cup {NoStage},
           resume : Stage \cup {NoStage}, plan : Plan]
SessionRow == [state : JobState, stage : Stage \cup {NoStage}, plan : Plan, built : BOOLEAN]
Unread == [state |-> "none", stage |-> NoStage, plan |-> NoPlan, built |-> FALSE]

PipelineTypeOK ==
    /\ TypeOK
    /\ job \in [Job -> JobRow]
    /\ msg \in [Row -> Job]
    /\ step \in [Slot -> {"idle", "claimed", "loaded", "handling", "dispatching",
                          "retrying", "settling", "raised"}]
    /\ snap \in [Slot -> SessionRow]
    /\ todo \in [Slot -> Stage \cup {NoStage}]
    /\ done \subseteq Stage
    /\ contract \in {"UPLOADED", "READY", "FAILED"}
    /\ sweeping \in Job \cup {NoJob} /\ cancelling \in Job \cup {NoJob}
    /\ \A sl \in Slot : (step[sl] = "idle") <=> (phase[sl] = "idle")

NewJob(from) == [state |-> "QUEUED", stage |-> NoStage, resume |-> from, plan |-> NoPlan]

Init ==
    /\ QueueInit
    /\ queue = [r \in Row |-> 1]
    /\ job = [j \in Job |-> [NewJob(NoStage) EXCEPT !.state = "none"]]
    /\ msg = [r \in Row |-> FirstJob]
    /\ step = [sl \in Slot |-> "idle"]
    /\ snap = [sl \in Slot |-> Unread]
    /\ todo = [sl \in Slot |-> NoStage]
    /\ done = {}
    /\ contract = "UPLOADED"
    /\ sweeping = NoJob /\ cancelling = NoJob
    /\ outdated = Stage
    /\ broken = FALSE
    /\ replanned = FALSE
    /\ dropped = FALSE
    /\ byHand = {}
    /\ faults = 0 /\ ops = 0

-----------------------------------------------------------------------------
(***************************************************************************)
(* Rows.  enqueue() inserts one; a row that is done and that no worker has *)
(* in hand any more will not be looked at again, and its identity is taken *)
(* for the next one.                                                       *)
(***************************************************************************)
FreeRow == {r \in Row : state[r] \in {"absent", "done"} /\ \A sl \in Slot : held[sl] # r}

Post(j, s, a) ==
    /\ FreeRow # {}
    /\ LET r == CHOOSE r \in FreeRow : TRUE IN
       /\ Insert(r, a)
       /\ queue' = [queue EXCEPT ![r] = s]
       /\ msg' = [msg EXCEPT ![r] = j]
       /\ delivered' = [delivered EXCEPT ![r] = {}]
    /\ UNCHANGED slotVars

Live(j) == {r \in Row : state[r] \in {"pending", "claimed"} /\ msg[r] = j}
JobOf(sl) == msg[held[sl]]
Busy(j) == \E sl \in Slot : step[sl] # "idle" /\ JobOf(sl) = j

(* The row lock of the job: held from the first write of a stage to its commit. *)
Unlocked(j) == ~\E sl \in Slot : step[sl] = "handling" /\ JobOf(sl) = j

Planned(plan) == plan # NoPlan
Reached == [s \in Stage |-> IF s \in done THEN <<>> ELSE NoCheckpoint]
NewPlan(from, checkpoints) == PlanOf(from, [s \in Stage |-> <<>>], checkpoints)

Breaks(condition) == broken' = (broken \/ condition) /\ UNCHANGED <<replanned, dropped>>

Fault == faults < MaxFaults /\ faults' = faults + 1
NoFault == UNCHANGED faults
Op == ops < MaxOps /\ ops' = ops + 1

(* A slot passes to its next step, leaving the queue as it is.             *)
Pass(sl, to) ==
    /\ step' = [step EXCEPT ![sl] = to]
    /\ UNCHANGED <<queueVars, msg, opVars>>

-----------------------------------------------------------------------------
(* The worker loop: claim a row, and run_stage() for it.                   *)
ClaimRow(sl, r) ==
    /\ Claim(sl, r)
    /\ step' = [step EXCEPT ![sl] = "claimed"]
    /\ UNCHANGED <<jobVars, msg, snap, todo, opVars, histVars, faults>>

(***************************************************************************)
(* _execute up to its first write.  A cancelled job is left alone.  A job  *)
(* without a plan gets one, and if an earlier stage never succeeded plan() *)
(* raises, which is not a stage failure: it escapes run_stage().           *)
(***************************************************************************)
Load(sl) ==
    LET j == JobOf(sl)
        built == ~Planned(job[j].plan)
    IN
    /\ step[sl] = "claimed"
    /\ \/ /\ job[j].state = "CANCELLED"
          /\ Pass(sl, "settling")
          /\ Breaks(TRUE)
          /\ UNCHANGED snap
       \/ /\ job[j].state # "CANCELLED"
          /\ built /\ MissingBefore(job[j].resume, Reached) # {}
          /\ Pass(sl, "raised")
          /\ UNCHANGED <<snap, histVars>>
       \/ /\ job[j].state # "CANCELLED"
          /\ built => MissingBefore(job[j].resume, Reached) = {}
          /\ snap' = [snap EXCEPT ![sl] =
                [state |-> job[j].state, stage |-> job[j].stage, built |-> built,
                 plan |-> IF built THEN NewPlan(job[j].resume, Reached)
                          ELSE job[j].plan]]
          /\ Pass(sl, "loaded")
          /\ UNCHANGED histVars
    /\ UNCHANGED <<jobVars, todo, faults>>

(* The session will store its plan over one that was stored since it looked. *)
Overplans(sl) == snap[sl].built /\ Planned(job[JobOf(sl)].plan)

(* After the commit: what is left to enqueue, or nothing.                  *)
Then(sl, next) ==
    /\ todo' = [todo EXCEPT ![sl] = next]
    /\ Pass(sl, IF next = NoStage THEN "settling" ELSE "dispatching")

(* _finalise_if_last: mark_ready of the job and mark_processed of the contract. *)
Finalised(row, next) ==
    IF next = NoStage THEN [row EXCEPT !.state = "READY", !.stage = NoStage] ELSE row

ContractAfter(next) == contract' = IF next = NoStage THEN "READY" ELSE contract

(* The plan is to reuse the checkpoint of the stage: record_skipped.       *)
Skip(sl) ==
    LET j == JobOf(sl)
        s == QueueOf(sl)
        next == NextAfter(snap[sl].plan, s)
        row == IF snap[sl].built THEN [job[j] EXCEPT !.plan = snap[sl].plan] ELSE job[j]
    IN
    /\ step[sl] = "loaded"
    /\ snap[sl].plan[s] = "skip"
    /\ job' = [job EXCEPT ![j] = Finalised(row, next)]
    /\ job' # job => Unlocked(j)
    /\ ContractAfter(next)
    /\ Then(sl, next)
    /\ snap' = [snap EXCEPT ![sl] = Unread]
    /\ replanned' = (replanned \/ Overplans(sl))
    /\ UNCHANGED <<done, outdated, broken, dropped, faults>>

(* mark_stage_started: its flush takes the row lock, and the handler runs. *)
Begin(sl) ==
    /\ step[sl] = "loaded"
    /\ snap[sl].plan[QueueOf(sl)] # "skip"
    /\ Unlocked(JobOf(sl))
    /\ broken' = (broken \/ \E other \in Slot : step[other] = "handling")
    /\ replanned' = (replanned \/ Overplans(sl))
    /\ Pass(sl, "handling")
    /\ UNCHANGED <<jobVars, snap, todo, dropped, faults>>

(***************************************************************************)
(* What mark_stage_started leaves in the row.  The session writes a column *)
(* only where it differs from what the session read, so a stale read of    *)
(* the very value it wants to write leaves the committed one alone.        *)
(***************************************************************************)
Started(sl) ==
    LET j == JobOf(sl)
        s == QueueOf(sl)
    IN [job[j] EXCEPT
          !.state = IF snap[sl].state = StateOf[s] THEN @ ELSE StateOf[s],
          !.stage = IF snap[sl].stage = s THEN @ ELSE s,
          !.plan = IF snap[sl].built THEN snap[sl].plan ELSE @]

(* The handler is done: the run is committed, and later output is outdated. *)
Commit(sl) ==
    /\ step[sl] = "handling"
    /\ snap' = [snap EXCEPT ![sl] = Unread]
    /\ done' = done \cup {QueueOf(sl)}
    /\ outdated' = (outdated \ {QueueOf(sl)}) \cup {t \in Stage : t > QueueOf(sl)}
    /\ UNCHANGED faults

Succeed(sl) ==
    LET j == JobOf(sl)
        s == QueueOf(sl)
        plan == IF s = DocStage THEN NewPlan(NoStage, [t \in Stage |->
                                        IF t \in done' THEN <<>> ELSE NoCheckpoint])
                ELSE snap[sl].plan
        next == NextAfter(plan, s)
    IN
    /\ Commit(sl)
    /\ job' = [job EXCEPT ![j] = Finalised([Started(sl) EXCEPT !.plan = plan], next)]
    /\ ContractAfter(next)
    /\ Then(sl, next)
    /\ UNCHANGED histVars

(* mark_failed *)
Failed(row, s) == [row EXCEPT !.state = "FAILED", !.stage = s, !.resume = s]

(* Validation rejects the document: the run succeeds, the job ends.        *)
Halt(sl) ==
    LET j == JobOf(sl) IN
    /\ QueueOf(sl) = Gate
    /\ Commit(sl)
    /\ job' = [job EXCEPT ![j] = Failed(Started(sl), Gate)]
    /\ contract' = "FAILED"
    /\ Pass(sl, "settling")
    /\ Breaks(TRUE)
    /\ UNCHANGED todo

(* _handle_failure: RETRYING while attempts are left, FAILED otherwise.    *)
StageFails(sl) ==
    LET j == JobOf(sl)
        s == QueueOf(sl)
    IN
    /\ step[sl] = "handling"
    /\ Fault
    /\ snap' = [snap EXCEPT ![sl] = Unread]
    /\ \/ /\ got[sl] < MaxAttempts
          /\ job' = [job EXCEPT ![j] = [Started(sl) EXCEPT !.state = "RETRYING"]]
          /\ Pass(sl, "retrying")
          /\ UNCHANGED <<contract, histVars>>
       \/ /\ job' = [job EXCEPT ![j] = Failed(Started(sl), s)]
          /\ contract' = "FAILED"
          /\ Pass(sl, "settling")
          /\ Breaks(TRUE)
    /\ UNCHANGED <<done, outdated, todo>>

(* _dispatch_next and _schedule_retry                                      *)
Enqueues(sl) ==
    LET j == JobOf(sl) IN
    /\ \/ step[sl] = "dispatching" /\ Post(j, todo[sl], 1)
       \/ step[sl] = "retrying" /\ Post(j, QueueOf(sl), got[sl] + 1)
    /\ step' = [step EXCEPT ![sl] = "settling"]
    /\ todo' = [todo EXCEPT ![sl] = NoStage]
    /\ UNCHANGED <<jobVars, snap, opVars, histVars, faults>>

(* Faulty: the failure to enqueue is logged and swallowed.                 *)
EnqueueFailureSwallowed(sl) ==
    /\ step[sl] \in {"dispatching", "retrying"}
    /\ Fault
    /\ Breaks(TRUE)
    /\ todo' = [todo EXCEPT ![sl] = NoStage]
    /\ Pass(sl, "settling")
    /\ UNCHANGED <<jobVars, snap>>

(* ...and when the enqueue fails, the job is marked FAILED.                *)
EnqueueFails(sl) ==
    LET j == JobOf(sl)
        s == IF step[sl] = "retrying" THEN QueueOf(sl) ELSE todo[sl]
    IN
    /\ step[sl] \in {"dispatching", "retrying"}
    /\ Fault
    /\ Unlocked(j)
    /\ job' = [job EXCEPT ![j] = Failed(job[j], s)]
    /\ Breaks(TRUE)
    /\ todo' = [todo EXCEPT ![sl] = NoStage]
    /\ Pass(sl, "settling")
    /\ UNCHANGED <<done, contract, outdated, snap>>

(* The database goes away: the transaction is rolled back, run_stage() raises. *)
Raise(sl) ==
    /\ step[sl] \in {"loaded", "handling", "dispatching", "retrying"}
    /\ Fault
    /\ Pass(sl, "raised")
    /\ snap' = [snap EXCEPT ![sl] = Unread]
    /\ todo' = [todo EXCEPT ![sl] = NoStage]
    /\ UNCHANGED <<jobVars, histVars>>

(* Faulty: the slot is not given free.                                     *)
SettleInHand(sl) ==
    /\ step[sl] = "settling"
    /\ Complete(sl)
    /\ UNCHANGED <<jobVars, msg, step, snap, todo, opVars, histVars, faults>>

(* The end of _run_claimed: complete(), or fail() in two statements.       *)
Settle(sl) ==
    /\ step[sl] = "settling"
    /\ Complete(sl)
    /\ step' = [step EXCEPT ![sl] = "idle"]
    /\ UNCHANGED <<jobVars, msg, snap, todo, opVars, histVars, faults>>

(***************************************************************************)
(* The row is not the worker's own any more: its lease had lapsed, and     *)
(* another delivery settles it, or has.                                    *)
(***************************************************************************)
Overtaken(sl) == state[held[sl]] = "done" \/ \E other \in Slot \ {sl} : held[other] = held[sl]

GiveBack(sl) ==
    /\ step[sl] = "raised"
    /\ \/ FailRead(sl) /\ UNCHANGED <<step, histVars>>
       \/ /\ FailWrite(sl)
          /\ step' = [step EXCEPT ![sl] = "idle"]
          /\ broken' = (broken \/ state'[held[sl]] = "dead")
          /\ dropped' = (dropped \/ \E other \in Slot \ {sl} : held[other] = held[sl])
          /\ UNCHANGED replanned
    /\ UNCHANGED <<jobVars, msg, snap, todo, opVars, faults>>

-----------------------------------------------------------------------------
(***************************************************************************)
(* A worker process dies; its transactions roll back.  What it was about   *)
(* to enqueue comes again with its row, unless it was overtaken.           *)
(***************************************************************************)
Dies(p) ==
    LET lost == SlotsOf(p) IN
    /\ Crash(p)
    /\ Fault
    /\ step' = [sl \in Slot |-> IF sl \in lost THEN "idle" ELSE step[sl]]
    /\ snap' = [sl \in Slot |-> IF sl \in lost THEN Unread ELSE snap[sl]]
    /\ todo' = [sl \in Slot |-> IF sl \in lost THEN NoStage ELSE todo[sl]]
    /\ dropped' = (dropped \/ \E sl \in lost :
                       step[sl] \in {"dispatching", "retrying", "raised"} /\ Overtaken(sl))
    /\ UNCHANGED <<jobVars, msg, opVars, broken, replanned>>

(***************************************************************************)
(* The maintenance sweep.  A lease and a heartbeat lapse by the clock: of  *)
(* work nobody has in hand for certain, of a stage under way only when it  *)
(* is overdue, which counts as a fault.                                    *)
(***************************************************************************)
InHand(r) == \E sl \in Slot : held[sl] = r

ReclaimLeases(lapsed) ==
    /\ Reclaim(lapsed)
    /\ IF \E r \in lapsed : InHand(r) THEN Fault ELSE NoFault
    /\ Breaks(\E r \in lapsed : state'[r] = "dead")
    /\ UNCHANGED <<jobVars, msg, step, snap, todo, opVars>>

(* find_stalled(): a running state and an old heartbeat...                 *)
FindStalled(j) ==
    /\ sweeping = NoJob
    /\ job[j].state \in Running
    /\ IF Live(j) # {} \/ Busy(j) THEN Fault ELSE NoFault
    /\ sweeping' = j
    /\ UNCHANGED <<queueVars, jobVars, msg, step, snap, todo, cancelling, byHand, ops,
                   histVars>>

(* ...and reclaim_stalled_jobs() fails the job, without a second look.     *)
FailStalled ==
    /\ sweeping # NoJob
    /\ Unlocked(sweeping)
    /\ job' = [job EXCEPT ![sweeping].state = "FAILED"]
    /\ sweeping' = NoJob
    /\ UNCHANGED <<queueVars, done, contract, outdated, msg, step, snap, todo,
                   cancelling, byHand, ops, histVars, faults>>

-----------------------------------------------------------------------------
(* The jobs API and the CLI.  A job and its first row commit together.     *)
NewJobs == {j \in Job : job[j].state = "none"}

CreateJob(from) ==
    /\ NewJobs # {}
    /\ LET j == CHOOSE j \in NewJobs : TRUE IN
       /\ job' = [job EXCEPT ![j] = NewJob(from)]
       /\ Post(j, IF from = NoStage THEN 1 ELSE from, 1)
    /\ UNCHANGED <<done, contract, outdated, step, snap, todo, sweeping, cancelling,
                   byHand, histVars, faults>>

Upload ==
    /\ NewJobs = Job
    /\ CreateJob(NoStage)
    /\ UNCHANGED ops

(* reprocess_contract: from any stage, whatever else the contract is doing. *)
ReprocessContract(s) ==
    /\ NewJobs # Job
    /\ Op
    /\ CreateJob(s)

(* retry_job: a new job from the stage the old one stands at.              *)
RetryJob(j) ==
    /\ job[j].state \in {"FAILED", "CANCELLED"}
    /\ Op
    /\ CreateJob(IF job[j].stage = NoStage THEN 1 ELSE job[j].stage)

(* cancel_job: looks at the state...                                       *)
FindCancellable(j) ==
    /\ cancelling = NoJob
    /\ job[j].state \notin Terminal \cup {"none"}
    /\ Op
    /\ cancelling' = j
    /\ UNCHANGED <<queueVars, jobVars, msg, step, snap, todo, sweeping, byHand,
                   histVars, faults>>

(* ...and its UPDATE waits for the row lock and overwrites what it finds.  *)
MarkCancelled ==
    /\ cancelling # NoJob
    /\ Unlocked(cancelling)
    /\ job' = [job EXCEPT ![cancelling].state = "CANCELLED"]
    /\ cancelling' = NoJob
    /\ UNCHANGED <<queueVars, done, contract, outdated, msg, step, snap, todo,
                   sweeping, byHand, ops, histVars, faults>>

(* cip reprocess: another message for the same job, its state untouched.   *)
CliReprocess(j, s) ==
    /\ job[j].state # "none"
    /\ Op
    /\ Post(j, s, 1)
    /\ byHand' = byHand \cup {j}
    /\ UNCHANGED <<jobVars, step, snap, todo, sweeping, cancelling, histVars, faults>>

RunStep(sl) ==
    \/ Load(sl) \/ Skip(sl) \/ Begin(sl)
    \/ Succeed(sl) \/ Halt(sl) \/ StageFails(sl)
    \/ Enqueues(sl) \/ EnqueueFails(sl) \/ Raise(sl)
    \/ Settle(sl) \/ GiveBack(sl)

SweepStep ==
    \/ \E lapsed \in SUBSET Row : ReclaimLeases(lapsed)
    \/ \E j \in Job : FindStalled(j)
    \/ FailStalled

UserStep ==
    \/ Upload
    \/ \E s \in Stage : ReprocessContract(s)
    \/ \E j \in Job : RetryJob(j) \/ FindCancellable(j)
    \/ MarkCancelled
    \/ \E j \in Job, s \in Stage : CliReprocess(j, s)

Next ==
    \/ \E sl \in Slot, r \in Row : ClaimRow(sl, r)
    \/ \E sl \in Slot : RunStep(sl)
    \/ \E p \in Proc : Dies(p)
    \/ SweepStep
    \/ UserStep

Spec == Init /\ [][Next]_pipeVars

(***************************************************************************)
(* Workers keep polling and finish what they hold, locks are granted, the  *)
(* sweep comes round again.  Users need not act, faults need not happen.   *)
(***************************************************************************)
Abandoned(r) == ReclaimLeases({r}) /\ ~InHand(r)
Stalled(j) == FindStalled(j) /\ Live(j) = {} /\ ~Busy(j)

Fairness ==
    /\ \A r \in Row : WF_pipeVars(\E sl \in Slot : ClaimRow(sl, r))
    /\ \A sl \in Slot : WF_pipeVars(RunStep(sl))
    /\ \A r \in Row : WF_pipeVars(Abandoned(r))
    /\ \A j \in Job : WF_pipeVars(Stalled(j))
    /\ WF_pipeVars(FailStalled)
    /\ WF_pipeVars(MarkCancelled)

FairSpec == Spec /\ Fairness

-----------------------------------------------------------------------------
DeadLettered(j) == \E r \in Row : state[r] = "dead" /\ msg[r] = j

(***************************************************************************)
(* A job that is neither finished nor in a state the sweep looks at has a  *)
(* live row, is in a worker's hands, or left a dead row as a trace; unless *)
(* a worker whose row another delivery settled died before it enqueued.    *)
(***************************************************************************)
NoSilentStop ==
    \A j \in Job : job[j].state \in {"QUEUED", "RETRYING"} =>
        Live(j) # {} \/ Busy(j) \/ DeadLettered(j) \/ dropped

(***************************************************************************)
(* base.py:147, "a handler never runs without its inputs present": when a  *)
(* handler runs, every earlier stage has succeeded for the contract, in    *)
(* any job the CLI did not reach into.                                     *)
(***************************************************************************)
UpstreamFirst ==
    \A sl \in Slot : step[sl] = "handling" /\ JobOf(sl) \notin byHand =>
        \A s \in Stage : s < QueueOf(sl) => s \in done

(***************************************************************************)
(* When nothing is left to do, no stage is older than a stage before it,   *)
(* however many workers died, ran late or were given the same stage twice, *)
(* unless a chain of stages stopped before the last one, the handlers of   *)
(* two jobs overlapped, a plan was replaced (OnePlanPerRun), an enqueue    *)
(* was lost with an overtaken worker, or the CLI reached into a job whose  *)
(* plan does not cover every stage (ReprocessRunsOn).                      *)
(***************************************************************************)
AtRest == \A j \in Job : job[j].state # "none" => Live(j) = {} /\ ~Busy(j)

ByHandFromTheStart == \A j \in byHand : job[j].resume \in {NoStage, 1}

CurrentAtRest ==
    AtRest /\ ~broken /\ ~replanned /\ ~dropped /\ ByHandFromTheStart =>
        outdated \in {{}, Stage}

(***************************************************************************)
(* cli.py:426, "Every stage from --from-stage onward runs again": so the   *)
(* same must hold whichever job the CLI restarts.  The job's stored plan   *)
(* decides what follows, and that of a job which began at a later stage    *)
(* passes over the stages before it, or reuses what is outdated now; the   *)
(* option force of the message, cli.py:481, is not read.                   *)
(***************************************************************************)
ReprocessRunsOn ==
    AtRest /\ ~broken /\ ~replanned /\ ~dropped => outdated \in {{}, Stage}

(***************************************************************************)
(* runner.py:458, "every stage of a run shares one decision set": so the   *)
(* same must hold when the first stage of a job is delivered twice.  The   *)
(* code lets both deliveries build a plan: the second one, made after a    *)
(* stage succeeded, reuses what the first one is about to replace, and     *)
(* the rest of the run is skipped on rows that are gone.                   *)
(***************************************************************************)
OnePlanPerRun ==
    AtRest /\ ~broken => outdated \in {{}, Stage}

(***************************************************************************)
(* Every job finishes, or a dead row is left of it, or what came next was  *)
(* lost with an overtaken worker.                                          *)
(***************************************************************************)
Progress ==
    \A j \in Job : job[j].state # "none" ~>
        (job[j].state \in Terminal \/ DeadLettered(j) \/ dropped)

(***************************************************************************)
(* processing.py:256: a job whose worker crashed is reclaimed, "so the     *)
(* contract is not silently stuck".  The code sweeps running states only,  *)
(* and a job whose row died in its first stage never left QUEUED.          *)
(***************************************************************************)
EveryJobFinishes ==
    \A j \in Job : job[j].state # "none" ~> job[j].state \in Terminal

(***************************************************************************)
(* jobs.py:284, "Any stage already running will finish, but no further     *)
(* stages will be dispatched": a stage that ends after its job was         *)
(* cancelled has nothing to dispatch.  The code writes over the cancelled  *)
(* state and goes on to the next stage.                                    *)
(***************************************************************************)
CancelStops ==
    [][\A sl \in Slot :
          /\ step[sl] \in {"loaded", "handling"}
          /\ job[JobOf(sl)].state = "CANCELLED"
          => step'[sl] # "dispatching"]_pipeVars

=============================================================================
