--------------------------- MODULE PipelineProofs ---------------------------
(***************************************************************************)
(* Three results about the pipeline, for every number of jobs, stages,     *)
(* workers and attempts, through any number of crashes, lapsed leases,     *)
(* duplicate deliveries and operations of users: a handler never runs      *)
(* before the stages it reads from; no job that waits is forgotten; and    *)
(* when nothing is left to do, no stage is older than one before it.       *)
(***************************************************************************)
EXTENDS Pipeline, WorkflowEngineProofs

(***************************************************************************)
(* What a job may rely on.  A plan passes over a stage only where it has   *)
(* succeeded; a row is for a stage whose upstream has succeeded, or it is  *)
(* the first row of a job nobody has planned yet.                          *)
(***************************************************************************)
UpTo(s) == \A u \in Stage : u < s => u \in done

(* The stage a job without a plan starts with.                             *)
First(row) == IF row.resume = NoStage THEN 1 ELSE row.resume

PlanSound(plan) == Planned(plan) /\ \A s \in Stage : plan[s] # "run" => s \in done

PlansSound == \A j \in Job : Planned(job[j].plan) => PlanSound(job[j].plan)

RowFollows(r) ==
    /\ job[msg[r]].state # "none"
    /\ msg[r] \notin byHand =>
          \/ UpTo(queue[r])
          \/ ~Planned(job[msg[r]].plan) /\ queue[r] = First(job[msg[r]])

RowsFollow == \A r \in Row \ FreeRow : RowFollows(r)

(* A session that will store a plan has seen the stages before it succeed; *)
(* what it is to enqueue after its commit follows the stages that have.    *)
SessionSound(sl) ==
    /\ held[sl] # NoRow => queue[held[sl]] = QueueOf(sl)
    /\ step[sl] \in {"loaded", "handling"} =>
          /\ PlanSound(snap[sl].plan)
          /\ \/ Planned(job[JobOf(sl)].plan)
             \/ snap[sl].built /\ UpTo(First(job[JobOf(sl)]))
    /\ step[sl] \in {"dispatching", "retrying"} => Planned(job[JobOf(sl)].plan)
    /\ step[sl] = "dispatching" =>
          /\ todo[sl] \in Stage
          /\ JobOf(sl) \notin byHand => UpTo(todo[sl])
    /\ step[sl] = "retrying" => got[sl] < MaxAttempts

SessionsSound == \A sl \in Slot : SessionSound(sl)

(* A row that may still be claimed has an attempt of the budget.           *)
WithinAttempts ==
    \A r \in Row : state[r] \in {"pending", "claimed"} => attempt[r] <= MaxAttempts

PipelineInv ==
    PipelineTypeOK /\ WithinAttempts /\ PlansSound /\ RowsFollow /\ SessionsSound

(***************************************************************************)
(* What every step does to the jobs: a stored plan stays and passes over   *)
(* no stage that has not succeeded; a job that exists goes on existing,    *)
(* starts from the same stage until it has a plan, and gets one only when  *)
(* the stages before that one have succeeded.                              *)
(***************************************************************************)
JobAdvances(j) ==
    /\ Planned(job'[j].plan) => \A s \in Stage : job'[j].plan[s] # "run" => s \in done'
    /\ job[j].state # "none" =>
          /\ job'[j].state # "none"
          /\ Planned(job[j].plan) => Planned(job'[j].plan)
          /\ ~Planned(job'[j].plan) => First(job'[j]) = First(job[j])
          /\ Planned(job'[j].plan) => Planned(job[j].plan) \/ UpTo(First(job[j]))

JobsAdvance ==
    /\ done \subseteq done'
    /\ byHand \subseteq byHand'
    /\ \A j \in Job : JobAdvances(j)

-----------------------------------------------------------------------------
(* A slot serves the queue of one stage.                                   *)
LEMMA SlotStage == \A sl \in Slot : QueueOf(sl) \in Stage
BY PipelineAssumption DEF Slot, QueueOf

(* A slot that is not idle holds a row, and a row that is held is not free. *)
LEMMA HeldRow ==
    ASSUME PipelineInv, NEW sl \in Slot, step[sl] # "idle"
    PROVE  /\ held[sl] # NoRow
           /\ held[sl] \in Row \ FreeRow
           /\ JobOf(sl) \in Job
           /\ queue[held[sl]] = QueueOf(sl)
           /\ job[JobOf(sl)] \in JobRow
           /\ job[JobOf(sl)].state # "none"
<1>1. /\ held[sl] # NoRow /\ held[sl] \in Row
      /\ msg \in [Row -> Job] /\ job \in [Job -> JobRow]
  BY DEF PipelineInv, PipelineTypeOK, TypeOK
<1>2. held[sl] \in Row \ FreeRow
  BY <1>1 DEF FreeRow
<1>3. queue[held[sl]] = QueueOf(sl) /\ job[JobOf(sl)].state # "none"
  BY <1>1, <1>2 DEF PipelineInv, SessionsSound, SessionSound, RowsFollow, RowFollows, JobOf
<1> QED BY <1>1, <1>2, <1>3 DEF JobOf

(***************************************************************************)
(* A session that has loaded a job the CLI did not reach into is for a     *)
(* stage all of whose upstream has succeeded.                              *)
(***************************************************************************)
LEMMA SessionUpstream ==
    ASSUME PipelineInv, NEW sl \in Slot, step[sl] \in {"loaded", "handling"},
           JobOf(sl) \notin byHand
    PROVE  UpTo(QueueOf(sl))
<1>1. RowFollows(held[sl]) /\ queue[held[sl]] = QueueOf(sl)
  BY HeldRow DEF PipelineInv, RowsFollow
<1>2. Planned(job[JobOf(sl)].plan) \/ UpTo(First(job[JobOf(sl)]))
  BY DEF PipelineInv, SessionsSound, SessionSound
<1> QED BY <1>1, <1>2 DEF RowFollows, JobOf

(* Stages that have succeeded stay so.                                     *)
LEMMA DoneGrows ==
    ASSUME done \subseteq done'
    PROVE  /\ \A s : UpTo(s) => UpTo(s)'
           /\ \A plan : PlanSound(plan) => PlanSound(plan)'
BY DEF UpTo, PlanSound, Planned, NoPlan

(* A plan that plan() makes is sound, and so is the stage it starts from.  *)
LEMMA NewPlanSound ==
    ASSUME NEW from \in Stage \cup {NoStage}, NEW D, NEW c,
           c = [s \in Stage |-> IF s \in D THEN <<>> ELSE NoCheckpoint],
           MissingBefore(from, c) = {}
    PROVE  /\ NewPlan(from, c) \in Plan
           /\ Planned(NewPlan(from, c))
           /\ \A s \in Stage : NewPlan(from, c)[s] # "run" => s \in D
           /\ \A u \in Stage : u < (IF from = NoStage THEN 1 ELSE from) => u \in D
<1>1. \A s \in Stage : c[s] # NoCheckpoint => s \in D
  OBVIOUS
<1>2. \A u \in Stage : ~(u < 1)
  BY EngineAssumption DEF Stage
<1> QED BY <1>1, <1>2, PlanPassesOver DEF NewPlan, Plan, Planned, NoPlan

(* Where nothing is written to the jobs, they advance.                     *)
LEMMA JobsLeftAlone ==
    ASSUME PipelineInv, UNCHANGED <<job, done, byHand>>
    PROVE  JobsAdvance
<1>1. \A plan : PlanSound(plan) => PlanSound(plan)'
  BY DoneGrows
<1>2. ASSUME NEW j \in Job
      PROVE  JobAdvances(j)
  BY <1>1 DEF PipelineInv, PlansSound, JobAdvances, PlanSound, Planned, NoPlan
<1> QED BY <1>2 DEF JobsAdvance

(* A state alone is written, and not that of a job that does not exist.    *)
LEMMA StateWritten ==
    ASSUME PipelineInv, UNCHANGED <<done, byHand>>,
           NEW j \in Job, NEW s \in JobState \ {"none"},
           job' = [job EXCEPT ![j].state = s]
    PROVE  JobsAdvance /\ job' \in [Job -> JobRow]
<1>1. job \in [Job -> JobRow]
  BY DEF PipelineInv, PipelineTypeOK
<1>2. job' \in [Job -> JobRow]
  BY <1>1 DEF JobRow
<1>3. \A i \in Job : /\ job'[i].plan = job[i].plan /\ job'[i].resume = job[i].resume
                      /\ job[i].state # "none" => job'[i].state # "none"
  BY <1>1 DEF JobRow
<1>4. ASSUME NEW i \in Job
      PROVE  JobAdvances(i)
  BY <1>3 DEF PipelineInv, PlansSound, JobAdvances, PlanSound, Planned, NoPlan, First
<1> QED BY <1>2, <1>4 DEF JobsAdvance

-----------------------------------------------------------------------------
(* A row that is not free goes on following its job.                       *)
LEMMA RowKept ==
    ASSUME PipelineInv, JobsAdvance, NEW r \in Row \ FreeRow,
           queue'[r] = queue[r], msg'[r] = msg[r]
    PROVE  RowFollows(r)'
<1>1. RowFollows(r) /\ msg[r] \in Job
  BY DEF PipelineInv, PipelineTypeOK, RowsFollow
<1>2. JobAdvances(msg[r]) /\ byHand \subseteq byHand'
  BY <1>1 DEF JobsAdvance
<1>3. \A s : UpTo(s) => UpTo(s)'
  BY DoneGrows DEF JobsAdvance
<1>4. job'[msg[r]].state # "none"
  BY <1>1, <1>2 DEF RowFollows, JobAdvances
<1>5. ASSUME msg[r] \notin byHand'
      PROVE  \/ UpTo(queue[r])'
             \/ ~Planned(job'[msg[r]].plan) /\ queue[r] = First(job'[msg[r]])
  BY <1>1, <1>2, <1>3, <1>5 DEF RowFollows, JobAdvances
<1>6. (UpTo(queue[r]))' <=> (\A u \in Stage : u < queue[r] => u \in done')
  BY DEF UpTo
<1> QED BY <1>4, <1>5, <1>6 DEF RowFollows, UpTo, Planned, NoPlan, First

LEMMA RowsKept ==
    ASSUME PipelineInv, JobsAdvance, FreeRow \subseteq FreeRow', UNCHANGED <<queue, msg>>
    PROVE  RowsFollow'
BY RowKept DEF RowsFollow

(* What is said of a session holds on while its slot is left alone.        *)
LEMMA SessionKept ==
    ASSUME PipelineInv, JobsAdvance, NEW sl \in Slot,
           step'[sl] = step[sl], held'[sl] = held[sl], snap'[sl] = snap[sl],
           todo'[sl] = todo[sl], got'[sl] = got[sl],
           held[sl] # NoRow => queue'[held[sl]] = queue[held[sl]]
                               /\ msg'[held[sl]] = msg[held[sl]]
    PROVE  SessionSound(sl)'
<1>1. SessionSound(sl)
  BY DEF PipelineInv, SessionsSound
<1>2. CASE step[sl] = "idle"
  BY <1>1, <1>2 DEF SessionSound
<1>3. CASE step[sl] # "idle"
  <2>1. held[sl] # NoRow /\ JobOf(sl) \in Job /\ job[JobOf(sl)].state # "none"
    BY <1>3, HeldRow
  <2>2. JobAdvances(JobOf(sl)) /\ byHand \subseteq byHand'
    BY <2>1 DEF JobsAdvance
  <2>3. /\ \A s : UpTo(s) => UpTo(s)'
        /\ \A plan : PlanSound(plan) => PlanSound(plan)'
    BY DoneGrows DEF JobsAdvance
  <2>4. JobOf(sl)' = JobOf(sl) /\ queue'[held'[sl]] = QueueOf(sl)
    BY <1>1, <2>1 DEF JobOf, SessionSound
  <2>5. ASSUME step[sl] \in {"loaded", "handling"}
        PROVE  /\ PlanSound(snap[sl].plan)'
               /\ \/ Planned(job'[JobOf(sl)].plan)
                  \/ snap[sl].built /\ UpTo(First(job[JobOf(sl)]))'
    <3>1. PlanSound(snap[sl].plan)'
      BY <1>1, <2>3, <2>5 DEF SessionSound, PlanSound, Planned, NoPlan
    <3>2. \/ Planned(job[JobOf(sl)].plan)
          \/ snap[sl].built /\ UpTo(First(job[JobOf(sl)]))
      BY <1>1, <2>5 DEF SessionSound
    <3>3. CASE Planned(job'[JobOf(sl)].plan)
      BY <3>1, <3>3
    <3>4. CASE ~Planned(job'[JobOf(sl)].plan)
      <4>1. snap[sl].built /\ UpTo(First(job[JobOf(sl)]))
        BY <2>1, <2>2, <3>2, <3>4 DEF JobAdvances
      <4>2. First(job'[JobOf(sl)]) = First(job[JobOf(sl)])
        BY <2>1, <2>2, <3>4 DEF JobAdvances
      <4> QED BY <3>1, <4>1, <4>2, <2>3, <2>4 DEF UpTo
    <3> QED BY <3>3, <3>4
  <2>6. ASSUME step[sl] \in {"dispatching", "retrying"}
        PROVE  Planned(job'[JobOf(sl)].plan)
    BY <1>1, <2>1, <2>2, <2>6 DEF SessionSound, JobAdvances
  <2>7. ASSUME step[sl] = "dispatching"
        PROVE  /\ todo[sl] \in Stage
               /\ JobOf(sl) \notin byHand' =>
                    \A u \in Stage : u < todo[sl] => u \in done'
    BY <1>1, <2>2, <2>3, <2>7 DEF SessionSound, UpTo
  <2>8. step[sl] = "retrying" => got[sl] < MaxAttempts
    BY <1>1 DEF SessionSound
  <2> QED BY <2>4, <2>5, <2>6, <2>7, <2>8
          DEF SessionSound, PlanSound, Planned, NoPlan, UpTo, First, JobOf
<1> QED BY <1>2, <1>3

-----------------------------------------------------------------------------
(***************************************************************************)
(* The queue: its types, that a row that can be claimed has an attempt of  *)
(* the budget, and that nothing but an enqueue takes a free row.           *)
(***************************************************************************)
QueueKept == TypeOK' /\ WithinAttempts' /\ FreeRow \subseteq FreeRow'

LEMMA ClaimKeepsQueue ==
    ASSUME TypeOK, WithinAttempts, NEW sl \in Slot, NEW r \in Row, Claim(sl, r)
    PROVE  QueueKept
<1> USE QueueAssumption DEF Claim, TypeOK
<1>1. attempt[r] \in 1..MaxAttempts
  BY DEF WithinAttempts
<1>2. TypeOK'
  BY <1>1 DEF RowState
<1>3. WithinAttempts'
  BY DEF WithinAttempts
<1>4. FreeRow \subseteq FreeRow'
  BY DEF FreeRow
<1> QED BY <1>2, <1>3, <1>4 DEF QueueKept

LEMMA CompleteKeepsQueue ==
    ASSUME TypeOK, WithinAttempts, NEW sl \in Slot, Complete(sl)
    PROVE  QueueKept
<1> USE QueueAssumption DEF Complete, Release, TypeOK
<1>1. TypeOK'
  BY DEF RowState
<1>2. WithinAttempts'
  BY DEF WithinAttempts
<1>3. FreeRow \subseteq FreeRow'
  BY DEF FreeRow
<1> QED BY <1>1, <1>2, <1>3 DEF QueueKept

LEMMA FailReadKeepsQueue ==
    ASSUME TypeOK, WithinAttempts, NEW sl \in Slot, FailRead(sl)
    PROVE  QueueKept
<1> USE QueueAssumption DEF FailRead, TypeOK, rowVars
<1>1. TypeOK'
  BY DEF RowState
<1>2. WithinAttempts'
  BY DEF WithinAttempts
<1>3. FreeRow \subseteq FreeRow'
  BY DEF FreeRow
<1> QED BY <1>1, <1>2, <1>3 DEF QueueKept

LEMMA FailWriteKeepsQueue ==
    ASSUME TypeOK, WithinAttempts, NEW sl \in Slot, FailWrite(sl)
    PROVE  QueueKept
<1> USE QueueAssumption DEF FailWrite, Release, TypeOK
<1>1. held[sl] \in Row /\ held[sl] \notin FreeRow /\ seen[sl] + 1 \in 1..MaxAttempts + 2
  BY DEF FreeRow
<1>2. TypeOK'
  BY <1>1 DEF RowState
<1>3. WithinAttempts'
  BY <1>1 DEF WithinAttempts
<1>4. FreeRow \subseteq FreeRow'
  BY <1>1 DEF FreeRow
<1> QED BY <1>2, <1>3, <1>4 DEF QueueKept

LEMMA CrashKeepsQueue ==
    ASSUME TypeOK, WithinAttempts, NEW p \in Proc, Crash(p)
    PROVE  QueueKept
<1> USE QueueAssumption DEF Crash, TypeOK, rowVars
<1>1. TypeOK'
  BY DEF RowState
<1>2. WithinAttempts'
  BY DEF WithinAttempts
<1>3. FreeRow \subseteq FreeRow'
  BY DEF FreeRow
<1> QED BY <1>1, <1>2, <1>3 DEF QueueKept

LEMMA ReclaimKeepsQueue ==
    ASSUME TypeOK, WithinAttempts, NEW lapsed \in SUBSET Row, Reclaim(lapsed)
    PROVE  QueueKept
<1> USE QueueAssumption DEF Reclaim, TypeOK, slotVars
<1>1. \A r \in lapsed : attempt[r] \in 1..MaxAttempts
  BY DEF WithinAttempts
<1>2. TypeOK'
  BY <1>1 DEF RowState, ReclaimedState
<1>3. WithinAttempts'
  BY <1>1 DEF WithinAttempts, ReclaimedState
<1>4. FreeRow \subseteq FreeRow'
  BY DEF FreeRow
<1> QED BY <1>2, <1>3, <1>4 DEF QueueKept

LEMMA NothingKeepsQueue ==
    ASSUME TypeOK, WithinAttempts, UNCHANGED queueVars
    PROVE  QueueKept
BY DEF QueueKept, TypeOK, WithinAttempts, FreeRow, queueVars

(***************************************************************************)
(* An enqueue for a job that exists: the row is for a stage whose upstream *)
(* has succeeded or the first of a job without a plan, unless the CLI sent *)
(* it.  No row that a slot holds is taken for it.                          *)
(***************************************************************************)
LEMMA PostKeeps ==
    ASSUME PipelineInv, JobsAdvance, NEW j \in Job, NEW s \in Stage,
           NEW a \in 1..MaxAttempts, Post(j, s, a),
           job'[j].state # "none",
           \/ j \in byHand' \/ UpTo(s)
           \/ ~Planned(job'[j].plan) /\ s = First(job'[j])
    PROVE  /\ TypeOK' /\ WithinAttempts' /\ RowsFollow' /\ msg' \in [Row -> Job]
           /\ \A sl \in Slot : held[sl] # NoRow => /\ queue'[held[sl]] = queue[held[sl]]
                                                   /\ msg'[held[sl]] = msg[held[sl]]
<1>1. PICK r \in FreeRow :
        /\ Insert(r, a)
        /\ queue' = [queue EXCEPT ![r] = s]
        /\ msg' = [msg EXCEPT ![r] = j]
        /\ delivered' = [delivered EXCEPT ![r] = {}]
  BY DEF Post
<1>2. r \in Row /\ UNCHANGED slotVars /\ TypeOK /\ msg \in [Row -> Job]
  BY DEF FreeRow, Post, PipelineInv, PipelineTypeOK
<1>3. TypeOK' /\ msg' \in [Row -> Job]
  BY <1>1, <1>2, PipelineAssumption, QueueAssumption DEF TypeOK, Insert, RowState, slotVars
<1>4. WithinAttempts'
  BY <1>1, <1>2, QueueAssumption DEF PipelineInv, WithinAttempts, TypeOK, Insert
<1>5. \A sl \in Slot : held[sl] # NoRow => /\ held[sl] # r
                                           /\ queue'[held[sl]] = queue[held[sl]]
                                           /\ msg'[held[sl]] = msg[held[sl]]
  BY <1>1, <1>2 DEF FreeRow, TypeOK
<1>6. ASSUME NEW q \in Row \ FreeRow', q # r
      PROVE  RowFollows(q)'
  <2>1. q \in Row \ FreeRow
    BY <1>1, <1>2, <1>6 DEF FreeRow, Insert, slotVars, TypeOK
  <2> QED BY <1>1, <1>2, <1>6, <2>1, RowKept DEF TypeOK
<1>7. RowFollows(r)'
  <2>1. msg'[r] = j /\ queue'[r] = s
    BY <1>1, <1>2 DEF TypeOK
  <2>2. UpTo(s) => \A u \in Stage : u < s => u \in done'
    BY DEF UpTo, JobsAdvance
  <2> QED BY <2>1, <2>2 DEF RowFollows, UpTo, Planned, NoPlan, First
<1> QED BY <1>3, <1>4, <1>5, <1>6, <1>7 DEF RowsFollow

-----------------------------------------------------------------------------
(* In the first state no job and no row exists.                            *)
LEMMA InitPipeline == Init => PipelineInv
<1> SUFFICES ASSUME Init PROVE PipelineInv
  OBVIOUS
<1> USE PipelineAssumption, EngineAssumption, QueueAssumption DEF Init, QueueInit
<1>1. TypeOK
  BY DEF TypeOK, RowState, Stage
<1>2. NoPlan \in Plan /\ Unread \in SessionRow
  BY DEF NoPlan, Plan, Unread, SessionRow, JobState
<1>3. job \in [Job -> JobRow]
  BY <1>2 DEF NewJob, JobRow, JobState
<1>4. PipelineTypeOK
  BY <1>1, <1>2, <1>3 DEF PipelineTypeOK
<1>5. FreeRow = Row
  BY DEF FreeRow
<1>6. WithinAttempts /\ RowsFollow
  BY <1>5 DEF WithinAttempts, RowsFollow
<1>7. PlansSound /\ SessionsSound
  BY DEF PlansSound, Planned, NewJob, SessionsSound, SessionSound
<1> QED BY <1>4, <1>6, <1>7 DEF PipelineInv

(* The shape of most steps: the jobs advance, no row is inserted, and one  *)
(* slot moves.                                                             *)
LEMMA SlotMoves ==
    ASSUME PipelineInv, JobsAdvance, QueueKept, PipelineTypeOK', UNCHANGED <<queue, msg>>,
           NEW sl \in Slot, SessionSound(sl)',
           \A other \in Slot \ {sl} :
              /\ step'[other] = step[other] /\ held'[other] = held[other]
              /\ snap'[other] = snap[other] /\ todo'[other] = todo[other]
              /\ got'[other] = got[other]
    PROVE  PipelineInv'
<1>1. \A other \in Slot : SessionSound(other)'
  BY SessionKept
<1>2. RowsFollow'
  BY RowsKept DEF QueueKept
<1>3. PlansSound'
  BY DEF JobsAdvance, JobAdvances, PlansSound, PlanSound, Planned, NoPlan
<1> QED BY <1>1, <1>2, <1>3 DEF PipelineInv, QueueKept, SessionsSound

(* A worker that claims a row serves its queue.                            *)
LEMMA ClaimRowKeeps ==
    ASSUME PipelineInv, NEW sl \in Slot, NEW r \in Row, ClaimRow(sl, r)
    PROVE  PipelineInv'
<1> USE DEF ClaimRow, jobVars, opVars, histVars
<1>1. JobsAdvance
  BY JobsLeftAlone
<1>2. QueueKept /\ UNCHANGED <<queue, msg>>
  BY ClaimKeepsQueue DEF PipelineInv, PipelineTypeOK, Claim
<1>3. PipelineTypeOK'
  BY <1>2 DEF PipelineInv, PipelineTypeOK, QueueKept, Claim, TypeOK
<1>4. SessionSound(sl)'
  BY DEF PipelineInv, PipelineTypeOK, TypeOK, SessionSound, Claim
<1>5. \A other \in Slot \ {sl} : /\ step'[other] = step[other]
                                 /\ held'[other] = held[other]
                                 /\ got'[other] = got[other]
  BY DEF PipelineInv, PipelineTypeOK, TypeOK, Claim
<1> QED BY <1>1, <1>2, <1>3, <1>4, <1>5, SlotMoves

(***************************************************************************)
(* Loading a job: a plan is built only when the stages before the one it   *)
(* starts from have succeeded, and it passes over stages that have.        *)
(***************************************************************************)
LEMMA LoadKeeps ==
    ASSUME PipelineInv, NEW sl \in Slot, Load(sl)
    PROVE  PipelineInv'
<1> DEFINE j == JobOf(sl)
           built == ~Planned(job[j].plan)
           plan == IF built THEN NewPlan(job[j].resume, Reached) ELSE job[j].plan
<1>1. /\ step[sl] = "claimed" /\ UNCHANGED <<queueVars, msg, jobVars, todo, opVars, faults>>
  BY DEF Load, Pass
<1>2. j \in Job /\ job[j] \in JobRow /\ held[sl] # NoRow /\ queue[held[sl]] = QueueOf(sl)
  BY <1>1, HeldRow
<1>3. JobsAdvance
  BY <1>1, JobsLeftAlone DEF jobVars, opVars
<1>4. QueueKept /\ UNCHANGED <<queue, msg, held, got>>
  BY <1>1, NothingKeepsQueue DEF PipelineInv, PipelineTypeOK, queueVars
<1>5. CASE step' = [step EXCEPT ![sl] = "settling"] /\ UNCHANGED snap
  <2>1. PipelineTypeOK'
    BY <1>1, <1>4, <1>5 DEF PipelineInv, PipelineTypeOK, QueueKept, queueVars, jobVars, opVars
  <2>2. SessionSound(sl)'
    BY <1>2, <1>4, <1>5 DEF PipelineInv, PipelineTypeOK, SessionSound
  <2> QED BY <1>1, <1>3, <1>4, <1>5, <2>1, <2>2, SlotMoves DEF PipelineInv, PipelineTypeOK
<1>6. CASE step' = [step EXCEPT ![sl] = "raised"] /\ UNCHANGED snap
  <2>1. PipelineTypeOK'
    BY <1>1, <1>4, <1>6 DEF PipelineInv, PipelineTypeOK, QueueKept, queueVars, jobVars, opVars
  <2>2. SessionSound(sl)'
    BY <1>2, <1>4, <1>6 DEF PipelineInv, PipelineTypeOK, SessionSound
  <2> QED BY <1>1, <1>3, <1>4, <1>6, <2>1, <2>2, SlotMoves DEF PipelineInv, PipelineTypeOK
<1>7. CASE /\ step' = [step EXCEPT ![sl] = "loaded"]
           /\ built => MissingBefore(job[j].resume, Reached) = {}
           /\ snap' = [snap EXCEPT ![sl] =
                [state |-> job[j].state, stage |-> job[j].stage, built |-> built,
                 plan |-> plan]]
  <2>1. /\ plan \in Plan /\ PlanSound(plan)
        /\ built => UpTo(First(job[j]))
    <3>1. CASE built
      BY <1>2, <1>7, <3>1, NewPlanSound DEF Reached, PlanSound, UpTo, First, JobRow
    <3>2. CASE ~built
      BY <1>2, <3>2 DEF PipelineInv, PlansSound, JobRow
    <3> QED BY <3>1, <3>2
  <2>2. built \in BOOLEAN
    BY DEF Planned
  <2>3. snap'[sl] \in SessionRow /\ snap' \in [Slot -> SessionRow]
    BY <1>2, <1>7, <2>1, <2>2 DEF PipelineInv, PipelineTypeOK, SessionRow, JobRow
  <2>4. PipelineTypeOK'
    BY <1>1, <1>4, <1>7, <2>3 DEF PipelineInv, PipelineTypeOK, QueueKept, queueVars, jobVars, opVars
  <2>5. /\ snap'[sl].plan = plan /\ snap'[sl].built = built /\ step'[sl] = "loaded"
    BY <1>7 DEF PipelineInv, PipelineTypeOK
  <2>6. SessionSound(sl)'
    <3>1. PlanSound(snap[sl].plan)'
      BY <1>1, <2>1, <2>5 DEF PlanSound, Planned, NoPlan, jobVars
    <3>2. \/ Planned(job'[JobOf(sl)'].plan)
          \/ snap'[sl].built /\ UpTo(First(job[j]))
      BY <1>1, <1>4, <2>1, <2>5 DEF JobOf, jobVars
    <3>3. UpTo(First(job[JobOf(sl)]))' <=> UpTo(First(job[j]))
      BY <1>1, <1>4 DEF UpTo, First, JobOf, jobVars
    <3> QED BY <1>2, <1>4, <2>5, <3>1, <3>2, <3>3 DEF SessionSound, Planned, NoPlan
  <2> QED BY <1>1, <1>3, <1>4, <1>7, <2>4, <2>6, SlotMoves DEF PipelineInv, PipelineTypeOK
<1> QED BY <1>5, <1>6, <1>7 DEF Load, Pass

-----------------------------------------------------------------------------
(* A session that has loaded its job writes its row, a sound plan in it.   *)
LEMMA SessionWrites ==
    ASSUME PipelineInv, NEW sl \in Slot, step[sl] \in {"loaded", "handling"},
           done \subseteq done', UNCHANGED byHand,
           NEW row \in JobRow, row.state # "none", Planned(row.plan),
           \A s \in Stage : row.plan[s] # "run" => s \in done',
           job' = [job EXCEPT ![JobOf(sl)] = row]
    PROVE  JobsAdvance /\ job' \in [Job -> JobRow] /\ job'[JobOf(sl)] = row
<1>1. JobOf(sl) \in Job /\ job \in [Job -> JobRow]
  BY HeldRow DEF PipelineInv, PipelineTypeOK
<1>2. /\ job' \in [Job -> JobRow] /\ job'[JobOf(sl)] = row
      /\ \A i \in Job \ {JobOf(sl)} : job'[i] = job[i]
  BY <1>1
<1>3. JobAdvances(JobOf(sl))
  <2>1. Planned(job[JobOf(sl)].plan) \/ UpTo(First(job[JobOf(sl)]))
    BY DEF PipelineInv, SessionsSound, SessionSound
  <2> QED BY <1>1, <1>2, <2>1 DEF JobAdvances, PlanSound, Planned, NoPlan
<1>4. ASSUME NEW i \in Job \ {JobOf(sl)}
      PROVE  JobAdvances(i)
  BY <1>2, DoneGrows DEF PipelineInv, PlansSound, JobAdvances, PlanSound, Planned, NoPlan
<1> QED BY <1>2, <1>3, <1>4 DEF JobsAdvance

(* What a session has read is typed, and so is the stage it is for.        *)
LEMMA SessionTyped ==
    ASSUME PipelineInv, NEW sl \in Slot, step[sl] \in {"loaded", "handling"}
    PROVE  /\ snap[sl].plan \in Plan /\ snap[sl].state \in JobState /\ snap[sl].built \in BOOLEAN
           /\ Planned(snap[sl].plan)
           /\ \A s \in Stage : snap[sl].plan[s] # "run" => s \in done
           /\ ~snap[sl].built => Planned(job[JobOf(sl)].plan)
           /\ \A s \in Stage : Planned(job[JobOf(sl)].plan) /\ job[JobOf(sl)].plan[s] # "run" => s \in done
           /\ job[JobOf(sl)] \in JobRow /\ job[JobOf(sl)].state # "none"
           /\ JobOf(sl) \in Job /\ QueueOf(sl) \in Stage
<1>1. SessionSound(sl) /\ snap[sl] \in SessionRow
  BY DEF PipelineInv, SessionsSound, PipelineTypeOK
<1>2. JobOf(sl) \in Job /\ job[JobOf(sl)] \in JobRow /\ job[JobOf(sl)].state # "none"
  BY HeldRow
<1>3. Planned(job[JobOf(sl)].plan) => PlanSound(job[JobOf(sl)].plan)
  BY <1>2 DEF PipelineInv, PlansSound
<1> QED BY <1>1, <1>2, <1>3, SlotStage DEF SessionRow, SessionSound, PlanSound

(* After the commit: the stage to enqueue, if any, follows stages that     *)
(* have succeeded.                                                         *)
LEMMA ThenSound ==
    ASSUME PipelineInv, NEW sl \in Slot, step[sl] # "idle", NEW plan, NEW next,
           next = NextAfter(plan, QueueOf(sl)), Then(sl, next),
           done \subseteq done', UNCHANGED byHand,
           \A s \in Stage : plan[s] # "run" => s \in done',
           QueueOf(sl) \in done',
           JobOf(sl) \notin byHand => UpTo(QueueOf(sl)),
           Planned(job'[JobOf(sl)].plan)
    PROVE  /\ SessionSound(sl)' /\ todo' \in [Slot -> Stage \cup {NoStage}]
           /\ \A other \in Slot \ {sl} : step'[other] = step[other] /\ todo'[other] = todo[other]
<1>1. /\ step \in [Slot -> {"idle", "claimed", "loaded", "handling", "dispatching",
                            "retrying", "settling", "raised"}]
      /\ todo \in [Slot -> Stage \cup {NoStage}]
  BY DEF PipelineInv, PipelineTypeOK
<1>2. /\ step'[sl] = IF next = NoStage THEN "settling" ELSE "dispatching"
      /\ todo' = [todo EXCEPT ![sl] = next]
      /\ UNCHANGED <<queue, held, got, msg>>
      /\ \A other \in Slot \ {sl} : step'[other] = step[other]
  BY <1>1 DEF Then, Pass, queueVars
<1>3. next = NoStage \/ next \in Stage
  BY SlotStage, NextAfterIsNext
<1>4. ASSUME JobOf(sl) \notin byHand
      PROVE  next = NoStage \/ \A t \in Stage : t < next => t \in done'
  <2>1. QueueOf(sl) \in Stage /\ \A t \in Stage : t < QueueOf(sl) => t \in done'
    BY <1>4, SlotStage DEF UpTo
  <2> QED BY <2>1, NextFollows
<1>5. SessionSound(sl)'
  <2>1. queue'[held'[sl]] = QueueOf(sl) /\ JobOf(sl)' = JobOf(sl)
    BY <1>2, HeldRow DEF JobOf
  <2> QED BY <1>1, <1>2, <1>3, <1>4, <2>1 DEF SessionSound, UpTo, Planned, NoPlan
<1> QED BY <1>1, <1>2, <1>3, <1>5

(* Reusing a checkpoint.                                                   *)
LEMMA SkipKeeps ==
    ASSUME PipelineInv, NEW sl \in Slot, Skip(sl)
    PROVE  PipelineInv'
<1> DEFINE j == JobOf(sl)
           next == NextAfter(snap[sl].plan, QueueOf(sl))
           stored == IF snap[sl].built THEN [job[j] EXCEPT !.plan = snap[sl].plan] ELSE job[j]
           row == Finalised(stored, next)
<1>1. /\ step[sl] = "loaded" /\ snap[sl].plan[QueueOf(sl)] = "skip"
      /\ job' = [job EXCEPT ![j] = row]
      /\ ContractAfter(next) /\ Then(sl, next)
      /\ snap' = [snap EXCEPT ![sl] = Unread]
      /\ UNCHANGED <<done, outdated, broken, dropped, faults>>
  BY DEF Skip
<1>2. /\ snap[sl].plan \in Plan /\ snap[sl].built \in BOOLEAN /\ Planned(snap[sl].plan)
      /\ \A s \in Stage : snap[sl].plan[s] # "run" => s \in done
      /\ ~snap[sl].built => Planned(job[j].plan)
      /\ \A s \in Stage : Planned(job[j].plan) /\ job[j].plan[s] # "run" => s \in done
      /\ job[j] \in JobRow /\ job[j].state # "none" /\ j \in Job /\ QueueOf(sl) \in Stage
  BY <1>1, SessionTyped
<1>3. UNCHANGED <<queueVars, msg, opVars>>
  BY <1>1 DEF Then, Pass
<1>4. /\ stored \in JobRow /\ stored.state # "none" /\ Planned(stored.plan)
      /\ \A s \in Stage : stored.plan[s] # "run" => s \in done
  BY <1>2 DEF JobRow
<1>5. /\ row \in JobRow /\ row.state # "none" /\ Planned(row.plan)
      /\ \A s \in Stage : row.plan[s] # "run" => s \in done
  <2> HIDE DEF stored, next
  <2> QED BY <1>4 DEF Finalised, JobRow, JobState, Terminal
<1>6. JobsAdvance /\ job' \in [Job -> JobRow] /\ job'[j] = row
  <2> HIDE DEF row
  <2> QED BY <1>1, <1>3, <1>5, SessionWrites DEF opVars
<1>7. JobOf(sl) \notin byHand => UpTo(QueueOf(sl))
  BY <1>1, SessionUpstream
<1>8. /\ SessionSound(sl)' /\ todo' \in [Slot -> Stage \cup {NoStage}]
      /\ \A other \in Slot \ {sl} : step'[other] = step[other] /\ todo'[other] = todo[other]
  <2> HIDE DEF row, next
  <2>1. next = NextAfter(snap[sl].plan, QueueOf(sl))
    BY DEF next
  <2>2. Planned(job'[JobOf(sl)].plan) /\ QueueOf(sl) \in done' /\ step[sl] # "idle"
    BY <1>1, <1>2, <1>5, <1>6
  <2> QED BY <1>1, <1>2, <1>3, <1>7, <2>1, <2>2, ThenSound DEF opVars
<1>9. QueueKept /\ UNCHANGED <<queue, msg, held, got>>
  BY <1>3, NothingKeepsQueue DEF PipelineInv, PipelineTypeOK, queueVars
<1>10. PipelineTypeOK'
  <2>1. Unread \in SessionRow
    BY DEF Unread, SessionRow, JobState, NoPlan, Plan
  <2>2. contract' \in {"UPLOADED", "READY", "FAILED"}
    BY <1>1 DEF ContractAfter, PipelineInv, PipelineTypeOK
  <2>3. /\ step' \in [Slot -> {"idle", "claimed", "loaded", "handling", "dispatching",
                               "retrying", "settling", "raised"}]
        /\ step'[sl] # "idle"
    BY <1>1 DEF Then, Pass, PipelineInv, PipelineTypeOK
  <2> QED BY <1>1, <1>3, <1>6, <1>8, <1>9, <2>1, <2>2, <2>3
          DEF PipelineInv, PipelineTypeOK, QueueKept, queueVars, opVars
<1> QED BY <1>1, <1>6, <1>8, <1>9, <1>10, SlotMoves DEF PipelineInv, PipelineTypeOK

(* A handler begins: the job is not written yet.                           *)
LEMMA BeginKeeps ==
    ASSUME PipelineInv, NEW sl \in Slot, Begin(sl)
    PROVE  PipelineInv'
<1>1. /\ step[sl] = "loaded" /\ step' = [step EXCEPT ![sl] = "handling"]
      /\ UNCHANGED <<queueVars, msg, opVars, jobVars, snap, todo, dropped, faults>>
  BY DEF Begin, Pass
<1>2. JobsAdvance
  BY <1>1, JobsLeftAlone DEF jobVars, opVars
<1>3. QueueKept /\ UNCHANGED <<queue, msg, held, got>>
  BY <1>1, NothingKeepsQueue DEF PipelineInv, PipelineTypeOK, queueVars
<1>4. PipelineTypeOK'
  BY <1>1, <1>3 DEF PipelineInv, PipelineTypeOK, QueueKept, queueVars, jobVars, opVars
<1>5. SessionSound(sl)'
  BY <1>1, <1>3 DEF PipelineInv, PipelineTypeOK, SessionsSound, SessionSound, jobVars, JobOf,
                    PlanSound, Planned, NoPlan, UpTo, First
<1> QED BY <1>1, <1>2, <1>3, <1>4, <1>5, SlotMoves DEF PipelineInv, PipelineTypeOK

(* What mark_stage_started() leaves is a row with a sound plan.            *)
LEMMA StartedTyped ==
    ASSUME PipelineInv, NEW sl \in Slot, step[sl] = "handling"
    PROVE  /\ Started(sl) \in JobRow /\ Started(sl).state # "none"
           /\ Planned(Started(sl).plan)
           /\ \A s \in Stage : Started(sl).plan[s] # "run" => s \in done
<1> DEFINE j == JobOf(sl)
           s == QueueOf(sl)
<1>1. /\ snap[sl].plan \in Plan /\ snap[sl].built \in BOOLEAN /\ Planned(snap[sl].plan)
      /\ \A t \in Stage : snap[sl].plan[t] # "run" => t \in done
      /\ ~snap[sl].built => Planned(job[j].plan)
      /\ \A t \in Stage : Planned(job[j].plan) /\ job[j].plan[t] # "run" => t \in done
      /\ job[j] \in JobRow /\ job[j].state # "none" /\ s \in Stage
  BY SessionTyped
<1>2. StateOf[s] \in JobState /\ StateOf[s] # "none"
  BY <1>1, PipelineAssumption DEF JobState, Running
<1> HIDE DEF j, s
<1>3. Started(sl) = [job[j] EXCEPT
          !.state = IF snap[sl].state = StateOf[s] THEN @ ELSE StateOf[s],
          !.stage = IF snap[sl].stage = s THEN @ ELSE s,
          !.plan = IF snap[sl].built THEN snap[sl].plan ELSE @]
  BY DEF Started, j, s
<1> QED BY <1>1, <1>2, <1>3 DEF JobRow

(* What every commit of a handler has in common.                           *)
LEMMA CommitTypes ==
    ASSUME PipelineInv, NEW sl \in Slot, snap' = [snap EXCEPT ![sl] = Unread],
           UNCHANGED <<queueVars, msg, opVars>>, job' \in [Job -> JobRow],
           todo' \in [Slot -> Stage \cup {NoStage}], done' \subseteq Stage,
           contract' \in {"UPLOADED", "READY", "FAILED"},
           NEW to \in {"dispatching", "retrying", "settling"}, step' = [step EXCEPT ![sl] = to],
           step[sl] # "idle"
    PROVE  PipelineTypeOK' /\ QueueKept
<1>1. QueueKept
  BY NothingKeepsQueue DEF PipelineInv, PipelineTypeOK
<1>2. Unread \in SessionRow
  BY DEF Unread, SessionRow, JobState, NoPlan, Plan
<1> QED BY <1>1, <1>2 DEF PipelineInv, PipelineTypeOK, QueueKept, queueVars, opVars

(***************************************************************************)
(* A handler succeeds: its stage is complete, and so is everything a new   *)
(* plan, made after DOCPIPELINE against what is complete, passes over.     *)
(***************************************************************************)
LEMMA SucceedKeeps ==
    ASSUME PipelineInv, NEW sl \in Slot, Succeed(sl)
    PROVE  PipelineInv'
<1> DEFINE j == JobOf(sl)
           s == QueueOf(sl)
           complete == [t \in Stage |-> IF t \in done' THEN <<>> ELSE NoCheckpoint]
           plan == IF s = DocStage THEN NewPlan(NoStage, complete) ELSE snap[sl].plan
           next == NextAfter(plan, s)
           row == Finalised([Started(sl) EXCEPT !.plan = plan], next)
<1>1. /\ step[sl] = "handling" /\ snap' = [snap EXCEPT ![sl] = Unread]
      /\ done' = done \cup {s} /\ job' = [job EXCEPT ![j] = row]
      /\ ContractAfter(next) /\ Then(sl, next)
  BY DEF Succeed, Commit
<1>2. /\ snap[sl].plan \in Plan /\ Planned(snap[sl].plan)
      /\ \A t \in Stage : snap[sl].plan[t] # "run" => t \in done
      /\ j \in Job /\ s \in Stage
  BY <1>1, SessionTyped
<1>3. UNCHANGED <<queueVars, msg, opVars>>
  BY <1>1 DEF Then, Pass
<1>4. /\ plan \in Plan /\ Planned(plan)
      /\ \A t \in Stage : plan[t] # "run" => t \in done'
  <2>1. MissingBefore(NoStage, complete) = {}
    BY DEF MissingBefore, Scope
  <2>2. /\ NewPlan(NoStage, complete) \in Plan /\ Planned(NewPlan(NoStage, complete))
        /\ \A t \in Stage : NewPlan(NoStage, complete)[t] # "run" => t \in done'
    BY <2>1, NewPlanSound
  <2> HIDE DEF complete
  <2> QED BY <1>1, <1>2, <2>2
<1> HIDE DEF plan
<1>5. /\ row \in JobRow /\ row.state # "none" /\ row.plan = plan
  <2> HIDE DEF next
  <2>1. Started(sl) \in JobRow /\ Started(sl).state # "none"
    BY <1>1, StartedTyped
  <2> QED BY <1>4, <2>1 DEF Finalised, JobRow, JobState, Terminal
<1>6. JobsAdvance /\ job' \in [Job -> JobRow] /\ job'[j] = row
  <2> HIDE DEF row
  <2> QED BY <1>1, <1>3, <1>4, <1>5, SessionWrites DEF opVars
<1>7. JobOf(sl) \notin byHand => UpTo(QueueOf(sl))
  BY <1>1, SessionUpstream
<1>8. /\ SessionSound(sl)' /\ todo' \in [Slot -> Stage \cup {NoStage}]
      /\ \A other \in Slot \ {sl} : step'[other] = step[other] /\ todo'[other] = todo[other]
  <2> HIDE DEF row, next
  <2>1. next = NextAfter(plan, QueueOf(sl))
    BY DEF next
  <2>2. Planned(job'[JobOf(sl)].plan) /\ QueueOf(sl) \in done' /\ step[sl] # "idle"
    BY <1>1, <1>2, <1>4, <1>5, <1>6
  <2> QED BY <1>1, <1>3, <1>4, <1>7, <2>1, <2>2, ThenSound DEF opVars
<1>9. PipelineTypeOK' /\ QueueKept
  <2> HIDE DEF next
  <2>1. PICK to \in {"dispatching", "settling"} : step' = [step EXCEPT ![sl] = to]
    BY <1>1 DEF Then, Pass
  <2>2. contract' \in {"UPLOADED", "READY", "FAILED"} /\ done' \subseteq Stage
    BY <1>1, <1>2 DEF ContractAfter, PipelineInv, PipelineTypeOK
  <2> QED BY <1>1, <1>3, <1>6, <1>8, <2>1, <2>2, CommitTypes
<1> QED BY <1>1, <1>3, <1>6, <1>8, <1>9, SlotMoves DEF PipelineInv, PipelineTypeOK, queueVars

-----------------------------------------------------------------------------
(* A commit that enqueues nothing, or a retry while attempts are left.     *)
LEMMA CommitKeeps ==
    ASSUME PipelineInv, NEW sl \in Slot, step[sl] = "handling",
           NEW row \in JobRow, row.state # "none", row.plan = Started(sl).plan,
           job' = [job EXCEPT ![JobOf(sl)] = row],
           done \subseteq done', done' \subseteq Stage, UNCHANGED todo,
           snap' = [snap EXCEPT ![sl] = Unread],
           contract' \in {"UPLOADED", "READY", "FAILED"},
           NEW to \in {"retrying", "settling"}, Pass(sl, to),
           to = "retrying" => got[sl] < MaxAttempts
    PROVE  PipelineInv'
<1>1. UNCHANGED <<queueVars, msg, opVars>> /\ step' = [step EXCEPT ![sl] = to]
  BY DEF Pass
<1>2. Planned(row.plan) /\ \A s \in Stage : row.plan[s] # "run" => s \in done'
  BY StartedTyped
<1>3. JobsAdvance /\ job' \in [Job -> JobRow] /\ job'[JobOf(sl)] = row
  BY <1>1, <1>2, SessionWrites DEF opVars
<1>4. PipelineTypeOK' /\ QueueKept
  BY <1>1, <1>3, CommitTypes DEF PipelineInv, PipelineTypeOK
<1>5. SessionSound(sl)'
  <2>1. queue'[held'[sl]] = QueueOf(sl) /\ JobOf(sl)' = JobOf(sl) /\ step'[sl] = to
        /\ got'[sl] = got[sl]
    BY <1>1, HeldRow DEF JobOf, queueVars, PipelineInv, PipelineTypeOK
  <2> QED BY <1>2, <1>3, <2>1 DEF SessionSound, Planned, NoPlan
<1> QED BY <1>1, <1>3, <1>4, <1>5, SlotMoves DEF PipelineInv, PipelineTypeOK, queueVars

(* Validation rejects the document.                                        *)
LEMMA HaltKeeps ==
    ASSUME PipelineInv, NEW sl \in Slot, Halt(sl)
    PROVE  PipelineInv'
<1> DEFINE row == Failed(Started(sl), Gate)
<1>1. /\ step[sl] = "handling" /\ snap' = [snap EXCEPT ![sl] = Unread]
      /\ done' = done \cup {QueueOf(sl)} /\ QueueOf(sl) = Gate
      /\ job' = [job EXCEPT ![JobOf(sl)] = row]
      /\ contract' = "FAILED" /\ Pass(sl, "settling") /\ UNCHANGED todo
  BY DEF Halt, Commit
<1>2. Started(sl) \in JobRow /\ Gate \in Stage
  BY <1>1, StartedTyped, SlotStage
<1>3. row \in JobRow /\ row.state # "none" /\ row.plan = Started(sl).plan
  BY <1>2 DEF Failed, JobRow, JobState, Terminal
<1>4. done' \subseteq Stage
  BY <1>1, <1>2 DEF PipelineInv, PipelineTypeOK
<1> HIDE DEF row
<1> QED BY <1>1, <1>3, <1>4, CommitKeeps

(* A handler fails, to be retried while attempts are left.                 *)
LEMMA StageFailsKeeps ==
    ASSUME PipelineInv, NEW sl \in Slot, StageFails(sl)
    PROVE  PipelineInv'
<1>1. /\ step[sl] = "handling" /\ snap' = [snap EXCEPT ![sl] = Unread]
      /\ UNCHANGED <<done, outdated, todo>>
  BY DEF StageFails
<1>2. Started(sl) \in JobRow /\ QueueOf(sl) \in Stage
  BY <1>1, StartedTyped, SlotStage
<1>3. done' \subseteq Stage /\ contract \in {"UPLOADED", "READY", "FAILED"}
  BY <1>1 DEF PipelineInv, PipelineTypeOK
<1>4. CASE /\ got[sl] < MaxAttempts
           /\ job' = [job EXCEPT ![JobOf(sl)] = [Started(sl) EXCEPT !.state = "RETRYING"]]
           /\ Pass(sl, "retrying")
           /\ UNCHANGED <<contract, histVars>>
  <2> DEFINE row == [Started(sl) EXCEPT !.state = "RETRYING"]
  <2>1. row \in JobRow /\ row.state # "none" /\ row.plan = Started(sl).plan
    BY <1>2 DEF JobRow, JobState
  <2>2. job' = [job EXCEPT ![JobOf(sl)] = row]
    BY <1>4
  <2> HIDE DEF row
  <2> QED BY <1>1, <1>3, <1>4, <2>1, <2>2, CommitKeeps
<1>5. CASE /\ job' = [job EXCEPT ![JobOf(sl)] = Failed(Started(sl), QueueOf(sl))]
           /\ contract' = "FAILED"
           /\ Pass(sl, "settling")
  <2> DEFINE row == Failed(Started(sl), QueueOf(sl))
  <2>1. row \in JobRow /\ row.state # "none" /\ row.plan = Started(sl).plan
    BY <1>2 DEF Failed, JobRow, JobState, Terminal
  <2>2. job' = [job EXCEPT ![JobOf(sl)] = row]
    BY <1>5
  <2> HIDE DEF row
  <2> QED BY <1>1, <1>3, <1>5, <2>1, <2>2, CommitKeeps
<1> QED BY <1>4, <1>5 DEF StageFails

-----------------------------------------------------------------------------
(* Where a row was inserted, the sessions are as they were but for one.    *)
LEMMA SessionsAfterPost ==
    ASSUME PipelineInv, JobsAdvance, NEW j, NEW s, NEW a, Post(j, s, a),
           \A sl \in Slot : held[sl] # NoRow => /\ queue'[held[sl]] = queue[held[sl]]
                                                /\ msg'[held[sl]] = msg[held[sl]],
           NEW sl \in Slot, step'[sl] = step[sl], snap'[sl] = snap[sl], todo'[sl] = todo[sl]
    PROVE  SessionSound(sl)'
<1>1. UNCHANGED <<held, got>>
  BY DEF Post, slotVars
<1> QED BY <1>1, SessionKept

(* The next stage, or the retry, is enqueued.                              *)
LEMMA EnqueuesKeeps ==
    ASSUME PipelineInv, NEW sl \in Slot, Enqueues(sl)
    PROVE  PipelineInv'
<1> DEFINE j == JobOf(sl)
<1>1. /\ step[sl] \in {"dispatching", "retrying"}
      /\ step' = [step EXCEPT ![sl] = "settling"]
      /\ todo' = [todo EXCEPT ![sl] = NoStage]
      /\ UNCHANGED <<jobVars, snap, opVars, histVars, faults>>
  BY DEF Enqueues
<1>2. /\ j \in Job /\ job[j].state # "none" /\ held[sl] # NoRow
      /\ held[sl] \in Row \ FreeRow /\ queue[held[sl]] = QueueOf(sl)
  BY <1>1, HeldRow
<1>3. JobsAdvance
  BY <1>1, JobsLeftAlone DEF jobVars, opVars
<1>4. PICK s \in Stage, a \in 1..MaxAttempts :
        Post(j, s, a) /\ (j \in byHand' \/ UpTo(s))
  <2>1. CASE step[sl] = "dispatching"
    <3>1. Post(j, todo[sl], 1) /\ todo[sl] \in Stage /\ (j \notin byHand => UpTo(todo[sl]))
      BY <2>1 DEF Enqueues, PipelineInv, SessionsSound, SessionSound
    <3>2. 1 \in 1..MaxAttempts
      BY QueueAssumption
    <3> QED BY <1>1, <3>1, <3>2 DEF opVars
  <2>2. CASE step[sl] = "retrying"
    <3>1. Post(j, QueueOf(sl), got[sl] + 1) /\ got[sl] < MaxAttempts /\ Planned(job[j].plan)
      BY <2>2 DEF Enqueues, PipelineInv, SessionsSound, SessionSound
    <3>2. got[sl] + 1 \in 1..MaxAttempts
      BY <3>1, QueueAssumption DEF PipelineInv, PipelineTypeOK, TypeOK
    <3>3. j \notin byHand => UpTo(QueueOf(sl))
      BY <1>2, <3>1 DEF PipelineInv, RowsFollow, RowFollows, JobOf
    <3> QED BY <1>1, <3>1, <3>2, <3>3, SlotStage DEF opVars
  <2> QED BY <1>1, <2>1, <2>2
<1>5. /\ TypeOK' /\ WithinAttempts' /\ RowsFollow' /\ msg' \in [Row -> Job]
      /\ \A x \in Slot : held[x] # NoRow => /\ queue'[held[x]] = queue[held[x]]
                                            /\ msg'[held[x]] = msg[held[x]]
  BY <1>1, <1>2, <1>3, <1>4, PostKeeps DEF jobVars
<1>6. UNCHANGED <<phase, held, got>>
  BY <1>4 DEF Post, slotVars
<1>7. PipelineTypeOK'
  BY <1>1, <1>5, <1>6 DEF PipelineInv, PipelineTypeOK, jobVars, opVars
<1>8. ASSUME NEW x \in Slot
      PROVE  SessionSound(x)'
  <2>1. CASE x = sl
    BY <1>1, <1>2, <1>5, <1>6, <2>1 DEF SessionSound, PipelineInv, PipelineTypeOK
  <2>2. CASE x # sl
    BY <1>1, <1>3, <1>4, <1>5, <2>2, SessionsAfterPost DEF PipelineInv, PipelineTypeOK
  <2> QED BY <2>1, <2>2
<1>9. PlansSound'
  BY <1>3 DEF JobsAdvance, JobAdvances, PlansSound, PlanSound, Planned, NoPlan
<1> QED BY <1>5, <1>7, <1>8, <1>9 DEF PipelineInv, SessionsSound

(* ...or it fails, and the job with it.                                    *)
LEMMA EnqueueFailsKeeps ==
    ASSUME PipelineInv, NEW sl \in Slot, EnqueueFails(sl)
    PROVE  PipelineInv'
<1> DEFINE j == JobOf(sl)
           s == IF step[sl] = "retrying" THEN QueueOf(sl) ELSE todo[sl]
<1>1. /\ step[sl] \in {"dispatching", "retrying"}
      /\ job' = [job EXCEPT ![j] = Failed(job[j], s)]
      /\ todo' = [todo EXCEPT ![sl] = NoStage]
      /\ step' = [step EXCEPT ![sl] = "settling"]
      /\ UNCHANGED <<queueVars, msg, opVars, done, contract, outdated, snap>>
  BY DEF EnqueueFails, Pass
<1>2. j \in Job /\ job[j] \in JobRow /\ held[sl] # NoRow /\ queue[held[sl]] = QueueOf(sl)
  BY <1>1, HeldRow
<1>3. s \in Stage /\ Planned(job[j].plan)
  BY <1>1, SlotStage DEF PipelineInv, SessionsSound, SessionSound
<1>4. /\ job' \in [Job -> JobRow] /\ job'[j].state # "none" /\ job'[j].plan = job[j].plan
      /\ \A i \in Job \ {j} : job'[i] = job[i]
  <2> HIDE DEF s, j
  <2> QED BY <1>1, <1>2, <1>3 DEF Failed, JobRow, JobState, Terminal, PipelineInv, PipelineTypeOK
<1>5. ASSUME NEW i \in Job
      PROVE  JobAdvances(i)
  <2>1. \A plan : PlanSound(plan) => PlanSound(plan)'
    BY <1>1, DoneGrows
  <2>2. CASE i = j
    BY <1>1, <1>2, <1>3, <1>4, <2>2 DEF PipelineInv, PlansSound, JobAdvances, PlanSound, Planned, NoPlan
  <2>3. CASE i # j
    BY <1>1, <1>4, <2>3 DEF PipelineInv, PlansSound, JobAdvances, PlanSound, Planned, NoPlan
  <2> QED BY <2>2, <2>3
<1>6. JobsAdvance
  BY <1>1, <1>5 DEF JobsAdvance, opVars
<1>7. QueueKept /\ UNCHANGED <<queue, msg, held, got>>
  BY <1>1, NothingKeepsQueue DEF PipelineInv, PipelineTypeOK, queueVars
<1>8. PipelineTypeOK'
  BY <1>1, <1>4, <1>7 DEF PipelineInv, PipelineTypeOK, QueueKept, queueVars, opVars
<1>9. SessionSound(sl)'
  BY <1>1, <1>2, <1>7 DEF SessionSound, PipelineInv, PipelineTypeOK
<1> QED BY <1>1, <1>6, <1>7, <1>8, <1>9, SlotMoves DEF PipelineInv, PipelineTypeOK

-----------------------------------------------------------------------------
(* The database goes away under a session.                                 *)
LEMMA RaiseKeeps ==
    ASSUME PipelineInv, NEW sl \in Slot, Raise(sl)
    PROVE  PipelineInv'
<1>1. /\ step[sl] \in {"loaded", "handling", "dispatching", "retrying"}
      /\ step' = [step EXCEPT ![sl] = "raised"]
      /\ snap' = [snap EXCEPT ![sl] = Unread]
      /\ todo' = [todo EXCEPT ![sl] = NoStage]
      /\ UNCHANGED <<queueVars, msg, opVars, jobVars, histVars>>
  BY DEF Raise, Pass
<1>2. JobsAdvance
  BY <1>1, JobsLeftAlone DEF jobVars, opVars
<1>3. QueueKept /\ UNCHANGED <<queue, msg, held, got>>
  BY <1>1, NothingKeepsQueue DEF PipelineInv, PipelineTypeOK, queueVars
<1>4. Unread \in SessionRow
  BY DEF Unread, SessionRow, JobState, NoPlan, Plan
<1>5. PipelineTypeOK'
  BY <1>1, <1>3, <1>4 DEF PipelineInv, PipelineTypeOK, QueueKept, queueVars, jobVars, opVars
<1>6. held[sl] # NoRow /\ queue[held[sl]] = QueueOf(sl)
  BY <1>1, HeldRow
<1>7. SessionSound(sl)'
  BY <1>1, <1>3, <1>6 DEF SessionSound, PipelineInv, PipelineTypeOK
<1> QED BY <1>1, <1>2, <1>3, <1>5, <1>7, SlotMoves DEF PipelineInv, PipelineTypeOK

(* The row is completed and the slot is free.                              *)
LEMMA SettleKeeps ==
    ASSUME PipelineInv, NEW sl \in Slot, Settle(sl)
    PROVE  PipelineInv'
<1>1. /\ Complete(sl) /\ step' = [step EXCEPT ![sl] = "idle"]
      /\ UNCHANGED <<jobVars, msg, snap, todo, opVars, histVars, faults>>
  BY DEF Settle
<1>2. JobsAdvance
  BY <1>1, JobsLeftAlone DEF jobVars, opVars
<1>3. QueueKept /\ UNCHANGED <<queue, msg>>
  BY <1>1, CompleteKeepsQueue DEF PipelineInv, PipelineTypeOK, Complete
<1>4. /\ phase' = [phase EXCEPT ![sl] = "idle"] /\ held' = [held EXCEPT ![sl] = NoRow]
      /\ got' = [got EXCEPT ![sl] = 0]
  BY <1>1 DEF Complete, Release
<1>5. PipelineTypeOK'
  BY <1>1, <1>3, <1>4 DEF PipelineInv, PipelineTypeOK, QueueKept, TypeOK, jobVars, opVars
<1>6. SessionSound(sl)'
  BY <1>1, <1>4 DEF SessionSound, PipelineInv, PipelineTypeOK, TypeOK
<1> QED BY <1>1, <1>2, <1>3, <1>4, <1>5, <1>6, SlotMoves DEF PipelineInv, PipelineTypeOK, TypeOK

(* fail() gives the row back in two statements.                            *)
LEMMA GiveBackKeeps ==
    ASSUME PipelineInv, NEW sl \in Slot, GiveBack(sl)
    PROVE  PipelineInv'
<1>1. step[sl] = "raised" /\ UNCHANGED <<jobVars, msg, snap, todo, opVars, faults>>
  BY DEF GiveBack
<1>2. JobsAdvance
  BY <1>1, JobsLeftAlone DEF jobVars, opVars
<1>3. held[sl] # NoRow /\ queue[held[sl]] = QueueOf(sl)
  BY <1>1, HeldRow
<1>4. CASE FailRead(sl) /\ UNCHANGED <<step, histVars>>
  <2>1. QueueKept /\ UNCHANGED <<queue, msg, held, got>>
    BY <1>1, <1>4, FailReadKeepsQueue DEF PipelineInv, PipelineTypeOK, FailRead, rowVars
  <2>2. PipelineTypeOK'
    BY <1>1, <1>3, <1>4, <2>1
       DEF PipelineInv, PipelineTypeOK, QueueKept, FailRead, TypeOK, jobVars, opVars
  <2>3. SessionSound(sl)'
    BY <1>1, <1>3, <1>4, <2>1 DEF SessionSound
  <2> QED BY <1>1, <1>2, <1>4, <2>1, <2>2, <2>3, SlotMoves
<1>5. CASE FailWrite(sl) /\ step' = [step EXCEPT ![sl] = "idle"]
  <2>1. QueueKept /\ UNCHANGED <<queue, msg>>
    BY <1>1, <1>5, FailWriteKeepsQueue DEF PipelineInv, PipelineTypeOK, FailWrite
  <2>2. /\ phase' = [phase EXCEPT ![sl] = "idle"] /\ held' = [held EXCEPT ![sl] = NoRow]
        /\ got' = [got EXCEPT ![sl] = 0]
    BY <1>5 DEF FailWrite, Release
  <2>3. PipelineTypeOK'
    BY <1>1, <1>5, <2>1, <2>2 DEF PipelineInv, PipelineTypeOK, QueueKept, TypeOK, jobVars, opVars
  <2>4. SessionSound(sl)'
    BY <1>5, <2>2 DEF SessionSound, PipelineInv, PipelineTypeOK, TypeOK
  <2> QED BY <1>1, <1>2, <1>5, <2>1, <2>2, <2>3, <2>4, SlotMoves
          DEF PipelineInv, PipelineTypeOK, TypeOK
<1> QED BY <1>4, <1>5 DEF GiveBack

(* A worker process dies, and all its slots with it.                       *)
LEMMA DiesKeeps ==
    ASSUME PipelineInv, NEW p \in Proc, Dies(p)
    PROVE  PipelineInv'
<1> DEFINE lost == SlotsOf(p)
<1>1. /\ Crash(p)
      /\ step' = [sl \in Slot |-> IF sl \in lost THEN "idle" ELSE step[sl]]
      /\ snap' = [sl \in Slot |-> IF sl \in lost THEN Unread ELSE snap[sl]]
      /\ todo' = [sl \in Slot |-> IF sl \in lost THEN NoStage ELSE todo[sl]]
      /\ UNCHANGED <<jobVars, msg, opVars>>
  BY DEF Dies
<1>2. JobsAdvance
  BY <1>1, JobsLeftAlone DEF jobVars, opVars
<1>3. QueueKept /\ UNCHANGED <<queue, msg>>
  BY <1>1, CrashKeepsQueue DEF PipelineInv, PipelineTypeOK, Crash, rowVars
<1>4. /\ phase' = [sl \in Slot |-> IF sl \in lost THEN "idle" ELSE phase[sl]]
      /\ held' = [sl \in Slot |-> IF sl \in lost THEN NoRow ELSE held[sl]]
      /\ got' = [sl \in Slot |-> IF sl \in lost THEN 0 ELSE got[sl]]
  BY <1>1 DEF Crash
<1> HIDE DEF lost
<1>5. Unread \in SessionRow
  BY DEF Unread, SessionRow, JobState, NoPlan, Plan
<1>6. PipelineTypeOK'
  BY <1>1, <1>3, <1>4, <1>5 DEF PipelineInv, PipelineTypeOK, QueueKept, jobVars, opVars
<1>7. ASSUME NEW sl \in Slot
      PROVE  SessionSound(sl)'
  <2>1. CASE sl \in lost
    BY <1>1, <1>4, <2>1 DEF SessionSound
  <2>2. CASE sl \notin lost
    BY <1>1, <1>2, <1>3, <1>4, <2>2, SessionKept
  <2> QED BY <2>1, <2>2
<1>8. RowsFollow'
  BY <1>2, <1>3, RowsKept DEF QueueKept
<1>9. PlansSound'
  BY <1>2 DEF JobsAdvance, JobAdvances, PlansSound, PlanSound, Planned, NoPlan
<1> QED BY <1>3, <1>6, <1>7, <1>8, <1>9 DEF PipelineInv, QueueKept, SessionsSound

-----------------------------------------------------------------------------
(* Steps that leave every slot alone and insert no row.                    *)
LEMMA NoSlotMoves ==
    ASSUME PipelineInv, JobsAdvance, QueueKept, PipelineTypeOK', UNCHANGED <<queue, msg>>,
           UNCHANGED <<step, held, snap, todo, got>>
    PROVE  PipelineInv'
<1>1. \A sl \in Slot : SessionSound(sl)'
  BY SessionKept
<1>2. RowsFollow'
  BY RowsKept DEF QueueKept
<1>3. PlansSound'
  BY DEF JobsAdvance, JobAdvances, PlansSound, PlanSound, Planned, NoPlan
<1> QED BY <1>1, <1>2, <1>3 DEF PipelineInv, QueueKept, SessionsSound

(* The sweep takes rows whose lease has lapsed.                            *)
LEMMA ReclaimLeasesKeeps ==
    ASSUME PipelineInv, NEW lapsed \in SUBSET Row, ReclaimLeases(lapsed)
    PROVE  PipelineInv'
<1>1. Reclaim(lapsed) /\ UNCHANGED <<jobVars, msg, step, snap, todo, opVars>>
  BY DEF ReclaimLeases
<1>2. JobsAdvance
  BY <1>1, JobsLeftAlone DEF jobVars, opVars
<1>3. QueueKept /\ UNCHANGED <<queue, msg, slotVars>>
  BY <1>1, ReclaimKeepsQueue DEF PipelineInv, PipelineTypeOK, Reclaim
<1>4. PipelineTypeOK'
  BY <1>1, <1>3 DEF PipelineInv, PipelineTypeOK, QueueKept, slotVars, jobVars, opVars
<1> QED BY <1>1, <1>2, <1>3, <1>4, NoSlotMoves DEF slotVars

(* The sweep and a cancel choose a job...                                  *)
LEMMA FindKeeps ==
    ASSUME PipelineInv, UNCHANGED <<queueVars, jobVars, msg, step, snap, todo, byHand>>,
           sweeping' \in Job \cup {NoJob}, cancelling' \in Job \cup {NoJob}
    PROVE  PipelineInv'
<1>1. JobsAdvance
  BY JobsLeftAlone DEF jobVars
<1>2. QueueKept
  BY NothingKeepsQueue DEF PipelineInv, PipelineTypeOK
<1>3. PipelineTypeOK'
  BY <1>2 DEF PipelineInv, PipelineTypeOK, QueueKept, queueVars, jobVars
<1> QED BY <1>1, <1>2, <1>3, NoSlotMoves DEF queueVars

(* ...and write its state later, whatever it is by then.                   *)
LEMMA MarkKeeps ==
    ASSUME PipelineInv, NEW j \in Job, NEW s \in {"FAILED", "CANCELLED"},
           job' = [job EXCEPT ![j].state = s],
           sweeping' \in {sweeping, NoJob}, cancelling' \in {cancelling, NoJob},
           UNCHANGED <<queueVars, done, contract, msg, step, snap, todo, byHand>>
    PROVE  PipelineInv'
<1>1. JobsAdvance /\ job' \in [Job -> JobRow]
  BY StateWritten DEF JobState, Terminal
<1>2. QueueKept
  BY NothingKeepsQueue DEF PipelineInv, PipelineTypeOK
<1>3. PipelineTypeOK'
  BY <1>1, <1>2 DEF PipelineInv, PipelineTypeOK, QueueKept, queueVars
<1> QED BY <1>1, <1>2, <1>3, NoSlotMoves DEF queueVars

(* A job and its first row: no row and no session of it is there yet.      *)
LEMMA CreateJobKeeps ==
    ASSUME PipelineInv, NEW from \in Stage \cup {NoStage}, CreateJob(from)
    PROVE  PipelineInv'
<1> DEFINE first == IF from = NoStage THEN 1 ELSE from
<1>1. PICK j \in NewJobs : job' = [job EXCEPT ![j] = NewJob(from)] /\ Post(j, first, 1)
  BY DEF CreateJob
<1>2. UNCHANGED <<done, contract, outdated, step, snap, todo, sweeping, cancelling, byHand>>
  BY DEF CreateJob
<1>3. j \in Job /\ job[j].state = "none" /\ job \in [Job -> JobRow]
  BY DEF NewJobs, PipelineInv, PipelineTypeOK
<1>4. NewJob(from) \in JobRow
  BY DEF NewJob, JobRow, JobState, NoPlan, Plan
<1>5. /\ job' \in [Job -> JobRow] /\ job'[j] = NewJob(from)
      /\ \A i \in Job \ {j} : job'[i] = job[i]
  BY <1>1, <1>3, <1>4
<1>6. JobsAdvance
  <2>1. JobAdvances(j)
    BY <1>3, <1>5 DEF JobAdvances, NewJob, Planned
  <2>2. ASSUME NEW i \in Job \ {j}
        PROVE  JobAdvances(i)
    BY <1>2, <1>5 DEF PipelineInv, PlansSound, JobAdvances, PlanSound, Planned, NoPlan
  <2> QED BY <1>2, <2>1, <2>2 DEF JobsAdvance
<1>7. first \in Stage /\ 1 \in 1..MaxAttempts
  BY EngineAssumption, QueueAssumption DEF Stage
<1>8. job'[j].state # "none" /\ ~Planned(job'[j].plan) /\ first = First(job'[j])
  BY <1>5 DEF NewJob, Planned, First
<1> HIDE DEF first
<1>9. /\ TypeOK' /\ WithinAttempts' /\ RowsFollow' /\ msg' \in [Row -> Job]
      /\ \A x \in Slot : held[x] # NoRow => /\ queue'[held[x]] = queue[held[x]]
                                            /\ msg'[held[x]] = msg[held[x]]
  BY <1>1, <1>3, <1>6, <1>7, <1>8, PostKeeps
<1>10. UNCHANGED slotVars
  BY <1>1 DEF Post
<1>11. PipelineTypeOK'
  BY <1>2, <1>5, <1>9, <1>10 DEF PipelineInv, PipelineTypeOK, slotVars
<1>12. SessionsSound'
  BY <1>1, <1>2, <1>6, <1>9, SessionsAfterPost DEF SessionsSound
<1>13. PlansSound'
  BY <1>6 DEF JobsAdvance, JobAdvances, PlansSound, PlanSound, Planned, NoPlan
<1> QED BY <1>9, <1>11, <1>12, <1>13 DEF PipelineInv

(* cip reprocess: a stage of anybody's choice.                             *)
LEMMA CliReprocessKeeps ==
    ASSUME PipelineInv, NEW j \in Job, NEW s \in Stage, CliReprocess(j, s)
    PROVE  PipelineInv'
<1>1. /\ job[j].state # "none" /\ Post(j, s, 1) /\ byHand' = byHand \cup {j}
      /\ UNCHANGED <<jobVars, step, snap, todo, sweeping, cancelling>>
  BY DEF CliReprocess
<1>2. JobsAdvance
  <2>1. ASSUME NEW i \in Job
        PROVE  JobAdvances(i)
    BY <1>1 DEF jobVars, PipelineInv, PlansSound, JobAdvances, PlanSound, Planned, NoPlan
  <2> QED BY <1>1, <2>1 DEF JobsAdvance, jobVars
<1>3. /\ TypeOK' /\ WithinAttempts' /\ RowsFollow' /\ msg' \in [Row -> Job]
      /\ \A x \in Slot : held[x] # NoRow => /\ queue'[held[x]] = queue[held[x]]
                                            /\ msg'[held[x]] = msg[held[x]]
  <2>1. 1 \in 1..MaxAttempts /\ job'[j].state # "none"
    BY <1>1, QueueAssumption DEF jobVars
  <2> QED BY <1>1, <1>2, <2>1, PostKeeps
<1>4. UNCHANGED slotVars
  BY <1>1 DEF Post
<1>5. PipelineTypeOK'
  BY <1>1, <1>3, <1>4 DEF PipelineInv, PipelineTypeOK, slotVars, jobVars
<1>6. SessionsSound'
  BY <1>1, <1>2, <1>3, SessionsAfterPost DEF SessionsSound
<1>7. PlansSound'
  BY <1>2 DEF JobsAdvance, JobAdvances, PlansSound, PlanSound, Planned, NoPlan
<1> QED BY <1>3, <1>5, <1>6, <1>7 DEF PipelineInv

-----------------------------------------------------------------------------
(* A worker's step on the row it holds.                                    *)
LEMMA RunStepKeeps ==
    ASSUME PipelineInv, NEW sl \in Slot, RunStep(sl)
    PROVE  PipelineInv'
<1>1. CASE Load(sl) \/ Skip(sl) \/ Begin(sl)
  BY <1>1, LoadKeeps, SkipKeeps, BeginKeeps
<1>2. CASE Succeed(sl) \/ Halt(sl) \/ StageFails(sl)
  BY <1>2, SucceedKeeps, HaltKeeps, StageFailsKeeps
<1>3. CASE Enqueues(sl) \/ EnqueueFails(sl) \/ Raise(sl)
  BY <1>3, EnqueuesKeeps, EnqueueFailsKeeps, RaiseKeeps
<1>4. CASE Settle(sl) \/ GiveBack(sl)
  BY <1>4, SettleKeeps, GiveBackKeeps
<1> QED BY <1>1, <1>2, <1>3, <1>4 DEF RunStep

(* The maintenance sweep.                                                  *)
LEMMA SweepStepKeeps ==
    ASSUME PipelineInv, SweepStep
    PROVE  PipelineInv'
<1>1. sweeping \in Job \cup {NoJob} /\ cancelling \in Job \cup {NoJob}
  BY DEF PipelineInv, PipelineTypeOK
<1>2. CASE \E lapsed \in SUBSET Row : ReclaimLeases(lapsed)
  BY <1>2, ReclaimLeasesKeeps
<1>3. CASE \E j \in Job : FindStalled(j)
  BY <1>1, <1>3, FindKeeps DEF FindStalled
<1>4. CASE FailStalled
  BY <1>1, <1>4, MarkKeeps DEF FailStalled
<1> QED BY <1>2, <1>3, <1>4 DEF SweepStep

(* The operations of the API and the CLI.                                  *)
LEMMA UserStepKeeps ==
    ASSUME PipelineInv, UserStep
    PROVE  PipelineInv'
<1>1. /\ sweeping \in Job \cup {NoJob} /\ cancelling \in Job \cup {NoJob}
      /\ \A j \in Job : job[j].stage \in Stage \cup {NoStage}
  BY DEF PipelineInv, PipelineTypeOK, JobRow
<1>2. 1 \in Stage
  BY EngineAssumption DEF Stage
<1>3. CASE Upload
  BY <1>3, CreateJobKeeps DEF Upload
<1>4. CASE \E s \in Stage : ReprocessContract(s)
  BY <1>4, CreateJobKeeps DEF ReprocessContract
<1>5. ASSUME NEW j \in Job, RetryJob(j)
      PROVE  PipelineInv'
  <2>1. CreateJob(IF job[j].stage = NoStage THEN 1 ELSE job[j].stage)
    BY <1>5 DEF RetryJob
  <2>2. (IF job[j].stage = NoStage THEN 1 ELSE job[j].stage) \in Stage \cup {NoStage}
    BY <1>1, <1>2
  <2> QED BY <2>1, <2>2, CreateJobKeeps
<1>6. CASE \E j \in Job : FindCancellable(j)
  BY <1>1, <1>6, FindKeeps DEF FindCancellable
<1>7. CASE MarkCancelled
  BY <1>1, <1>7, MarkKeeps DEF MarkCancelled
<1>8. CASE \E j \in Job, s \in Stage : CliReprocess(j, s)
  BY <1>8, CliReprocessKeeps
<1> QED BY <1>3, <1>4, <1>5, <1>6, <1>7, <1>8 DEF UserStep

(* The invariant holds throughout.                                         *)
THEOREM PipelineInvariant == Spec => []PipelineInv
<1>1. PipelineInv /\ [Next]_pipeVars => PipelineInv'
  <2> SUFFICES ASSUME PipelineInv, [Next]_pipeVars
               PROVE  PipelineInv'
    OBVIOUS
  <2>1. CASE \E sl \in Slot, r \in Row : ClaimRow(sl, r)
    BY <2>1, ClaimRowKeeps
  <2>2. CASE \E sl \in Slot : RunStep(sl)
    BY <2>2, RunStepKeeps
  <2>3. CASE \E p \in Proc : Dies(p)
    BY <2>3, DiesKeeps
  <2>4. CASE SweepStep \/ UserStep
    BY <2>4, SweepStepKeeps, UserStepKeeps
  <2>5. CASE UNCHANGED pipeVars
    <3>1. sweeping \in Job \cup {NoJob} /\ cancelling \in Job \cup {NoJob}
      BY DEF PipelineInv, PipelineTypeOK
    <3> QED BY <2>5, <3>1, FindKeeps DEF pipeVars, jobVars, opVars
  <2> QED BY <2>1, <2>2, <2>3, <2>4, <2>5 DEF Next
<1> QED BY InitPipeline, <1>1, PTL DEF Spec

(***************************************************************************)
(* The state of jobs, rows and sessions stays in its types, and a slot is  *)
(* busy exactly while it holds a row.                                      *)
(***************************************************************************)
THEOREM PipelineTypeCorrect == Spec => []PipelineTypeOK
<1>1. PipelineInv => PipelineTypeOK
  BY DEF PipelineInv
<1> QED BY PipelineInvariant, <1>1, PTL

(***************************************************************************)
(* base.py:147: a handler never runs without its inputs present, whatever  *)
(* is delivered twice, retried, cancelled, reprocessed or swept, in any    *)
(* job the CLI did not reach into.                                         *)
(***************************************************************************)
THEOREM InputsArePresent == Spec => []UpstreamFirst
<1>1. PipelineInv => UpstreamFirst
  <2> SUFFICES ASSUME PipelineInv, NEW sl \in Slot, step[sl] = "handling",
                      JobOf(sl) \notin byHand
               PROVE  UpTo(QueueOf(sl))
    BY DEF UpstreamFirst, UpTo
  <2> QED BY SessionUpstream
<1> QED BY PipelineInvariant, <1>1, PTL

-----------------------------------------------------------------------------
(***************************************************************************)
(* What NoSilentStop rests on.  A job that waits is carried by a row that  *)
(* no worker is about to settle, or by a worker that is about to enqueue   *)
(* or to give its row back.  A session that only runs a handler carries    *)
(* nothing: when its row was overtaken, whoever settles that row has seen  *)
(* to what comes next.                                                     *)
(***************************************************************************)
Waiting(row) == row.state \in {"QUEUED", "RETRYING"}

Open(r) == /\ state[r] \in {"pending", "claimed", "dead"}
           /\ \A sl \in Slot : step[sl] = "settling" => held[sl] # r

Carrying == {sl \in Slot : step[sl] \in {"dispatching", "retrying", "raised"}}

Carried(j) ==
    \/ \E r \in Row : msg[r] = j /\ Open(r)
    \/ \E sl \in Carrying : JobOf(sl) = j

HeldPresent == \A sl \in Slot : held[sl] \in Row => state[held[sl]] # "absent"

CarryInv == HeldPresent /\ (dropped \/ \A j \in Job : Waiting(job[j]) => Carried(j))

(* In the first state no job waits.                                        *)
LEMMA InitCarry == Init => CarryInv
<1> SUFFICES ASSUME Init PROVE CarryInv
  OBVIOUS
<1>1. HeldPresent
  BY QueueAssumption DEF Init, QueueInit, HeldPresent
<1>2. \A j \in Job : ~Waiting(job[j])
  BY DEF Init, NewJob, Waiting
<1> QED BY <1>1, <1>2 DEF CarryInv

(***************************************************************************)
(* A worker moves on with its row: it carries the job itself, or the job   *)
(* does not wait any more, or it was not what carried the job.             *)
(***************************************************************************)
LEMMA MoveKeepsCarry ==
    ASSUME PipelineInv, CarryInv, NEW sl \in Slot, step[sl] # "idle",
           NEW to, step' = [step EXCEPT ![sl] = to],
           UNCHANGED <<state, held, msg>>, dropped => dropped',
           \A j \in Job \ {JobOf(sl)} : job'[j].state = job[j].state,
           \/ to \in {"dispatching", "retrying", "raised"}
           \/ ~Waiting(job'[JobOf(sl)])
           \/ /\ to # "settling" /\ sl \notin Carrying
              /\ job'[JobOf(sl)].state = job[JobOf(sl)].state
    PROVE  CarryInv'
<1>1. step \in [Slot -> {"idle", "claimed", "loaded", "handling", "dispatching",
                         "retrying", "settling", "raised"}]
  BY DEF PipelineInv, PipelineTypeOK
<1>2. HeldPresent'
  BY DEF CarryInv, HeldPresent
<1>3. ASSUME ~dropped', NEW j \in Job, Waiting(job'[j])
      PROVE  Carried(j)'
  <2>1. CASE j = JobOf(sl) /\ to \in {"dispatching", "retrying", "raised"}
    <3>1. sl \in Carrying' /\ JobOf(sl)' = j
      BY <1>1, <2>1 DEF Carrying, JobOf
    <3> QED BY <3>1 DEF Carried
  <2>2. CASE j # JobOf(sl) \/ (to # "settling" /\ sl \notin Carrying /\ job'[j].state = job[j].state)
    <3>1. Carried(j)
      BY <1>3, <2>2 DEF CarryInv, Waiting
    <3>2. ASSUME NEW r \in Row, msg[r] = j, Open(r)
          PROVE  Carried(j)'
      <4>1. Open(r)'
        BY <1>1, <2>2, <3>2 DEF Open, JobOf
      <4> QED BY <3>2, <4>1 DEF Carried
    <3>3. ASSUME NEW x \in Carrying, JobOf(x) = j
          PROVE  Carried(j)'
      <4>1. x \in Carrying' /\ JobOf(x)' = j
        BY <1>1, <2>2, <3>3 DEF Carrying, JobOf
      <4> QED BY <4>1 DEF Carried
    <3> QED BY <3>1, <3>2, <3>3 DEF Carried
  <2>3. j = JobOf(sl) => ~(~Waiting(job'[JobOf(sl)]))
    BY <1>3
  <2> QED BY <2>1, <2>2, <2>3
<1>4. dropped' \/ \A j \in Job : Waiting(job'[j]) => Carried(j)'
  BY <1>3
<1> QED BY <1>2, <1>4 DEF CarryInv, Waiting

(***************************************************************************)
(* No slot moves, nothing but new jobs begins to wait, and rows stay what  *)
(* they are or become open.                                                *)
(***************************************************************************)
LEMMA StillKeepsCarry ==
    ASSUME PipelineInv, CarryInv, UNCHANGED <<step, held>>, dropped => dropped',
           \A r \in Row \ FreeRow : /\ msg'[r] = msg[r]
                                    /\ state[r] # "absent" => state'[r] # "absent"
                                    /\ state[r] \in {"pending", "claimed", "dead"} =>
                                          state'[r] \in {"pending", "claimed", "dead"},
           \A j \in Job : Waiting(job'[j]) =>
                            Waiting(job[j]) \/ \E r \in Row : msg'[r] = j /\ Open(r)'
    PROVE  CarryInv'
<1>1. HeldPresent'
  BY DEF CarryInv, HeldPresent, FreeRow
<1>2. ASSUME ~dropped', NEW j \in Job, Waiting(job'[j])
      PROVE  Carried(j)'
  <2>1. CASE \E r \in Row : msg'[r] = j /\ Open(r)'
    BY <2>1 DEF Carried
  <2>2. CASE Waiting(job[j])
    <3>1. Carried(j)
      BY <1>2, <2>2 DEF CarryInv
    <3>2. ASSUME NEW r \in Row, msg[r] = j, Open(r)
          PROVE  Carried(j)'
      <4>1. r \notin FreeRow
        BY <3>2 DEF Open, FreeRow
      <4>2. Open(r)' /\ msg'[r] = j
        BY <3>2, <4>1 DEF Open
      <4> QED BY <4>2 DEF Carried
    <3>3. ASSUME NEW x \in Carrying, JobOf(x) = j
          PROVE  Carried(j)'
      <4>1. x \in Slot /\ step[x] # "idle"
        BY <3>3 DEF Carrying
      <4>2. held[x] \in Row \ FreeRow
        BY <4>1, HeldRow
      <4>3. x \in Carrying' /\ JobOf(x)' = j
        BY <3>3, <4>2 DEF Carrying, JobOf
      <4> QED BY <4>3 DEF Carried
    <3> QED BY <3>1, <3>2, <3>3 DEF Carried
  <2> QED BY <1>2, <2>1, <2>2
<1>3. dropped' \/ \A j \in Job : Waiting(job'[j]) => Carried(j)'
  BY <1>2
<1> QED BY <1>1, <1>3 DEF CarryInv, Waiting

-----------------------------------------------------------------------------
(* A claim opens nothing and closes nothing.                               *)
LEMMA ClaimRowKeepsCarry ==
    ASSUME PipelineInv, CarryInv, NEW sl \in Slot, NEW r \in Row, ClaimRow(sl, r)
    PROVE  CarryInv'
<1>1. /\ phase[sl] = "idle" /\ state[r] = "pending"
      /\ state' = [state EXCEPT ![r] = "claimed"]
      /\ held' = [held EXCEPT ![sl] = r]
      /\ step' = [step EXCEPT ![sl] = "claimed"]
      /\ UNCHANGED <<job, msg, dropped>>
  BY DEF ClaimRow, Claim, jobVars, histVars
<1>2. /\ step[sl] = "idle" /\ state \in [Row -> RowState] /\ held \in [Slot -> Row \cup {NoRow}]
      /\ step \in [Slot -> {"idle", "claimed", "loaded", "handling", "dispatching",
                            "retrying", "settling", "raised"}]
  BY <1>1 DEF PipelineInv, PipelineTypeOK, TypeOK
<1>3. HeldPresent'
  BY <1>1, <1>2, QueueAssumption DEF CarryInv, HeldPresent
<1>4. ASSUME NEW j \in Job, Carried(j)
      PROVE  Carried(j)'
  <2>1. ASSUME NEW q \in Row, msg[q] = j, Open(q)
        PROVE  Carried(j)'
    <3>1. Open(q)'
      BY <1>1, <1>2, <2>1 DEF Open
    <3> QED BY <1>1, <2>1, <3>1 DEF Carried
  <2>2. ASSUME NEW x \in Carrying, JobOf(x) = j
        PROVE  Carried(j)'
    <3>1. x \in Carrying' /\ JobOf(x)' = j
      BY <1>1, <1>2, <2>2 DEF Carrying, JobOf
    <3> QED BY <3>1 DEF Carried
  <2> QED BY <1>4, <2>1, <2>2 DEF Carried
<1>5. dropped' \/ \A j \in Job : Waiting(job'[j]) => Carried(j)'
  BY <1>1, <1>4 DEF CarryInv
<1> QED BY <1>3, <1>5 DEF CarryInv, Waiting

(* A stage on its way: a job that is over does not wait; what is to be     *)
(* enqueued carries the job that goes on.                                  *)
LEMMA StageKeepsCarry ==
    ASSUME PipelineInv, CarryInv, NEW sl \in Slot,
           \/ Load(sl) \/ Skip(sl) \/ Begin(sl) \/ Succeed(sl) \/ Halt(sl) \/ StageFails(sl)
           \/ EnqueueFails(sl) \/ Raise(sl)
    PROVE  CarryInv'
<1> DEFINE j == JobOf(sl)
<1>1. step[sl] # "idle"
  <2>1. CASE Load(sl) \/ Skip(sl) \/ Begin(sl)
    BY <2>1 DEF Load, Skip, Begin
  <2>2. CASE Succeed(sl) \/ Halt(sl)
    <3>1. Commit(sl)
      BY <2>2 DEF Succeed, Halt
    <3> QED BY <3>1 DEF Commit
  <2>3. CASE StageFails(sl) \/ EnqueueFails(sl) \/ Raise(sl)
    BY <2>3 DEF StageFails, EnqueueFails, Raise
  <2> QED BY <2>1, <2>2, <2>3
<1>2. j \in Job /\ job \in [Job -> JobRow] /\ job[j] \in JobRow
  BY <1>1, HeldRow DEF PipelineInv, PipelineTypeOK
<1>3. ASSUME NEW to, Pass(sl, to)
      PROVE  step' = [step EXCEPT ![sl] = to] /\ UNCHANGED <<state, held, msg>>
  BY <1>3 DEF Pass, queueVars
<1>4. CASE Load(sl)
  <2>1. UNCHANGED job /\ (dropped => dropped') /\ sl \notin Carrying /\ step[sl] # "idle"
    BY <1>4 DEF Load, Breaks, jobVars, histVars, Carrying
  <2>2. CASE Pass(sl, "settling") /\ job[j].state = "CANCELLED"
    BY <2>1, <2>2, <1>3, MoveKeepsCarry DEF Waiting
  <2>3. CASE Pass(sl, "raised")
    BY <2>1, <2>3, <1>3, MoveKeepsCarry
  <2>4. CASE Pass(sl, "loaded")
    BY <2>1, <2>4, <1>3, MoveKeepsCarry
  <2> QED BY <1>4, <2>2, <2>3, <2>4 DEF Load
<1>5. CASE Skip(sl)
  <2> DEFINE next == NextAfter(snap[sl].plan, QueueOf(sl))
             stored == IF snap[sl].built THEN [job[j] EXCEPT !.plan = snap[sl].plan] ELSE job[j]
             to == IF next = NoStage THEN "settling" ELSE "dispatching"
  <2>1. /\ job' = [job EXCEPT ![j] = Finalised(stored, next)] /\ Pass(sl, to)
        /\ (dropped => dropped')
    BY <1>5 DEF Skip, Then
  <2>2. next = NoStage => ~Waiting(job'[j])
    <3>1. stored \in JobRow
      BY <1>1, <1>2, <1>5, SessionTyped DEF JobRow, Skip
    <3> HIDE DEF stored, next
    <3> QED BY <1>2, <2>1, <3>1 DEF Finalised, Waiting, JobRow
  <2>3. \A i \in Job \ {j} : job'[i].state = job[i].state
    BY <1>2, <2>1
  <2>4. to = "dispatching" \/ ~Waiting(job'[j])
    BY <2>2
  <2>5. step[sl] # "idle"
    BY <1>1
  <2> HIDE DEF next, stored, to
  <2> QED BY <1>3, <2>1, <2>3, <2>4, <2>5, MoveKeepsCarry
<1>6. CASE Begin(sl)
  <2>1. /\ UNCHANGED <<job, dropped>> /\ Pass(sl, "handling")
        /\ sl \notin Carrying /\ step[sl] # "idle"
    BY <1>6 DEF Begin, jobVars, Carrying
  <2> QED BY <2>1, <1>3, MoveKeepsCarry
<1>7. CASE Succeed(sl)
  <2>1. PICK plan, next :
          /\ job' = [job EXCEPT ![j] = Finalised([Started(sl) EXCEPT !.plan = plan], next)]
          /\ Pass(sl, IF next = NoStage THEN "settling" ELSE "dispatching")
          /\ UNCHANGED histVars
    BY <1>7 DEF Succeed, Then
  <2>2. Started(sl) \in JobRow
    BY <1>7, StartedTyped DEF Succeed, Commit
  <2>3. next = NoStage => ~Waiting(job'[j])
    BY <1>2, <2>1, <2>2 DEF Finalised, Waiting, JobRow
  <2>4. \A i \in Job \ {j} : job'[i].state = job[i].state
    BY <1>2, <2>1
  <2>5. dropped => dropped'
    BY <2>1 DEF histVars
  <2> QED BY <1>1, <1>3, <2>1, <2>3, <2>4, <2>5, MoveKeepsCarry
<1>8. CASE Halt(sl)
  <2>1. job' = [job EXCEPT ![j] = Failed(Started(sl), Gate)] /\ Pass(sl, "settling")
        /\ (dropped => dropped')
    BY <1>8 DEF Halt, Breaks
  <2>2. Started(sl) \in JobRow
    BY <1>8, StartedTyped DEF Halt, Commit
  <2>3. ~Waiting(job'[j]) /\ \A i \in Job \ {j} : job'[i].state = job[i].state
    BY <1>2, <2>1, <2>2 DEF Failed, Waiting, JobRow
  <2> QED BY <1>1, <1>3, <2>1, <2>3, MoveKeepsCarry
<1>9. CASE StageFails(sl)
  <2>1. Started(sl) \in JobRow
    BY <1>9, StartedTyped DEF StageFails
  <2>2. CASE /\ job' = [job EXCEPT ![j] = [Started(sl) EXCEPT !.state = "RETRYING"]]
             /\ Pass(sl, "retrying") /\ UNCHANGED histVars
    <3>1. \A i \in Job \ {j} : job'[i].state = job[i].state
      BY <1>2, <2>2
    <3>2. dropped => dropped'
      BY <2>2 DEF histVars
    <3> QED BY <1>1, <1>3, <2>2, <3>1, <3>2, MoveKeepsCarry
  <2>3. CASE /\ job' = [job EXCEPT ![j] = Failed(Started(sl), QueueOf(sl))]
             /\ Pass(sl, "settling") /\ Breaks(TRUE)
    <3>1. ~Waiting(job'[j]) /\ \A i \in Job \ {j} : job'[i].state = job[i].state
      BY <1>2, <2>1, <2>3 DEF Failed, Waiting, JobRow
    <3>2. dropped => dropped'
      BY <2>3 DEF Breaks
    <3> QED BY <1>1, <1>3, <2>3, <3>1, <3>2, MoveKeepsCarry
  <2> QED BY <1>9, <2>2, <2>3 DEF StageFails
<1>10. CASE EnqueueFails(sl)
  <2>1. PICK s : job' = [job EXCEPT ![j] = Failed(job[j], s)]
    BY <1>10 DEF EnqueueFails
  <2>2. Pass(sl, "settling") /\ (dropped => dropped')
    BY <1>10 DEF EnqueueFails, Breaks
  <2>3. ~Waiting(job'[j]) /\ \A i \in Job \ {j} : job'[i].state = job[i].state
    BY <1>2, <2>1 DEF Failed, Waiting, JobRow
  <2> QED BY <1>1, <1>3, <2>2, <2>3, MoveKeepsCarry
<1>11. CASE Raise(sl)
  <2>1. UNCHANGED <<job, dropped>> /\ Pass(sl, "raised")
    BY <1>11 DEF Raise, jobVars, histVars
  <2> QED BY <1>1, <1>3, <2>1, MoveKeepsCarry
<1> QED BY <1>4, <1>5, <1>6, <1>7, <1>8, <1>9, <1>10, <1>11

(* A row that a settling worker completes carried nothing.                 *)
LEMMA SettleKeepsCarry ==
    ASSUME PipelineInv, CarryInv, NEW sl \in Slot, Settle(sl)
    PROVE  CarryInv'
<1>1. /\ step[sl] = "settling" /\ step' = [step EXCEPT ![sl] = "idle"]
      /\ state' = [state EXCEPT ![held[sl]] = "done"]
      /\ held' = [held EXCEPT ![sl] = NoRow]
      /\ UNCHANGED <<job, msg, dropped>>
  BY DEF Settle, Complete, Release, jobVars, histVars
<1>2. /\ held[sl] \in Row /\ state \in [Row -> RowState] /\ held \in [Slot -> Row \cup {NoRow}]
      /\ step \in [Slot -> {"idle", "claimed", "loaded", "handling", "dispatching",
                            "retrying", "settling", "raised"}]
  BY <1>1, HeldRow DEF PipelineInv, PipelineTypeOK, TypeOK
<1>3. HeldPresent'
  BY <1>1, <1>2, QueueAssumption DEF CarryInv, HeldPresent
<1>4. ASSUME NEW j \in Job, Carried(j)
      PROVE  Carried(j)'
  <2>1. ASSUME NEW q \in Row, msg[q] = j, Open(q)
        PROVE  Carried(j)'
    <3>1. q # held[sl]
      BY <1>1, <2>1 DEF Open
    <3>2. Open(q)'
      BY <1>1, <1>2, <2>1, <3>1 DEF Open
    <3> QED BY <1>1, <2>1, <3>2 DEF Carried
  <2>2. ASSUME NEW x \in Carrying, JobOf(x) = j
        PROVE  Carried(j)'
    <3>1. x \in Carrying' /\ JobOf(x)' = j
      BY <1>1, <1>2, <2>2 DEF Carrying, JobOf
    <3> QED BY <3>1 DEF Carried
  <2> QED BY <1>4, <2>1, <2>2 DEF Carried
<1>5. dropped' \/ \A j \in Job : Waiting(job'[j]) => Carried(j)'
  BY <1>1, <1>4 DEF CarryInv
<1> QED BY <1>3, <1>5 DEF CarryInv, Waiting

(***************************************************************************)
(* A row that is given back is open, unless somebody else holds it: that   *)
(* is what dropped records.                                                *)
(***************************************************************************)
LEMMA GiveBackKeepsCarry ==
    ASSUME PipelineInv, CarryInv, NEW sl \in Slot, GiveBack(sl)
    PROVE  CarryInv'
<1>1. step[sl] = "raised" /\ UNCHANGED <<job, msg>>
  BY DEF GiveBack, jobVars
<1>2. /\ held[sl] \in Row /\ state \in [Row -> RowState] /\ held \in [Slot -> Row \cup {NoRow}]
      /\ step \in [Slot -> {"idle", "claimed", "loaded", "handling", "dispatching",
                            "retrying", "settling", "raised"}]
  BY <1>1, HeldRow DEF PipelineInv, PipelineTypeOK, TypeOK
<1>3. CASE FailRead(sl) /\ UNCHANGED <<step, histVars>>
  <2>1. UNCHANGED <<state, held, job, msg, step, dropped>>
    BY <1>1, <1>3 DEF FailRead, rowVars, histVars
  <2> QED BY <2>1, StillKeepsCarry
<1>4. CASE /\ FailWrite(sl) /\ step' = [step EXCEPT ![sl] = "idle"]
           /\ dropped' = (dropped \/ \E other \in Slot \ {sl} : held[other] = held[sl])
  <2>1. /\ state'[held[sl]] \in {"pending", "dead"}
        /\ \A q \in Row \ {held[sl]} : state'[q] = state[q]
        /\ held' = [held EXCEPT ![sl] = NoRow]
    BY <1>2, <1>4 DEF FailWrite, Release
  <2>2. HeldPresent'
    BY <1>2, <2>1, QueueAssumption DEF CarryInv, HeldPresent
  <2>3. ASSUME ~dropped', NEW j \in Job, Carried(j)
        PROVE  Carried(j)'
    <3>1. \A other \in Slot \ {sl} : held[other] # held[sl]
      BY <1>4, <2>3
    <3>2. PICK r \in Row : r = held[sl]
      BY <1>2
    <3>5. Open(r)'
      BY <1>2, <1>4, <2>1, <3>1, <3>2, QueueAssumption DEF Open
    <3>3. ASSUME NEW q \in Row, msg[q] = j, Open(q)
          PROVE  Carried(j)'
      <4>1. CASE q = held[sl]
        BY <1>1, <3>2, <3>3, <3>5, <4>1 DEF Carried
      <4>2. CASE q # held[sl]
        <5>1. Open(q)'
          BY <1>2, <1>4, <2>1, <3>3, <4>2 DEF Open
        <5> QED BY <1>1, <3>3, <5>1 DEF Carried
      <4> QED BY <4>1, <4>2
    <3>4. ASSUME NEW x \in Carrying, JobOf(x) = j
          PROVE  Carried(j)'
      <4>1. CASE x = sl
        BY <1>1, <1>2, <3>2, <3>4, <3>5, <4>1 DEF Carried, JobOf
      <4>2. CASE x # sl
        <5>1. x \in Carrying' /\ JobOf(x)' = j
          BY <1>1, <1>2, <1>4, <2>1, <3>4, <4>2 DEF Carrying, JobOf
        <5> QED BY <5>1 DEF Carried
      <4> QED BY <4>1, <4>2
    <3> QED BY <2>3, <3>3, <3>4 DEF Carried
  <2>4. dropped => dropped'
    BY <1>4
  <2>5. dropped' \/ \A j \in Job : Waiting(job'[j]) => Carried(j)'
    BY <1>1, <2>3, <2>4 DEF CarryInv
  <2> QED BY <2>2, <2>5 DEF CarryInv, Waiting
<1> QED BY <1>3, <1>4 DEF GiveBack

(***************************************************************************)
(* A worker that dies with something to enqueue leaves its row open, or it *)
(* was overtaken and what it had to enqueue is dropped.                    *)
(***************************************************************************)
LEMMA DiesKeepsCarry ==
    ASSUME PipelineInv, CarryInv, NEW p \in Proc, Dies(p)
    PROVE  CarryInv'
<1> DEFINE lost == SlotsOf(p)
<1>1. /\ held' = [sl \in Slot |-> IF sl \in lost THEN NoRow ELSE held[sl]]
      /\ step' = [sl \in Slot |-> IF sl \in lost THEN "idle" ELSE step[sl]]
      /\ dropped' = (dropped \/ \E sl \in lost :
                         step[sl] \in {"dispatching", "retrying", "raised"} /\ Overtaken(sl))
      /\ UNCHANGED <<state, job, msg>>
  BY DEF Dies, Crash, rowVars, jobVars
<1>2. lost \subseteq Slot /\ state \in [Row -> RowState]
  BY DEF SlotsOf, PipelineInv, PipelineTypeOK, TypeOK
<1> HIDE DEF lost
<1>3. HeldPresent'
  BY <1>1, <1>2, QueueAssumption DEF CarryInv, HeldPresent
<1>4. ASSUME ~dropped', NEW j \in Job, Carried(j)
      PROVE  Carried(j)'
  <2>1. ASSUME NEW q \in Row, msg[q] = j, Open(q)
        PROVE  Carried(j)'
    <3>1. Open(q)'
      BY <1>1, <1>2, <2>1 DEF Open
    <3> QED BY <1>1, <2>1, <3>1 DEF Carried
  <2>2. ASSUME NEW x \in Carrying, JobOf(x) = j, x \notin lost
        PROVE  Carried(j)'
    <3>1. x \in Carrying' /\ JobOf(x)' = j
      BY <1>1, <2>2 DEF Carrying, JobOf
    <3> QED BY <3>1 DEF Carried
  <2>3. ASSUME NEW x \in Carrying, JobOf(x) = j, x \in lost
        PROVE  Carried(j)'
    <3>1. x \in Slot /\ held[x] \in Row /\ step[x] # "idle"
      BY <2>3, HeldRow DEF Carrying
    <3>2. ~Overtaken(x)
      BY <1>1, <1>4, <2>3 DEF Carrying
    <3>3. state[held[x]] # "done" /\ \A other \in Slot \ {x} : held[other] # held[x]
      BY <3>2 DEF Overtaken
    <3>4. state[held[x]] \in {"pending", "claimed", "dead"}
      BY <1>2, <3>1, <3>3 DEF CarryInv, HeldPresent, RowState
    <3>5. PICK r \in Row : r = held[x]
      BY <3>1
    <3>6. Open(r)'
      BY <1>1, <2>3, <3>1, <3>3, <3>4, <3>5 DEF Open
    <3> QED BY <1>1, <2>3, <3>1, <3>5, <3>6 DEF Carried, JobOf
  <2> QED BY <1>4, <2>1, <2>2, <2>3 DEF Carried
<1>5. dropped => dropped'
  BY <1>1
<1>6. dropped' \/ \A j \in Job : Waiting(job'[j]) => Carried(j)'
  BY <1>1, <1>4, <1>5 DEF CarryInv
<1> QED BY <1>3, <1>6 DEF CarryInv, Waiting

-----------------------------------------------------------------------------
(* A row that is inserted is open: no worker has it in hand.               *)
LEMMA PostedIsOpen ==
    ASSUME PipelineInv, NEW j, NEW s, NEW a, Post(j, s, a),
           \A sl \in Slot : step'[sl] = "settling" => held[sl] # NoRow
    PROVE  /\ UNCHANGED held
           /\ \E r \in Row : msg'[r] = j /\ Open(r)'
           /\ \A r \in Row \ FreeRow : msg'[r] = msg[r] /\ state'[r] = state[r]
<1>1. PICK r \in FreeRow : Insert(r, a) /\ msg' = [msg EXCEPT ![r] = j]
  BY DEF Post
<1>2. r \in Row /\ UNCHANGED held /\ state \in [Row -> RowState] /\ msg \in [Row -> Job]
  BY DEF FreeRow, Post, slotVars, PipelineInv, PipelineTypeOK, TypeOK
<1>3. \A sl \in Slot : held[sl] # r
  BY DEF FreeRow
<1>4. msg'[r] = j /\ Open(r)'
  BY <1>1, <1>2, <1>3 DEF Open, Insert
<1>5. \A q \in Row \ FreeRow : msg'[q] = msg[q] /\ state'[q] = state[q]
  BY <1>1, <1>2 DEF Insert
<1> QED BY <1>2, <1>4, <1>5

(* The enqueue after a commit hands the job over to the row.               *)
LEMMA EnqueuesKeepsCarry ==
    ASSUME PipelineInv, CarryInv, NEW sl \in Slot, Enqueues(sl)
    PROVE  CarryInv'
<1>j. PICK j \in Job : j = JobOf(sl)
  <2>1. step[sl] # "idle"
    BY DEF Enqueues
  <2> QED BY <2>1, HeldRow
<1>1. /\ step[sl] \in {"dispatching", "retrying"}
      /\ step' = [step EXCEPT ![sl] = "settling"]
      /\ UNCHANGED <<job, dropped>>
  BY DEF Enqueues, jobVars, histVars
<1>2. PICK s, a : Post(j, s, a)
  BY <1>j DEF Enqueues
<1>3. held[sl] \in Row \ FreeRow /\ held[sl] # NoRow
  BY <1>1, HeldRow
<1>4. \A x \in Slot : step'[x] = "settling" => held[x] # NoRow
  <2>1. ASSUME NEW x \in Slot, x # sl, step'[x] = "settling"
        PROVE  held[x] # NoRow
    <3>1. step[x] = "settling"
      BY <1>1, <2>1 DEF PipelineInv, PipelineTypeOK
    <3> QED BY <3>1, HeldRow
  <2> QED BY <1>3, <2>1
<1>5. /\ UNCHANGED held
      /\ \E r \in Row : msg'[r] = j /\ Open(r)'
      /\ \A r \in Row \ FreeRow : msg'[r] = msg[r] /\ state'[r] = state[r]
  BY <1>2, <1>4, PostedIsOpen
<1>6. Carried(j)'
  BY <1>5 DEF Carried
<1>7. HeldPresent'
  BY <1>5 DEF CarryInv, HeldPresent, FreeRow
<1>8. ASSUME NEW i \in Job, i # j, Carried(i)
      PROVE  Carried(i)'
  <2>1. ASSUME NEW q \in Row, msg[q] = i, Open(q)
        PROVE  Carried(i)'
    <3>1. q \notin FreeRow /\ q # held[sl]
      BY <1>j, <1>8, <2>1 DEF Open, FreeRow, JobOf
    <3>2. Open(q)'
      BY <1>1, <1>5, <2>1, <3>1 DEF Open, PipelineInv, PipelineTypeOK
    <3> QED BY <1>5, <2>1, <3>1, <3>2 DEF Carried
  <2>2. ASSUME NEW x \in Carrying, JobOf(x) = i
        PROVE  Carried(i)'
    <3>1. x # sl /\ x \in Slot /\ step[x] # "idle"
      BY <1>j, <1>8, <2>2 DEF Carrying
    <3>2. held[x] \in Row \ FreeRow
      BY <3>1, HeldRow
    <3>3. x \in Carrying' /\ JobOf(x)' = i
      BY <1>1, <1>5, <2>2, <3>1, <3>2 DEF Carrying, JobOf, PipelineInv, PipelineTypeOK
    <3> QED BY <3>3 DEF Carried
  <2> QED BY <1>8, <2>1, <2>2 DEF Carried
<1>9. dropped' \/ \A i \in Job : Waiting(job'[i]) => Carried(i)'
  BY <1>1, <1>6, <1>8 DEF CarryInv
<1> QED BY <1>7, <1>9 DEF CarryInv, Waiting

(* The sweep and the operations: a new job waits on its row.               *)
LEMMA SweepKeepsCarry ==
    ASSUME PipelineInv, CarryInv, SweepStep
    PROVE  CarryInv'
<1>1. job \in [Job -> JobRow] /\ state \in [Row -> RowState]
      /\ sweeping \in Job \cup {NoJob}
  BY DEF PipelineInv, PipelineTypeOK, TypeOK
<1>2. ASSUME NEW lapsed \in SUBSET Row, ReclaimLeases(lapsed)
      PROVE  CarryInv'
  <2>1. /\ \A r \in lapsed : state[r] = "claimed"
        /\ state' = [r \in Row |-> IF r \in lapsed THEN ReclaimedState(r) ELSE state[r]]
        /\ UNCHANGED <<job, msg, step, held, dropped>>
    BY <1>2 DEF ReclaimLeases, Reclaim, Breaks, slotVars, jobVars
  <2>2. \A r \in lapsed : state'[r] \in {"pending", "dead"}
    BY <2>1 DEF ReclaimedState
  <2>3. \A r \in Row \ lapsed : state'[r] = state[r]
    BY <2>1
  <2> QED BY <2>1, <2>2, <2>3, StillKeepsCarry
<1>3. CASE \E j \in Job : FindStalled(j)
  <2>1. UNCHANGED <<state, job, msg, step, held, dropped>>
    BY <1>3 DEF FindStalled, queueVars, jobVars, histVars
  <2> QED BY <2>1, StillKeepsCarry
<1>4. CASE FailStalled
  <2>1. /\ UNCHANGED <<state, msg, step, held, dropped>>
        /\ job' = [job EXCEPT ![sweeping].state = "FAILED"]
    BY <1>4 DEF FailStalled, queueVars, histVars
  <2>2. \A j \in Job : Waiting(job'[j]) => Waiting(job[j])
    BY <1>1, <2>1 DEF Waiting, JobRow
  <2> QED BY <2>1, <2>2, StillKeepsCarry
<1> QED BY <1>2, <1>3, <1>4 DEF SweepStep

LEMMA UserKeepsCarry ==
    ASSUME PipelineInv, CarryInv, UserStep
    PROVE  CarryInv'
<1>1. job \in [Job -> JobRow] /\ cancelling \in Job \cup {NoJob}
      /\ \A sl \in Slot : step[sl] = "settling" => held[sl] # NoRow
  BY HeldRow DEF PipelineInv, PipelineTypeOK
<1>2. ASSUME NEW from, CreateJob(from)
      PROVE  CarryInv'
  <2>1. PICK j \in NewJobs : /\ job' = [job EXCEPT ![j] = NewJob(from)]
                             /\ Post(j, IF from = NoStage THEN 1 ELSE from, 1)
    BY <1>2 DEF CreateJob
  <2>2. UNCHANGED <<step, dropped>>
    BY <1>2 DEF CreateJob, histVars
  <2>3. /\ UNCHANGED held
        /\ \E r \in Row : msg'[r] = j /\ Open(r)'
        /\ \A r \in Row \ FreeRow : msg'[r] = msg[r] /\ state'[r] = state[r]
    BY <1>1, <2>1, <2>2, PostedIsOpen
  <2>4. \A i \in Job \ {j} : job'[i] = job[i]
    BY <1>1, <2>1 DEF NewJobs
  <2>5. \A i \in Job : Waiting(job'[i]) =>
                         Waiting(job[i]) \/ \E r \in Row : msg'[r] = i /\ Open(r)'
    BY <2>3, <2>4
  <2> QED BY <2>2, <2>3, <2>5, StillKeepsCarry
<1>3. CASE Upload
  BY <1>2, <1>3 DEF Upload
<1>4. CASE \E s \in Stage : ReprocessContract(s)
  BY <1>2, <1>4 DEF ReprocessContract
<1>5. CASE \E j \in Job : RetryJob(j)
  BY <1>2, <1>5 DEF RetryJob
<1>6. CASE \E j \in Job : FindCancellable(j)
  <2>1. UNCHANGED <<state, job, msg, step, held, dropped>>
    BY <1>6 DEF FindCancellable, queueVars, jobVars, histVars
  <2> QED BY <2>1, StillKeepsCarry
<1>7. CASE MarkCancelled
  <2>1. /\ UNCHANGED <<state, msg, step, held, dropped>>
        /\ job' = [job EXCEPT ![cancelling].state = "CANCELLED"]
    BY <1>7 DEF MarkCancelled, queueVars, histVars
  <2>2. \A j \in Job : Waiting(job'[j]) => Waiting(job[j])
    BY <1>1, <2>1 DEF Waiting, JobRow
  <2> QED BY <2>1, <2>2, StillKeepsCarry
<1>8. ASSUME NEW j \in Job, NEW s \in Stage, CliReprocess(j, s)
      PROVE  CarryInv'
  <2>1. Post(j, s, 1) /\ UNCHANGED <<job, step, dropped>>
    BY <1>8 DEF CliReprocess, jobVars, histVars
  <2>2. /\ UNCHANGED held
        /\ \A r \in Row \ FreeRow : msg'[r] = msg[r] /\ state'[r] = state[r]
    BY <1>1, <2>1, PostedIsOpen
  <2> QED BY <2>1, <2>2, StillKeepsCarry
<1> QED BY <1>3, <1>4, <1>5, <1>6, <1>7, <1>8 DEF UserStep

(* No step loses what carries a job that waits.                            *)
LEMMA CarryAlways == Spec => []CarryInv
<1>1. PipelineInv /\ CarryInv /\ [Next]_pipeVars => CarryInv'
  <2> SUFFICES ASSUME PipelineInv, CarryInv, [Next]_pipeVars
               PROVE  CarryInv'
    OBVIOUS
  <2>1. CASE \E sl \in Slot, r \in Row : ClaimRow(sl, r)
    BY <2>1, ClaimRowKeepsCarry
  <2>2. ASSUME NEW sl \in Slot, RunStep(sl)
        PROVE  CarryInv'
    BY <2>2, StageKeepsCarry, EnqueuesKeepsCarry, SettleKeepsCarry, GiveBackKeepsCarry
       DEF RunStep
  <2>3. CASE \E p \in Proc : Dies(p)
    BY <2>3, DiesKeepsCarry
  <2>4. CASE SweepStep \/ UserStep
    BY <2>4, SweepKeepsCarry, UserKeepsCarry
  <2>5. CASE UNCHANGED pipeVars
    <3>1. UNCHANGED <<state, job, msg, step, held, dropped>>
      BY <2>5 DEF pipeVars, queueVars, jobVars, histVars
    <3> QED BY <3>1, StillKeepsCarry
  <2> QED BY <2>1, <2>2, <2>3, <2>4, <2>5 DEF Next
<1> QED BY InitCarry, PipelineInvariant, <1>1, PTL DEF Spec

(***************************************************************************)
(* A job that is neither finished nor in a state the sweep looks at has a  *)
(* live row, is in a worker's hands, or left a dead row as a trace; unless *)
(* a worker whose row another delivery settled died before it enqueued.    *)
(***************************************************************************)
THEOREM NoJobStopsSilently == Spec => []NoSilentStop
<1>1. PipelineInv /\ CarryInv => NoSilentStop
  <2> SUFFICES ASSUME PipelineInv, CarryInv, NEW j \in Job, ~dropped, Waiting(job[j])
               PROVE  Live(j) # {} \/ Busy(j) \/ DeadLettered(j)
    BY DEF NoSilentStop, Waiting
  <2>1. Carried(j)
    BY DEF CarryInv
  <2>2. CASE \E r \in Row : msg[r] = j /\ Open(r)
    BY <2>2 DEF Open, Live, DeadLettered
  <2>3. CASE \E sl \in Carrying : JobOf(sl) = j
    BY <2>3 DEF Carrying, Busy
  <2> QED BY <2>1, <2>2, <2>3 DEF Carried
<1> QED BY PipelineInvariant, CarryAlways, <1>1, PTL

-----------------------------------------------------------------------------
(***************************************************************************)
(* What CurrentAtRest rests on, while none of the histories it excludes    *)
(* has happened.                                                           *)
(***************************************************************************)
Steady == ~broken /\ ~replanned /\ ~dropped /\ \A j \in byHand : First(job[j]) = 1

RunsFrom(plan, p) == \A s \in Stage : s >= p => plan[s] = "run"

(* Two plans of one job: the later one was made after DOCPIPELINE ran.     *)
Agree(p, q) ==
    \/ p = q
    \/ DocStage \in Stage /\ p[DocStage] = "run" /\ q[DocStage] = "run"

(* A job past DOCPIPELINE, if that ran, reuses nothing from its first stage on. *)
AfterDoc(plan, f, s) ==
    DocStage \in Stage /\ DocStage < s /\ plan[DocStage] = "run" => RunsFrom(plan, f)

(***************************************************************************)
(* The shape of the plan of a job that starts at stage f: nothing is       *)
(* reused after a stage that runs, nothing is left out from f on; as long  *)
(* as the first stage has not succeeded every stage runs, and so it does   *)
(* in a full plan where the first stage is never reused.                   *)
(***************************************************************************)
PlanShaped(plan, f, D) ==
    /\ \A s, t \in Stage : s < t /\ plan[s] = "run" => plan[t] = "run"
    /\ \A s \in Stage : s >= f => plan[s] # "absent"
    /\ 1 \notin D => RunsFrom(plan, 1)
    /\ DocStage \in Stage /\ f = 1 => RunsFrom(plan, 1)

PlansShaped == \A j \in Job : Planned(job[j].plan) => PlanShaped(job[j].plan, First(job[j]), done)

RowShaped(r) ==
    /\ state[r] # "dead"
    /\ queue[r] >= First(job[msg[r]])
    /\ Planned(job[msg[r]].plan) =>
          AfterDoc(job[msg[r]].plan, First(job[msg[r]]), queue[r])
    /\ Planned(job[msg[r]].plan) \/ msg[r] \in byHand \/ queue[r] = First(job[msg[r]])

RowsShaped == \A r \in Row \ FreeRow : RowShaped(r)

SessionShaped(sl) ==
    /\ step[sl] \in {"loaded", "handling"} =>
          /\ PlanShaped(snap[sl].plan, First(job[JobOf(sl)]), done)
          /\ AfterDoc(snap[sl].plan, First(job[JobOf(sl)]), QueueOf(sl))
          /\ snap[sl].built \/ Agree(snap[sl].plan, job[JobOf(sl)].plan)
    /\ step[sl] = "handling" =>
          /\ snap[sl].plan[QueueOf(sl)] = "run"
          /\ snap[sl].built => ~Planned(job[JobOf(sl)].plan)
    /\ step[sl] = "dispatching" =>
          /\ QueueOf(sl) < todo[sl]
          /\ AfterDoc(job[JobOf(sl)].plan, First(job[JobOf(sl)]), todo[sl])

SessionsShaped == \A sl \in Slot : SessionShaped(sl)

(* The row lock: one handler at a time for a job.                          *)
OneHandler ==
    \A x, y \in Slot : step[x] = "handling" /\ step[y] = "handling" /\ JobOf(x) = JobOf(y) => x = y

Begun ==
    /\ (1 \in outdated) <=> (1 \notin done)
    /\ outdated \subseteq Stage
    /\ NewJobs = Job => outdated = Stage

(***************************************************************************)
(* What is outdated is going to be done again: from stage p on, the job j  *)
(* comes by every stage that is outdated, and its plan runs it.            *)
(***************************************************************************)
Ahead(plan, p, out, D) ==
    \A u \in out : p <= u /\ IF Planned(plan) THEN plan[u] = "run" ELSE 1 \notin D

RowCarries(r) ==
    /\ state[r] \in {"pending", "claimed"}
    /\ \A sl \in Slot : held[sl] = r =>
          /\ step[sl] \notin {"dispatching", "retrying", "settling"}
          /\ step[sl] \in {"loaded", "handling"} =>
                Overplans(sl) \/ \A u \in outdated : snap[sl].plan[u] = "run"
    /\ Ahead(job[msg[r]].plan, queue[r], outdated, done)

SlotCarries(sl) ==
    Ahead(job[JobOf(sl)].plan, IF step[sl] = "dispatching" THEN todo[sl] ELSE QueueOf(sl),
          outdated, done)

Covered ==
    \/ outdated = {}
    \/ NewJobs = Job
    \/ \E r \in Row : RowCarries(r)
    \/ \E sl \in Carrying : SlotCarries(sl)

Current == PlansShaped /\ RowsShaped /\ SessionsShaped /\ OneHandler /\ Begun /\ Covered

(* Jobs that a step has named exist.                                       *)
NamedExist ==
    /\ byHand \subseteq Job /\ \A j \in byHand : job[j].state # "none"
    /\ sweeping # NoJob => job[sweeping].state # "none"
    /\ cancelling # NoJob => job[cancelling].state # "none"

CurrentInv == NamedExist /\ (Steady => Current)

-----------------------------------------------------------------------------
(***************************************************************************)
(* What a step does to a job: its plan stays, or a session stores the one  *)
(* it made, or one that runs everything from the job's first stage on.     *)
(***************************************************************************)
PlanStep(j) ==
    \/ job'[j].plan = job[j].plan
    \/ /\ ~Planned(job[j].plan)
       /\ PlanShaped(job'[j].plan, First(job[j]), done')
    \/ /\ Planned(job[j].plan)
       /\ PlanShaped(job'[j].plan, First(job[j]), done')
       /\ DocStage \in Stage /\ job[j].plan[DocStage] = "run" /\ job'[j].plan[DocStage] = "run"
       /\ RunsFrom(job'[j].plan, First(job[j]))

JobStep(j) ==
    IF job[j].state = "none" THEN job'[j] = job[j] \/ ~Planned(job'[j].plan)
    ELSE job'[j].state # "none" /\ First(job'[j]) = First(job[j]) /\ PlanStep(j)

(* A step without a failure of a chain: jobs go on with the plans they have. *)
JobsGoOn ==
    /\ PipelineInv /\ PipelineInv' /\ NamedExist /\ Current /\ Steady'
    /\ done \subseteq done' /\ byHand \subseteq byHand'
    /\ \A j \in Job : JobStep(j)

(* ...and nothing is outdated that lies before what was outdated.          *)
StillAhead ==
    /\ 1 \notin done => 1 \notin done'
    /\ outdated' \subseteq Stage
    /\ \A w \in outdated' : \E u \in outdated : u <= w

SlotStays(x) ==
    /\ step'[x] = step[x] /\ held'[x] = held[x] /\ snap'[x] = snap[x] /\ todo'[x] = todo[x]
    /\ held[x] # NoRow => queue'[held[x]] = queue[held[x]] /\ msg'[held[x]] = msg[held[x]]

LEMMA FirstInStage ==
    ASSUME NEW row \in JobRow
    PROVE  First(row) \in Stage
<1>1. 1 \in Stage
  BY EngineAssumption DEF Stage
<1>2. row.resume \in Stage \cup {NoStage}
  BY DEF JobRow
<1> QED BY <1>1, <1>2 DEF First

(* Stages are numbers from one.                                            *)
LEMMA StagesCount == \A s \in Stage : s \in Int /\ s >= 1 /\ s <= NStages
BY EngineAssumption DEF Stage

(* Plans stay in shape.                                                    *)
LEMMA ShapeStays ==
    ASSUME NEW plan, NEW f, NEW C, NEW D, C \subseteq D, PlanShaped(plan, f, C)
    PROVE  PlanShaped(plan, f, D)
BY DEF PlanShaped

LEMMA PlansStayShaped ==
    ASSUME PlansShaped, done \subseteq done', \A j \in Job : JobStep(j)
    PROVE  PlansShaped'
<1> SUFFICES ASSUME NEW j \in Job, Planned(job'[j].plan)
             PROVE  PlanShaped(job'[j].plan, First(job'[j]), done')
  BY DEF PlansShaped
<1>1. CASE job'[j].plan = job[j].plan /\ First(job'[j]) = First(job[j])
  BY <1>1, ShapeStays DEF PlansShaped
<1>2. CASE ~(job'[j].plan = job[j].plan /\ First(job'[j]) = First(job[j]))
  BY <1>2 DEF JobStep, PlanStep
<1> QED BY <1>1, <1>2

LEMMA ShapedIsPlanned ==
    ASSUME NEW plan, NEW f \in Stage, NEW D, PlanShaped(plan, f, D)
    PROVE  Planned(plan)
<1>1. f >= f /\ plan[f] # "absent"
  BY StagesCount DEF PlanShaped
<1> QED BY <1>1 DEF Planned, NoPlan

(* What a plan past DOCPIPELINE promises stays so.                         *)
LEMMA AfterDocStays ==
    ASSUME NEW j \in Job, NEW f, NEW s, PlanStep(j), Planned(job[j].plan),
           AfterDoc(job[j].plan, f, s), f = First(job[j])
    PROVE  AfterDoc(job'[j].plan, f, s)
BY DEF PlanStep, AfterDoc

(* A job at its first stage has nothing to say of DOCPIPELINE.             *)
LEMMA AfterDocAtFirst ==
    ASSUME NEW plan, NEW f \in Stage, NEW s \in Stage, NEW D, PlanShaped(plan, f, D),
           s = f \/ f = 1
    PROVE  AfterDoc(plan, f, s)
<1>1. CASE f = 1
  BY <1>1 DEF AfterDoc, PlanShaped, RunsFrom
<1>2. CASE s = f
  <2> SUFFICES ASSUME DocStage \in Stage, DocStage < f, plan[DocStage] = "run",
                      NEW t \in Stage, t >= f
               PROVE  plan[t] = "run"
    BY <1>2 DEF AfterDoc, RunsFrom
  <2>1. DocStage < t
    BY StagesCount
  <2> QED BY <2>1 DEF PlanShaped
<1> QED BY <1>1, <1>2

(* A row that stays keeps its shape.                                       *)
LEMMA RowStaysShaped ==
    ASSUME PipelineInv, PipelineInv', PlansShaped, RowsShaped, NamedExist,
           byHand \subseteq byHand', Steady',
           \A j \in Job : JobStep(j), NEW r \in Row \ FreeRow,
           queue'[r] = queue[r], msg'[r] = msg[r], state'[r] # "dead"
    PROVE  RowShaped(r)'
<1>1. PICK j \in Job : j = msg[r]
  BY DEF PipelineInv, PipelineTypeOK
<1>2. job[j].state # "none" /\ RowShaped(r)
  BY <1>1 DEF PipelineInv, RowsFollow, RowFollows, RowsShaped
<1>3. First(job'[j]) = First(job[j]) /\ PlanStep(j)
  BY <1>2 DEF JobStep
<1>4. PICK q, f, s : q = job'[j].plan /\ f = First(job[j]) /\ s = queue[r]
  OBVIOUS
<1>5. f \in Stage /\ s \in Stage
  BY <1>4, FirstInStage, PipelineAssumption DEF PipelineInv, PipelineTypeOK, TypeOK
<1>6. s >= f
  BY <1>1, <1>2, <1>4 DEF RowShaped
<1>7. ASSUME Planned(q)
      PROVE  AfterDoc(q, f, s)
  <2>1. CASE Planned(job[j].plan)
    BY <1>1, <1>2, <1>3, <1>4, <2>1, AfterDocStays DEF RowShaped
  <2>2. CASE ~Planned(job[j].plan)
    <3>1. PlanShaped(q, f, done')
      BY <1>3, <1>4, <1>7, <2>2 DEF PlanStep
    <3>2. s = f \/ f = 1
      <4>1. j \in byHand \/ s = f
        BY <1>1, <1>2, <1>4, <2>2 DEF RowShaped
      <4>2. j \in byHand => f = 1
        BY <1>3, <1>4 DEF Steady, First
      <4> QED BY <4>1, <4>2
    <3> QED BY <1>5, <3>1, <3>2, AfterDocAtFirst
  <2> QED BY <2>1, <2>2
<1>8. Planned(q) \/ j \in byHand' \/ s = f
  <2>1. Planned(job[j].plan) \/ j \in byHand \/ s = f
    BY <1>1, <1>2, <1>4 DEF RowShaped
  <2>2. PlanShaped(q, f, done') => Planned(q)
    BY <1>5, ShapedIsPlanned
  <2>3. Planned(job[j].plan) => Planned(q)
    BY <1>3, <1>4, <2>2 DEF PlanStep
  <2> QED BY <2>1, <2>3
<1>9. /\ msg'[r] = j /\ queue'[r] = s /\ job'[j].plan = q /\ First(job'[j]) = f
  BY <1>1, <1>3, <1>4
<1> QED BY <1>6, <1>7, <1>8, <1>9 DEF RowShaped, AfterDoc, RunsFrom, Planned, NoPlan, First

(* A session that is left alone keeps its shape.                           *)
LEMMA SessionStaysShaped ==
    ASSUME JobsGoOn, NEW x \in Slot, SlotStays(x),
           step[x] = "handling" => job'[JobOf(x)].plan = job[JobOf(x)].plan
    PROVE  SessionShaped(x)'
<1>1. PipelineInv /\ SessionShaped(x) /\ SessionSound(x)
  BY DEF JobsGoOn, Current, SessionsShaped, PipelineInv, SessionsSound
<1>2. CASE step[x] = "idle"
  BY <1>2 DEF SessionShaped, SlotStays
<1>3. CASE step[x] # "idle"
  <2>1. PICK j \in Job : j = JobOf(x)
    BY <1>1, <1>3, HeldRow
  <2>2. /\ held[x] # NoRow /\ job[j].state # "none" /\ JobOf(x)' = j
        /\ step'[x] = step[x] /\ snap'[x] = snap[x] /\ todo'[x] = todo[x]
    BY <1>1, <1>3, <2>1, HeldRow DEF SlotStays, JobOf
  <2>3. First(job'[j]) = First(job[j]) /\ PlanStep(j) /\ done \subseteq done'
    BY <2>2 DEF JobsGoOn, JobStep
  <2>4. PICK plan, plan2, f, q, t : /\ plan = job[j].plan /\ plan2 = job'[j].plan
                                    /\ f = First(job[j]) /\ q = QueueOf(x) /\ t = todo[x]
    OBVIOUS
  <2>5. ASSUME step[x] \in {"loaded", "handling"}
        PROVE  /\ PlanShaped(snap[x].plan, f, done')
               /\ AfterDoc(snap[x].plan, f, q)
               /\ snap[x].built \/ Agree(snap[x].plan, plan2)
    <3>1. /\ PlanShaped(snap[x].plan, f, done) /\ AfterDoc(snap[x].plan, f, q)
          /\ snap[x].built \/ Agree(snap[x].plan, plan)
          /\ snap[x].built \/ Planned(plan)
      BY <1>1, <2>1, <2>4, <2>5 DEF SessionShaped, SessionSound
    <3>2. PlanShaped(snap[x].plan, f, done')
      BY <2>3, <3>1, ShapeStays
    <3>3. ASSUME ~snap[x].built
          PROVE  Agree(snap[x].plan, plan2)
      BY <2>3, <2>4, <3>1, <3>3 DEF PlanStep, Agree
    <3> QED BY <3>1, <3>2, <3>3
  <2>6. ASSUME step[x] = "handling"
        PROVE  /\ snap[x].plan[q] = "run"
               /\ snap[x].built => ~Planned(plan2)
    BY <1>1, <2>1, <2>4, <2>6 DEF SessionShaped
  <2>7. ASSUME step[x] = "dispatching"
        PROVE  q < t /\ AfterDoc(plan2, f, t)
    <3>1. q < t /\ AfterDoc(plan, f, t) /\ Planned(plan)
      BY <1>1, <2>1, <2>4, <2>7 DEF SessionShaped, SessionSound
    <3> QED BY <2>3, <2>4, <3>1, AfterDocStays
  <2>8. /\ job'[j].plan = plan2 /\ First(job'[j]) = f /\ QueueOf(x)' = q /\ todo'[x] = t
    BY <2>2, <2>3, <2>4 DEF QueueOf
  <2> QED BY <2>2, <2>5, <2>6, <2>7, <2>8
          DEF SessionShaped, PlanShaped, AfterDoc, Agree, RunsFrom, Planned, NoPlan, First
<1> QED BY <1>2, <1>3

(* The shapes after a step: of what stays, and of what the step has set.   *)
LEMMA ShapesStay ==
    ASSUME JobsGoOn,
           \A r \in Row \ FreeRow' :
              \/ RowShaped(r)'
              \/ /\ r \notin FreeRow /\ state'[r] # "dead"
                 /\ queue'[r] = queue[r] /\ msg'[r] = msg[r],
           \A x \in Slot :
              \/ SessionShaped(x)'
              \/ /\ SlotStays(x)
                 /\ step[x] = "handling" => job'[JobOf(x)].plan = job[JobOf(x)].plan
    PROVE  PlansShaped' /\ RowsShaped' /\ SessionsShaped'
<1>1. PlansShaped'
  BY PlansStayShaped DEF JobsGoOn, Current
<1>2. RowsShaped'
  <2> SUFFICES ASSUME NEW r \in Row \ FreeRow'
               PROVE  RowShaped(r)'
    BY DEF RowsShaped
  <2>1. CASE /\ r \notin FreeRow /\ state'[r] # "dead"
             /\ queue'[r] = queue[r] /\ msg'[r] = msg[r]
    <3>1. r \in Row \ FreeRow
      BY <2>1
    <3> QED BY <2>1, <3>1, RowStaysShaped DEF JobsGoOn, Current
  <2> QED BY <2>1
<1>3. SessionsShaped'
  <2> SUFFICES ASSUME NEW x \in Slot
               PROVE  SessionShaped(x)'
    BY DEF SessionsShaped
  <2> QED BY SessionStaysShaped
<1> QED BY <1>1, <1>2, <1>3

(* What lies ahead of a job goes on lying ahead of it.                     *)
LEMMA AheadGoesOn ==
    ASSUME JobsGoOn, StillAhead, NEW j \in Job, job[j].state # "none",
           NEW p \in Stage, p >= First(job[j]),
           Ahead(job[j].plan, p, outdated, done)
    PROVE  Ahead(job'[j].plan, p, outdated', done')
<1>1. First(job'[j]) = First(job[j]) /\ PlanStep(j)
  BY DEF JobsGoOn, JobStep
<1>2. PICK plan, plan2, f : plan = job[j].plan /\ plan2 = job'[j].plan /\ f = First(job[j])
  OBVIOUS
<1>3. f \in Stage /\ outdated \subseteq Stage
  BY <1>2, FirstInStage DEF JobsGoOn, Current, Begun, PipelineInv, PipelineTypeOK
<1>4. PlanShaped(plan2, f, done') => Planned(plan2)
  BY <1>3, ShapedIsPlanned
<1>5. Planned(plan) => PlanShaped(plan, f, done)
  BY <1>2 DEF JobsGoOn, Current, PlansShaped
<1> SUFFICES ASSUME NEW w \in outdated'
             PROVE  p <= w /\ IF Planned(plan2) THEN plan2[w] = "run" ELSE 1 \notin done'
  BY <1>2 DEF Ahead
<1>6. PICK u \in outdated : u <= w
  BY DEF StillAhead
<1>7. w \in Stage /\ u \in Stage /\ p <= u
  BY <1>2, <1>3, <1>6 DEF StillAhead, Ahead
<1>8. p <= w /\ f <= w /\ 1 <= w
  BY <1>2, <1>3, <1>6, <1>7, StagesCount
<1>9. IF Planned(plan) THEN plan[u] = "run" ELSE 1 \notin done
  BY <1>2 DEF Ahead
<1>10. CASE plan2 = plan
  <2>1. Planned(plan) => plan[w] = "run"
    BY <1>5, <1>6, <1>7, <1>9, StagesCount DEF PlanShaped
  <2> QED BY <1>8, <1>9, <1>10, <2>1 DEF StillAhead
<1>11. CASE ~Planned(plan) /\ PlanShaped(plan2, f, done')
  <2>1. RunsFrom(plan2, 1)
    BY <1>9, <1>11 DEF PlanShaped, StillAhead
  <2> QED BY <1>4, <1>7, <1>8, <1>11, <2>1 DEF RunsFrom
<1>12. CASE PlanShaped(plan2, f, done') /\ RunsFrom(plan2, f)
  BY <1>4, <1>7, <1>8, <1>12 DEF RunsFrom
<1> QED BY <1>1, <1>2, <1>10, <1>11, <1>12 DEF PlanStep

(* Where a held row stands: no stage before the job's first.               *)
LEMMA HeldAhead ==
    ASSUME PipelineInv, RowsShaped, SessionsShaped, NEW x \in Slot, step[x] # "idle",
           NEW p, p = IF step[x] = "dispatching" THEN todo[x] ELSE QueueOf(x)
    PROVE  p \in Stage /\ p >= QueueOf(x) /\ QueueOf(x) >= First(job[JobOf(x)])
           /\ p >= First(job[JobOf(x)])
<1>1. /\ held[x] \in Row \ FreeRow /\ queue[held[x]] = QueueOf(x) /\ QueueOf(x) \in Stage
      /\ job[JobOf(x)] \in JobRow
  BY HeldRow, SlotStage
<1>2. QueueOf(x) >= First(job[JobOf(x)]) /\ First(job[JobOf(x)]) \in Stage
  BY <1>1, FirstInStage DEF RowsShaped, RowShaped, JobOf
<1>3. step[x] = "dispatching" => QueueOf(x) < todo[x] /\ todo[x] \in Stage
  BY DEF SessionsShaped, SessionShaped, PipelineInv, SessionsSound, SessionSound
<1> QED BY <1>1, <1>2, <1>3, StagesCount

(* A worker that carries goes on carrying.                                 *)
LEMMA SlotGoesOn ==
    ASSUME JobsGoOn, StillAhead, NEW x \in Carrying, SlotCarries(x), SlotStays(x)
    PROVE  x \in Carrying' /\ SlotCarries(x)'
<1>1. x \in Slot /\ step[x] # "idle"
  BY DEF Carrying
<1>2. PICK j \in Job : j = JobOf(x)
  BY <1>1, HeldRow DEF JobsGoOn
<1>3. PICK p : p = IF step[x] = "dispatching" THEN todo[x] ELSE QueueOf(x)
  OBVIOUS
<1>4. /\ held[x] # NoRow /\ job[j].state # "none"
      /\ p \in Stage /\ p >= First(job[j])
  BY <1>1, <1>2, <1>3, HeldRow, HeldAhead DEF JobsGoOn, Current
<1>5. Ahead(job'[j].plan, p, outdated', done')
  BY <1>2, <1>3, <1>4, AheadGoesOn DEF SlotCarries
<1>6. JobOf(x)' = j /\ step'[x] = step[x] /\ todo'[x] = todo[x] /\ QueueOf(x)' = QueueOf(x)
  BY <1>2, <1>4 DEF SlotStays, JobOf, QueueOf
<1> QED BY <1>1, <1>3, <1>5, <1>6 DEF Carrying, SlotCarries, Ahead, Planned, NoPlan

(* A row that carries goes on carrying.                                    *)
LEMMA RowGoesOn ==
    ASSUME JobsGoOn, StillAhead, NEW r \in Row, RowCarries(r),
           state'[r] \in {"pending", "claimed"}, queue'[r] = queue[r], msg'[r] = msg[r],
           \A x \in Slot : held'[x] = r =>
              \/ held[x] = r /\ SlotStays(x)
              \/ /\ step'[x] \notin {"dispatching", "retrying", "settling"}
                 /\ step'[x] \in {"loaded", "handling"} =>
                       Overplans(x)' \/ \A u \in outdated' : snap'[x].plan[u] = "run"
    PROVE  RowCarries(r)'
<1>1. r \in Row \ FreeRow /\ PipelineInv
  BY DEF RowCarries, FreeRow, JobsGoOn
<1>2. PICK j \in Job : j = msg[r]
  BY <1>1 DEF PipelineInv, PipelineTypeOK
<1>3. /\ job[j].state # "none" /\ queue[r] \in Stage /\ queue[r] >= First(job[j])
  BY <1>1, <1>2, PipelineAssumption DEF PipelineInv, PipelineTypeOK, TypeOK, RowsFollow, RowFollows,
                         JobsGoOn, Current, RowsShaped, RowShaped
<1>4. PICK p : p = queue[r]
  OBVIOUS
<1>5. Ahead(job'[j].plan, p, outdated', done')
  BY <1>2, <1>3, <1>4, AheadGoesOn DEF RowCarries
<1>6. ASSUME NEW x \in Slot, held'[x] = r
      PROVE  /\ step'[x] \notin {"dispatching", "retrying", "settling"}
             /\ step'[x] \in {"loaded", "handling"} =>
                   Overplans(x)' \/ \A u \in outdated' : snap'[x].plan[u] = "run"
  <2>1. CASE held[x] = r /\ SlotStays(x)
    <3>1. step'[x] = step[x] /\ snap'[x] = snap[x] /\ JobOf(x) = j /\ JobOf(x)' = j
      BY <1>2, <1>6, <2>1 DEF SlotStays, JobOf
    <3>2. ASSUME step[x] \in {"loaded", "handling"}, Overplans(x)
          PROVE  Overplans(x)'
      <4>1. PICK plan2, f : plan2 = job'[j].plan /\ f = First(job[j])
        OBVIOUS
      <4>2. f \in Stage
        BY <1>1, <4>1, FirstInStage DEF PipelineInv, PipelineTypeOK
      <4>3. PlanShaped(plan2, f, done') => Planned(plan2)
        BY <4>2, ShapedIsPlanned
      <4>4. Planned(job[j].plan) /\ snap[x].built
        BY <3>1, <3>2 DEF Overplans
      <4>5. Planned(plan2)
        BY <1>3, <4>1, <4>3, <4>4 DEF JobsGoOn, JobStep, PlanStep
      <4> QED BY <3>1, <4>1, <4>4, <4>5 DEF Overplans, Planned, NoPlan
    <3>3. ASSUME step[x] \in {"loaded", "handling"},
                 \A u \in outdated : snap[x].plan[u] = "run", NEW w \in outdated'
          PROVE  snap[x].plan[w] = "run"
      <4>1. PICK u \in outdated : u <= w
        BY DEF StillAhead
      <4>2. u \in Stage /\ w \in Stage
        BY DEF StillAhead, JobsGoOn, Current, Begun
      <4>3. PlanShaped(snap[x].plan, First(job[JobOf(x)]), done)
        BY <3>3 DEF JobsGoOn, Current, SessionsShaped, SessionShaped
      <4> QED BY <3>3, <4>1, <4>2, <4>3, StagesCount DEF PlanShaped
    <3> QED BY <2>1, <3>1, <3>2, <3>3 DEF RowCarries
  <2> QED BY <1>6, <2>1
<1> QED BY <1>2, <1>4, <1>5, <1>6 DEF RowCarries, Ahead, Planned, NoPlan

(***************************************************************************)
(* A history that is clean after a step was clean before it: none of its   *)
(* marks is taken back, and a job that exists starts where it started.     *)
(***************************************************************************)
LEMMA SteadyBefore ==
    ASSUME NamedExist, Steady', byHand \subseteq byHand',
           broken => broken', replanned => replanned', dropped => dropped',
           \A j \in Job : job[j].state # "none" => First(job'[j]) = First(job[j])
    PROVE  Steady
<1>1. \A j \in byHand : First(job[j]) = 1
  <2> SUFFICES ASSUME NEW j \in byHand
               PROVE  First(job[j]) = 1
    OBVIOUS
  <2>1. j \in Job /\ job[j].state # "none" /\ j \in byHand'
    BY DEF NamedExist
  <2>2. First(job'[j]) = 1
    BY <2>1 DEF Steady, First
  <2> QED BY <2>1, <2>2
<1> QED BY <1>1 DEF Steady

(* Jobs that are not written go on.                                        *)
LEMMA JobsUnwritten ==
    ASSUME PipelineInv, PipelineInv', CurrentInv, Steady', UNCHANGED <<job, done>>,
           byHand \subseteq byHand',
           broken => broken', replanned => replanned', dropped => dropped'
    PROVE  JobsGoOn
<1>1. Steady
  BY SteadyBefore DEF CurrentInv
<1> QED BY <1>1 DEF JobsGoOn, CurrentInv, JobStep, PlanStep

(* What is outdated stays what it was.                                     *)
LEMMA OutdatedUnwritten ==
    ASSUME JobsGoOn, UNCHANGED <<done, outdated>>
    PROVE  StillAhead
<1>1. outdated \subseteq Stage
  BY DEF JobsGoOn, Current, Begun
<1> QED BY <1>1, StagesCount DEF StillAhead

-----------------------------------------------------------------------------
(***************************************************************************)
(* The shape of every step: the slots of L move, and what they do not      *)
(* carry any more is covered otherwise.                                    *)
(***************************************************************************)
LEMMA StepKeepsCurrent ==
    ASSUME JobsGoOn, StillAhead, Begun', OneHandler', NEW L \in SUBSET Slot,
           \A x \in Slot \ L :
              /\ SlotStays(x)
              /\ step[x] = "handling" => job'[JobOf(x)].plan = job[JobOf(x)].plan,
           \A x \in L : SessionShaped(x)',
           \A r \in Row \ FreeRow' :
              \/ RowShaped(r)'
              \/ /\ r \notin FreeRow /\ state'[r] # "dead"
                 /\ queue'[r] = queue[r] /\ msg'[r] = msg[r],
           NewJobs = Job => Covered',
           \A x \in L \cap Carrying : SlotCarries(x) => Covered',
           \A r \in Row : RowCarries(r) =>
              \/ Covered'
              \/ /\ state'[r] \in {"pending", "claimed"}
                 /\ queue'[r] = queue[r] /\ msg'[r] = msg[r]
                 /\ \A x \in L : held'[x] = r =>
                       /\ step'[x] \notin {"dispatching", "retrying", "settling"}
                       /\ step'[x] \in {"loaded", "handling"} =>
                             Overplans(x)' \/ \A u \in outdated' : snap'[x].plan[u] = "run"
    PROVE  Current'
<1>1. PlansShaped' /\ RowsShaped' /\ SessionsShaped'
  BY ShapesStay
<1>2. Covered'
  <2>1. Covered
    BY DEF JobsGoOn, Current
  <2>2. CASE outdated = {}
    BY <2>2 DEF StillAhead, Covered
  <2>3. ASSUME NEW r \in Row, RowCarries(r)
        PROVE  Covered'
    <3> SUFFICES ASSUME ~Covered'
                 PROVE  FALSE
      OBVIOUS
    <3>1. /\ state'[r] \in {"pending", "claimed"}
          /\ queue'[r] = queue[r] /\ msg'[r] = msg[r]
          /\ \A x \in L : held'[x] = r =>
                /\ step'[x] \notin {"dispatching", "retrying", "settling"}
                /\ step'[x] \in {"loaded", "handling"} =>
                      Overplans(x)' \/ \A u \in outdated' : snap'[x].plan[u] = "run"
      BY <2>3
    <3>2. \A x \in Slot \ L : SlotStays(x)
      OBVIOUS
    <3>3. \A x \in Slot : held'[x] = r =>
              \/ held[x] = r /\ SlotStays(x)
              \/ /\ step'[x] \notin {"dispatching", "retrying", "settling"}
                 /\ step'[x] \in {"loaded", "handling"} =>
                       Overplans(x)' \/ \A u \in outdated' : snap'[x].plan[u] = "run"
      BY <3>1, <3>2 DEF SlotStays
    <3>4. RowCarries(r)'
      BY <2>3, <3>1, <3>3, RowGoesOn
    <3> QED BY <3>4 DEF Covered
  <2>4. ASSUME NEW x \in Carrying, SlotCarries(x)
        PROVE  Covered'
    <3>1. CASE x \in L
      BY <2>4, <3>1
    <3>2. CASE x \notin L
      <4>1. SlotStays(x)
        BY <3>2 DEF Carrying
      <4>2. x \in Carrying' /\ SlotCarries(x)'
        BY <2>4, <4>1, SlotGoesOn
      <4> QED BY <4>2 DEF Covered
    <3> QED BY <3>1, <3>2
  <2> QED BY <2>1, <2>2, <2>3, <2>4 DEF Covered
<1> QED BY <1>1, <1>2 DEF Current

(* No handler begins.                                                      *)
LEMMA NoHandlerBegins ==
    ASSUME OneHandler,
           \A x \in Slot : step'[x] = "handling" =>
              step[x] = "handling" /\ held'[x] = held[x] /\ msg'[held[x]] = msg[held[x]]
    PROVE  OneHandler'
BY DEF OneHandler, JobOf

(* What is done and outdated stays as it was.                              *)
LEMMA BegunStays ==
    ASSUME JobsGoOn, UNCHANGED <<done, outdated>>
    PROVE  Begun' /\ StillAhead
<1>1. NewJobs' = Job => NewJobs = Job
  <2> SUFFICES ASSUME NewJobs' = Job, NEW j \in Job
               PROVE  job[j].state = "none"
    BY DEF NewJobs
  <2>1. job'[j].state = "none"
    BY DEF NewJobs
  <2> QED BY <2>1 DEF JobsGoOn, JobStep
<1>2. Begun'
  BY <1>1 DEF JobsGoOn, Current, Begun
<1> QED BY <1>2, OutdatedUnwritten

(* A worker that has a row in hand works for a job that exists.            *)
LEMMA WorkHasJob ==
    ASSUME PipelineInv, NEW sl \in Slot, step[sl] # "idle"
    PROVE  NewJobs # Job
BY HeldRow DEF NewJobs

-----------------------------------------------------------------------------
(* The jobs that are named go on existing.                                 *)
LEMMA NamedStay ==
    ASSUME PipelineInv, NamedExist,
           \A j \in Job : job[j].state # "none" => job'[j].state # "none",
           byHand' = byHand, sweeping' \in {sweeping, NoJob}, cancelling' \in {cancelling, NoJob}
    PROVE  NamedExist'
<1>1. sweeping \in Job \cup {NoJob} /\ cancelling \in Job \cup {NoJob}
  BY DEF PipelineInv, PipelineTypeOK
<1> QED BY <1>1 DEF NamedExist

(* What is written to a job row, apart from the plan of a new one.         *)
LEMMA WrittenRows ==
    ASSUME NEW row \in JobRow, row.state # "none"
    PROVE  /\ \A next : /\ Finalised(row, next) \in JobRow
                        /\ Finalised(row, next).state # "none"
                        /\ Finalised(row, next).plan = row.plan
                        /\ First(Finalised(row, next)) = First(row)
           /\ \A s : Failed(row, s).state = "FAILED" /\ Failed(row, s).plan = row.plan
           /\ \A plan \in Plan : LET new == [row EXCEPT !.plan = plan] IN
                 /\ new \in JobRow /\ new.state # "none" /\ new.plan = plan
                 /\ First(new) = First(row)
BY DEF Finalised, Failed, JobRow, JobState, Terminal, First

LEMMA FinalisedRow ==
    ASSUME NEW row \in JobRow, row.state # "none", NEW next
    PROVE  /\ Finalised(row, next) \in JobRow /\ Finalised(row, next).state # "none"
           /\ Finalised(row, next).plan = row.plan
           /\ First(Finalised(row, next)) = First(row)
BY DEF Finalised, JobRow, JobState, Terminal, First

(* What mark_stage_started() leaves is the session's plan, if it built it. *)
LEMMA StartedRow ==
    ASSUME PipelineInv, NEW sl \in Slot, step[sl] = "handling"
    PROVE  /\ Started(sl) \in JobRow /\ Started(sl).state # "none"
           /\ Started(sl).plan = IF snap[sl].built THEN snap[sl].plan ELSE job[JobOf(sl)].plan
           /\ First(Started(sl)) = First(job[JobOf(sl)])
<1>1. Started(sl) \in JobRow /\ Started(sl).state # "none"
  BY StartedTyped
<1>2. PICK row \in JobRow : row = job[JobOf(sl)]
  BY HeldRow
<1>3. PICK st, sg, p : Started(sl) = [row EXCEPT !.state = st, !.stage = sg,
                            !.plan = IF snap[sl].built THEN p ELSE row.plan]
                       /\ p = snap[sl].plan
  BY <1>2 DEF Started
<1>4. Started(sl).plan = (IF snap[sl].built THEN p ELSE row.plan) /\ Started(sl).resume = row.resume
  BY <1>3 DEF JobRow
<1> QED BY <1>1, <1>2, <1>3, <1>4 DEF First

(* A stage leaves its job existing.                                        *)
LEMMA StageLeavesJob ==
    ASSUME PipelineInv, NEW sl \in Slot,
           Skip(sl) \/ Succeed(sl) \/ Halt(sl) \/ StageFails(sl) \/ EnqueueFails(sl)
    PROVE  \A j \in Job : job[j].state # "none" => job'[j].state # "none"
<1>1. job \in [Job -> JobRow] /\ step[sl] # "idle"
  BY DEF PipelineInv, PipelineTypeOK, Skip, Succeed, Halt, StageFails, EnqueueFails, Commit
<1>2. PICK i \in Job : i = JobOf(sl) /\ job[i] \in JobRow /\ job[i].state # "none"
  BY <1>1, HeldRow
<1>3. ASSUME NEW row, row.state # "none", job' = [job EXCEPT ![i] = row]
      PROVE  \A j \in Job : job[j].state # "none" => job'[j].state # "none"
  BY <1>1, <1>3
<1>4. ASSUME Skip(sl)
      PROVE  \E row : row.state # "none" /\ job' = [job EXCEPT ![i] = row]
  <2>1. step[sl] = "loaded"
    BY <1>4 DEF Skip
  <2>2. snap[sl].plan \in Plan
    BY <2>1, SessionTyped
  <2>3. PICK row \in JobRow : row.state # "none"
          /\ row = IF snap[sl].built THEN [job[i] EXCEPT !.plan = snap[sl].plan] ELSE job[i]
    BY <1>2, <2>2, WrittenRows
  <2>4. PICK next : job' = [job EXCEPT ![i] = Finalised(row, next)]
    BY <1>2, <1>4, <2>3 DEF Skip
  <2> QED BY <2>3, <2>4, WrittenRows
<1>5. ASSUME Succeed(sl)
      PROVE  \E row : row.state # "none" /\ job' = [job EXCEPT ![i] = row]
  <2>1. PICK plan, next : job' = [job EXCEPT ![i] = Finalised([Started(sl) EXCEPT !.plan = plan], next)]
    BY <1>2, <1>5 DEF Succeed
  <2>2. Started(sl) \in JobRow /\ Started(sl).state # "none"
    BY <1>5, StartedTyped DEF Succeed, Commit
  <2>3. Finalised([Started(sl) EXCEPT !.plan = plan], next).state # "none"
    BY <2>2 DEF Finalised, JobRow
  <2> QED BY <2>1, <2>3
<1>6. ASSUME Halt(sl) \/ StageFails(sl)
      PROVE  \E row : row.state # "none" /\ job' = [job EXCEPT ![i] = row]
  <2>1. step[sl] = "handling"
    BY <1>6 DEF Halt, StageFails, Commit
  <2>2. PICK started \in JobRow : started = Started(sl) /\ started.state # "none"
    BY <2>1, StartedTyped
  <2>3. \/ job' = [job EXCEPT ![i] = [started EXCEPT !.state = "RETRYING"]]
        \/ \E s : job' = [job EXCEPT ![i] = Failed(started, s)]
    BY <1>2, <1>6, <2>2 DEF Halt, StageFails
  <2>4. [started EXCEPT !.state = "RETRYING"].state # "none"
    BY DEF JobRow
  <2> QED BY <2>2, <2>3, <2>4, WrittenRows
<1>7. ASSUME EnqueueFails(sl)
      PROVE  \E row : row.state # "none" /\ job' = [job EXCEPT ![i] = row]
  <2>1. PICK s : job' = [job EXCEPT ![i] = Failed(job[i], s)]
    BY <1>2, <1>7 DEF EnqueueFails
  <2> QED BY <1>2, <2>1, WrittenRows
<1> QED BY <1>3, <1>4, <1>5, <1>6, <1>7

LEMMA NamedKept ==
    ASSUME PipelineInv, NamedExist, [Next]_pipeVars
    PROVE  NamedExist'
<1>1. job \in [Job -> JobRow]
      /\ sweeping \in Job \cup {NoJob} /\ cancelling \in Job \cup {NoJob}
  BY DEF PipelineInv, PipelineTypeOK
<1>2. CASE UNCHANGED <<job, opVars>>
  BY <1>2, NamedStay DEF opVars
<1>3. ASSUME NEW sl \in Slot, RunStep(sl)
      PROVE  NamedExist'
  <2>1. CASE Skip(sl) \/ Succeed(sl) \/ Halt(sl) \/ StageFails(sl) \/ EnqueueFails(sl)
    <3>1. UNCHANGED opVars
      BY <2>1 DEF Skip, Succeed, Halt, StageFails, EnqueueFails, Then, Pass
    <3> QED BY <2>1, <3>1, StageLeavesJob, NamedStay DEF opVars
  <2>2. CASE Load(sl) \/ Begin(sl) \/ Enqueues(sl) \/ Raise(sl) \/ Settle(sl) \/ GiveBack(sl)
    <3>1. UNCHANGED <<job, opVars>>
      BY <2>2 DEF Load, Begin, Enqueues, Raise, Settle, GiveBack, Pass, jobVars
    <3> QED BY <3>1, <1>2
  <2> QED BY <1>3, <2>1, <2>2 DEF RunStep
<1>4. CASE (\E sl \in Slot, r \in Row : ClaimRow(sl, r)) \/ (\E p \in Proc : Dies(p))
            \/ (\E lapsed \in SUBSET Row : ReclaimLeases(lapsed))
  BY <1>2, <1>4 DEF ClaimRow, Dies, ReclaimLeases, jobVars
<1>5. ASSUME NEW j \in Job, FindStalled(j)
      PROVE  NamedExist'
  <2>1. job[j].state # "none"
    BY <1>5, PipelineAssumption DEF FindStalled, Running
  <2>2. UNCHANGED <<job, cancelling, byHand>> /\ sweeping' = j
    BY <1>5 DEF FindStalled, jobVars
  <2> QED BY <2>1, <2>2 DEF NamedExist
<1>6. ASSUME NEW j \in Job, FindCancellable(j)
      PROVE  NamedExist'
  <2>1. job[j].state # "none"
    BY <1>6 DEF FindCancellable
  <2>2. UNCHANGED <<job, sweeping, byHand>> /\ cancelling' = j
    BY <1>6 DEF FindCancellable, jobVars
  <2> QED BY <2>1, <2>2 DEF NamedExist
<1>7. CASE FailStalled \/ MarkCancelled
  <2>1. PICK j \in Job, s \in {"FAILED", "CANCELLED"} : job' = [job EXCEPT ![j].state = s]
    BY <1>1, <1>7 DEF FailStalled, MarkCancelled
  <2>2. \A i \in Job : job[i].state # "none" => job'[i].state # "none"
    BY <1>1, <2>1 DEF JobRow
  <2>3. byHand' = byHand /\ sweeping' \in {sweeping, NoJob} /\ cancelling' \in {cancelling, NoJob}
    BY <1>7 DEF FailStalled, MarkCancelled
  <2> QED BY <2>2, <2>3, NamedStay
<1>8. ASSUME NEW from, CreateJob(from)
      PROVE  NamedExist'
  <2>1. PICK j \in NewJobs : job' = [job EXCEPT ![j] = NewJob(from)]
    BY <1>8 DEF CreateJob
  <2>2. \A i \in Job : job[i].state # "none" => job'[i].state # "none"
    BY <1>1, <2>1 DEF NewJob
  <2>3. byHand' = byHand /\ sweeping' = sweeping /\ cancelling' = cancelling
    BY <1>8 DEF CreateJob
  <2> QED BY <2>2, <2>3, NamedStay
<1>9. ASSUME NEW j \in Job, NEW s \in Stage, CliReprocess(j, s)
      PROVE  NamedExist'
  BY <1>9 DEF CliReprocess, jobVars, NamedExist
<1>10. CASE SweepStep
  BY <1>4, <1>5, <1>7, <1>10 DEF SweepStep
<1>11. CASE UserStep
  BY <1>6, <1>7, <1>8, <1>9, <1>11 DEF UserStep, Upload, ReprocessContract, RetryJob
<1>12. CASE UNCHANGED pipeVars
  BY <1>2, <1>12 DEF pipeVars, jobVars
<1> QED BY <1>3, <1>4, <1>10, <1>11, <1>12 DEF Next

-----------------------------------------------------------------------------
(* No slot moves: rows stay what they are, and jobs keep their plans.      *)
LEMMA StillKeepsCurrent ==
    ASSUME JobsGoOn, UNCHANGED <<done, outdated, step, held, snap, todo>>,
           \A j \in Job : job[j].state # "none" => job'[j].plan = job[j].plan,
           \A r \in Row \ FreeRow :
              /\ queue'[r] = queue[r] /\ msg'[r] = msg[r] /\ state'[r] # "dead"
              /\ state[r] \in {"pending", "claimed"} => state'[r] \in {"pending", "claimed"},
           \A r \in FreeRow \ FreeRow' : RowShaped(r)',
           NewJobs = Job => Covered'
    PROVE  Current'
<1>1. PipelineInv /\ OneHandler
  BY DEF JobsGoOn, Current
<1>2. Begun' /\ StillAhead
  BY BegunStays
<1>3. ASSUME NEW x \in Slot
      PROVE  /\ SlotStays(x)
             /\ step[x] = "handling" => job'[JobOf(x)].plan = job[JobOf(x)].plan
             /\ held[x] # NoRow => msg'[held[x]] = msg[held[x]]
  <2>1. held[x] # NoRow => held[x] \in Row \ FreeRow
    BY <1>1 DEF PipelineInv, PipelineTypeOK, TypeOK, FreeRow
  <2>2. step[x] = "handling" => JobOf(x) \in Job /\ job[JobOf(x)].state # "none"
    BY <1>1, HeldRow
  <2> QED BY <2>1, <2>2 DEF SlotStays
<1>4. OneHandler'
  <2>1. \A x \in Slot : step'[x] = "handling" =>
              step[x] = "handling" /\ held'[x] = held[x] /\ msg'[held[x]] = msg[held[x]]
    BY <1>1, <1>3, HeldRow
  <2> QED BY <1>1, <2>1, NoHandlerBegins
<1>5. \A r \in Row : RowCarries(r) => r \in Row \ FreeRow /\ state[r] \in {"pending", "claimed"}
  BY DEF RowCarries, FreeRow
<1>6. \A r \in Row \ FreeRow' :
        \/ RowShaped(r)'
        \/ /\ r \notin FreeRow /\ state'[r] # "dead"
           /\ queue'[r] = queue[r] /\ msg'[r] = msg[r]
  OBVIOUS
<1>7. PICK L \in SUBSET Slot : L = {}
  OBVIOUS
<1> QED BY <1>2, <1>3, <1>4, <1>5, <1>6, <1>7, StepKeepsCurrent

(* A row that is inserted is shaped, and covers what lies ahead of it.     *)
LEMMA PostedRow ==
    ASSUME PipelineInv, NEW j, NEW s, NEW a, Post(j, s, a)
    PROVE  /\ UNCHANGED held
           /\ \E r \in FreeRow : /\ r \in Row /\ state'[r] = "pending"
                                 /\ queue'[r] = s /\ msg'[r] = j
                                 /\ \A x \in Slot : held'[x] # r
                                 /\ FreeRow \ FreeRow' \subseteq {r}
                                 /\ \A q \in Row \ {r} : /\ queue'[q] = queue[q]
                                                         /\ msg'[q] = msg[q]
                                                         /\ state'[q] = state[q]
<1>1. PICK r \in FreeRow : /\ Insert(r, a) /\ queue' = [queue EXCEPT ![r] = s]
                           /\ msg' = [msg EXCEPT ![r] = j]
  BY DEF Post
<1>2. /\ r \in Row /\ UNCHANGED held /\ state \in [Row -> RowState] /\ msg \in [Row -> Job]
      /\ queue \in [Row -> Queue]
  BY DEF FreeRow, Post, slotVars, PipelineInv, PipelineTypeOK, TypeOK
<1>3. \A x \in Slot : held'[x] # r
  BY <1>2 DEF FreeRow
<1>4. state'[r] = "pending" /\ queue'[r] = s /\ msg'[r] = j
  BY <1>1, <1>2 DEF Insert
<1>5. \A q \in Row \ {r} : queue'[q] = queue[q] /\ msg'[q] = msg[q] /\ state'[q] = state[q]
  BY <1>1, <1>2 DEF Insert
<1>6. FreeRow \ FreeRow' \subseteq {r}
  BY <1>2, <1>5 DEF FreeRow
<1> QED BY <1>2, <1>3, <1>4, <1>5, <1>6

(* A job's state is overwritten, by the sweep or a cancel.                 *)
LEMMA MarkKeepsCurrent ==
    ASSUME PipelineInv, PipelineInv', CurrentInv, Steady',
           UNCHANGED <<done, outdated, state, msg, queue, step, snap, todo, held, byHand,
                       broken, replanned, dropped>>,
           NEW j \in Job, job[j].state # "none", NEW s \in JobState \ {"none"},
           job' = [job EXCEPT ![j].state = s]
    PROVE  Current'
<1>1. job \in [Job -> JobRow] /\ NamedExist
  BY DEF PipelineInv, PipelineTypeOK, CurrentInv
<1>2. \A i \in Job : /\ job'[i].plan = job[i].plan /\ job'[i].resume = job[i].resume
                     /\ job[i].state = "none" => job'[i] = job[i]
                     /\ job[i].state # "none" => job'[i].state # "none"
  BY <1>1 DEF JobRow
<1>3. \A i \in Job : First(job'[i]) = First(job[i])
  BY <1>2 DEF First
<1>4. Steady
  BY <1>1, <1>3, SteadyBefore
<1>5. JobsGoOn
  BY <1>2, <1>3, <1>4 DEF JobsGoOn, CurrentInv, JobStep, PlanStep
<1>6. FreeRow' = FreeRow
  BY DEF FreeRow
<1>7. NewJobs # Job
  BY DEF NewJobs
<1>8. \A r \in Row \ FreeRow : state[r] # "dead"
  BY <1>4 DEF CurrentInv, Current, RowsShaped, RowShaped
<1> QED BY <1>2, <1>5, <1>6, <1>7, <1>8, StillKeepsCurrent

(* The sweep: leases lapse, and rows are claimed again.                    *)
LEMMA SweepKeepsCurrent ==
    ASSUME PipelineInv, PipelineInv', CurrentInv, SweepStep, Steady'
    PROVE  Current'
<1>1. /\ job \in [Job -> JobRow] /\ state \in [Row -> RowState]
      /\ sweeping \in Job \cup {NoJob} /\ NamedExist
  BY DEF PipelineInv, PipelineTypeOK, TypeOK, CurrentInv
<1>3. \A r \in Row \ FreeRow : Steady => state[r] # "dead"
  BY DEF CurrentInv, Current, RowsShaped, RowShaped
<1>4. ASSUME NEW lapsed \in SUBSET Row, ReclaimLeases(lapsed)
      PROVE  Current'
  <2>1. /\ \A r \in lapsed : state[r] = "claimed"
        /\ state' = [r \in Row |-> IF r \in lapsed THEN ReclaimedState(r) ELSE state[r]]
        /\ UNCHANGED <<job, done, outdated, msg, queue, step, snap, todo, held, byHand,
                       replanned, dropped>>
        /\ broken' = (broken \/ \E r \in lapsed : state'[r] = "dead")
    BY <1>4 DEF ReclaimLeases, Reclaim, Breaks, slotVars, jobVars, opVars
  <2>2. JobsGoOn
    BY <2>1, JobsUnwritten
  <2>3. Steady
    BY <2>1, SteadyBefore DEF CurrentInv
  <2>4. \A r \in lapsed : state'[r] = "pending"
    BY <2>1 DEF Steady, ReclaimedState
  <2>5. \A r \in Row : r \notin lapsed => state'[r] = state[r]
    BY <2>1
  <2>6. FreeRow \subseteq FreeRow'
    BY <2>1, <2>5 DEF FreeRow
  <2>7. NewJobs = Job => Covered'
    BY <2>1 DEF NewJobs, Covered
  <2> QED BY <1>3, <2>1, <2>2, <2>3, <2>4, <2>5, <2>6, <2>7, StillKeepsCurrent
<1>5. ASSUME NEW j \in Job, FindStalled(j)
      PROVE  Current'
  <2>1. UNCHANGED <<job, done, outdated, state, msg, queue, step, snap, todo, held, byHand,
                    broken, replanned, dropped>>
    BY <1>5 DEF FindStalled, queueVars, jobVars, histVars
  <2>2. JobsGoOn /\ Steady
    BY <2>1, JobsUnwritten, SteadyBefore DEF CurrentInv
  <2>3. FreeRow' = FreeRow
    BY <2>1 DEF FreeRow
  <2>4. NewJobs = Job => Covered'
    BY <2>1 DEF NewJobs, Covered
  <2> QED BY <1>3, <2>1, <2>2, <2>3, <2>4, StillKeepsCurrent
<1>6. ASSUME FailStalled
      PROVE  Current'
  <2>1. /\ UNCHANGED <<done, outdated, state, msg, queue, step, snap, todo, held, byHand,
                       broken, replanned, dropped>>
        /\ job' = [job EXCEPT ![sweeping].state = "FAILED"]
    BY <1>6 DEF FailStalled, queueVars, histVars
  <2>2. PICK j \in Job : j = sweeping /\ job[j].state # "none"
    BY <1>1, <1>6 DEF FailStalled, NamedExist
  <2>3. "FAILED" \in JobState \ {"none"}
    BY DEF JobState, Terminal
  <2> QED BY <2>1, <2>2, <2>3, MarkKeepsCurrent
<1> QED BY <1>4, <1>5, <1>6 DEF SweepStep

(* The operations: a job that is created, or a stage that is sent again,   *)
(* brings a row of its own.                                                *)
LEMMA UserKeepsCurrent ==
    ASSUME PipelineInv, PipelineInv', CurrentInv, UserStep, Steady'
    PROVE  Current'
<1>1. /\ job \in [Job -> JobRow] /\ cancelling \in Job \cup {NoJob} /\ NamedExist
  BY DEF PipelineInv, PipelineTypeOK, CurrentInv
<1>2. \A r \in Row \ FreeRow : Steady => state[r] # "dead"
  BY DEF CurrentInv, Current, RowsShaped, RowShaped
<1>3. ASSUME NEW from \in Stage \cup {NoStage}, CreateJob(from),
             NewJobs = Job => from = NoStage
      PROVE  Current'
  <2>0. PICK s : s = IF from = NoStage THEN 1 ELSE from
    OBVIOUS
  <2>1. PICK j \in NewJobs : /\ job' = [job EXCEPT ![j] = NewJob(from)]
                             /\ s = (IF from = NoStage THEN 1 ELSE from)
                             /\ Post(j, s, 1)
    BY <1>3, <2>0 DEF CreateJob
  <2>2. /\ UNCHANGED <<done, outdated, step, snap, todo, byHand, broken, replanned, dropped>>
        /\ j \in Job /\ job[j].state = "none"
    BY <1>3 DEF CreateJob, histVars, NewJobs
  <2>3. /\ \A i \in Job \ {j} : job'[i] = job[i]
        /\ job'[j] = NewJob(from) /\ ~Planned(job'[j].plan) /\ First(job'[j]) = s
    BY <1>1, <2>1, <2>2 DEF NewJob, Planned, First
  <2>4. Steady
    BY <1>1, <2>2, <2>3, SteadyBefore
  <2>5. JobsGoOn
    BY <2>2, <2>3, <2>4 DEF JobsGoOn, CurrentInv, JobStep, PlanStep
  <2>6. UNCHANGED held
    BY <2>1, PostedRow
  <2>7. PICK r \in FreeRow : /\ r \in Row /\ state'[r] = "pending"
                             /\ queue'[r] = s /\ msg'[r] = j
                             /\ \A x \in Slot : held'[x] # r
                             /\ FreeRow \ FreeRow' \subseteq {r}
                             /\ \A q \in Row \ {r} : /\ queue'[q] = queue[q]
                                                     /\ msg'[q] = msg[q]
                                                     /\ state'[q] = state[q]
    BY <2>1, PostedRow
  <2>8. s \in Stage /\ s >= s
    BY <2>1, EngineAssumption, StagesCount DEF Stage
  <2>9. RowShaped(r)'
    BY <2>3, <2>7, <2>8 DEF RowShaped, Planned, NoPlan, First, AfterDoc, RunsFrom
  <2>10. ASSUME NewJobs = Job
         PROVE  Covered'
    <3>1. outdated = Stage /\ 1 \notin done /\ s = 1
      BY <1>3, <2>1, <2>5, <2>8, <2>10, EngineAssumption DEF JobsGoOn, Current, Begun, Stage
    <3>2. \A u \in outdated' : s <= u
      BY <2>2, <3>1, StagesCount
    <3>3. RowCarries(r)'
      BY <2>2, <2>3, <2>7, <3>1, <3>2 DEF RowCarries, Ahead, Planned, NoPlan
    <3> QED BY <2>7, <3>3 DEF Covered
  <2>11. \A i \in Job : job[i].state # "none" => job'[i].plan = job[i].plan
    BY <2>2, <2>3
  <2>12. \A q \in Row \ FreeRow :
              /\ queue'[q] = queue[q] /\ msg'[q] = msg[q] /\ state'[q] # "dead"
              /\ state[q] \in {"pending", "claimed"} => state'[q] \in {"pending", "claimed"}
    BY <1>2, <2>4, <2>7
  <2>13. \A q \in FreeRow \ FreeRow' : RowShaped(q)'
    BY <2>7, <2>9
  <2> QED BY <2>2, <2>5, <2>6, <2>10, <2>11, <2>12, <2>13, StillKeepsCurrent
<1>4. CASE Upload
  BY <1>3, <1>4 DEF Upload
<1>5. CASE \E s \in Stage : ReprocessContract(s)
  BY <1>3, <1>5 DEF ReprocessContract
<1>6. ASSUME NEW j \in Job, RetryJob(j)
      PROVE  Current'
  <2>1. job[j].stage \in Stage \cup {NoStage} /\ 1 \in Stage /\ NewJobs # Job
    BY <1>1, <1>6, EngineAssumption DEF RetryJob, JobRow, NewJobs, Stage
  <2>2. PICK from \in Stage \cup {NoStage} : CreateJob(from)
    BY <1>6, <2>1 DEF RetryJob
  <2> QED BY <1>3, <2>1, <2>2
<1>7. ASSUME NEW j \in Job, FindCancellable(j)
      PROVE  Current'
  <2>1. UNCHANGED <<job, done, outdated, state, msg, queue, step, snap, todo, held, byHand,
                    broken, replanned, dropped>>
    BY <1>7 DEF FindCancellable, queueVars, jobVars, histVars
  <2>2. JobsGoOn /\ Steady
    BY <2>1, JobsUnwritten, SteadyBefore DEF CurrentInv
  <2>3. FreeRow' = FreeRow
    BY <2>1 DEF FreeRow
  <2>4. NewJobs = Job => Covered'
    BY <2>1 DEF NewJobs, Covered
  <2> QED BY <1>2, <2>1, <2>2, <2>3, <2>4, StillKeepsCurrent
<1>8. CASE MarkCancelled
  <2>1. /\ UNCHANGED <<done, outdated, state, msg, queue, step, snap, todo, held, byHand,
                       broken, replanned, dropped>>
        /\ job' = [job EXCEPT ![cancelling].state = "CANCELLED"]
    BY <1>8 DEF MarkCancelled, queueVars, histVars
  <2>2. PICK j \in Job : j = cancelling /\ job[j].state # "none"
    BY <1>1, <1>8 DEF MarkCancelled, NamedExist
  <2>3. "CANCELLED" \in JobState \ {"none"}
    BY DEF JobState, Terminal
  <2> QED BY <2>1, <2>2, <2>3, MarkKeepsCurrent
<1>9. ASSUME NEW j \in Job, NEW s \in Stage, CliReprocess(j, s)
      PROVE  Current'
  <2>1. /\ Post(j, s, 1) /\ byHand' = byHand \cup {j} /\ job[j].state # "none"
        /\ UNCHANGED <<job, done, outdated, step, snap, todo, broken, replanned, dropped>>
    BY <1>9 DEF CliReprocess, jobVars, histVars
  <2>2. JobsGoOn /\ Steady
    BY <2>1, JobsUnwritten, SteadyBefore DEF CurrentInv
  <2>3. UNCHANGED held
    BY <2>1, PostedRow
  <2>4. PICK r \in FreeRow : /\ r \in Row /\ state'[r] = "pending"
                             /\ queue'[r] = s /\ msg'[r] = j
                             /\ \A x \in Slot : held'[x] # r
                             /\ FreeRow \ FreeRow' \subseteq {r}
                             /\ \A q \in Row \ {r} : /\ queue'[q] = queue[q]
                                                     /\ msg'[q] = msg[q]
                                                     /\ state'[q] = state[q]
    BY <2>1, PostedRow
  <2>5. First(job[j]) = 1 /\ j \in byHand'
    BY <2>1 DEF Steady, First
  <2>6. 1 \in Stage /\ s >= 1
    BY EngineAssumption, StagesCount DEF Stage
  <2>7. PICK plan : plan = job[j].plan
    OBVIOUS
  <2>8. Planned(plan) => AfterDoc(plan, 1, s)
    BY <1>1, <2>2, <2>5, <2>6, <2>7, AfterDocAtFirst DEF JobsGoOn, Current, PlansShaped
  <2>9. RowShaped(r)'
    BY <2>1, <2>4, <2>5, <2>6, <2>7, <2>8 DEF RowShaped, Planned, NoPlan, First, AfterDoc, RunsFrom
  <2>10. NewJobs # Job
    BY <2>1 DEF NewJobs
  <2>11. \A q \in Row \ FreeRow :
              /\ queue'[q] = queue[q] /\ msg'[q] = msg[q] /\ state'[q] # "dead"
              /\ state[q] \in {"pending", "claimed"} => state'[q] \in {"pending", "claimed"}
    BY <1>2, <2>2, <2>4
  <2>12. \A q \in FreeRow \ FreeRow' : RowShaped(q)'
    BY <2>4, <2>9
  <2> QED BY <2>1, <2>2, <2>3, <2>10, <2>11, <2>12, StillKeepsCurrent
<1> QED BY <1>4, <1>5, <1>6, <1>7, <1>8, <1>9 DEF UserStep

-----------------------------------------------------------------------------
(* A worker moves on with its row in hand, and the queue stays as it is.   *)
LEMMA MoveKeepsCurrent ==
    ASSUME JobsGoOn, StillAhead, Begun', OneHandler', NEW sl \in Slot, step[sl] # "idle",
           SessionShaped(sl)', UNCHANGED <<state, queue, msg, held>>,
           \A x \in Slot \ {sl} :
              /\ step'[x] = step[x] /\ snap'[x] = snap[x] /\ todo'[x] = todo[x]
              /\ step[x] = "handling" => job'[JobOf(x)].plan = job[JobOf(x)].plan,
           sl \in Carrying /\ SlotCarries(sl) => Covered',
           RowCarries(held[sl]) =>
              \/ Covered'
              \/ /\ step'[sl] \notin {"dispatching", "retrying", "settling"}
                 /\ step'[sl] \in {"loaded", "handling"} =>
                       Overplans(sl)' \/ \A u \in outdated' : snap'[sl].plan[u] = "run"
    PROVE  Current'
<1>1. PICK L \in SUBSET Slot : L = {sl}
  OBVIOUS
<1>2. PipelineInv /\ RowsShaped
  BY DEF JobsGoOn, Current
<1>3. NewJobs # Job
  BY <1>2, WorkHasJob
<1>4. FreeRow' = FreeRow
  BY DEF FreeRow
<1>5. \A r \in Row \ FreeRow' :
        /\ r \notin FreeRow /\ state'[r] # "dead"
        /\ queue'[r] = queue[r] /\ msg'[r] = msg[r]
  BY <1>2, <1>4 DEF RowsShaped, RowShaped
<1>6. \A x \in Slot \ L :
        /\ SlotStays(x)
        /\ step[x] = "handling" => job'[JobOf(x)].plan = job[JobOf(x)].plan
  BY <1>1 DEF SlotStays
<1>7. ASSUME NEW r \in Row, RowCarries(r), ~Covered'
      PROVE  /\ state'[r] \in {"pending", "claimed"}
             /\ queue'[r] = queue[r] /\ msg'[r] = msg[r]
             /\ \A x \in L : held'[x] = r =>
                   /\ step'[x] \notin {"dispatching", "retrying", "settling"}
                   /\ step'[x] \in {"loaded", "handling"} =>
                         Overplans(x)' \/ \A u \in outdated' : snap'[x].plan[u] = "run"
  <2>1. state[r] \in {"pending", "claimed"}
    BY <1>7 DEF RowCarries
  <2>2. CASE held[sl] = r
    <3>1. RowCarries(held[sl])
      BY <1>7, <2>2
    <3>2. \A x \in L : x = sl
      BY <1>1
    <3> QED BY <1>7, <2>1, <3>1, <3>2
  <2>3. CASE held[sl] # r
    BY <1>1, <2>1, <2>3
  <2> QED BY <2>2, <2>3
<1>8. \A x \in L : SessionShaped(x)'
  BY <1>1
<1>9. \A x \in L \cap Carrying : SlotCarries(x) => Covered'
  BY <1>1
<1> QED BY <1>3, <1>5, <1>6, <1>7, <1>8, <1>9, StepKeepsCurrent

(* A row is claimed, and carries on as before.                             *)
LEMMA ClaimRowKeepsCurrent ==
    ASSUME PipelineInv, PipelineInv', CurrentInv, NEW sl \in Slot, NEW r \in Row,
           ClaimRow(sl, r), Steady'
    PROVE  Current'
<1>1. /\ phase[sl] = "idle" /\ state[r] = "pending"
      /\ state' = [state EXCEPT ![r] = "claimed"]
      /\ held' = [held EXCEPT ![sl] = r]
      /\ step' = [step EXCEPT ![sl] = "claimed"]
      /\ UNCHANGED <<job, done, outdated, queue, msg, snap, todo, byHand,
                     broken, replanned, dropped>>
  BY DEF ClaimRow, Claim, jobVars, histVars, opVars
<1>2. /\ step[sl] = "idle" /\ state \in [Row -> RowState] /\ held \in [Slot -> Row \cup {NoRow}]
      /\ held[sl] = NoRow
      /\ step \in [Slot -> {"idle", "claimed", "loaded", "handling", "dispatching",
                            "retrying", "settling", "raised"}]
  BY <1>1 DEF PipelineInv, PipelineTypeOK, TypeOK
<1>3. JobsGoOn
  BY <1>1, JobsUnwritten
<1>4. Begun' /\ StillAhead
  BY <1>1, <1>3, BegunStays
<1>5. \A x \in Slot \ {sl} : SlotStays(x)
  BY <1>1, <1>2 DEF SlotStays
<1>6. OneHandler'
  <2>1. \A x \in Slot : step'[x] = "handling" =>
              step[x] = "handling" /\ held'[x] = held[x] /\ msg'[held[x]] = msg[held[x]]
    BY <1>1, <1>2
  <2> QED BY <1>3, <2>1, NoHandlerBegins DEF JobsGoOn, Current
<1>7. SessionShaped(sl)' /\ step'[sl] = "claimed"
  BY <1>1, <1>2 DEF SessionShaped
<1>8. FreeRow \subseteq FreeRow' /\ r \notin FreeRow
  BY <1>1, <1>2 DEF FreeRow
<1>9. \A q \in Row \ FreeRow' : q \notin FreeRow /\ state'[q] # "dead"
  BY <1>1, <1>2, <1>3, <1>8 DEF JobsGoOn, Current, RowsShaped, RowShaped
<1>10. \A q \in Row : RowCarries(q) => state'[q] \in {"pending", "claimed"}
  BY <1>1, <1>2 DEF RowCarries
<1>11. NewJobs = Job => Covered'
  BY <1>1 DEF NewJobs, Covered
<1>12. PICK L \in SUBSET Slot : L = {sl}
  OBVIOUS
<1> QED BY <1>1, <1>2, <1>3, <1>4, <1>5, <1>6, <1>7, <1>9, <1>10, <1>11, <1>12, StepKeepsCurrent
        DEF Carrying

(* The database goes away: the row in hand carries what its worker did.    *)
LEMMA RaiseKeepsCurrent ==
    ASSUME PipelineInv, PipelineInv', CurrentInv, NEW sl \in Slot, Raise(sl), Steady'
    PROVE  Current'
<1>1. /\ step[sl] \in {"loaded", "handling", "dispatching", "retrying"}
      /\ step' = [step EXCEPT ![sl] = "raised"]
      /\ snap' = [snap EXCEPT ![sl] = Unread]
      /\ todo' = [todo EXCEPT ![sl] = NoStage]
      /\ UNCHANGED <<job, done, outdated, state, queue, msg, held, byHand,
                     broken, replanned, dropped>>
  BY DEF Raise, Pass, queueVars, jobVars, opVars, histVars
<1>2. /\ step \in [Slot -> {"idle", "claimed", "loaded", "handling", "dispatching",
                            "retrying", "settling", "raised"}]
  BY DEF PipelineInv, PipelineTypeOK
<1>3. JobsGoOn
  BY <1>1, JobsUnwritten
<1>4. Begun' /\ StillAhead
  BY <1>1, <1>3, BegunStays
<1>5. step'[sl] = "raised" /\ SessionShaped(sl)'
  BY <1>1, <1>2 DEF SessionShaped
<1>6. OneHandler'
  <2>1. \A x \in Slot : step'[x] = "handling" =>
              step[x] = "handling" /\ held'[x] = held[x] /\ msg'[held[x]] = msg[held[x]]
    BY <1>1, <1>2
  <2> QED BY <1>3, <2>1, NoHandlerBegins DEF JobsGoOn, Current
<1>7. \A x \in Slot \ {sl} :
        /\ step'[x] = step[x] /\ snap'[x] = snap[x] /\ todo'[x] = todo[x]
        /\ step[x] = "handling" => job'[JobOf(x)].plan = job[JobOf(x)].plan
  BY <1>1
<1>8. ASSUME sl \in Carrying, SlotCarries(sl)
      PROVE  Covered'
  <2>1. PICK p, q : p = (IF step[sl] = "dispatching" THEN todo[sl] ELSE QueueOf(sl))
                    /\ q = QueueOf(sl)
    OBVIOUS
  <2>2. p \in Stage /\ q \in Stage /\ p >= q /\ outdated \subseteq Stage
    BY <1>1, <1>3, <2>1, HeldAhead, SlotStage DEF JobsGoOn, Current, Begun
  <2>3. Ahead(job[JobOf(sl)].plan, p, outdated, done)
    BY <1>8, <2>1 DEF SlotCarries
  <2>4. Ahead(job[JobOf(sl)].plan, q, outdated, done)
    BY <2>2, <2>3, StagesCount DEF Ahead
  <2>5. sl \in Carrying' /\ JobOf(sl)' = JobOf(sl) /\ QueueOf(sl)' = q
    BY <1>1, <1>5, <2>1 DEF Carrying, JobOf, QueueOf
  <2>6. SlotCarries(sl)'
    BY <1>1, <1>5, <2>4, <2>5 DEF SlotCarries, Ahead, Planned, NoPlan
  <2> QED BY <2>5, <2>6 DEF Covered
<1>9. /\ step'[sl] \notin {"dispatching", "retrying", "settling"}
      /\ step'[sl] \in {"loaded", "handling"} =>
            Overplans(sl)' \/ \A u \in outdated' : snap'[sl].plan[u] = "run"
  BY <1>5
<1>10. step[sl] # "idle" /\ UNCHANGED <<state, queue, msg, held>>
  BY <1>1
<1> QED BY <1>3, <1>4, <1>5, <1>6, <1>7, <1>8, <1>9, <1>10, MoveKeepsCurrent

(* The shape of a plan that plan() makes.                                  *)
LEMMA NewPlanShaped ==
    ASSUME NEW from \in Stage \cup {NoStage}, NEW D, NEW c, NEW f,
           c = [s \in Stage |-> IF s \in D THEN <<>> ELSE NoCheckpoint],
           f = (IF from = NoStage THEN 1 ELSE from),
           MissingBefore(from, c) = {}
    PROVE  PlanShaped(NewPlan(from, c), f, D)
<1> DEFINE now == [s \in Stage |-> <<>>]
           plan == NewPlan(from, c)
<1>1. \A s \in Stage : s \in Scope(from) <=> s >= f
  BY EngineAssumption, StagesCount DEF Scope, StagesFrom, Stage
<1>2. \A s \in Stage : /\ (plan[s] = "absent") <=> (s \notin Scope(from))
                       /\ (plan[s] = "run") <=> /\ s \in Scope(from)
                                              /\ PlannedToRun(s, from, now, c)
  BY DEF NewPlan, PlanOf
<1>3. 1 \in Stage /\ f \in Stage
  BY EngineAssumption DEF Stage
<1> HIDE DEF plan, now
<1>4. ASSUME NEW s \in Stage, NEW t \in Stage, s < t, plan[s] = "run"
      PROVE  plan[t] = "run"
  <2>0. s \in Scope(from)
    BY <1>2, <1>4
  <2>4. s \in Int /\ t \in Int /\ f \in Int /\ s >= f
    BY <1>1, <1>3, <2>0, StagesCount
  <2>5. t >= f
    BY <1>4, <2>4
  <2>1. t \in Scope(from)
    BY <1>1, <2>5
  <2>2. PICK u \in Scope(from) : u <= s /\ MustRun(u, now[u], c[u])
    BY <1>2, <1>4 DEF PlannedToRun
  <2>3. u <= t
    BY <1>4, <2>2, EngineAssumption, StagesCount DEF Scope, StagesFrom, Stage
  <2> QED BY <1>2, <2>1, <2>2, <2>3 DEF PlannedToRun
<1>5. \A s \in Stage : s >= f => plan[s] # "absent"
  BY <1>1, <1>2
<1>6. ASSUME f = 1, MustRun(1, now[1], c[1])
      PROVE  RunsFrom(plan, 1)
  <2>1. 1 \in Scope(from) /\ \A s \in Stage : s \in Scope(from) /\ 1 <= s
    BY <1>1, <1>3, <1>6, StagesCount
  <2> QED BY <1>2, <1>6, <2>1 DEF RunsFrom, PlannedToRun
<1>7. ASSUME 1 \notin D
      PROVE  RunsFrom(plan, 1)
  <2>1. c[1] = NoCheckpoint
    BY <1>3, <1>7
  <2>2. 1 \in Scope(from)
    BY <1>3, <2>1 DEF MissingBefore
  <2>3. f = 1
    BY <1>1, <1>3, <2>2, StagesCount
  <2> QED BY <1>6, <2>1, <2>3 DEF MustRun
<1>8. ASSUME DocStage \in Stage, f = 1
      PROVE  RunsFrom(plan, 1)
  BY <1>6, <1>8, ReplanAssumption DEF MustRun
<1> QED BY <1>4, <1>5, <1>7, <1>8 DEF PlanShaped, plan

(***************************************************************************)
(* A job is loaded.  Its plan runs all that is outdated: the stored one    *)
(* does, and one that is made now does, because the first stage has not    *)
(* succeeded yet.                                                          *)
(***************************************************************************)
LEMMA LoadKeepsCurrent ==
    ASSUME PipelineInv, PipelineInv', CurrentInv, NEW sl \in Slot, Load(sl), Steady'
    PROVE  Current'
<1>1. /\ step[sl] = "claimed"
      /\ UNCHANGED <<job, done, outdated, todo, state, queue, msg, held, byHand>>
  BY DEF Load, Pass, queueVars, jobVars, opVars
<1>2. /\ step \in [Slot -> {"idle", "claimed", "loaded", "handling", "dispatching",
                            "retrying", "settling", "raised"}]
      /\ snap \in [Slot -> SessionRow]
  BY DEF PipelineInv, PipelineTypeOK
<1>3. PICK j \in Job : j = JobOf(sl) /\ job[j] \in JobRow /\ job[j].state # "none"
  BY <1>1, HeldRow
<1>4. /\ held[sl] \in Row \ FreeRow /\ queue[held[sl]] = QueueOf(sl)
      /\ QueueOf(sl) \in Stage /\ First(job[j]) \in Stage
  BY <1>1, <1>3, HeldRow, SlotStage, FirstInStage
<1>5. PICK to \in {"raised", "loaded"} :
        /\ step' = [step EXCEPT ![sl] = to]
        /\ UNCHANGED histVars
        /\ \A x \in Slot \ {sl} : snap'[x] = snap[x]
        /\ to = "loaded" =>
              /\ ~Planned(job[j].plan) => MissingBefore(job[j].resume, Reached) = {}
              /\ snap'[sl].built <=> ~Planned(job[j].plan)
              /\ snap'[sl].plan = IF ~Planned(job[j].plan) THEN NewPlan(job[j].resume, Reached)
                                  ELSE job[j].plan
  <2>1. ~broken'
    BY DEF Steady
  <2>2. CASE /\ job[j].state # "CANCELLED" /\ Pass(sl, "raised") /\ UNCHANGED <<snap, histVars>>
    BY <2>2 DEF Pass
  <2>3. CASE /\ ~Planned(job[j].plan) => MissingBefore(job[j].resume, Reached) = {}
             /\ snap' = [snap EXCEPT ![sl] =
                   [state |-> job[j].state, stage |-> job[j].stage,
                    built |-> ~Planned(job[j].plan),
                    plan |-> IF ~Planned(job[j].plan) THEN NewPlan(job[j].resume, Reached)
                             ELSE job[j].plan]]
             /\ Pass(sl, "loaded") /\ UNCHANGED histVars
    <3>1. /\ snap'[sl].built <=> ~Planned(job[j].plan)
          /\ snap'[sl].plan = IF ~Planned(job[j].plan) THEN NewPlan(job[j].resume, Reached)
                              ELSE job[j].plan
          /\ \A x \in Slot \ {sl} : snap'[x] = snap[x]
      BY <1>2, <2>3
    <3> QED BY <2>3, <3>1 DEF Pass
  <2>4. ASSUME Breaks(TRUE)
        PROVE  FALSE
    BY <2>1, <2>4 DEF Breaks
  <2>5. \/ Breaks(TRUE)
        \/ /\ job[j].state # "CANCELLED" /\ Pass(sl, "raised") /\ UNCHANGED <<snap, histVars>>
        \/ /\ ~Planned(job[j].plan) => MissingBefore(job[j].resume, Reached) = {}
           /\ snap' = [snap EXCEPT ![sl] =
                 [state |-> job[j].state, stage |-> job[j].stage,
                  built |-> ~Planned(job[j].plan),
                  plan |-> IF ~Planned(job[j].plan) THEN NewPlan(job[j].resume, Reached)
                           ELSE job[j].plan]]
           /\ Pass(sl, "loaded") /\ UNCHANGED histVars
    BY <1>3 DEF Load
  <2> QED BY <2>2, <2>3, <2>4, <2>5
<1>6. JobsGoOn
  BY <1>1, <1>5, JobsUnwritten DEF histVars
<1>7. Begun' /\ StillAhead
  BY <1>1, <1>6, BegunStays
<1>8. /\ \A x \in Slot \ {sl} : step'[x] = step[x]
      /\ step'[sl] = to
  BY <1>2, <1>5
<1>9. OneHandler'
  <2>1. \A x \in Slot : step'[x] = "handling" =>
              step[x] = "handling" /\ held'[x] = held[x] /\ msg'[held[x]] = msg[held[x]]
    BY <1>1, <1>8
  <2> QED BY <1>6, <2>1, NoHandlerBegins DEF JobsGoOn, Current
<1>10. PICK plan, plan2, f, q, built : /\ plan = job[j].plan /\ plan2 = snap'[sl].plan
                                       /\ f = First(job[j]) /\ q = QueueOf(sl)
                                       /\ built = snap'[sl].built
  OBVIOUS
<1>11. ASSUME to = "loaded"
       PROVE  /\ PlanShaped(plan2, f, done)
              /\ AfterDoc(plan2, f, q)
              /\ Planned(plan) => plan2 = plan /\ ~built
              /\ ~Planned(plan) => built
  <2>1. CASE Planned(plan)
    <3>1. plan2 = plan /\ ~built
      BY <1>5, <1>10, <1>11, <2>1
    <3>2. PlanShaped(plan, f, done)
      BY <1>6, <1>10, <2>1 DEF JobsGoOn, Current, PlansShaped
    <3>3. AfterDoc(plan, f, q)
      BY <1>3, <1>4, <1>6, <1>10, <2>1 DEF JobsGoOn, Current, RowsShaped, RowShaped, JobOf
    <3> QED BY <2>1, <3>1, <3>2, <3>3
  <2>2. CASE ~Planned(plan)
    <3>1. PICK from, c : /\ from \in Stage \cup {NoStage}
                         /\ from = job[j].resume /\ c = Reached
      BY <1>3 DEF JobRow
    <3>2. plan2 = NewPlan(from, c) /\ built /\ MissingBefore(from, c) = {}
      BY <1>5, <1>10, <1>11, <2>2, <3>1
    <3>3. PlanShaped(plan2, f, done)
      BY <1>10, <3>1, <3>2, NewPlanShaped DEF Reached, First
    <3>4. q = f \/ f = 1
      <4>1. j \in byHand \/ q = f
        BY <1>3, <1>4, <1>6, <1>10, <2>2 DEF JobsGoOn, Current, RowsShaped, RowShaped, JobOf
      <4>2. j \in byHand => f = 1
        BY <1>1, <1>10 DEF Steady, First
      <4> QED BY <4>1, <4>2
    <3>5. AfterDoc(plan2, f, q)
      BY <1>4, <1>10, <3>3, <3>4, AfterDocAtFirst
    <3> QED BY <2>2, <3>2, <3>3, <3>5
  <2> QED BY <2>1, <2>2
<1>12. JobOf(sl)' = j /\ QueueOf(sl)' = q /\ job'[j] = job[j]
  BY <1>1, <1>3, <1>10 DEF JobOf, QueueOf
<1>13. SessionShaped(sl)'
  BY <1>1, <1>8, <1>10, <1>11, <1>12
     DEF SessionShaped, PlanShaped, AfterDoc, Agree, RunsFrom, Planned, NoPlan, First
<1>14. ASSUME RowCarries(held[sl]), to = "loaded"
       PROVE  \A u \in outdated' : snap'[sl].plan[u] = "run"
  <2> SUFFICES ASSUME NEW u \in outdated
               PROVE  plan2[u] = "run"
    BY <1>1, <1>10
  <2>1. IF Planned(plan) THEN plan[u] = "run" ELSE 1 \notin done
    BY <1>3, <1>10, <1>14 DEF RowCarries, Ahead, JobOf
  <2>2. u \in Stage /\ u >= 1
    BY <1>6, StagesCount DEF JobsGoOn, Current, Begun
  <2> QED BY <1>11, <1>14, <2>1, <2>2 DEF PlanShaped, RunsFrom
<1>15. \A x \in Slot \ {sl} :
         /\ step'[x] = step[x] /\ snap'[x] = snap[x] /\ todo'[x] = todo[x]
         /\ step[x] = "handling" => job'[JobOf(x)].plan = job[JobOf(x)].plan
  BY <1>1, <1>5, <1>8
<1>16. RowCarries(held[sl]) =>
         /\ step'[sl] \notin {"dispatching", "retrying", "settling"}
         /\ step'[sl] \in {"loaded", "handling"} =>
               Overplans(sl)' \/ \A u \in outdated' : snap'[sl].plan[u] = "run"
  BY <1>8, <1>14
<1>17. step[sl] # "idle" /\ sl \notin Carrying /\ UNCHANGED <<state, queue, msg, held>>
  BY <1>1 DEF Carrying
<1> QED BY <1>6, <1>7, <1>9, <1>13, <1>15, <1>16, <1>17, MoveKeepsCurrent

-----------------------------------------------------------------------------
(* A session writes its job: the others are left alone.                    *)
LEMMA WriteGoesOn ==
    ASSUME PipelineInv, PipelineInv', CurrentInv, Steady',
           NEW j \in Job, job[j].state # "none",
           NEW row, row.state # "none", First(row) = First(job[j]),
           job' = [job EXCEPT ![j] = row],
           done \subseteq done', byHand' = byHand,
           broken => broken', replanned => replanned', dropped => dropped',
           Current => PlanStep(j)
    PROVE  JobsGoOn
<1>1. job \in [Job -> JobRow] /\ NamedExist
  BY DEF PipelineInv, PipelineTypeOK, CurrentInv
<1>2. job'[j] = row /\ \A i \in Job \ {j} : job'[i] = job[i]
  BY <1>1
<1>3. Steady
  BY <1>1, <1>2, SteadyBefore
<1>4. Current /\ PlanStep(j)
  BY <1>3 DEF CurrentInv
<1>5. \A i \in Job : JobStep(i)
  BY <1>2, <1>4 DEF JobStep, PlanStep
<1> QED BY <1>1, <1>4, <1>5 DEF JobsGoOn

(* What a session has in hand.                                             *)
LEMMA InHandShaped ==
    ASSUME PipelineInv, Current, NEW sl \in Slot, step[sl] \in {"loaded", "handling"},
           NEW j, j = JobOf(sl), NEW plan, plan = job[j].plan, NEW snp, snp = snap[sl].plan,
           NEW f, f = First(job[j]), NEW q, q = QueueOf(sl), NEW r, r = held[sl]
    PROVE  /\ j \in Job /\ job[j] \in JobRow /\ job[j].state # "none"
           /\ r \in Row \ FreeRow /\ queue[r] = q /\ msg[r] = j
           /\ f \in Stage /\ q \in Stage /\ q >= f
           /\ snp \in Plan /\ Planned(snp) /\ PlanShaped(snp, f, done)
           /\ AfterDoc(snp, f, q)
           /\ snap[sl].built \in BOOLEAN
           /\ ~snap[sl].built => Planned(plan) /\ Agree(snp, plan)
           /\ Planned(plan) => PlanShaped(plan, f, done)
           /\ step[sl] = "handling" => snp[q] = "run" /\ (snap[sl].built => ~Planned(plan))
           /\ outdated \subseteq Stage
<1>1. /\ j \in Job /\ job[j] \in JobRow /\ job[j].state # "none"
      /\ snp \in Plan /\ Planned(snp) /\ snap[sl].built \in BOOLEAN
      /\ ~snap[sl].built => Planned(plan)
  BY SessionTyped
<1>2. /\ r \in Row \ FreeRow /\ queue[r] = q /\ msg[r] = j /\ f \in Stage /\ q \in Stage
  BY <1>1, HeldRow, SlotStage, FirstInStage DEF JobOf
<1>3. q >= f
  BY <1>2 DEF Current, RowsShaped, RowShaped
<1>4. /\ PlanShaped(snp, f, done) /\ AfterDoc(snp, f, q)
      /\ snap[sl].built \/ Agree(snp, plan)
      /\ step[sl] = "handling" => snp[q] = "run" /\ (snap[sl].built => ~Planned(plan))
  BY DEF Current, SessionsShaped, SessionShaped
<1>5. Planned(plan) => PlanShaped(plan, f, done)
  BY <1>1 DEF Current, PlansShaped
<1> QED BY <1>1, <1>2, <1>3, <1>4, <1>5 DEF Current, Begun

(* A handler begins, and none of another session is under way.             *)
LEMMA BeginKeepsCurrent ==
    ASSUME PipelineInv, PipelineInv', CurrentInv, NEW sl \in Slot, Begin(sl), Steady'
    PROVE  Current'
<1>1. /\ step[sl] = "loaded" /\ snap[sl].plan[QueueOf(sl)] # "skip"
      /\ step' = [step EXCEPT ![sl] = "handling"]
      /\ UNCHANGED <<job, done, outdated, snap, todo, state, queue, msg, held, byHand, dropped>>
      /\ broken' = (broken \/ \E other \in Slot : step[other] = "handling")
      /\ replanned' = (replanned \/ Overplans(sl))
  BY DEF Begin, Pass, queueVars, jobVars, opVars
<1>2. /\ step \in [Slot -> {"idle", "claimed", "loaded", "handling", "dispatching",
                            "retrying", "settling", "raised"}]
  BY DEF PipelineInv, PipelineTypeOK
<1>3. JobsGoOn
  BY <1>1, JobsUnwritten
<1>4. Begun' /\ StillAhead
  BY <1>1, <1>3, BegunStays
<1>5. (\A x \in Slot : step[x] # "handling") /\ ~Overplans(sl)
  BY <1>1 DEF Steady
<1>6. /\ \A x \in Slot \ {sl} : step'[x] = step[x]
      /\ step'[sl] = "handling"
  BY <1>1, <1>2
<1>7. OneHandler'
  BY <1>5, <1>6 DEF OneHandler
<1>8. PICK j, plan, snp, f, q, r :
        /\ j = JobOf(sl) /\ plan = job[j].plan /\ snp = snap[sl].plan
        /\ f = First(job[j]) /\ q = QueueOf(sl) /\ r = held[sl]
  OBVIOUS
<1>9. /\ f \in Stage /\ q \in Stage /\ q >= f
      /\ snp \in Plan /\ PlanShaped(snp, f, done) /\ AfterDoc(snp, f, q)
      /\ ~snap[sl].built => Planned(plan) /\ Agree(snp, plan)
  BY <1>1, <1>3, <1>8, InHandShaped DEF JobsGoOn
<1>10. snp[q] = "run"
  BY <1>1, <1>8, <1>9 DEF PlanShaped, Plan
<1>11. snap[sl].built => ~Planned(plan)
  BY <1>5, <1>8 DEF Overplans
<1>12. JobOf(sl)' = j /\ QueueOf(sl)' = q /\ job'[j] = job[j] /\ snap'[sl] = snap[sl]
  BY <1>1, <1>8 DEF JobOf, QueueOf
<1>13. SessionShaped(sl)'
  BY <1>1, <1>6, <1>8, <1>9, <1>10, <1>11, <1>12
     DEF SessionShaped, PlanShaped, AfterDoc, Agree, RunsFrom, Planned, NoPlan, First
<1>14. \A x \in Slot \ {sl} :
         /\ step'[x] = step[x] /\ snap'[x] = snap[x] /\ todo'[x] = todo[x]
         /\ step[x] = "handling" => job'[JobOf(x)].plan = job[JobOf(x)].plan
  BY <1>1, <1>6
<1>15. held[sl] \in Row /\ held[sl] = r
  BY <1>1, <1>8, HeldRow
<1>16. RowCarries(held[sl]) => \A u \in outdated : snap[sl].plan[u] = "run"
  BY <1>1, <1>5 DEF RowCarries
<1>17. RowCarries(held[sl]) =>
         /\ step'[sl] \notin {"dispatching", "retrying", "settling"}
         /\ step'[sl] \in {"loaded", "handling"} =>
               Overplans(sl)' \/ \A u \in outdated' : snap'[sl].plan[u] = "run"
  BY <1>1, <1>6, <1>16
<1>18. step[sl] # "idle" /\ sl \notin Carrying /\ UNCHANGED <<state, queue, msg, held>>
  BY <1>1 DEF Carrying
<1> QED BY <1>3, <1>4, <1>7, <1>13, <1>14, <1>17, <1>18, MoveKeepsCurrent

(* A checkpoint is reused: no stage that is outdated is passed over.       *)
LEMMA SkipKeepsCurrent ==
    ASSUME PipelineInv, PipelineInv', CurrentInv, NEW sl \in Slot, Skip(sl), Steady'
    PROVE  Current'
<1>1. step[sl] = "loaded"
  BY DEF Skip
<1>2. PICK j, plan, snp, f, q, r, next :
        /\ j = JobOf(sl) /\ plan = job[j].plan /\ snp = snap[sl].plan
        /\ f = First(job[j]) /\ q = QueueOf(sl) /\ r = held[sl]
        /\ next = NextAfter(snp, q)
  OBVIOUS
<1>3. /\ j \in Job /\ job[j] \in JobRow /\ job[j].state # "none"
      /\ snp \in Plan /\ q \in Stage
  BY <1>1, <1>2, SessionTyped
<1>4. PICK stored \in JobRow :
        /\ stored = (IF snap[sl].built THEN [job[j] EXCEPT !.plan = snp] ELSE job[j])
        /\ stored.state # "none" /\ First(stored) = f
        /\ stored.plan = (IF snap[sl].built THEN snp ELSE plan)
  <2>1. PICK old \in JobRow : old = job[j] /\ old.state # "none"
    BY <1>3
  <2>2. PICK new : new = [old EXCEPT !.plan = snp]
    OBVIOUS
  <2>3. new \in JobRow /\ new.state # "none" /\ new.plan = snp /\ First(new) = First(old)
    BY <1>3, <2>1, <2>2, WrittenRows
  <2>4. CASE snap[sl].built
    BY <1>2, <2>1, <2>2, <2>3, <2>4
  <2>5. CASE ~snap[sl].built
    BY <1>2, <2>1, <2>5
  <2> QED BY <2>4, <2>5
<1>5. PICK row : /\ row = Finalised(stored, next) /\ row.state # "none"
                 /\ row.plan = stored.plan /\ First(row) = f
  <2>1. /\ Finalised(stored, next).state # "none"
        /\ Finalised(stored, next).plan = stored.plan
        /\ First(Finalised(stored, next)) = First(stored)
    BY <1>4, FinalisedRow
  <2> QED BY <1>4, <2>1
<1>6. /\ snp[q] = "skip"
      /\ job' = [job EXCEPT ![j] = row]
      /\ job' # job => Unlocked(j)
      /\ Then(sl, next) /\ snap' = [snap EXCEPT ![sl] = Unread]
      /\ replanned' = (replanned \/ Overplans(sl))
      /\ UNCHANGED <<done, outdated, broken, dropped>>
  BY <1>2, <1>4, <1>5 DEF Skip
<1>7. UNCHANGED <<state, queue, msg, held, byHand>> /\ ~Overplans(sl)
  BY <1>6 DEF Then, Pass, queueVars, opVars, Steady
<1>8. snap[sl].built => ~Planned(plan)
  BY <1>2, <1>7 DEF Overplans
<1>9. /\ job'[j] = row /\ \A i \in Job \ {j} : job'[i] = job[i]
      /\ job \in [Job -> JobRow]
  BY <1>3, <1>6 DEF PipelineInv, PipelineTypeOK
<1>10. Current => PlanStep(j)
  <2> SUFFICES ASSUME Current
               PROVE  PlanStep(j)
    OBVIOUS
  <2>1. PlanShaped(snp, f, done)
    BY <1>1, <1>2, InHandShaped
  <2> QED BY <1>2, <1>4, <1>5, <1>6, <1>8, <1>9, <2>1 DEF PlanStep
<1>11. JobsGoOn
  BY <1>2, <1>3, <1>5, <1>6, <1>7, <1>10, WriteGoesOn
<1>12. Begun' /\ StillAhead
  BY <1>6, <1>11, BegunStays
<1>13. /\ r \in Row \ FreeRow /\ queue[r] = q /\ msg[r] = j
       /\ f \in Stage /\ q >= f
       /\ PlanShaped(snp, f, done)
       /\ ~snap[sl].built => Planned(plan) /\ Agree(snp, plan)
       /\ outdated \subseteq Stage
  BY <1>1, <1>2, <1>11, InHandShaped DEF JobsGoOn
<1>14. /\ step \in [Slot -> {"idle", "claimed", "loaded", "handling", "dispatching",
                             "retrying", "settling", "raised"}]
       /\ todo \in [Slot -> Stage \cup {NoStage}] /\ snap \in [Slot -> SessionRow]
  BY DEF PipelineInv, PipelineTypeOK
<1>15. /\ step'[sl] = (IF next = NoStage THEN "settling" ELSE "dispatching")
       /\ todo'[sl] = next
       /\ \A x \in Slot \ {sl} :
            step'[x] = step[x] /\ todo'[x] = todo[x] /\ snap'[x] = snap[x]
  BY <1>6, <1>14 DEF Then, Pass
<1>16. OneHandler'
  <2>1. \A x \in Slot : step'[x] = "handling" =>
              step[x] = "handling" /\ held'[x] = held[x] /\ msg'[held[x]] = msg[held[x]]
    BY <1>7, <1>15
  <2> QED BY <1>11, <2>1, NoHandlerBegins DEF JobsGoOn, Current
<1>17. \/ next = NoStage /\ \A t \in Stage : t > q => snp[t] # "run"
       \/ /\ next \in Stage /\ next > q /\ snp[next] = "run"
          /\ \A t \in Stage : t > q /\ t < next => snp[t] # "run"
  BY <1>2, <1>3, NextAfterIsNext
<1>18. \A t \in Stage : snp[t] = "run" => t > q
  BY <1>3, <1>6, <1>13, StagesCount DEF PlanShaped
<1>19. next # NoStage => q < next /\ AfterDoc(row.plan, f, next)
  <2> SUFFICES ASSUME next # NoStage, DocStage \in Stage, DocStage < next,
                      row.plan[DocStage] = "run"
               PROVE  FALSE
    BY <1>3, <1>17, StagesCount DEF AfterDoc
  <2>1. snp[DocStage] = "run"
    BY <1>4, <1>5, <1>13 DEF Agree
  <2> QED BY <1>17, <1>18, <2>1
<1>20. JobOf(sl)' = j /\ QueueOf(sl)' = q
  BY <1>2, <1>7 DEF JobOf, QueueOf
<1>21. SessionShaped(sl)'
  BY <1>5, <1>9, <1>15, <1>19, <1>20 DEF SessionShaped, AfterDoc, RunsFrom, First
<1>22. \A x \in Slot \ {sl} :
         /\ step'[x] = step[x] /\ snap'[x] = snap[x] /\ todo'[x] = todo[x]
         /\ step[x] = "handling" => job'[JobOf(x)].plan = job[JobOf(x)].plan
  <2> SUFFICES ASSUME NEW x \in Slot \ {sl}, step[x] = "handling"
               PROVE  job'[JobOf(x)].plan = job[JobOf(x)].plan
    BY <1>15
  <2>1. JobOf(x) \in Job
    BY HeldRow
  <2>2. CASE JobOf(x) = j
    BY <1>6, <2>2 DEF Unlocked
  <2>3. CASE JobOf(x) # j
    BY <1>9, <2>1, <2>3
  <2> QED BY <2>2, <2>3
<1>23. ASSUME RowCarries(held[sl])
       PROVE  Covered'
  <2>1. held[sl] = r /\ (\A u \in outdated : snp[u] = "run") /\ Ahead(plan, q, outdated, done)
    BY <1>1, <1>2, <1>7, <1>13, <1>23 DEF RowCarries
  <2>2. \A u \in outdated : u > q
    BY <1>13, <1>18, <2>1
  <2>3. CASE outdated = {}
    BY <1>6, <2>3 DEF Covered
  <2>4. CASE outdated # {}
    <3>1. next \in Stage /\ \A u \in outdated : next <= u
      <4>1. PICK u \in outdated : TRUE
        BY <2>4
      <4>2. next \in Stage
        BY <1>13, <1>17, <2>1, <2>2
      <4> QED BY <1>13, <1>17, <2>1, <2>2, <4>2, StagesCount
    <3>2. Planned(row.plan) /\ \A u \in outdated : row.plan[u] = "run"
      <4>1. Planned(snp)
        BY <1>1, <1>2, SessionTyped
      <4> QED BY <1>4, <1>5, <1>13, <2>1, <4>1 DEF Ahead
    <3>3. Ahead(row.plan, next, outdated, done)
      BY <3>1, <3>2 DEF Ahead
    <3>4. sl \in Carrying' /\ step'[sl] = "dispatching" /\ todo'[sl] = next
      BY <1>15, <3>1, EngineAssumption DEF Carrying
    <3>5. SlotCarries(sl)'
      BY <1>6, <1>9, <1>20, <3>3, <3>4 DEF SlotCarries, Ahead, Planned, NoPlan
    <3> QED BY <3>4, <3>5 DEF Covered
  <2> QED BY <2>3, <2>4
<1>24. step[sl] # "idle" /\ sl \notin Carrying
  BY <1>1 DEF Carrying
<1> QED BY <1>7, <1>11, <1>12, <1>16, <1>21, <1>22, <1>23, <1>24, MoveKeepsCurrent

(* A handler fails and will be tried again: its job's work is still ahead. *)
LEMMA StageFailsKeepsCurrent ==
    ASSUME PipelineInv, PipelineInv', CurrentInv, NEW sl \in Slot, StageFails(sl), Steady'
    PROVE  Current'
<1>1. step[sl] = "handling"
  BY DEF StageFails
<1>2. PICK j, plan, snp, f, q, r :
        /\ j = JobOf(sl) /\ plan = job[j].plan /\ snp = snap[sl].plan
        /\ f = First(job[j]) /\ q = QueueOf(sl) /\ r = held[sl]
  OBVIOUS
<1>3. /\ j \in Job /\ job[j] \in JobRow /\ job[j].state # "none"
  BY <1>1, <1>2, SessionTyped
<1>4. PICK row : /\ row = [Started(sl) EXCEPT !.state = "RETRYING"] /\ row.state = "RETRYING"
                 /\ row.plan = (IF snap[sl].built THEN snp ELSE plan) /\ First(row) = f
  <2>1. PICK old \in JobRow : old = Started(sl)
          /\ old.plan = (IF snap[sl].built THEN snp ELSE plan) /\ First(old) = f
    BY <1>1, <1>2, StartedRow
  <2>2. PICK new : new = [old EXCEPT !.state = "RETRYING"]
    OBVIOUS
  <2>3. new.state = "RETRYING" /\ new.plan = old.plan /\ new.resume = old.resume
    BY <2>1, <2>2 DEF JobRow
  <2>4. First(new) = f
    BY <2>1, <2>3 DEF First
  <2> QED BY <2>1, <2>2, <2>3, <2>4
<1>5. /\ job' = [job EXCEPT ![j] = row]
      /\ Pass(sl, "retrying") /\ UNCHANGED histVars
      /\ snap' = [snap EXCEPT ![sl] = Unread]
      /\ UNCHANGED <<done, outdated, todo>>
  <2>1. ~Breaks(TRUE)
    BY DEF Breaks, Steady
  <2> QED BY <1>2, <1>4, <2>1 DEF StageFails
<1>6. UNCHANGED <<state, queue, msg, held, byHand, broken, replanned, dropped>>
  BY <1>5 DEF Pass, queueVars, opVars, histVars
<1>7. /\ job'[j] = row /\ \A i \in Job \ {j} : job'[i] = job[i]
      /\ job \in [Job -> JobRow]
  BY <1>3, <1>5 DEF PipelineInv, PipelineTypeOK
<1>8. Current => PlanStep(j)
  <2> SUFFICES ASSUME Current
               PROVE  PlanStep(j)
    OBVIOUS
  <2>1. PlanShaped(snp, f, done) /\ (snap[sl].built => ~Planned(plan))
    BY <1>1, <1>2, InHandShaped
  <2> QED BY <1>2, <1>4, <1>5, <1>7, <2>1 DEF PlanStep
<1>9. JobsGoOn
  BY <1>2, <1>3, <1>4, <1>5, <1>6, <1>8, WriteGoesOn
<1>10. Begun' /\ StillAhead
  BY <1>5, <1>9, BegunStays
<1>11. /\ r \in Row \ FreeRow /\ queue[r] = q /\ msg[r] = j
       /\ f \in Stage /\ q \in Stage /\ q >= f
  BY <1>1, <1>2, <1>9, InHandShaped DEF JobsGoOn
<1>12. /\ step \in [Slot -> {"idle", "claimed", "loaded", "handling", "dispatching",
                             "retrying", "settling", "raised"}]
       /\ snap \in [Slot -> SessionRow]
  BY DEF PipelineInv, PipelineTypeOK
<1>13. /\ step'[sl] = "retrying"
       /\ \A x \in Slot \ {sl} :
            step'[x] = step[x] /\ todo'[x] = todo[x] /\ snap'[x] = snap[x]
  BY <1>5, <1>12 DEF Pass
<1>14. OneHandler'
  <2>1. \A x \in Slot : step'[x] = "handling" =>
              step[x] = "handling" /\ held'[x] = held[x] /\ msg'[held[x]] = msg[held[x]]
    BY <1>6, <1>13
  <2> QED BY <1>9, <2>1, NoHandlerBegins DEF JobsGoOn, Current
<1>15. SessionShaped(sl)'
  BY <1>13 DEF SessionShaped
<1>16. \A x \in Slot \ {sl} :
         /\ step'[x] = step[x] /\ snap'[x] = snap[x] /\ todo'[x] = todo[x]
         /\ step[x] = "handling" => job'[JobOf(x)].plan = job[JobOf(x)].plan
  <2> SUFFICES ASSUME NEW x \in Slot \ {sl}, step[x] = "handling"
               PROVE  job'[JobOf(x)].plan = job[JobOf(x)].plan
    BY <1>13
  <2>1. JobOf(x) \in Job /\ JobOf(x) # j
    BY <1>1, <1>2, <1>9, HeldRow DEF JobsGoOn, Current, OneHandler
  <2> QED BY <1>7, <2>1
<1>17. JobOf(sl)' = j /\ QueueOf(sl)' = q
  BY <1>2, <1>6 DEF JobOf, QueueOf
<1>18. ASSUME RowCarries(held[sl])
       PROVE  Covered'
  <2>1. Ahead(plan, q, outdated, done)
    BY <1>2, <1>11, <1>18 DEF RowCarries
  <2>2. Ahead(job'[j].plan, q, outdated', done')
    BY <1>2, <1>3, <1>9, <1>10, <1>11, <2>1, AheadGoesOn
  <2>3. sl \in Carrying' /\ SlotCarries(sl)'
    BY <1>13, <1>17, <2>2 DEF Carrying, SlotCarries, Ahead, Planned, NoPlan
  <2> QED BY <2>3 DEF Covered
<1>19. step[sl] # "idle" /\ sl \notin Carrying
  BY <1>1 DEF Carrying
<1> QED BY <1>6, <1>9, <1>10, <1>14, <1>15, <1>16, <1>18, <1>19, MoveKeepsCurrent

(***************************************************************************)
(* A plan under which a handler ran, with DOCPIPELINE to run in it, reuses *)
(* nothing from its job's first stage on.                                  *)
(***************************************************************************)
LEMMA RanWithDoc ==
    ASSUME NEW plan, NEW f \in Stage, NEW q \in Stage, NEW D, PlanShaped(plan, f, D),
           AfterDoc(plan, f, q), q >= f, plan[q] = "run",
           DocStage \in Stage, plan[DocStage] = "run", q # DocStage
    PROVE  RunsFrom(plan, f)
<1>1. f \in Int /\ q \in Int /\ DocStage \in Int /\ f >= 1
  BY StagesCount
<1>2. CASE DocStage < q
  BY <1>2 DEF AfterDoc
<1>3. CASE f = 1
  BY <1>3 DEF PlanShaped
<1>4. CASE f = q
  <2> SUFFICES ASSUME NEW t \in Stage, t >= f
               PROVE  plan[t] = "run"
    BY DEF RunsFrom
  <2>1. t = q \/ q < t
    BY <1>1, <1>4, StagesCount
  <2> QED BY <2>1 DEF PlanShaped
<1>5. DocStage < q \/ f = 1 \/ f = q
  BY <1>1, ReplanAssumption
<1> QED BY <1>2, <1>3, <1>4, <1>5

(* A full plan that never reuses the first stage is in any job's shape.    *)
LEMMA FullPlanShaped ==
    ASSUME NEW plan, NEW f \in Stage, NEW D, RunsFrom(plan, 1)
    PROVE  PlanShaped(plan, f, D) /\ RunsFrom(plan, f) /\ \A t \in Stage : plan[t] = "run"
<1>1. \A t \in Stage : plan[t] = "run"
  BY StagesCount DEF RunsFrom
<1> QED BY <1>1 DEF PlanShaped, RunsFrom

(***************************************************************************)
(* A handler succeeds.  What it makes outdated is all ahead of it: its     *)
(* job's plan runs every later stage, and the worker goes on to the next.  *)
(***************************************************************************)
LEMMA SucceedKeepsCurrent ==
    ASSUME PipelineInv, PipelineInv', CurrentInv, NEW sl \in Slot, Succeed(sl), Steady'
    PROVE  Current'
<1>1. step[sl] = "handling"
  BY DEF Succeed, Commit
<1>2. PICK j, plan, snp, f, q, r, new, next :
        /\ j = JobOf(sl) /\ plan = job[j].plan /\ snp = snap[sl].plan
        /\ f = First(job[j]) /\ q = QueueOf(sl) /\ r = held[sl]
        /\ new = (IF q = DocStage THEN NewPlan(NoStage, [t \in Stage |->
                                            IF t \in done' THEN <<>> ELSE NoCheckpoint])
                  ELSE snp)
        /\ next = NextAfter(new, q)
  OBVIOUS
<1>3. /\ j \in Job /\ job[j] \in JobRow /\ job[j].state # "none"
      /\ snp \in Plan /\ q \in Stage
  BY <1>1, <1>2, SessionTyped
<1>4. f \in Stage
  BY <1>2, <1>3, FirstInStage
<1>5. /\ q = DocStage => new \in Plan /\ PlanShaped(new, 1, done') /\ RunsFrom(new, 1)
      /\ q # DocStage => new = snp
  <2> SUFFICES ASSUME q = DocStage
               PROVE  new \in Plan /\ PlanShaped(new, 1, done') /\ RunsFrom(new, 1)
    BY <1>2
  <2>1. PICK from, c, D :
          /\ from \in Stage \cup {NoStage} /\ from = NoStage /\ D = done'
          /\ c = [s \in Stage |-> IF s \in D THEN <<>> ELSE NoCheckpoint]
    OBVIOUS
  <2>2. MissingBefore(from, c) = {}
    BY <2>1 DEF MissingBefore, Scope
  <2>3. new = NewPlan(from, c)
    BY <1>2, <2>1
  <2>4. PlanShaped(new, 1, D)
    BY <2>1, <2>2, <2>3, NewPlanShaped
  <2>5. new \in Plan
    BY <2>1, <2>2, <2>3, NewPlanSound
  <2> QED BY <1>3, <2>1, <2>4, <2>5 DEF PlanShaped
<1>6. new \in Plan
  BY <1>3, <1>5
<1>7. PICK row : /\ row = Finalised([Started(sl) EXCEPT !.plan = new], next)
                 /\ row.state # "none" /\ row.plan = new /\ First(row) = f
  <2>1. PICK old \in JobRow : old = Started(sl) /\ old.state # "none" /\ First(old) = f
    BY <1>1, <1>2, StartedRow
  <2>2. PICK stored : stored = [old EXCEPT !.plan = new]
    OBVIOUS
  <2>3. stored \in JobRow /\ stored.state # "none" /\ stored.plan = new /\ First(stored) = First(old)
    BY <1>6, <2>1, <2>2, WrittenRows
  <2>4. /\ Finalised(stored, next).state # "none" /\ Finalised(stored, next).plan = stored.plan
        /\ First(Finalised(stored, next)) = First(stored)
    BY <2>3, FinalisedRow
  <2> QED BY <2>1, <2>2, <2>3, <2>4
<1>8. /\ job' = [job EXCEPT ![j] = row]
      /\ Then(sl, next) /\ UNCHANGED histVars
      /\ snap' = [snap EXCEPT ![sl] = Unread]
      /\ done' = done \cup {q}
      /\ outdated' = (outdated \ {q}) \cup {t \in Stage : t > q}
  BY <1>2, <1>7 DEF Succeed, Commit
<1>9. UNCHANGED <<state, queue, msg, held, byHand, broken, replanned, dropped>>
  BY <1>8 DEF Then, Pass, queueVars, opVars, histVars
<1>10. /\ job'[j] = row /\ \A i \in Job \ {j} : job'[i] = job[i]
       /\ job \in [Job -> JobRow]
  BY <1>3, <1>8 DEF PipelineInv, PipelineTypeOK
<1>11. ASSUME Current
       PROVE  /\ PlanShaped(new, f, done') /\ snp[q] = "run" /\ q >= f
              /\ \A t \in Stage : t > q => new[t] = "run"
              /\ DocStage \in Stage /\ new[DocStage] = "run" => RunsFrom(new, f)
              /\ PlanStep(j)
  <2>1. /\ q >= f /\ PlanShaped(snp, f, done) /\ AfterDoc(snp, f, q) /\ snp[q] = "run"
        /\ ~snap[sl].built => Planned(plan) /\ Agree(snp, plan)
        /\ snap[sl].built => ~Planned(plan)
        /\ snap[sl].built \in BOOLEAN
    BY <1>1, <1>2, <1>11, InHandShaped
  <2>2. PlanShaped(new, f, done') /\ \A t \in Stage : t > q => new[t] = "run"
    <3>1. CASE q = DocStage
      BY <1>4, <1>5, <3>1, FullPlanShaped
    <3>2. CASE q # DocStage
      <4>1. PlanShaped(snp, f, done')
        BY <1>8, <2>1, ShapeStays
      <4>2. \A t \in Stage : t > q => snp[t] = "run"
        BY <1>3, <2>1 DEF PlanShaped
      <4> QED BY <1>5, <3>2, <4>1, <4>2
    <3> QED BY <3>1, <3>2
  <2>3. ASSUME DocStage \in Stage, new[DocStage] = "run"
        PROVE  RunsFrom(new, f)
    <3>1. CASE q = DocStage
      BY <1>4, <1>5, <3>1, FullPlanShaped
    <3>2. CASE q # DocStage
      BY <1>3, <1>4, <1>5, <2>1, <2>3, <3>2, RanWithDoc
    <3> QED BY <3>1, <3>2
  <2>4. PlanStep(j)
    <3>1. CASE ~Planned(plan)
      BY <1>2, <1>7, <1>10, <2>2, <3>1 DEF PlanStep
    <3>2. CASE Planned(plan) /\ q # DocStage /\ snp = plan
      BY <1>2, <1>5, <1>7, <1>10, <3>2 DEF PlanStep
    <3>3. CASE /\ Planned(plan) /\ DocStage \in Stage
               /\ plan[DocStage] = "run" /\ new[DocStage] = "run"
      BY <1>2, <1>7, <1>10, <2>2, <2>3, <3>3 DEF PlanStep
    <3>4. CASE Planned(plan) /\ q = DocStage
      <4>1. plan[DocStage] = "run"
        BY <2>1, <3>4 DEF Agree
      <4>2. new[DocStage] = "run"
        BY <1>3, <1>4, <1>5, <3>4, FullPlanShaped
      <4> QED BY <1>3, <3>3, <3>4, <4>1, <4>2
    <3>5. CASE Planned(plan) /\ q # DocStage /\ snp # plan
      BY <1>5, <2>1, <3>3, <3>5 DEF Agree
    <3> QED BY <3>1, <3>2, <3>4, <3>5
  <2> QED BY <2>1, <2>2, <2>3, <2>4
<1>12. JobsGoOn
  BY <1>2, <1>3, <1>7, <1>8, <1>9, <1>11, WriteGoesOn
<1>13. /\ PlanShaped(new, f, done') /\ q >= f
       /\ \A t \in Stage : t > q => new[t] = "run"
       /\ DocStage \in Stage /\ new[DocStage] = "run" => RunsFrom(new, f)
       /\ outdated \subseteq Stage /\ OneHandler /\ RowsShaped
       /\ (1 \in outdated) <=> (1 \notin done)
  BY <1>11, <1>12 DEF JobsGoOn, Current, Begun
<1>14. Begun' /\ outdated' \subseteq Stage
  <2>1. (1 \in outdated') <=> (1 \notin done')
    BY <1>3, <1>8, <1>13, StagesCount
  <2>2. NewJobs' # Job
    BY <1>3, <1>7, <1>10 DEF NewJobs
  <2>3. outdated' \subseteq Stage
    BY <1>8, <1>13
  <2> QED BY <2>1, <2>2, <2>3 DEF Begun
<1>15. /\ step \in [Slot -> {"idle", "claimed", "loaded", "handling", "dispatching",
                             "retrying", "settling", "raised"}]
       /\ todo \in [Slot -> Stage \cup {NoStage}] /\ snap \in [Slot -> SessionRow]
  BY DEF PipelineInv, PipelineTypeOK
<1>16. /\ step'[sl] = (IF next = NoStage THEN "settling" ELSE "dispatching")
       /\ todo'[sl] = next
       /\ \A x \in Slot \ {sl} :
            step'[x] = step[x] /\ todo'[x] = todo[x] /\ snap'[x] = snap[x]
  BY <1>8, <1>15 DEF Then, Pass
<1>17. OneHandler'
  <2>1. \A x \in Slot : step'[x] = "handling" =>
              step[x] = "handling" /\ held'[x] = held[x] /\ msg'[held[x]] = msg[held[x]]
    BY <1>9, <1>16
  <2> QED BY <1>13, <2>1, NoHandlerBegins
<1>18. \/ next = NoStage /\ \A t \in Stage : ~(t > q)
       \/ /\ next \in Stage /\ next > q
          /\ \A t \in Stage : t > q => next <= t
  <2>1. \/ next = NoStage /\ \A t \in Stage : t > q => new[t] # "run"
        \/ /\ next \in Stage /\ next > q /\ new[next] = "run"
           /\ \A t \in Stage : t > q /\ t < next => new[t] # "run"
    BY <1>2, <1>3, NextAfterIsNext
  <2> QED BY <1>13, <2>1, StagesCount
<1>19. JobOf(sl)' = j /\ QueueOf(sl)' = q
  BY <1>2, <1>9 DEF JobOf, QueueOf
<1>20. next # NoStage => q < next /\ AfterDoc(new, f, next)
  BY <1>3, <1>13, <1>18, StagesCount DEF AfterDoc
<1>21. SessionShaped(sl)'
  BY <1>7, <1>10, <1>16, <1>19, <1>20 DEF SessionShaped, AfterDoc, RunsFrom, First
<1>22. \A x \in Slot \ {sl} :
         /\ step'[x] = step[x] /\ snap'[x] = snap[x] /\ todo'[x] = todo[x]
         /\ step[x] = "handling" => job'[JobOf(x)].plan = job[JobOf(x)].plan
  <2> SUFFICES ASSUME NEW x \in Slot \ {sl}, step[x] = "handling"
               PROVE  job'[JobOf(x)].plan = job[JobOf(x)].plan
    BY <1>16
  <2>1. JobOf(x) \in Job /\ JobOf(x) # j
    BY <1>1, <1>2, <1>13, HeldRow DEF OneHandler
  <2> QED BY <1>10, <2>1
<1>23. step[sl] # "idle" /\ sl \notin Carrying
  BY <1>1 DEF Carrying
<1>24. ASSUME NEW u \in outdated, u < q
       PROVE  Current'
  <2>1. u \in Stage /\ 1 <= u
    BY <1>13, StagesCount
  <2>2. StillAhead
    <3>1. 1 \notin done => 1 \notin done'
      BY <1>3, <1>8, <1>24, <2>1, StagesCount
    <3>2. ASSUME NEW w \in outdated'
          PROVE  \E v \in outdated : v <= w
      BY <1>3, <1>8, <1>13, <1>24, <2>1, <3>2, StagesCount
    <3> QED BY <1>14, <3>1, <3>2 DEF StillAhead
  <2>3. ~RowCarries(held[sl])
    <3>1. ASSUME RowCarries(held[sl])
          PROVE  q <= u
      <4>1. Ahead(job[msg[held[sl]]].plan, queue[held[sl]], outdated, done)
        BY <3>1 DEF RowCarries
      <4>2. queue[held[sl]] = q
        BY <1>1, <1>2, HeldRow
      <4> QED BY <4>1, <4>2 DEF Ahead
    <3> QED BY <1>3, <1>24, <2>1, <3>1, StagesCount
  <2> QED BY <1>9, <1>12, <1>14, <1>17, <1>21, <1>22, <1>23, <2>2, <2>3, MoveKeepsCurrent
<1>25. ASSUME \A u \in outdated : u >= q
       PROVE  Current'
  <2>1. \A w \in outdated' : w \in Stage /\ w > q
    BY <1>3, <1>8, <1>13, <1>25, StagesCount
  <2>2. Covered'
    <3>1. CASE next = NoStage
      <4>1. \A w \in outdated' : FALSE
        BY <1>18, <2>1, <3>1, EngineAssumption
      <4>2. outdated' = {}
        BY <4>1
      <4> QED BY <4>2 DEF Covered
    <3>2. CASE next # NoStage
      <4>1. Planned(new) /\ \A w \in outdated' : next <= w /\ new[w] = "run"
        <5>1. Planned(new)
          BY <1>4, <1>13, ShapedIsPlanned
        <5> QED BY <1>13, <1>18, <2>1, <3>2, <5>1
      <4>2. Ahead(new, next, outdated', done')
        BY <4>1 DEF Ahead
      <4>3. sl \in Carrying' /\ step'[sl] = "dispatching" /\ todo'[sl] = next
        BY <1>16, <3>2 DEF Carrying
      <4>4. SlotCarries(sl)'
        BY <1>7, <1>10, <1>19, <4>2, <4>3 DEF SlotCarries, Ahead, Planned, NoPlan
      <4> QED BY <4>3, <4>4 DEF Covered
    <3> QED BY <3>1, <3>2
  <2>3. FreeRow' = FreeRow
    BY <1>9 DEF FreeRow
  <2>4. \A y \in Row \ FreeRow' :
          \/ RowShaped(y)'
          \/ /\ y \notin FreeRow /\ state'[y] # "dead"
             /\ queue'[y] = queue[y] /\ msg'[y] = msg[y]
    BY <1>9, <1>13, <2>3 DEF RowsShaped, RowShaped
  <2>5. \A x \in Slot :
          \/ SessionShaped(x)'
          \/ /\ SlotStays(x)
             /\ step[x] = "handling" => job'[JobOf(x)].plan = job[JobOf(x)].plan
    BY <1>9, <1>21, <1>22 DEF SlotStays
  <2>6. PlansShaped' /\ RowsShaped' /\ SessionsShaped'
    BY <1>12, <2>4, <2>5, ShapesStay
  <2> QED BY <1>14, <1>17, <2>2, <2>6 DEF Current
<1>26. \A u \in outdated : u < q \/ u >= q
  BY <1>3, <1>13, StagesCount
<1> QED BY <1>24, <1>25, <1>26

-----------------------------------------------------------------------------
(* The next stage is enqueued, or the retry: its row carries on.           *)
LEMMA EnqueuesKeepsCurrent ==
    ASSUME PipelineInv, PipelineInv', CurrentInv, NEW sl \in Slot, Enqueues(sl), Steady'
    PROVE  Current'
<1>1. /\ step[sl] \in {"dispatching", "retrying"}
      /\ step' = [step EXCEPT ![sl] = "settling"]
      /\ todo' = [todo EXCEPT ![sl] = NoStage]
      /\ UNCHANGED <<job, done, outdated, snap, byHand, broken, replanned, dropped>>
  BY DEF Enqueues, jobVars, opVars, histVars
<1>2. /\ step \in [Slot -> {"idle", "claimed", "loaded", "handling", "dispatching",
                            "retrying", "settling", "raised"}]
      /\ todo \in [Slot -> Stage \cup {NoStage}]
  BY DEF PipelineInv, PipelineTypeOK
<1>3. JobsGoOn
  BY <1>1, JobsUnwritten
<1>4. Begun' /\ StillAhead
  BY <1>1, <1>3, BegunStays
<1>5. PICK j, s, f, plan : /\ j = JobOf(sl) /\ plan = job[j].plan /\ f = First(job[j])
                           /\ s = IF step[sl] = "dispatching" THEN todo[sl] ELSE QueueOf(sl)
  OBVIOUS
<1>6. /\ held[sl] \in Row \ FreeRow /\ queue[held[sl]] = QueueOf(sl) /\ msg[held[sl]] = j
      /\ j \in Job /\ job[j] \in JobRow /\ job[j].state # "none"
  BY <1>1, <1>5, HeldRow DEF JobOf
<1>7. s \in Stage /\ s >= f
  BY <1>1, <1>3, <1>5, HeldAhead DEF JobsGoOn, Current
<1>8. Planned(plan) /\ AfterDoc(plan, f, s)
  <2>1. CASE step[sl] = "dispatching"
    BY <1>3, <1>5, <2>1 DEF JobsGoOn, Current, SessionsShaped, SessionShaped,
                            PipelineInv, SessionsSound, SessionSound
  <2>2. CASE step[sl] = "retrying"
    <3>1. Planned(plan)
      BY <1>5, <2>2 DEF PipelineInv, SessionsSound, SessionSound
    <3>2. RowShaped(held[sl])
      BY <1>3, <1>6 DEF JobsGoOn, Current, RowsShaped
    <3> QED BY <1>5, <1>6, <2>2, <3>1, <3>2 DEF RowShaped
  <2> QED BY <1>1, <2>1, <2>2
<1>9. PICK a : Post(j, s, a)
  BY <1>1, <1>5 DEF Enqueues
<1>10. UNCHANGED held
  BY <1>9, PostedRow
<1>11. PICK r \in FreeRow : /\ r \in Row /\ state'[r] = "pending"
                            /\ queue'[r] = s /\ msg'[r] = j
                            /\ \A x \in Slot : held'[x] # r
                            /\ FreeRow \ FreeRow' \subseteq {r}
                            /\ \A q \in Row \ {r} : /\ queue'[q] = queue[q]
                                                    /\ msg'[q] = msg[q]
                                                    /\ state'[q] = state[q]
  BY <1>9, PostedRow
<1>12. RowShaped(r)'
  BY <1>1, <1>5, <1>7, <1>8, <1>11 DEF RowShaped, Planned, NoPlan, First, AfterDoc, RunsFrom
<1>13. /\ step'[sl] = "settling"
       /\ \A x \in Slot \ {sl} : step'[x] = step[x] /\ todo'[x] = todo[x]
  BY <1>1, <1>2
<1>14. ASSUME NEW x \in Slot, held[x] # NoRow
       PROVE  held[x] \in Row \ {r} /\ queue'[held[x]] = queue[held[x]]
              /\ msg'[held[x]] = msg[held[x]]
  BY <1>10, <1>11, <1>14 DEF PipelineInv, PipelineTypeOK, TypeOK
<1>15. OneHandler'
  <2>1. \A x \in Slot : step'[x] = "handling" =>
              step[x] = "handling" /\ held'[x] = held[x] /\ msg'[held[x]] = msg[held[x]]
    BY <1>10, <1>13, <1>14, HeldRow
  <2> QED BY <1>3, <2>1, NoHandlerBegins DEF JobsGoOn, Current
<1>16. PICK L \in SUBSET Slot : L = {sl}
  OBVIOUS
<1>17. \A x \in Slot \ L : /\ SlotStays(x)
                           /\ step[x] = "handling" => job'[JobOf(x)].plan = job[JobOf(x)].plan
  BY <1>1, <1>10, <1>13, <1>14, <1>16 DEF SlotStays
<1>18. \A x \in L : SessionShaped(x)'
  BY <1>13, <1>16 DEF SessionShaped
<1>19. \A q \in Row \ FreeRow' :
         \/ RowShaped(q)'
         \/ /\ q \notin FreeRow /\ state'[q] # "dead"
            /\ queue'[q] = queue[q] /\ msg'[q] = msg[q]
  BY <1>3, <1>11, <1>12 DEF JobsGoOn, Current, RowsShaped, RowShaped
<1>20. NewJobs = Job => Covered'
  BY <1>1, WorkHasJob
<1>21. ASSUME SlotCarries(sl)
       PROVE  Covered'
  <2>1. Ahead(plan, s, outdated, done)
    BY <1>5, <1>21 DEF SlotCarries
  <2>2. RowCarries(r)'
    BY <1>1, <1>5, <1>11, <2>1 DEF RowCarries, Ahead, Planned, NoPlan
  <2> QED BY <1>11, <2>2 DEF Covered
<1>22. \A x \in L \cap Carrying : SlotCarries(x) => Covered'
  BY <1>16, <1>21
<1>23. ASSUME NEW q \in Row, RowCarries(q)
       PROVE  /\ state'[q] \in {"pending", "claimed"}
              /\ queue'[q] = queue[q] /\ msg'[q] = msg[q]
              /\ \A x \in L : held'[x] = q =>
                    /\ step'[x] \notin {"dispatching", "retrying", "settling"}
                    /\ step'[x] \in {"loaded", "handling"} =>
                          Overplans(x)' \/ \A u \in outdated' : snap'[x].plan[u] = "run"
  <2>1. q \notin FreeRow /\ held[sl] # q /\ state[q] \in {"pending", "claimed"}
    BY <1>1, <1>23 DEF RowCarries, FreeRow
  <2>2. q \in Row \ {r}
    BY <1>11, <2>1
  <2> QED BY <1>10, <1>11, <1>16, <2>1, <2>2
<1> QED BY <1>3, <1>4, <1>15, <1>17, <1>18, <1>19, <1>20, <1>22, <1>23, StepKeepsCurrent

(* A row is settled: it was no carrier any more.                           *)
LEMMA SettleKeepsCurrent ==
    ASSUME PipelineInv, PipelineInv', CurrentInv, NEW sl \in Slot, Settle(sl), Steady'
    PROVE  Current'
<1>1. /\ step[sl] = "settling" /\ step' = [step EXCEPT ![sl] = "idle"]
      /\ state' = [state EXCEPT ![held[sl]] = "done"]
      /\ held' = [held EXCEPT ![sl] = NoRow]
      /\ UNCHANGED <<job, done, outdated, queue, msg, snap, todo, byHand,
                     broken, replanned, dropped>>
  BY DEF Settle, Complete, Release, jobVars, opVars, histVars
<1>2. /\ step \in [Slot -> {"idle", "claimed", "loaded", "handling", "dispatching",
                            "retrying", "settling", "raised"}]
      /\ state \in [Row -> RowState] /\ held \in [Slot -> Row \cup {NoRow}]
      /\ held[sl] \in Row
  BY <1>1, HeldRow DEF PipelineInv, PipelineTypeOK, TypeOK
<1>3. JobsGoOn
  BY <1>1, JobsUnwritten
<1>4. Begun' /\ StillAhead
  BY <1>1, <1>3, BegunStays
<1>5. /\ step'[sl] = "idle" /\ held'[sl] = NoRow /\ state'[held[sl]] = "done"
      /\ \A x \in Slot \ {sl} : step'[x] = step[x] /\ held'[x] = held[x]
      /\ \A r \in Row : r # held[sl] => state'[r] = state[r]
  BY <1>1, <1>2
<1>6. OneHandler'
  <2>1. \A x \in Slot : step'[x] = "handling" =>
              step[x] = "handling" /\ held'[x] = held[x] /\ msg'[held[x]] = msg[held[x]]
    BY <1>1, <1>5
  <2> QED BY <1>3, <2>1, NoHandlerBegins DEF JobsGoOn, Current
<1>7. PICK L \in SUBSET Slot : L = {sl}
  OBVIOUS
<1>8. \A x \in Slot \ L : /\ SlotStays(x)
                          /\ step[x] = "handling" => job'[JobOf(x)].plan = job[JobOf(x)].plan
  BY <1>1, <1>5, <1>7 DEF SlotStays
<1>9. \A x \in L : SessionShaped(x)'
  BY <1>5, <1>7 DEF SessionShaped
<1>10. \A r \in Row \ FreeRow' :
         /\ r \notin FreeRow /\ state'[r] # "dead"
         /\ queue'[r] = queue[r] /\ msg'[r] = msg[r]
  <2>1. FreeRow \subseteq FreeRow'
    BY <1>2, <1>5, QueueAssumption DEF FreeRow
  <2> QED BY <1>1, <1>3, <1>5, <2>1 DEF JobsGoOn, Current, RowsShaped, RowShaped
<1>11. NewJobs = Job => Covered'
  BY <1>1, WorkHasJob
<1>12. \A x \in L \cap Carrying : FALSE
  BY <1>1, <1>7 DEF Carrying
<1>13. ASSUME NEW r \in Row, RowCarries(r)
       PROVE  /\ state'[r] \in {"pending", "claimed"}
              /\ queue'[r] = queue[r] /\ msg'[r] = msg[r]
              /\ \A x \in L : held'[x] # r
  <2>1. held[sl] # r /\ state[r] \in {"pending", "claimed"}
    BY <1>1, <1>13 DEF RowCarries
  <2> QED BY <1>1, <1>5, <1>7, <2>1, QueueAssumption
<1> QED BY <1>3, <1>4, <1>6, <1>8, <1>9, <1>10, <1>11, <1>12, <1>13, StepKeepsCurrent

(* A worker that lets go of a row nobody else holds leaves its work to it. *)
LEMMA RowTakesOver ==
    ASSUME PipelineInv, Current, NEW x \in Carrying, SlotCarries(x),
           UNCHANGED <<job, done, outdated, queue, msg>>,
           state'[held[x]] \in {"pending", "claimed"},
           \A y \in Slot : held'[y] # held[x]
    PROVE  Covered'
<1>1. PICK p, q, r, j : /\ p = (IF step[x] = "dispatching" THEN todo[x] ELSE QueueOf(x))
                        /\ q = QueueOf(x) /\ r = held[x] /\ j = JobOf(x)
  OBVIOUS
<1>2. x \in Slot /\ step[x] # "idle"
  BY DEF Carrying
<1>3. r \in Row /\ queue[r] = q /\ msg[r] = j
  BY <1>1, <1>2, HeldRow DEF JobOf
<1>4. p \in Stage /\ q \in Stage /\ p >= q /\ outdated \subseteq Stage
  BY <1>1, <1>2, HeldAhead, SlotStage DEF Current, Begun
<1>5. Ahead(job[j].plan, p, outdated, done)
  BY <1>1 DEF SlotCarries
<1>6. Ahead(job[j].plan, q, outdated, done)
  BY <1>4, <1>5, StagesCount DEF Ahead
<1>7. RowCarries(r)'
  BY <1>1, <1>3, <1>6 DEF RowCarries, Ahead, Planned, NoPlan
<1> QED BY <1>3, <1>7 DEF Covered

(* A row is given back, and is claimed again.                              *)
LEMMA GiveBackKeepsCurrent ==
    ASSUME PipelineInv, PipelineInv', CurrentInv, NEW sl \in Slot, GiveBack(sl), Steady'
    PROVE  Current'
<1>1. /\ step[sl] = "raised"
      /\ UNCHANGED <<job, done, outdated, msg, snap, todo, byHand>>
  BY DEF GiveBack, jobVars, opVars
<1>2. /\ step \in [Slot -> {"idle", "claimed", "loaded", "handling", "dispatching",
                            "retrying", "settling", "raised"}]
      /\ state \in [Row -> RowState] /\ held \in [Slot -> Row \cup {NoRow}]
      /\ held[sl] \in Row
  BY <1>1, HeldRow DEF PipelineInv, PipelineTypeOK, TypeOK
<1>3. CASE FailRead(sl) /\ UNCHANGED <<step, histVars>>
  <2>1. UNCHANGED <<job, done, outdated, state, msg, queue, step, snap, todo, held, byHand,
                    broken, replanned, dropped>>
    BY <1>1, <1>3 DEF FailRead, rowVars, histVars
  <2>2. JobsGoOn
    BY <2>1, JobsUnwritten
  <2>3. \A r \in Row \ FreeRow : state[r] # "dead"
    BY <2>2 DEF JobsGoOn, Current, RowsShaped, RowShaped
  <2>4. FreeRow' = FreeRow
    BY <2>1 DEF FreeRow
  <2>5. NewJobs = Job => Covered'
    BY <2>1 DEF NewJobs, Covered
  <2> QED BY <2>1, <2>2, <2>3, <2>4, <2>5, StillKeepsCurrent
<1>4. CASE /\ FailWrite(sl) /\ step' = [step EXCEPT ![sl] = "idle"]
           /\ broken' = (broken \/ state'[held[sl]] = "dead")
           /\ dropped' = (dropped \/ \E other \in Slot \ {sl} : held[other] = held[sl])
           /\ UNCHANGED replanned
  <2>1. /\ step'[sl] = "idle" /\ held'[sl] = NoRow /\ state'[held[sl]] = "pending"
        /\ \A x \in Slot \ {sl} : step'[x] = step[x] /\ held'[x] = held[x]
        /\ \A r \in Row : r # held[sl] => state'[r] = state[r]
        /\ UNCHANGED queue
    BY <1>2, <1>4 DEF FailWrite, Release, Steady
  <2>2. \A x \in Slot \ {sl} : held[x] # held[sl]
    BY <1>4 DEF Steady
  <2>3. JobsGoOn
    BY <1>1, <1>4, JobsUnwritten
  <2>4. Begun' /\ StillAhead
    BY <1>1, <2>3, BegunStays
  <2>5. OneHandler'
    <3>1. \A x \in Slot : step'[x] = "handling" =>
                step[x] = "handling" /\ held'[x] = held[x] /\ msg'[held[x]] = msg[held[x]]
      BY <1>1, <2>1
    <3> QED BY <2>3, <3>1, NoHandlerBegins DEF JobsGoOn, Current
  <2>6. PICK L \in SUBSET Slot : L = {sl}
    OBVIOUS
  <2>7. \A x \in Slot \ L : /\ SlotStays(x)
                            /\ step[x] = "handling" => job'[JobOf(x)].plan = job[JobOf(x)].plan
    BY <1>1, <2>1, <2>6 DEF SlotStays
  <2>8. \A x \in L : SessionShaped(x)'
    BY <2>1, <2>6 DEF SessionShaped
  <2>9. \A r \in Row \ FreeRow' :
          /\ r \notin FreeRow /\ state'[r] # "dead"
          /\ queue'[r] = queue[r] /\ msg'[r] = msg[r]
    <3>1. \A r \in FreeRow : r # held[sl] /\ r \in FreeRow'
      BY <1>2, <2>1, QueueAssumption DEF FreeRow
    <3> QED BY <1>1, <2>1, <2>3, <3>1 DEF JobsGoOn, Current, RowsShaped, RowShaped
  <2>10. NewJobs = Job => Covered'
    BY <1>1, WorkHasJob
  <2>11. \A y \in Slot : held'[y] # held[sl]
    BY <1>2, <2>1, <2>2, QueueAssumption
  <2>12. ASSUME sl \in Carrying, SlotCarries(sl)
         PROVE  Covered'
    BY <1>1, <2>1, <2>3, <2>11, <2>12, RowTakesOver DEF JobsGoOn
  <2>13. \A x \in L \cap Carrying : SlotCarries(x) => Covered'
    BY <2>6, <2>12
  <2>14. ASSUME NEW r \in Row, RowCarries(r)
         PROVE  /\ state'[r] \in {"pending", "claimed"}
                /\ queue'[r] = queue[r] /\ msg'[r] = msg[r]
                /\ \A x \in L : held'[x] # r
    BY <1>1, <2>1, <2>6, <2>14, QueueAssumption DEF RowCarries
  <2> QED BY <2>3, <2>4, <2>5, <2>7, <2>8, <2>9, <2>10, <2>13, <2>14, StepKeepsCurrent
<1> QED BY <1>3, <1>4 DEF GiveBack

(* A worker process dies: what it carried is left to its row, which nobody *)
(* else has settled or holds.                                              *)
LEMMA DiesKeepsCurrent ==
    ASSUME PipelineInv, PipelineInv', HeldPresent, CurrentInv, NEW p \in Proc, Dies(p), Steady'
    PROVE  Current'
<1>1. PICK L \in SUBSET Slot : L = SlotsOf(p)
  BY DEF SlotsOf
<1>2. /\ held' = [sl \in Slot |-> IF sl \in L THEN NoRow ELSE held[sl]]
      /\ step' = [sl \in Slot |-> IF sl \in L THEN "idle" ELSE step[sl]]
      /\ snap' = [sl \in Slot |-> IF sl \in L THEN Unread ELSE snap[sl]]
      /\ todo' = [sl \in Slot |-> IF sl \in L THEN NoStage ELSE todo[sl]]
      /\ dropped' = (dropped \/ \E sl \in L :
                         step[sl] \in {"dispatching", "retrying", "raised"} /\ Overtaken(sl))
      /\ UNCHANGED <<job, done, outdated, state, queue, msg, byHand, broken, replanned>>
  BY <1>1 DEF Dies, Crash, rowVars, jobVars, opVars
<1>3. /\ state \in [Row -> RowState] /\ held \in [Slot -> Row \cup {NoRow}]
  BY DEF PipelineInv, PipelineTypeOK, TypeOK
<1>4. /\ \A x \in L : step'[x] = "idle" /\ held'[x] = NoRow
      /\ \A x \in Slot \ L : /\ step'[x] = step[x] /\ held'[x] = held[x]
                             /\ snap'[x] = snap[x] /\ todo'[x] = todo[x]
  BY <1>2
<1>5. JobsGoOn
  BY <1>2, JobsUnwritten
<1>6. Begun' /\ StillAhead
  BY <1>2, <1>5, BegunStays
<1>7. OneHandler'
  <2>1. \A x \in Slot : step'[x] = "handling" =>
              step[x] = "handling" /\ held'[x] = held[x] /\ msg'[held[x]] = msg[held[x]]
    BY <1>2, <1>4
  <2> QED BY <1>5, <2>1, NoHandlerBegins DEF JobsGoOn, Current
<1>8. \A x \in Slot \ L : /\ SlotStays(x)
                          /\ step[x] = "handling" => job'[JobOf(x)].plan = job[JobOf(x)].plan
  BY <1>2, <1>4 DEF SlotStays
<1>9. \A x \in L : SessionShaped(x)'
  BY <1>4 DEF SessionShaped
<1>10. \A r \in Row \ FreeRow' :
         /\ r \notin FreeRow /\ state'[r] # "dead"
         /\ queue'[r] = queue[r] /\ msg'[r] = msg[r]
  <2>1. FreeRow \subseteq FreeRow'
    BY <1>2, <1>4, QueueAssumption DEF FreeRow
  <2> QED BY <1>2, <1>5, <2>1 DEF JobsGoOn, Current, RowsShaped, RowShaped
<1>11. NewJobs = Job => Covered'
  BY <1>2 DEF NewJobs, Covered
<1>12. ASSUME NEW x \in L \cap Carrying, SlotCarries(x)
       PROVE  Covered'
  <2>1. x \in Slot /\ step[x] \in {"dispatching", "retrying", "raised"}
    BY DEF Carrying
  <2>2. held[x] \in Row \ FreeRow
    BY <2>1, HeldRow
  <2>3. state[held[x]] # "done" /\ \A other \in Slot \ {x} : held[other] # held[x]
    BY <1>2, <2>1 DEF Steady, Overtaken
  <2>4. state[held[x]] # "dead"
    BY <1>5, <2>2 DEF JobsGoOn, Current, RowsShaped, RowShaped
  <2>5. state'[held[x]] \in {"pending", "claimed"}
    BY <1>2, <1>3, <2>1, <2>2, <2>3, <2>4 DEF HeldPresent, RowState
  <2>6. \A y \in Slot : held'[y] # held[x]
    BY <1>2, <1>4, <2>2, <2>3, QueueAssumption
  <2> QED BY <1>2, <1>5, <1>12, <2>5, <2>6, RowTakesOver DEF JobsGoOn
<1>13. ASSUME NEW r \in Row, RowCarries(r)
       PROVE  /\ state'[r] \in {"pending", "claimed"}
              /\ queue'[r] = queue[r] /\ msg'[r] = msg[r]
              /\ \A x \in L : held'[x] # r
  BY <1>2, <1>4, <1>13, QueueAssumption DEF RowCarries
<1> QED BY <1>5, <1>6, <1>7, <1>8, <1>9, <1>10, <1>11, <1>12, <1>13, StepKeepsCurrent

-----------------------------------------------------------------------------
(* At first no job exists and nothing has been done.                       *)
LEMMA InitCurrent == Init => CurrentInv
<1> SUFFICES ASSUME Init PROVE CurrentInv
  OBVIOUS
<1>1. /\ \A j \in Job : job[j].state = "none" /\ job[j].plan = NoPlan
      /\ done = {} /\ outdated = Stage /\ byHand = {}
      /\ sweeping = NoJob /\ cancelling = NoJob
      /\ \A sl \in Slot : step[sl] = "idle" /\ held[sl] = NoRow
      /\ \A r \in Row : state[r] = "absent"
  BY DEF Init, QueueInit, NewJob
<1>2. NamedExist
  BY <1>1 DEF NamedExist
<1>3. PlansShaped
  BY <1>1 DEF PlansShaped, Planned
<1>4. FreeRow = Row
  BY <1>1, QueueAssumption DEF FreeRow
<1>5. RowsShaped
  BY <1>4 DEF RowsShaped
<1>6. SessionsShaped /\ OneHandler
  BY <1>1 DEF SessionsShaped, SessionShaped, OneHandler
<1>7. NewJobs = Job
  BY <1>1 DEF NewJobs
<1>8. Begun
  BY <1>1, EngineAssumption DEF Begun, Stage
<1> QED BY <1>2, <1>3, <1>5, <1>6, <1>7, <1>8 DEF CurrentInv, Current, Covered

(* A step of a worker that has a row in hand.                              *)
LEMMA RunStepKeepsCurrent ==
    ASSUME PipelineInv, PipelineInv', CurrentInv, NEW sl \in Slot, RunStep(sl), Steady'
    PROVE  Current'
<1>1. ~Halt(sl) /\ ~EnqueueFails(sl)
  BY DEF Halt, EnqueueFails, Breaks, Steady
<1> QED BY <1>1, LoadKeepsCurrent, SkipKeepsCurrent, BeginKeepsCurrent, SucceedKeepsCurrent,
           StageFailsKeepsCurrent, EnqueuesKeepsCurrent, RaiseKeepsCurrent, SettleKeepsCurrent,
           GiveBackKeepsCurrent
        DEF RunStep

(* No step leaves behind what is outdated.                                 *)
LEMMA NextKeepsCurrent ==
    ASSUME PipelineInv, PipelineInv', CarryInv, CurrentInv, [Next]_pipeVars
    PROVE  CurrentInv'
<1>1. NamedExist'
  BY NamedKept DEF CurrentInv
<1>2. ASSUME Steady'
      PROVE  Current'
  <2>1. CASE \E sl \in Slot, r \in Row : ClaimRow(sl, r)
    BY <1>2, <2>1, ClaimRowKeepsCurrent
  <2>2. CASE \E sl \in Slot : RunStep(sl)
    BY <1>2, <2>2, RunStepKeepsCurrent
  <2>3. CASE \E p \in Proc : Dies(p)
    BY <1>2, <2>3, DiesKeepsCurrent DEF CarryInv
  <2>4. CASE SweepStep
    BY <1>2, <2>4, SweepKeepsCurrent
  <2>5. CASE UserStep
    BY <1>2, <2>5, UserKeepsCurrent
  <2>6. CASE UNCHANGED pipeVars
    <3>1. UNCHANGED <<job, done, outdated, state, msg, queue, step, snap, todo, held, byHand,
                      broken, replanned, dropped>>
      BY <2>6 DEF pipeVars, queueVars, jobVars, opVars, histVars
    <3>2. JobsGoOn
      BY <1>2, <3>1, JobsUnwritten
    <3>3. \A r \in Row \ FreeRow : state[r] # "dead"
      BY <3>2 DEF JobsGoOn, Current, RowsShaped, RowShaped
    <3>4. FreeRow' = FreeRow
      BY <3>1 DEF FreeRow
    <3>5. NewJobs = Job => Covered'
      BY <3>1 DEF NewJobs, Covered
    <3> QED BY <3>1, <3>2, <3>3, <3>4, <3>5, StillKeepsCurrent
  <2> QED BY <2>1, <2>2, <2>3, <2>4, <2>5, <2>6 DEF Next
<1> QED BY <1>1, <1>2 DEF CurrentInv

(***************************************************************************)
(* When nothing is left to do, no stage is older than a stage before it,   *)
(* unless a chain of stages stopped before the last one, the handlers of   *)
(* two jobs overlapped, a plan was replaced, an enqueue was lost with an   *)
(* overtaken worker, or the CLI reached into a job that does not start     *)
(* from the first stage: what a commit makes outdated lies ahead of a row  *)
(* or of a worker that has still to come by it.                            *)
(***************************************************************************)
THEOREM AlwaysCurrentAtRest == Spec => []CurrentAtRest
<1>1. PipelineInv /\ CurrentInv => CurrentAtRest
  <2> SUFFICES ASSUME PipelineInv, CurrentInv, AtRest, ~broken, ~replanned, ~dropped,
                      ByHandFromTheStart
               PROVE  outdated \in {{}, Stage}
    BY DEF CurrentAtRest
  <2>1. Steady
    BY DEF Steady, ByHandFromTheStart, First
  <2>2. Covered /\ Begun
    BY <2>1 DEF CurrentInv, Current
  <2>3. ASSUME NEW r \in Row, RowCarries(r)
        PROVE  FALSE
    <3>1. r \in Row \ FreeRow /\ state[r] \in {"pending", "claimed"}
      BY <2>3 DEF RowCarries, FreeRow
    <3>2. msg[r] \in Job /\ job[msg[r]].state # "none"
      BY <3>1 DEF PipelineInv, PipelineTypeOK, RowsFollow, RowFollows
    <3>3. Live(msg[r]) = {}
      BY <3>2 DEF AtRest
    <3> QED BY <3>1, <3>3 DEF Live
  <2>4. ASSUME NEW sl \in Carrying
        PROVE  FALSE
    <3>1. sl \in Slot /\ step[sl] # "idle"
      BY DEF Carrying
    <3>2. JobOf(sl) \in Job /\ job[JobOf(sl)].state # "none"
      BY <3>1, HeldRow
    <3> QED BY <3>1, <3>2 DEF AtRest, Busy
  <2>5. outdated = {} \/ NewJobs = Job
    BY <2>2, <2>3, <2>4 DEF Covered
  <2> QED BY <2>2, <2>5 DEF Begun
<1> QED BY InitCurrent, PipelineInvariant, CarryAlways, NextKeepsCurrent, <1>1, PTL DEF Spec

=============================================================================
