----------------------------- MODULE StageQueue -----------------------------
(***************************************************************************)
(* The Postgres stage queue (orchestrator/queue.py, PostgresQueueDriver)   *)
(* and the claim loop of the worker processes that drain it (cli.py,       *)
(* _worker_loop and _run_claimed).                                         *)
(*                                                                         *)
(* A row is claimed in a transaction that commits before the stage runs:   *)
(* the claim is a lease, not a lock.  Nothing ties a settlement to the     *)
(* lease it belongs to: complete() and fail() address the row by its id,   *)
(* whoever holds it by then.  A worker that outlives its lease therefore   *)
(* settles a row that another worker is running.                           *)
(*                                                                         *)
(* Priorities and available_at only order the claims; a claim here takes   *)
(* any pending row of the queue, which allows every order.                 *)
(***************************************************************************)
EXTENDS Naturals, FiniteSets

CONSTANTS Row,          \* identities of stage_queue rows
          Proc,         \* worker processes
          Queue,        \* one queue per pipeline stage
          Cap,          \* Cap[q]: WORKER_CONCURRENCY_* of a process for q
          MaxAttempts,  \* QUEUE_MAX_ATTEMPTS
          NoRow         \* what an idle slot holds

ASSUME QueueAssumption ==
    /\ MaxAttempts \in Nat \ {0}
    /\ Cap \in [Queue -> Nat \ {0}]
    /\ NoRow \notin Row

(***************************************************************************)
(* A process runs at most Cap[q] stages of queue q at a time: it has that  *)
(* many slots for it, and claims only into a free one.                     *)
(***************************************************************************)
Slot == UNION { {<<p, q, i>> : p \in Proc, i \in 1..Cap[q]} : q \in Queue }

SlotsOf(p) == {sl \in Slot : sl[1] = p}
QueueOf(sl) == sl[2]

VARIABLES
    state,      \* state[r]: StageQueueState of the row, "absent" before its INSERT
    queue,      \* queue[r]: the stage the row is for
    attempt,    \* attempt[r]: the attempt column
    phase,      \* phase[sl]: "idle", "running" or "failing" (inside fail())
    held,       \* held[sl]: the row the slot runs
    got,        \* got[sl]: the attempt the claim returned
    seen,       \* seen[sl]: the attempt fail() has read and not yet written back
    delivered   \* delivered[r]: history, the attempts the row was claimed at

rowVars == <<state, queue, attempt>>
slotVars == <<phase, held, got, seen>>
queueVars == <<state, queue, attempt, phase, held, got, seen, delivered>>

RowState == {"absent", "pending", "claimed", "done", "dead"}
Settled == {"done", "dead"}

TypeOK ==
    /\ state \in [Row -> RowState]
    /\ queue \in [Row -> Queue]
    /\ attempt \in [Row -> 1..MaxAttempts + 1]
    /\ phase \in [Slot -> {"idle", "running", "failing"}]
    /\ held \in [Slot -> Row \cup {NoRow}]
    /\ got \in [Slot -> 0..MaxAttempts]
    /\ seen \in [Slot -> 0..MaxAttempts + 1]
    /\ delivered \in [Row -> SUBSET (1..MaxAttempts)]
    /\ \A sl \in Slot : (phase[sl] = "idle") <=> (held[sl] = NoRow)

QueueInit ==
    /\ state = [r \in Row |-> "absent"]
    /\ queue \in [Row -> Queue]
    /\ attempt = [r \in Row |-> 1]
    /\ phase = [sl \in Slot |-> "idle"]
    /\ held = [sl \in Slot |-> NoRow]
    /\ got = [sl \in Slot |-> 0]
    /\ seen = [sl \in Slot |-> 0]
    /\ delivered = [r \in Row |-> {}]

-----------------------------------------------------------------------------
(***************************************************************************)
(* The INSERT of enqueue().  A second INSERT of one dispatch_id does       *)
(* nothing (ON CONFLICT DO NOTHING), so it is a stuttering step.           *)
(***************************************************************************)
Insert(r, a) ==
    /\ state' = [state EXCEPT ![r] = "pending"]
    /\ attempt' = [attempt EXCEPT ![r] = a]

Enqueue(r) ==
    /\ state[r] = "absent"
    /\ \E a \in 1..MaxAttempts : Insert(r, a)
    /\ UNCHANGED <<queue, slotVars, delivered>>

(***************************************************************************)
(* fail() is two statements, a SELECT of the attempt and an UPDATE that    *)
(* writes attempt + 1 back.  TIMING ASSUMPTION: this short transaction     *)
(* does not last as long as the backoff it writes or as the 45 minute      *)
(* lease, so the row is neither handed out nor reclaimed inside it.  Two   *)
(* fail() calls on one row may still overlap.                              *)
(***************************************************************************)
NotBeingFailed(r) == \A sl \in Slot : phase[sl] = "failing" => held[sl] # r

(***************************************************************************)
(* claim(): UPDATE ... FROM a FOR UPDATE SKIP LOCKED selection.  A claim   *)
(* of several rows is that many steps.                                     *)
(***************************************************************************)
Claim(sl, r) ==
    /\ phase[sl] = "idle"
    /\ state[r] = "pending"
    /\ queue[r] = QueueOf(sl)
    /\ NotBeingFailed(r)
    /\ state' = [state EXCEPT ![r] = "claimed"]
    /\ phase' = [phase EXCEPT ![sl] = "running"]
    /\ held' = [held EXCEPT ![sl] = r]
    /\ got' = [got EXCEPT ![sl] = attempt[r]]
    /\ delivered' = [delivered EXCEPT ![r] = @ \cup {attempt[r]}]
    /\ UNCHANGED <<queue, attempt, seen>>

Release(sl) ==
    /\ phase' = [phase EXCEPT ![sl] = "idle"]
    /\ held' = [held EXCEPT ![sl] = NoRow]
    /\ got' = [got EXCEPT ![sl] = 0]
    /\ seen' = [seen EXCEPT ![sl] = 0]

(***************************************************************************)
(* run_stage() returned an outcome, and _run_claimed completes the row,    *)
(* whatever its state is by now and whoever claimed it since.              *)
(***************************************************************************)
Complete(sl) ==
    /\ phase[sl] = "running"
    /\ state' = [state EXCEPT ![held[sl]] = "done"]
    /\ Release(sl)
    /\ UNCHANGED <<queue, attempt, delivered>>

(* run_stage() raised: fail() reads the attempt column of the row...       *)
FailRead(sl) ==
    /\ phase[sl] = "running"
    /\ phase' = [phase EXCEPT ![sl] = "failing"]
    /\ seen' = [seen EXCEPT ![sl] = attempt[held[sl]]]
    /\ UNCHANGED <<rowVars, held, got, delivered>>

(* Faulty: the row is rescheduled under the attempt it had.                *)
FailWriteSameAttempt(sl) ==
    /\ phase[sl] = "failing"
    /\ state' = [state EXCEPT ![held[sl]] = "pending"]
    /\ Release(sl)
    /\ UNCHANGED <<queue, attempt, delivered>>

(* ...and reschedules the row with attempt + 1, or retires it.             *)
FailWrite(sl) ==
    LET r == held[sl] IN
    /\ phase[sl] = "failing"
    /\ \/ /\ seen[sl] < MaxAttempts
          /\ state' = [state EXCEPT ![r] = "pending"]
          /\ attempt' = [attempt EXCEPT ![r] = seen[sl] + 1]
       \/ /\ seen[sl] >= MaxAttempts
          /\ state' = [state EXCEPT ![r] = "dead"]
          /\ UNCHANGED attempt
    /\ Release(sl)
    /\ UNCHANGED <<queue, delivered>>

(* A worker process dies: its claimed rows stay claimed.                   *)
Crash(p) ==
    /\ \E sl \in SlotsOf(p) : phase[sl] # "idle"
    /\ phase' = [sl \in Slot |-> IF sl \in SlotsOf(p) THEN "idle" ELSE phase[sl]]
    /\ held' = [sl \in Slot |-> IF sl \in SlotsOf(p) THEN NoRow ELSE held[sl]]
    /\ got' = [sl \in Slot |-> IF sl \in SlotsOf(p) THEN 0 ELSE got[sl]]
    /\ seen' = [sl \in Slot |-> IF sl \in SlotsOf(p) THEN 0 ELSE seen[sl]]
    /\ UNCHANGED <<rowVars, delivered>>

(***************************************************************************)
(* reclaim_stale(), one UPDATE of every row whose lease lapsed.  A lease   *)
(* lapses by the clock alone: its worker may be dead or merely slow.       *)
(***************************************************************************)
ReclaimedState(r) == IF attempt[r] < MaxAttempts THEN "pending" ELSE "dead"

(* Faulty: only a delivery that fails costs an attempt, a lost lease does not. *)
ReclaimSameAttempt(lapsed) ==
    /\ lapsed # {}
    /\ \A r \in lapsed : state[r] = "claimed" /\ NotBeingFailed(r)
    /\ state' = [r \in Row |-> IF r \in lapsed THEN "pending" ELSE state[r]]
    /\ UNCHANGED <<queue, attempt, slotVars, delivered>>

(* Faulty: a row on its last attempt is left claimed.                      *)
ReclaimUnlessLast(lapsed) ==
    /\ lapsed # {}
    /\ \A r \in lapsed : /\ state[r] = "claimed" /\ NotBeingFailed(r)
                         /\ attempt[r] < MaxAttempts
    /\ state' = [r \in Row |-> IF r \in lapsed THEN "pending" ELSE state[r]]
    /\ attempt' = [r \in Row |-> IF r \in lapsed THEN attempt[r] + 1 ELSE attempt[r]]
    /\ UNCHANGED <<queue, slotVars, delivered>>

Reclaim(lapsed) ==
    /\ lapsed # {}
    /\ \A r \in lapsed : state[r] = "claimed" /\ NotBeingFailed(r)
    /\ state' = [r \in Row |-> IF r \in lapsed THEN ReclaimedState(r) ELSE state[r]]
    /\ attempt' = [r \in Row |-> IF r \in lapsed THEN attempt[r] + 1 ELSE attempt[r]]
    /\ UNCHANGED <<queue, slotVars, delivered>>

QueueNext ==
    \/ \E r \in Row : Enqueue(r)
    \/ \E sl \in Slot, r \in Row : Claim(sl, r)
    \/ \E sl \in Slot : Complete(sl)
    \/ \E sl \in Slot : FailRead(sl)
    \/ \E sl \in Slot : FailWrite(sl)
    \/ \E p \in Proc : Crash(p)
    \/ \E lapsed \in SUBSET Row : Reclaim(lapsed)

QueueSpec == QueueInit /\ [][QueueNext]_queueVars

(***************************************************************************)
(* What the loops guarantee: a free slot keeps polling, a stage ends (its  *)
(* work is under timeouts) and is then settled, and the maintenance loop   *)
(* keeps sweeping.  Nothing is assumed of crashes.                         *)
(***************************************************************************)
QueueFairness ==
    /\ \A r \in Row : WF_queueVars(\E sl \in Slot : Claim(sl, r))
    /\ \A sl \in Slot : WF_queueVars(Complete(sl) \/ FailRead(sl))
    /\ \A sl \in Slot : WF_queueVars(FailWrite(sl))
    /\ \A r \in Row : WF_queueVars(Reclaim({r}))

FairQueueSpec == QueueSpec /\ QueueFairness

-----------------------------------------------------------------------------
(***************************************************************************)
(* Two slots never run one row under one attempt number: the number a      *)
(* claim returns identifies the delivery, even when a lease was reclaimed  *)
(* from a worker that is still running or a stale worker failed the row.   *)
(* The runner derives its retry budget and backoff from that number.       *)
(***************************************************************************)
UniqueDelivery ==
    \A x, y \in Slot :
        x # y /\ held[x] # NoRow /\ held[x] = held[y] => got[x] # got[y]

(***************************************************************************)
(* The queue implements the delivery budget: a row is handed out at most   *)
(* max_attempts times, each time under a higher attempt, through crashes,  *)
(* reclaimed leases and settlements by workers whose lease had lapsed.     *)
(***************************************************************************)
Budget == INSTANCE DeliveryBudget
            WITH Message <- Row,
                 sent <- {r \in Row : state[r] # "absent"},
                 used <- delivered

ImplementsBudget == Budget!BudgetSpec

(***************************************************************************)
(* Every message is settled in the end, for good: a crashed worker's row   *)
(* is reclaimed, and the attempts run out even if every delivery fails.    *)
(***************************************************************************)
EventuallySettled ==
    \A r \in Row : state[r] # "absent" ~> [](state[r] \in Settled)

=============================================================================
