---------------------------- MODULE ServicesProofs ----------------------------
(***************************************************************************)
(* Proofs about the services around the pipeline, for any number of jobs,  *)
(* workers, sweeps and contracts: the queue of stages, the job of an       *)
(* export, the reports of failures and the sweep of alerts.  An inductive  *)
(* invariant of each says what its history variables record and what holds *)
(* between two writes of one handler.                                      *)
(***************************************************************************)
EXTENDS StageQueue, ExportJobs, AlertDelivery, AlertSweep, DataLemmas

(***************************************************************************)
(* Theorems about the stage queue for every number of rows, processes and  *)
(* attempts.                                                               *)
(***************************************************************************)

(***************************************************************************)
(* The strengthening.  Everything hinges on one relation: the attempt of a *)
(* row is never below an attempt it was delivered at, and is above all of  *)
(* them while the row is pending.  It survives fail() writing back a       *)
(* number it read earlier only because whatever it read (seen) was itself  *)
(* no lower than any delivery, and no delivery happens in between.         *)
(***************************************************************************)
PendingIsFresh ==
    \A r \in Row : state[r] = "pending" =>
        /\ attempt[r] <= MaxAttempts
        /\ \A t \in delivered[r] : t < attempt[r]

LeaseWithinBudget ==
    \A r \in Row : state[r] = "claimed" => attempt[r] <= MaxAttempts

DeliveredBelowAttempt ==
    \A r \in Row : \A t \in delivered[r] : t <= attempt[r]

AbsentUntouched ==
    /\ \A r \in Row : state[r] = "absent" => delivered[r] = {}
    /\ \A sl \in Slot : held[sl] \in Row => state[held[sl]] # "absent"

DeliveryRecorded ==
    \A sl \in Slot : held[sl] \in Row => got[sl] \in delivered[held[sl]]

SeenCoversDeliveries ==
    \A sl \in Slot : phase[sl] = "failing" =>
        \A t \in delivered[held[sl]] : t <= seen[sl]

QueueInv ==
    /\ TypeOK
    /\ PendingIsFresh
    /\ LeaseWithinBudget
    /\ DeliveredBelowAttempt
    /\ AbsentUntouched
    /\ DeliveryRecorded
    /\ SeenCoversDeliveries
    /\ UniqueDelivery

-----------------------------------------------------------------------------
(* The first state satisfies the invariant: nothing is enqueued or held.   *)
LEMMA InitQueueInv == QueueInit => QueueInv
BY QueueAssumption
   DEF QueueInit, QueueInv, TypeOK, PendingIsFresh, LeaseWithinBudget,
       DeliveredBelowAttempt, AbsentUntouched, DeliveryRecorded,
       SeenCoversDeliveries, UniqueDelivery, RowState

(* A held row is a row: the shape of a busy slot.                          *)
LEMMA BusyHoldsRow ==
    ASSUME TypeOK, NEW sl \in Slot, phase[sl] # "idle"
    PROVE  held[sl] \in Row
BY DEF TypeOK

(* An INSERT starts a row with an attempt of the budget and no delivery.   *)
LEMMA EnqueueKeepsInv ==
    ASSUME QueueInv, NEW r \in Row, Enqueue(r)
    PROVE  QueueInv'
<1> USE QueueAssumption
    DEF QueueInv, Enqueue, Insert, slotVars
<1>1. TypeOK'
  BY DEF TypeOK, RowState
<1>2. PendingIsFresh' /\ LeaseWithinBudget' /\ DeliveredBelowAttempt'
  BY DEF TypeOK, PendingIsFresh, LeaseWithinBudget, DeliveredBelowAttempt,
         AbsentUntouched
<1>3. AbsentUntouched' /\ DeliveryRecorded' /\ SeenCoversDeliveries'
  BY DEF TypeOK, AbsentUntouched, DeliveryRecorded, SeenCoversDeliveries
<1>4. UniqueDelivery'
  BY DEF UniqueDelivery
<1>5. QED
  BY <1>1, <1>2, <1>3, <1>4

(* A claim hands a pending row out under an attempt above every earlier one. *)
LEMMA ClaimKeepsInv ==
    ASSUME QueueInv, NEW sl \in Slot, NEW r \in Row, Claim(sl, r)
    PROVE  QueueInv'
<1> USE QueueAssumption DEF QueueInv, Claim
<1>1. /\ attempt[r] \in 1..MaxAttempts
      /\ \A t \in delivered[r] : t < attempt[r]
  BY DEF TypeOK, PendingIsFresh
<1>2. TypeOK'
  BY <1>1 DEF TypeOK, RowState
<1>3. PendingIsFresh' /\ LeaseWithinBudget'
  BY <1>1 DEF TypeOK, PendingIsFresh, LeaseWithinBudget
<1>4. DeliveredBelowAttempt'
  BY <1>1 DEF TypeOK, DeliveredBelowAttempt
<1>5. AbsentUntouched' /\ DeliveryRecorded'
  BY DEF TypeOK, AbsentUntouched, DeliveryRecorded
<1>6. SeenCoversDeliveries'
  BY DEF TypeOK, SeenCoversDeliveries, NotBeingFailed
<1>7. UniqueDelivery'
  <2> SUFFICES ASSUME NEW x \in Slot, NEW y \in Slot, x # y,
                      held'[x] # NoRow, held'[x] = held'[y]
               PROVE  got'[x] # got'[y]
    BY DEF UniqueDelivery
  <2>1. ASSUME NEW z \in Slot, z # sl, held[z] = r
        PROVE  got[z] < attempt[r]
    BY <1>1, <2>1 DEF DeliveryRecorded
  <2>2. CASE x = sl
    BY <1>1, <2>1, <2>2 DEF TypeOK
  <2>3. CASE y = sl
    BY <1>1, <2>1, <2>3 DEF TypeOK
  <2>4. CASE x # sl /\ y # sl
    BY <2>4 DEF TypeOK, UniqueDelivery
  <2>5. QED
    BY <2>2, <2>3, <2>4
<1>8. QED
  BY <1>2, <1>3, <1>4, <1>5, <1>6, <1>7

(* Freeing a slot disturbs nothing that is said of the other slots.        *)
LEMMA ReleaseKeepsSlots ==
    ASSUME QueueInv, NEW sl \in Slot, Release(sl), UNCHANGED delivered,
           \A r \in Row : state[r] # "absent" => state'[r] # "absent",
           \A r \in Row : state[r] = "absent" => state'[r] = "absent" \/ delivered[r] = {}
    PROVE  /\ DeliveryRecorded'
           /\ SeenCoversDeliveries'
           /\ UniqueDelivery'
           /\ \A x \in Slot : held'[x] \in Row => state'[held'[x]] # "absent"
<1> USE QueueAssumption DEF QueueInv, Release, TypeOK
<1>1. DeliveryRecorded'
  BY DEF DeliveryRecorded
<1>2. SeenCoversDeliveries'
  BY DEF SeenCoversDeliveries
<1>3. UniqueDelivery'
  BY DEF UniqueDelivery
<1>4. \A x \in Slot : held'[x] \in Row => state'[held'[x]] # "absent"
  BY DEF AbsentUntouched
<1>5. QED
  BY <1>1, <1>2, <1>3, <1>4

(* Completing a row, in whatever state it is, never makes it pending.      *)
LEMMA CompleteKeepsInv ==
    ASSUME QueueInv, NEW sl \in Slot, Complete(sl)
    PROVE  QueueInv'
<1> USE QueueAssumption DEF QueueInv, Complete
<1>1. held[sl] \in Row
  BY BusyHoldsRow
<1>2. TypeOK'
  BY <1>1 DEF TypeOK, Release, RowState
<1>3. PendingIsFresh' /\ LeaseWithinBudget' /\ DeliveredBelowAttempt'
  BY <1>1 DEF TypeOK, PendingIsFresh, LeaseWithinBudget, DeliveredBelowAttempt
<1>4. /\ \A r \in Row : state[r] # "absent" => state'[r] # "absent"
      /\ \A r \in Row : state[r] = "absent" => state'[r] = "absent" \/ delivered[r] = {}
  BY <1>1 DEF TypeOK, AbsentUntouched
<1>5. DeliveryRecorded' /\ SeenCoversDeliveries' /\ UniqueDelivery'
  BY <1>4, ReleaseKeepsSlots
<1>6. AbsentUntouched'
  <2>1. \A x \in Slot : held'[x] \in Row => state'[held'[x]] # "absent"
    BY <1>4, ReleaseKeepsSlots
  <2>2. \A r \in Row : state'[r] = "absent" => delivered'[r] = {}
    BY <1>1 DEF TypeOK, AbsentUntouched
  <2>3. QED
    BY <2>1, <2>2 DEF AbsentUntouched
<1>7. QED
  BY <1>2, <1>3, <1>5, <1>6

(* What fail() reads is at least every attempt delivered so far.           *)
LEMMA FailReadKeepsInv ==
    ASSUME QueueInv, NEW sl \in Slot, FailRead(sl)
    PROVE  QueueInv'
<1> USE QueueAssumption DEF QueueInv, FailRead, rowVars
<1>1. held[sl] \in Row
  BY BusyHoldsRow
<1>2. TypeOK'
  BY <1>1 DEF TypeOK
<1>3. PendingIsFresh' /\ LeaseWithinBudget' /\ DeliveredBelowAttempt'
  BY DEF PendingIsFresh, LeaseWithinBudget, DeliveredBelowAttempt
<1>4. AbsentUntouched' /\ DeliveryRecorded' /\ UniqueDelivery'
  BY DEF AbsentUntouched, DeliveryRecorded, UniqueDelivery
<1>5. SeenCoversDeliveries'
  BY <1>1 DEF TypeOK, SeenCoversDeliveries, DeliveredBelowAttempt
<1>6. QED
  BY <1>2, <1>3, <1>4, <1>5

(* So attempt + 1, written back, is above every attempt delivered so far.  *)
LEMMA FailWriteKeepsInv ==
    ASSUME QueueInv, NEW sl \in Slot, FailWrite(sl)
    PROVE  QueueInv'
<1> USE QueueAssumption DEF QueueInv, FailWrite
<1>1. /\ held[sl] \in Row
      /\ seen[sl] \in 0..MaxAttempts + 1
      /\ \A t \in delivered[held[sl]] : t \in 1..MaxAttempts /\ t <= seen[sl]
      /\ state[held[sl]] # "absent"
  BY BusyHoldsRow DEF TypeOK, SeenCoversDeliveries, AbsentUntouched
<1>2. TypeOK'
  BY <1>1 DEF TypeOK, Release, RowState
<1>3. PendingIsFresh'
  BY <1>1 DEF TypeOK, PendingIsFresh
<1>4. LeaseWithinBudget'
  BY <1>1 DEF TypeOK, LeaseWithinBudget
<1>5. DeliveredBelowAttempt'
  BY <1>1 DEF TypeOK, DeliveredBelowAttempt
<1>6. /\ \A r \in Row : state[r] # "absent" => state'[r] # "absent"
      /\ \A r \in Row : state[r] = "absent" => state'[r] = "absent" \/ delivered[r] = {}
  BY <1>1 DEF TypeOK, AbsentUntouched
<1>7. DeliveryRecorded' /\ SeenCoversDeliveries' /\ UniqueDelivery'
  BY <1>6, ReleaseKeepsSlots
<1>8. AbsentUntouched'
  <2>1. \A x \in Slot : held'[x] \in Row => state'[held'[x]] # "absent"
    BY <1>6, ReleaseKeepsSlots
  <2>2. \A r \in Row : state'[r] = "absent" => delivered'[r] = {}
    BY <1>1 DEF TypeOK, AbsentUntouched
  <2>3. QED
    BY <2>1, <2>2 DEF AbsentUntouched
<1>9. QED
  BY <1>2, <1>3, <1>4, <1>5, <1>7, <1>8

(* A crash only empties slots.                                             *)
LEMMA CrashKeepsInv ==
    ASSUME QueueInv, NEW p \in Proc, Crash(p)
    PROVE  QueueInv'
<1> USE QueueAssumption DEF QueueInv, Crash, rowVars
<1>1. TypeOK'
  BY DEF TypeOK
<1>2. PendingIsFresh' /\ LeaseWithinBudget' /\ DeliveredBelowAttempt'
  BY DEF PendingIsFresh, LeaseWithinBudget, DeliveredBelowAttempt
<1>3. AbsentUntouched' /\ DeliveryRecorded'
  BY DEF AbsentUntouched, DeliveryRecorded
<1>4. SeenCoversDeliveries'
  BY DEF SeenCoversDeliveries
<1>5. UniqueDelivery'
  BY DEF UniqueDelivery
<1>6. QED
  BY <1>1, <1>2, <1>3, <1>4, <1>5

(* Reclaiming a lease raises the attempt, whatever becomes of its worker.  *)
LEMMA ReclaimKeepsInv ==
    ASSUME QueueInv, NEW lapsed \in SUBSET Row, Reclaim(lapsed)
    PROVE  QueueInv'
<1> USE QueueAssumption DEF QueueInv, Reclaim, slotVars
<1>1. \A r \in lapsed : attempt[r] \in 1..MaxAttempts
  BY DEF TypeOK, LeaseWithinBudget
<1>2. TypeOK'
  BY <1>1 DEF TypeOK, RowState, ReclaimedState
<1>3. PendingIsFresh' /\ LeaseWithinBudget' /\ DeliveredBelowAttempt'
  BY <1>1 DEF TypeOK, PendingIsFresh, LeaseWithinBudget,
              DeliveredBelowAttempt, ReclaimedState
<1>4. AbsentUntouched'
  BY DEF TypeOK, AbsentUntouched, ReclaimedState
<1>5. DeliveryRecorded' /\ SeenCoversDeliveries' /\ UniqueDelivery'
  BY DEF DeliveryRecorded, SeenCoversDeliveries, UniqueDelivery
<1>6. QED
  BY <1>2, <1>3, <1>4, <1>5

LEMMA NextQueueInv == QueueInv /\ [QueueNext]_queueVars => QueueInv'
<1> SUFFICES ASSUME QueueInv, [QueueNext]_queueVars
             PROVE  QueueInv'
  OBVIOUS
<1>1. CASE UNCHANGED queueVars
  BY <1>1 DEF queueVars, QueueInv, TypeOK, PendingIsFresh, LeaseWithinBudget,
              DeliveredBelowAttempt, AbsentUntouched, DeliveryRecorded,
              SeenCoversDeliveries, UniqueDelivery
<1>2. CASE QueueNext
  BY <1>2, EnqueueKeepsInv, ClaimKeepsInv, CompleteKeepsInv, FailReadKeepsInv,
     FailWriteKeepsInv, CrashKeepsInv, ReclaimKeepsInv
     DEF QueueNext
<1>3. QED
  BY <1>1, <1>2

(***************************************************************************)
(* The invariant of the queue: bookkeeping of claim(), complete(), fail()  *)
(* and reclaim_stale() together.                                           *)
(***************************************************************************)
THEOREM QueueInvariant == QueueSpec => []QueueInv
BY InitQueueInv, NextQueueInv, PTL DEF QueueSpec

(* Every variable of the queue stays in its type; attempt stays within     *)
(* max_attempts + 1, the value reclaim_stale() leaves on a retired row.    *)
THEOREM TypeCorrect == QueueSpec => []TypeOK
<1>1. QueueInv => TypeOK
  BY DEF QueueInv
<1>2. QED
  BY <1>1, QueueInvariant, PTL

(* The attempt number a claim() returns names one delivery only.           *)
THEOREM DeliveriesAreUnique == QueueSpec => []UniqueDelivery
<1>1. QueueInv => UniqueDelivery
  BY DEF QueueInv
<1>2. QED
  BY <1>1, QueueInvariant, PTL

-----------------------------------------------------------------------------
(***************************************************************************)
(* The refinement: a claim is a Deliver, an INSERT is a Send, and every    *)
(* other step of the queue is invisible to the budget.                     *)
(***************************************************************************)
LEMMA BudgetStep ==
    QueueInv /\ QueueInv' /\ [QueueNext]_queueVars
        => [Budget!BudgetNext]_(Budget!budgetVars)
<1> SUFFICES ASSUME QueueInv, QueueInv', [QueueNext]_queueVars
             PROVE  [Budget!BudgetNext]_(Budget!budgetVars)
  OBVIOUS
<1> DEFINE sent == {r \in Row : state[r] # "absent"}
<1>1. ASSUME NEW r \in Row, Enqueue(r)
      PROVE  Budget!Send(r)
  <2>1. r \notin sent /\ sent' = sent \cup {r}
    BY <1>1 DEF Enqueue, Insert, QueueInv, TypeOK
  <2>2. QED
    BY <1>1, <2>1 DEF Budget!Send, Enqueue
<1>2. ASSUME NEW sl \in Slot, NEW r \in Row, Claim(sl, r)
      PROVE  Budget!Deliver(r)
  <2>1. r \in sent /\ sent' = sent
    BY <1>2 DEF Claim, QueueInv, TypeOK
  <2>2. /\ attempt[r] \in 1..MaxAttempts
        /\ \A u \in delivered[r] : u < attempt[r]
    BY <1>2, QueueAssumption DEF Claim, QueueInv, TypeOK, PendingIsFresh
  <2>3. QED
    BY <1>2, <2>1, <2>2 DEF Budget!Deliver, Budget!Token, Claim
<1>3. ASSUME UNCHANGED delivered,
             \A r \in Row : state'[r] # "absent" <=> state[r] # "absent"
      PROVE  UNCHANGED Budget!budgetVars
  BY <1>3 DEF Budget!budgetVars
<1>4. ASSUME NEW sl \in Slot, Complete(sl) \/ FailRead(sl) \/ FailWrite(sl)
      PROVE  UNCHANGED Budget!budgetVars
  <2>1. held[sl] \in Row /\ state[held[sl]] # "absent"
    BY <1>4, BusyHoldsRow
       DEF Complete, FailRead, FailWrite, QueueInv, AbsentUntouched
  <2>2. UNCHANGED delivered
    BY <1>4 DEF Complete, FailRead, FailWrite
  <2>3. \A r \in Row : state'[r] # "absent" <=> state[r] # "absent"
    BY <1>4, <2>1 DEF Complete, FailRead, FailWrite, rowVars, QueueInv, TypeOK
  <2>4. QED
    BY <1>3, <2>2, <2>3
<1>5. ASSUME NEW p \in Proc, Crash(p)
      PROVE  UNCHANGED Budget!budgetVars
  BY <1>3, <1>5 DEF Crash, rowVars
<1>6. ASSUME NEW lapsed \in SUBSET Row, Reclaim(lapsed)
      PROVE  UNCHANGED Budget!budgetVars
  BY <1>3, <1>6 DEF Reclaim, ReclaimedState, QueueInv, TypeOK
<1>7. CASE UNCHANGED queueVars
  BY <1>3, <1>7 DEF queueVars
<1>8. CASE QueueNext
  BY <1>1, <1>2, <1>4, <1>5, <1>6, <1>8 DEF QueueNext, Budget!BudgetNext
<1>9. QED
  BY <1>7, <1>8

(***************************************************************************)
(* The Postgres driver keeps the delivery budget, for any number of        *)
(* messages, workers, crashes and lapsed leases.                           *)
(***************************************************************************)
THEOREM QueueImplementsBudget == QueueSpec => ImplementsBudget
<1>1. QueueInit => Budget!BudgetInit
  BY DEF QueueInit, Budget!BudgetInit
<1>2. QED
  BY <1>1, BudgetStep, QueueInvariant, PTL
     DEF QueueSpec, ImplementsBudget, Budget!BudgetSpec

-----------------------------------------------------------------------------

(***************************************************************************)
(* Theorems about exports for any number of them, of rows in one sweep, of *)
(* faults, and whatever keys the storage cannot delete.                    *)
(***************************************************************************)

(***************************************************************************)
(* The strengthening.  A task and its row go together, so that a file that *)
(* has been promised is never written or deleted by anybody else.          *)
(***************************************************************************)
TaskAndRow ==
    \A e \in Export :
        /\ task[e] \in {"waiting", "built", "stored"} => status[e] = "queued"
        /\ status[e] \in {"completed", "expired"} => task[e] = "done"
        /\ status[e] # "running"

(* Only what was completed becomes due, and only a completed or expired    *)
(* export has been linked to.                                              *)
DueAndLinked ==
    \A e \in Export :
        /\ e \in due \union link => status[e] \in {"completed", "expired"}
        /\ stream[e] = "checked" => status[e] \in {"completed", "expired"}

(* A file is there from the moment it is stored until it expires.          *)
FileKept ==
    \A e \in Export :
        /\ task[e] = "stored" => e \in file
        /\ status[e] = "completed" /\ e \notin due => e \in file
        /\ status[e] = "expired" => e \in due /\ e \notin file

(* What a sweep is about to mark as expired is due, and its file is gone.  *)
PurgeSound ==
    /\ purge.at = "idle" => purge = NoPurge
    /\ purge.requeue = {}
    /\ \A e \in purge.left \union purge.expire : status[e] = "completed" /\ e \in due
    /\ \A e \in purge.expire : e \notin file

ExportInv ==
    /\ ExportTypeOK
    /\ TaskAndRow
    /\ DueAndLinked
    /\ FileKept
    /\ PurgeSound
    /\ OnlyExpiryLosesDownloads

-----------------------------------------------------------------------------
(* The first state satisfies the invariant: no request yet.                *)
LEMMA InitExportInv == ExportInit => ExportInv
  BY ExportAssumption
  DEF ExportInit, ExportInv, ExportTypeOK, TaskAndRow, DueAndLinked, FileKept, PurgeSound, NoPurge,
      OnlyExpiryLosesDownloads

(* A step of the request, its task, a download or the clock preserves it.  *)
LEMMA ExportStep ==
    ASSUME ExportInv, NEW e \in Export,
           Create(e) \/ Build(e) \/ Store(e) \/ CommitRun(e) \/ FailRun(e) \/ Lapse(e)
    PROVE  ExportInv'
<1> USE ExportAssumption DEF ExportInv
<1>1. CASE Create(e)
  BY <1>1 DEF Create, ExportTypeOK, TaskAndRow, DueAndLinked, FileKept, PurgeSound, NoPurge,
              OnlyExpiryLosesDownloads
<1>2. CASE Build(e)
  BY <1>2 DEF Build, ExportTypeOK, TaskAndRow, DueAndLinked, FileKept, PurgeSound, NoPurge,
              OnlyExpiryLosesDownloads
<1>3. CASE Store(e)
  BY <1>3 DEF Store, ExportTypeOK, TaskAndRow, DueAndLinked, FileKept, PurgeSound, NoPurge,
              OnlyExpiryLosesDownloads
<1>4. CASE CommitRun(e)
  BY <1>4 DEF CommitRun, ExportTypeOK, TaskAndRow, DueAndLinked, FileKept, PurgeSound, NoPurge,
              OnlyExpiryLosesDownloads
<1>5. CASE FailRun(e)
  BY <1>5 DEF FailRun, ExportTypeOK, TaskAndRow, DueAndLinked, FileKept, PurgeSound, NoPurge,
              OnlyExpiryLosesDownloads
<1>6. CASE Lapse(e)
  BY <1>6 DEF Lapse, ExportTypeOK, TaskAndRow, DueAndLinked, FileKept, PurgeSound, NoPurge,
              OnlyExpiryLosesDownloads
<1> QED
  BY <1>1, <1>2, <1>3, <1>4, <1>5, <1>6

LEMMA DownloadStep ==
    ASSUME ExportInv, NEW e \in Export,
           MintLink(e) \/ LapseLink(e) \/ CheckRow(e) \/ Fetch(e)
    PROVE  ExportInv'
<1> USE DEF ExportInv
<1>1. CASE MintLink(e) \/ LapseLink(e)
  BY <1>1 DEF MintLink, LapseLink, Downloadable, ExportTypeOK, TaskAndRow, DueAndLinked, FileKept,
              PurgeSound, NoPurge, OnlyExpiryLosesDownloads
<1>2. CASE CheckRow(e)
  BY <1>2 DEF CheckRow, Downloadable, ExportTypeOK, TaskAndRow, DueAndLinked, FileKept,
              PurgeSound, NoPurge, OnlyExpiryLosesDownloads
<1>3. CASE Fetch(e)
  <2>1. status[e] \in {"completed", "expired"}
    BY <1>3 DEF Fetch, DueAndLinked
  <2>2. e \notin file => e \in due
    BY <2>1 DEF FileKept
  <2>3. stream' \in [Export -> {"none", "checked", "served", "missing"}]
    BY <1>3 DEF Fetch, ExportTypeOK
  <2>4. \A x \in Export : stream'[x] = "missing" => x \in due
    BY <1>3, <2>2 DEF Fetch, ExportTypeOK, OnlyExpiryLosesDownloads
  <2> QED
    BY <1>3, <2>1, <2>3, <2>4 DEF Fetch, ExportTypeOK, TaskAndRow, DueAndLinked, FileKept,
                PurgeSound, NoPurge, OnlyExpiryLosesDownloads
<1> QED
  BY <1>1, <1>2, <1>3

LEMMA RestartStep == ExportInv /\ Restart => ExportInv'
  BY ExportAssumption
  DEF ExportInv, Restart, ExportTypeOK, TaskAndRow, DueAndLinked, FileKept, PurgeSound, NoPurge,
      OnlyExpiryLosesDownloads

(* A step of the sweep, which may die, preserves it.                       *)
LEMMA PurgeSweeps ==
    ASSUME ExportInv, BeginPurge \/ (\E e \in Export : PurgeFile(e)) \/ CommitPurge \/ PurgeDies
    PROVE  ExportInv'
<1> USE ExportAssumption DEF ExportInv
<1>0. Stalled = {}
  BY DEF Stalled, TaskAndRow
<1>1. CASE BeginPurge
  <2>1. PICK rows \in SUBSET Expired :
            purge' = [at |-> "sweeping", requeue |-> {}, left |-> rows, expire |-> {}]
    BY <1>0, <1>1 DEF BeginPurge
  <2>2. rows \subseteq due /\ \A e \in rows : status[e] = "completed"
    BY <2>1 DEF Expired
  <2> QED
    BY <1>1, <2>1, <2>2 DEF BeginPurge, ExportTypeOK, TaskAndRow, DueAndLinked, FileKept, PurgeSound,
                            OnlyExpiryLosesDownloads
<1>2. ASSUME NEW e \in Export, PurgeFile(e) PROVE ExportInv'
  <2>1. /\ purge'.at = "sweeping" /\ purge'.requeue = {}
        /\ purge'.left = purge.left \ {e}
        /\ purge'.expire = IF e \in Undeletable THEN purge.expire ELSE purge.expire \union {e}
        /\ purge' \in [at : {"idle", "sweeping"}, requeue : SUBSET Export,
                       left : SUBSET due, expire : SUBSET due]
    <3>1. purge \in [at : {"idle", "sweeping"}, requeue : SUBSET Export,
                     left : SUBSET due, expire : SUBSET due]
      BY DEF ExportTypeOK
    <3>2. e \in due /\ purge.at = "sweeping" /\ purge.requeue = {}
      BY <1>2 DEF PurgeFile, PurgeSound
    <3>3. CASE e \in Undeletable
      BY <1>2, <3>1, <3>2, <3>3 DEF PurgeFile
    <3>4. CASE e \notin Undeletable
      <4>1. purge' = [purge EXCEPT !.left = @ \ {e}, !.expire = @ \union {e}]
        BY <1>2, <3>4 DEF PurgeFile
      <4>2. purge.left \ {e} \in SUBSET due /\ purge.expire \union {e} \in SUBSET due
        BY <3>1, <3>2
      <4>3. purge' = [at |-> "sweeping", requeue |-> {}, left |-> purge.left \ {e},
                      expire |-> purge.expire \union {e}]
        BY <3>1, <3>2, <4>1
      <4> QED
        BY <3>4, <4>2, <4>3
    <3> QED
      BY <3>3, <3>4
  <2>2. /\ UNCHANGED <<status, due, task, link, stream, faults>>
        /\ file' = IF e \in Undeletable THEN file ELSE file \ {e}
    BY <1>2 DEF PurgeFile
  <2>3. e \in purge.left /\ status[e] = "completed" /\ e \in due
    BY <1>2 DEF PurgeFile, PurgeSound
  <2>4. ExportTypeOK'
    BY <2>1, <2>2 DEF ExportTypeOK
  <2>5. TaskAndRow' /\ DueAndLinked' /\ OnlyExpiryLosesDownloads'
    BY <2>2 DEF TaskAndRow, DueAndLinked, OnlyExpiryLosesDownloads
  <2>6. FileKept'
    BY <2>2, <2>3 DEF TaskAndRow, FileKept
  <2>7. PurgeSound'
    BY <2>1, <2>2, <2>3 DEF PurgeSound
  <2> QED
    BY <2>4, <2>5, <2>6, <2>7
<1>3. CASE CommitPurge
  BY <1>3 DEF CommitPurge, ExportTypeOK, TaskAndRow, DueAndLinked, FileKept, PurgeSound, NoPurge,
              OnlyExpiryLosesDownloads
<1>4. CASE PurgeDies
  BY <1>4 DEF PurgeDies, ExportTypeOK, TaskAndRow, DueAndLinked, FileKept, PurgeSound, NoPurge,
              OnlyExpiryLosesDownloads
<1> QED
  BY <1>1, <1>2, <1>3, <1>4

\* The inductive invariant of exports: a task and its row, a file and what is
\* promised of it, and the sweep's transaction (ExportService).
THEOREM ExportInvariant == ExportSpec => []ExportInv
<1>1. ASSUME ExportInv, [ExportNext]_exportVars PROVE ExportInv'
  <2>1. CASE UNCHANGED exportVars
    BY <1>1, <2>1 DEF exportVars, ExportInv, ExportTypeOK, TaskAndRow, DueAndLinked, FileKept,
                      PurgeSound, NoPurge, OnlyExpiryLosesDownloads
  <2>2. CASE ExportNext
    BY <1>1, <2>2, ExportStep, DownloadStep, RestartStep, PurgeSweeps DEF ExportNext, PurgeStep
  <2> QED
    BY <1>1, <2>1, <2>2
<1> QED
  BY InitExportInv, <1>1, PTL DEF ExportSpec

\* The state of exports stays in its types (ExportJob, ExportService).
THEOREM ExportTypeCorrect == ExportSpec => []ExportTypeOK
<1>1. ExportInv => ExportTypeOK
  BY DEF ExportInv
<1> QED
  BY ExportInvariant, <1>1, PTL

\* A download fails for want of a file only when its export has expired, whatever
\* dies (stream_export, purge_expired).
THEOREM DownloadsAreKept == ExportSpec => []OnlyExpiryLosesDownloads
<1>1. ExportInv => OnlyExpiryLosesDownloads
  BY DEF ExportInv
<1> QED
  BY ExportInvariant, <1>1, PTL

\* A finished export that has not expired has its file, an expired one has not
\* (purge_expired).
THEOREM RowsTellFiles == ExportSpec => []RowTellsFile
<1>1. ExportInv => RowTellsFile
  BY DEF ExportInv, FileKept, RowTellsFile, Downloadable
<1> QED
  BY ExportInvariant, <1>1, PTL

-----------------------------------------------------------------------------
(***************************************************************************)
(* Theorems about the reports of failures, for every number of workers,    *)
(* codes and channels.                                                     *)
(***************************************************************************)

KeyRows(rows, k) == {i \in DOMAIN rows : rows[i].key = k}
Said(rows) == [i \in DOMAIN rows |-> rows[i].occurrences]
Total(rows, k) == SumOver(Said(rows), KeyRows(rows, k))

RowType == [key : Key, status : Status, occurrences : Int]

(***************************************************************************)
(* The strengthening.  While one worker alone reports a condition, what it *)
(* read is what is there: it found every open row of the key, with the     *)
(* count the row still has, and it found none only where there is none.    *)
(* So its flush cannot meet a row it did not see, and its commit adds      *)
(* exactly one to the sum of the counts.                                   *)
(***************************************************************************)

\* Every report stands by rows of its own key.
DeliveryShape ==
    /\ row \in Seq(RowType)
    /\ DOMAIN report = Worker
    /\ \A w \in Worker :
         /\ "at" \in DOMAIN report[w]
         /\ Reporting(w) =>
              /\ {"at", "key", "found", "seen", "channel"} \subseteq DOMAIN report[w]
              /\ report[w].key \in Key
              /\ report[w].found \subseteq KeyRows(row, report[w].key)
              /\ report[w].seen \subseteq Int
              /\ report[w].found # {} => report[w].seen # {}
    /\ commits \in [Key -> Int]
    /\ overlapped \subseteq Key

ReportsAlone(k) ==
    \A v, w \in Worker : (Reporting(v) /\ Reporting(w)
                           /\ report[v].key = k /\ report[w].key = k) => v = w

ReadsWhatIsThere(w) ==
    (Reporting(w) /\ report[w].key \notin overlapped) =>
        /\ report[w].at # "poisoned"
        /\ Open(report[w].key) \subseteq report[w].found
        /\ report[w].found # {} =>
             \E i \in KeyRows(row, report[w].key) :
                report[w].found = {i} /\ report[w].seen = {row[i].occurrences}

DeliveryInv ==
    /\ DeliveryShape
    /\ \A w \in Worker : ReadsWhatIsThere(w)
    /\ \A k \in Key \ overlapped :
         /\ ReportsAlone(k)
         /\ \A i, j \in Open(k) : i = j
         /\ Total(row, k) = commits[k]

LEMMA SaidTotal ==
    ASSUME NEW S, IsFiniteSet(S), S \subseteq DOMAIN row,
           \A i \in S : row[i].occurrences \in Int
    PROVE  MapThenSumSet(LAMBDA i : row[i].occurrences, S) = SumOver(Said(row), S)
<1> DEFINE f == Said(row)
<1>1. \A i \in S : f[i] = row[i].occurrences /\ f[i] \in Int
  BY DEF Said
<1> HIDE DEF f
<1>2. PICK g : Adds(g, f, S) /\ g[S] = SumOver(f, S)
  BY <1>1, SumValue DEF Value
<1> DEFINE Step(h) == [s \in SUBSET S |->
                 IF s = {} THEN 0
                 ELSE row[CHOOSE x \in s : TRUE].occurrences + h[s \ {CHOOSE x \in s : TRUE}]]
<1>3. g = Step(g)
  <2>1. \A s \in SUBSET S : s # {} => Pick(s) \in S
    BY PickFacts
  <2>2. g = [s \in SUBSET S |-> g[s]]
    BY <1>2 DEF Adds
  <2>3. \A s \in SUBSET S : g[s] = IF s = {} THEN 0 ELSE row[Pick(s)].occurrences + g[s \ {Pick(s)}]
    BY <1>1, <1>2, <2>1 DEF Adds
  <2> QED
    BY <2>2, <2>3 DEF Pick
<1> DEFINE h == CHOOSE h : h = Step(h)
<1>4. h = Step(h)
  BY <1>3
<1>5. MapThenSumSet(LAMBDA i : row[i].occurrences, S) = h[S]
  BY DEF MapThenSumSet, MapThenFoldSet
<1> HIDE DEF h
<1>6. \A s \in SUBSET S : h[s] = IF s = {} THEN 0 ELSE row[Pick(s)].occurrences + h[s \ {Pick(s)}]
  BY <1>4 DEF Pick
<1> HIDE DEF Step
<1>8. AddsUp(h, f, S)
  BY <1>1, <1>6, PickFacts DEF AddsUp
<1>9. h[S] = g[S]
  BY <1>2, <1>8, AddsUnique
<1> QED
  BY <1>2, <1>5, <1>9 DEF f


LEMMA KeyRowsFinite ==
    ASSUME NEW rows \in Seq(RowType), NEW k
    PROVE  /\ IsFiniteSet(KeyRows(rows, k)) /\ KeyRows(rows, k) \subseteq DOMAIN rows
           /\ \A i \in KeyRows(rows, k) : rows[i].occurrences \in Int /\ Said(rows)[i] = rows[i].occurrences
<1>1. Len(rows) \in Nat /\ DOMAIN rows = 1 .. Len(rows) /\ \A i \in DOMAIN rows : rows[i] \in RowType
  OBVIOUS
<1>2. KeyRows(rows, k) \subseteq 1 .. Len(rows)
  BY <1>1 DEF KeyRows
<1>3. IsFiniteSet(1 .. Len(rows))
  BY <1>1, FS_Interval
<1>4. IsFiniteSet(KeyRows(rows, k))
  BY <1>2, <1>3, FS_Subset
<1> QED
  BY <1>1, <1>2, <1>4 DEF Said, RowType

LEMMA TotalSame ==
    ASSUME NEW a \in Seq(RowType), NEW b \in Seq(RowType), NEW k, KeyRows(b, k) = KeyRows(a, k),
           \A i \in KeyRows(a, k) : b[i].occurrences = a[i].occurrences
    PROVE  Total(b, k) = Total(a, k)
<1> DEFINE S == KeyRows(a, k)
           f == Said(a)
           h == Said(b)
<1>1. IsFiniteSet(S) /\ \A i \in S : f[i] \in Int /\ h[i] = f[i]
  BY KeyRowsFinite
<1> HIDE DEF S, f, h
<1>2. SumOver(h, S) = SumOver(f, S)
  BY <1>1, SumCongruence
<1> QED
  BY <1>2 DEF S, f, h, Total

LEMMA TotalPlus ==
    ASSUME NEW a \in Seq(RowType), NEW b \in Seq(RowType), NEW k, KeyRows(b, k) = KeyRows(a, k),
           NEW n \in KeyRows(a, k), b[n].occurrences = 1 + a[n].occurrences,
           \A i \in KeyRows(a, k) : i # n => b[i].occurrences = a[i].occurrences
    PROVE  Total(b, k) = Total(a, k) + 1
<1> DEFINE S == KeyRows(a, k)
           f == Said(a)
           h == Said(b)
           R == S \ {n}
<1>1. /\ IsFiniteSet(S) /\ \A i \in S : f[i] \in Int /\ h[i] \in Int
      /\ n \in S /\ h[n] = 1 + f[n] /\ \A i \in S : i # n => h[i] = f[i]
  BY KeyRowsFinite
<1>2. Total(a, k) = SumOver(f, S) /\ Total(b, k) = SumOver(h, S)
  BY DEF Total
<1> HIDE DEF S, f, h
<1>3. IsFiniteSet(R) /\ \A i \in R : f[i] \in Int /\ h[i] = f[i]
  BY <1>1, FS_Subset
<1>4. SumOver(f, S) = f[n] + SumOver(f, R)
  BY <1>1, SumTakeOut
<1>5. SumOver(h, S) = h[n] + SumOver(h, R)
  BY <1>1, SumTakeOut
<1> HIDE DEF R
<1>6. SumOver(h, R) = SumOver(f, R) /\ SumOver(f, R) \in Int
  BY <1>3, SumCongruence, SumIsInt
<1> QED
  BY <1>1, <1>2, <1>4, <1>5, <1>6

LEMMA TotalAdd ==
    ASSUME NEW a \in Seq(RowType), NEW b \in Seq(RowType), NEW k, NEW n, n \notin KeyRows(a, k),
           KeyRows(b, k) = KeyRows(a, k) \union {n}, b[n].occurrences = 1,
           \A i \in KeyRows(a, k) : b[i].occurrences = a[i].occurrences
    PROVE  Total(b, k) = Total(a, k) + 1
<1> DEFINE S == KeyRows(a, k)
           f == Said(a)
           h == Said(b)
           T == S \union {n}
<1>1. /\ IsFiniteSet(S) /\ \A i \in S : f[i] \in Int /\ h[i] = f[i]
      /\ n \notin S /\ \A i \in T : h[i] \in Int
      /\ h[n] = 1
  <2>1. /\ \A i \in T : h[i] \in Int /\ h[i] = b[i].occurrences
    BY KeyRowsFinite
  <2> QED
    BY <2>1, KeyRowsFinite
<1>2. Total(a, k) = SumOver(f, S) /\ Total(b, k) = SumOver(h, T)
  BY DEF Total
<1> HIDE DEF S, f, h
<1>3. SumOver(h, T) = h[n] + SumOver(h, S)
  BY <1>1, SumAdd
<1>4. SumOver(h, S) = SumOver(f, S) /\ SumOver(f, S) \in Int
  BY <1>1, SumCongruence, SumIsInt
<1> QED
  BY <1>1, <1>2, <1>3, <1>4

LEMMA DeliveryStart == DeliveryInit => DeliveryInv
<1> SUFFICES ASSUME DeliveryInit PROVE DeliveryInv
  OBVIOUS
<1>1. row = <<>> /\ report = [w \in Worker |-> [at |-> "running"]]
      /\ commits = [k \in Key |-> 0] /\ overlapped = {}
  BY DEF DeliveryInit
<1>2. \A w \in Worker : report[w].at = "running" /\ "at" \in DOMAIN report[w] /\ ~Reporting(w)
  BY <1>1 DEF Reporting
<1>3. DeliveryShape
  BY <1>1, <1>2 DEF DeliveryShape
<1>4. \A k \in Key : Open(k) = {} /\ Total(row, k) = 0
  <2> TAKE k \in Key
  <2>1. KeyRows(row, k) = {} /\ Open(k) = {}
    BY <1>1 DEF KeyRows, Open
  <2> QED
    BY <2>1, SumEmpty DEF Total
<1> QED
  BY <1>1, <1>2, <1>3, <1>4 DEF DeliveryInv, ReadsWhatIsThere, ReportsAlone

(* A report that goes on stands by what it read.                            *)
LEMMA ReportGoesOn ==
    ASSUME DeliveryInv, NEW w \in Worker, Reporting(w), NEW new,
           report' = [report EXCEPT ![w] = new], "at" \in DOMAIN new,
           new.at \in {"read", "flushed", "poisoned"} =>
              /\ {"at", "key", "found", "seen", "channel"} \subseteq DOMAIN new
              /\ new.key = report[w].key /\ new.found = report[w].found /\ new.seen = report[w].seen
              /\ new.at = "poisoned" =>
                    report[w].at = "poisoned" \/ (report[w].found = {} /\ Open(report[w].key) # {}),
           UNCHANGED <<row, commits, overlapped>>
    PROVE  DeliveryInv'
<1>1. /\ report'[w] = new /\ \A v \in Worker : v # w => report'[v] = report[v]
      /\ DOMAIN report' = Worker
  BY DEF DeliveryInv, DeliveryShape
<1>2. \A v \in Worker : Reporting(v)' => /\ Reporting(v) /\ report'[v].key = report[v].key
                                         /\ report'[v].found = report[v].found
                                         /\ report'[v].seen = report[v].seen
  BY <1>1 DEF Reporting
<1>3. DeliveryShape'
  <2>1. \A v \in Worker : /\ "at" \in DOMAIN report'[v]
                          /\ Reporting(v)' => {"at", "key", "found", "seen", "channel"} \subseteq DOMAIN report'[v]
    BY <1>1 DEF DeliveryInv, DeliveryShape, Reporting
  <2> QED
    BY <1>1, <1>2, <2>1 DEF DeliveryInv, DeliveryShape
<1>4. \A k : Open(k)' = Open(k)
  BY DEF Open
<1>5. ASSUME NEW v \in Worker PROVE ReadsWhatIsThere(v)'
  <2> SUFFICES ASSUME Reporting(v)', report'[v].key \notin overlapped
               PROVE /\ report'[v].at # "poisoned"
                     /\ Open(report[v].key) \subseteq report[v].found
                     /\ report[v].found # {} =>
                          \E i \in KeyRows(row, report[v].key) :
                             report[v].found = {i} /\ report[v].seen = {row[i].occurrences}
    BY <1>2, <1>4 DEF ReadsWhatIsThere
  <2>1. /\ report[v].at # "poisoned" /\ Open(report[v].key) \subseteq report[v].found
        /\ report[v].found # {} =>
                          \E i \in KeyRows(row, report[v].key) :
                             report[v].found = {i} /\ report[v].seen = {row[i].occurrences}
    BY <1>2 DEF DeliveryInv, ReadsWhatIsThere
  <2>2. report'[v].at # "poisoned"
    BY <1>1, <1>2, <2>1
  <2> QED
    BY <2>1, <2>2
<1>6. \A k \in Key \ overlapped : ReportsAlone(k)'
  BY <1>2 DEF DeliveryInv, ReportsAlone
<1> QED
  BY <1>3, <1>4, <1>5, <1>6 DEF DeliveryInv

LEMMA StepPersist ==
    ASSUME DeliveryInv, NEW w \in Worker, Persist(w)
    PROVE  DeliveryInv'
<1> DEFINE to == IF report[w].found = {} /\ Open(report[w].key) # {} THEN "poisoned" ELSE "flushed"
           new == [report[w] EXCEPT !.at = to]
<1>1. /\ report' = [report EXCEPT ![w] = new] /\ Reporting(w)
      /\ UNCHANGED <<row, commits, overlapped>>
  BY DEF Persist, Reporting
<1>2. {"at", "key", "found", "seen", "channel"} \subseteq DOMAIN report[w]
  BY <1>1 DEF DeliveryInv, DeliveryShape
<1>3. /\ {"at", "key", "found", "seen", "channel"} \subseteq DOMAIN new
      /\ new.at = to /\ new.key = report[w].key /\ new.found = report[w].found /\ new.seen = report[w].seen
  BY <1>2
<1>4. to = "poisoned" => report[w].found = {} /\ Open(report[w].key) # {}
  OBVIOUS
<1> HIDE DEF new, to
<1> QED
  BY <1>1, <1>3, <1>4, ReportGoesOn

LEMMA StepSend ==
    ASSUME DeliveryInv, NEW w \in Worker, NEW c \in Channel, Send(w, c)
    PROVE  DeliveryInv'
<1>a. PICK told \in BOOLEAN :
         report' = [report EXCEPT ![w].channel[c] =
                        [tries |-> report[w].channel[c].tries + 1, told |-> told]]
  BY DEF Send
<1>b. report' = [report EXCEPT ![w] = [report[w] EXCEPT !.channel =
                   [report[w].channel EXCEPT ![c] =
                        [tries |-> report[w].channel[c].tries + 1, told |-> told]]]]
  BY <1>a
<1>1. /\ Reporting(w) /\ UNCHANGED <<row, commits, overlapped>>
      /\ \E x : report' = [report EXCEPT ![w] = [report[w] EXCEPT !.channel = x]]
  BY <1>b DEF Send, Reporting
<1>2. PICK x : report' = [report EXCEPT ![w] = [report[w] EXCEPT !.channel = x]]
  BY <1>1
<1> DEFINE new == [report[w] EXCEPT !.channel = x]
<1>3. {"at", "key", "found", "seen", "channel"} \subseteq DOMAIN report[w]
  BY <1>1 DEF DeliveryInv, DeliveryShape
<1>4. /\ {"at", "key", "found", "seen", "channel"} \subseteq DOMAIN new /\ new.at = report[w].at
      /\ new.key = report[w].key /\ new.found = report[w].found /\ new.seen = report[w].seen
  BY <1>3
<1>5. report' = [report EXCEPT ![w] = new]
  BY <1>2
<1>6. Reporting(w) /\ UNCHANGED <<row, commits, overlapped>>
  BY <1>1
<1> HIDE DEF new
<1>7. /\ "at" \in DOMAIN new
      /\ new.at \in {"read", "flushed", "poisoned"} =>
              /\ {"at", "key", "found", "seen", "channel"} \subseteq DOMAIN new
              /\ new.key = report[w].key /\ new.found = report[w].found /\ new.seen = report[w].seen
              /\ new.at = "poisoned" =>
                    report[w].at = "poisoned" \/ (report[w].found = {} /\ Open(report[w].key) # {})
  BY <1>4
<1> QED
  BY <1>5, <1>6, <1>7, ReportGoesOn

LEMMA StepDies ==
    ASSUME DeliveryInv, NEW w \in Worker, Die(w)
    PROVE  DeliveryInv'
<1> DEFINE new == [at |-> "running"]
<1>1. /\ report' = [report EXCEPT ![w] = new] /\ Reporting(w) /\ UNCHANGED <<row, commits, overlapped>>
  BY DEF Die
<1>2. "at" \in DOMAIN new /\ new.at = "running"
  OBVIOUS
<1> HIDE DEF new
<1> QED
  BY <1>1, <1>2, ReportGoesOn

LEMMA StepFails ==
    ASSUME DeliveryInv, NEW w \in Worker, NEW code \in Code, FailStage(w, code)
    PROVE  DeliveryInv'
<1> DEFINE key == CategoryOf[code]
<1>1. /\ report[w].at \in {"running", "committed", "lost"} /\ UNCHANGED <<row, commits>>
      /\ overlapped' = overlapped \union
            {k \in {key} : \E v \in Worker \ {w} : Reporting(v) /\ report[v].key = k}
  BY DEF FailStage
<1>2. PICK found \in {{i} : i \in Open(key)} \union (IF Open(key) = {} THEN {{}} ELSE {}) :
         report' = [report EXCEPT ![w] =
            [at |-> "read", key |-> key, found |-> found,
             seen |-> {row[i].occurrences : i \in found},
             channel |-> [c \in Channel |-> Untold]]]
  BY DEF FailStage
<1> DEFINE counts == {row[i].occurrences : i \in found}
           new == [at |-> "read", key |-> key, found |-> found, seen |-> counts,
                   channel |-> [c \in Channel |-> Untold]]
<1>3. /\ new.at = "read" /\ new.key = key /\ new.found = found /\ new.seen = counts
      /\ {"at", "key", "found", "seen", "channel"} \subseteq DOMAIN new
  OBVIOUS
<1>4. report' = [report EXCEPT ![w] = new]
  BY <1>2
<1>5. key \in Key
  BY DEF Key
<1>6. /\ found \subseteq Open(key) /\ (found = {} => Open(key) = {})
      /\ found # {} => \E i \in Open(key) : found = {i} /\ counts = {row[i].occurrences}
  BY <1>2
<1>7. Open(key) \subseteq KeyRows(row, key)
  BY DEF Open, KeyRows
<1>8. counts \subseteq Int /\ (found # {} => counts # {})
  BY <1>6, <1>7, KeyRowsFinite DEF DeliveryInv, DeliveryShape
<1> HIDE DEF new, counts, key
<1>9. /\ report'[w] = new /\ \A v \in Worker : v # w => report'[v] = report[v]
      /\ DOMAIN report' = Worker
  BY <1>4 DEF DeliveryInv, DeliveryShape
<1>10. /\ Reporting(w)' /\ ~Reporting(w) /\ \A v \in Worker : v # w => (Reporting(v)' <=> Reporting(v))
  BY <1>1, <1>3, <1>9 DEF Reporting
<1>11. overlapped' \subseteq Key /\ overlapped \subseteq overlapped'
       /\ \A v \in Worker : v # w /\ Reporting(v) /\ report[v].key = key => key \in overlapped'
  BY <1>1, <1>5 DEF DeliveryInv, DeliveryShape
<1>12. DeliveryShape'
  <2>1. ASSUME NEW v \in Worker
        PROVE /\ "at" \in DOMAIN report'[v]
              /\ Reporting(v)' =>
                   /\ {"at", "key", "found", "seen", "channel"} \subseteq DOMAIN report'[v]
                   /\ report'[v].key \in Key /\ report'[v].found \subseteq KeyRows(row, report'[v].key)
                   /\ report'[v].seen \subseteq Int
                   /\ report'[v].found # {} => report'[v].seen # {}
    <3>1. CASE v = w
      BY <1>3, <1>5, <1>6, <1>7, <1>8, <1>9, <3>1
    <3>2. CASE v # w
      BY <1>9, <1>10, <3>2 DEF DeliveryInv, DeliveryShape
    <3> QED
      BY <3>1, <3>2
  <2> QED
    BY <1>1, <1>9, <1>11, <2>1 DEF DeliveryInv, DeliveryShape
<1>13. \A k : Open(k)' = Open(k)
  BY <1>1 DEF Open
<1>14. ASSUME NEW v \in Worker PROVE ReadsWhatIsThere(v)'
  <2>1. CASE v = w
    <3>1. key \notin overlapped' => Open(key) \subseteq found
      BY <1>5, <1>6, <1>11 DEF DeliveryInv
    <3> QED
      BY <1>1, <1>3, <1>6, <1>7, <1>9, <1>13, <2>1, <3>1 DEF ReadsWhatIsThere
  <2>2. CASE v # w
    <3>1. ReadsWhatIsThere(v)
      BY DEF DeliveryInv
    <3> QED
      BY <1>1, <1>9, <1>10, <1>11, <1>13, <2>2, <3>1 DEF ReadsWhatIsThere
  <2> QED
    BY <2>1, <2>2
<1>15. ASSUME NEW k \in Key \ overlapped' PROVE ReportsAlone(k)'
  <2> SUFFICES ASSUME NEW u \in Worker, NEW v \in Worker, Reporting(u)', Reporting(v)',
                      report'[u].key = k, report'[v].key = k
               PROVE  u = v
    BY DEF ReportsAlone
  <2>1. ReportsAlone(k)
    BY <1>11 DEF DeliveryInv
  <2> QED
    BY <1>3, <1>9, <1>10, <1>11, <2>1 DEF ReportsAlone
<1>16. ASSUME NEW k \in Key \ overlapped'
       PROVE  (\A i, j \in Open(k)' : i = j) /\ Total(row', k) = commits'[k]
  BY <1>1, <1>11, <1>13 DEF DeliveryInv
<1> QED
  BY <1>12, <1>14, <1>15, <1>16 DEF DeliveryInv

LEMMA StepCloses ==
    ASSUME DeliveryInv, NEW n \in DOMAIN row, NEW to \in Status \ {"open"}, CloseRow(n, to)
    PROVE  DeliveryInv'
<1> DEFINE new == [row[n] EXCEPT !.status = to]
<1>1. /\ row' = [row EXCEPT ![n] = new] /\ row \in Seq(RowType) /\ row[n] \in RowType
      /\ UNCHANGED <<report, commits, overlapped>>
  BY DEF CloseRow, DeliveryInv, DeliveryShape
<1>2. new \in RowType /\ new.key = row[n].key /\ new.occurrences = row[n].occurrences /\ new.status = to
  BY <1>1 DEF RowType
<1> HIDE DEF new
<1>3. /\ row' \in Seq(RowType) /\ DOMAIN row' = DOMAIN row /\ row'[n] = new
      /\ \A i \in DOMAIN row : i # n => row'[i] = row[i]
  BY <1>1, <1>2
<1>4. \A i \in DOMAIN row : /\ row'[i].key = row[i].key /\ row'[i].occurrences = row[i].occurrences
                            /\ row'[i].status = "open" => row[i].status = "open"
  BY <1>2, <1>3
<1>5. \A k : KeyRows(row', k) = KeyRows(row, k) /\ Open(k)' \subseteq Open(k)
  BY <1>3, <1>4 DEF KeyRows, Open
<1>6. DeliveryShape'
  BY <1>1, <1>3, <1>5 DEF DeliveryInv, DeliveryShape, Reporting
<1>7. ASSUME NEW v \in Worker PROVE ReadsWhatIsThere(v)'
  <2> SUFFICES ASSUME Reporting(v), report[v].key \notin overlapped
               PROVE  /\ report[v].at # "poisoned"
                      /\ Open(report[v].key)' \subseteq report[v].found
                      /\ report[v].found # {} =>
                           \E i \in KeyRows(row', report[v].key) :
                              report[v].found = {i} /\ report[v].seen = {row'[i].occurrences}
    BY <1>1 DEF ReadsWhatIsThere, Reporting
  <2> PICK k : k = report[v].key
    OBVIOUS
  <2>1. /\ report[v].at # "poisoned" /\ Open(k) \subseteq report[v].found
        /\ report[v].found # {} =>
                           \E i \in KeyRows(row, k) :
                              report[v].found = {i} /\ report[v].seen = {row[i].occurrences}
    BY DEF DeliveryInv, ReadsWhatIsThere
  <2>2. KeyRows(row', k) = KeyRows(row, k) /\ \A i \in KeyRows(row, k) : row'[i].occurrences = row[i].occurrences
    BY <1>4, <1>5 DEF KeyRows
  <2>3. Open(k)' \subseteq Open(k)
    BY <1>1, <1>4, <1>3 DEF Open
  <2> QED
    BY <1>1, <2>1, <2>2, <2>3
<1>8. ASSUME NEW k \in Key \ overlapped'
      PROVE  ReportsAlone(k)' /\ (\A i, j \in Open(k)' : i = j) /\ Total(row', k) = commits'[k]
  <2>1. ReportsAlone(k)'
    BY <1>1, <1>8 DEF DeliveryInv, ReportsAlone, Reporting
  <2>2. \A i \in KeyRows(row, k) : row'[i].occurrences = row[i].occurrences
    BY <1>4 DEF KeyRows
  <2>3. Total(row', k) = Total(row, k)
    <3>1. KeyRows(row', k) = KeyRows(row, k) /\ row \in Seq(RowType) /\ row' \in Seq(RowType)
      BY <1>1, <1>3, <1>5
    <3> QED
      BY <2>2, <3>1, TotalSame
  <2> QED
    BY <1>1, <1>5, <1>8, <2>1, <2>3 DEF DeliveryInv
<1> QED
  BY <1>6, <1>7, <1>8 DEF DeliveryInv

(* What a commit leaves: its condition counts one more, every other         *)
(* condition is as it was.                                                  *)
LEMMA RowsWritten ==
    ASSUME DeliveryInv, NEW w \in Worker, Reporting(w), NEW k0, k0 = report[w].key,
           NEW rows, rows = row', rows \in Seq(RowType),
           \A i \in DOMAIN row : i \in DOMAIN rows /\ rows[i].key = row[i].key,
           \A i \in DOMAIN row : row[i].key # k0 => rows[i] = row[i],
           \A i \in DOMAIN rows : rows[i].key # k0 => i \in DOMAIN row,
           k0 \notin overlapped => /\ Total(rows, k0) = Total(row, k0) + 1
                                   /\ \A i, j \in DOMAIN rows :
                                        (/\ rows[i].key = k0 /\ rows[i].status = "open"
                                         /\ rows[j].key = k0 /\ rows[j].status = "open") => i = j,
           NEW new, report' = [report EXCEPT ![w] = new], "at" \in DOMAIN new, new.at = "committed",
           commits' = [commits EXCEPT ![k0] = commits[k0] + 1], overlapped' = overlapped
    PROVE  DeliveryInv'
<1>1. /\ report'[w] = new /\ \A v \in Worker : v # w => report'[v] = report[v]
      /\ DOMAIN report' = Worker /\ row \in Seq(RowType) /\ k0 \in Key
  BY DEF DeliveryInv, DeliveryShape
<1>2. \A v \in Worker : Reporting(v)' => Reporting(v) /\ v # w /\ report'[v] = report[v]
  BY <1>1 DEF Reporting
<1>3. \A k : KeyRows(row, k) \subseteq KeyRows(rows, k)
  BY DEF KeyRows
<1>4. \A k : k # k0 => KeyRows(rows, k) = KeyRows(row, k)
                       /\ \A i \in KeyRows(row, k) : rows[i] = row[i]
  BY DEF KeyRows
<1>5. ASSUME NEW k, k # k0 PROVE Open(k)' = Open(k)
  <2>1. Open(k)' = {i \in KeyRows(rows, k) : rows[i].status = "open"}
    BY DEF Open, KeyRows
  <2>2. Open(k) = {i \in KeyRows(row, k) : row[i].status = "open"}
    BY DEF Open, KeyRows
  <2> QED
    BY <1>4, <1>5, <2>1, <2>2
<1>6. DeliveryShape'
  <2>1. ASSUME NEW v \in Worker
        PROVE /\ "at" \in DOMAIN report'[v]
              /\ Reporting(v)' =>
                   /\ {"at", "key", "found", "seen", "channel"} \subseteq DOMAIN report'[v]
                   /\ report'[v].key \in Key /\ report'[v].found \subseteq KeyRows(rows, report'[v].key)
                   /\ report'[v].seen \subseteq Int
                   /\ report'[v].found # {} => report'[v].seen # {}
    <3>1. "at" \in DOMAIN report'[v]
      BY <1>1 DEF DeliveryInv, DeliveryShape
    <3> QED
      BY <1>2, <1>3, <3>1 DEF DeliveryInv, DeliveryShape
  <2>2. commits' \in [Key -> Int]
    BY <1>1 DEF DeliveryInv, DeliveryShape
  <2> QED
    BY <1>1, <2>1, <2>2 DEF DeliveryInv, DeliveryShape
<1>7. ASSUME NEW v \in Worker PROVE ReadsWhatIsThere(v)'
  <2> SUFFICES ASSUME Reporting(v)', report'[v].key \notin overlapped PROVE ReadsWhatIsThere(v)'
    BY DEF ReadsWhatIsThere
  <2>1. PICK k : k = report[v].key
    OBVIOUS
  <2>2. report'[v] = report[v] /\ v # w /\ Reporting(v) /\ k \in Key /\ k \notin overlapped
    BY <1>2, <2>1 DEF DeliveryInv, DeliveryShape
  <2>3. k # k0
    BY <2>1, <2>2 DEF DeliveryInv, ReportsAlone
  <2>4. /\ report[v].at # "poisoned" /\ Open(k) \subseteq report[v].found
        /\ report[v].found # {} =>
              \E i \in KeyRows(row, k) :
                 report[v].found = {i} /\ report[v].seen = {row[i].occurrences}
    BY <2>1, <2>2 DEF DeliveryInv, ReadsWhatIsThere
  <2>5. Open(k)' = Open(k)
    BY <1>5, <2>3
  <2>6. report[v].found # {} =>
              \E i \in KeyRows(row', k) :
                 report[v].found = {i} /\ report[v].seen = {row'[i].occurrences}
    BY <1>4, <2>3, <2>4
  <2>7. Open(report[v].key)' \subseteq report[v].found
    BY <2>1, <2>2, <2>4, <2>5
  <2> QED
    BY <2>1, <2>2, <2>4, <2>6, <2>7 DEF ReadsWhatIsThere
<1>8. ASSUME NEW k \in Key \ overlapped
      PROVE  ReportsAlone(k)' /\ (\A i, j \in Open(k)' : i = j) /\ Total(rows, k) = commits'[k]
  <2>1. ReportsAlone(k)'
    BY <1>2 DEF DeliveryInv, ReportsAlone
  <2>2. commits \in [Key -> Int]
    BY DEF DeliveryInv, DeliveryShape
  <2>3. CASE k = k0
    <3>1. \A i, j \in Open(k)' : i = j
      BY <2>3 DEF Open
    <3>2. Total(row, k) = commits[k]
      BY DEF DeliveryInv
    <3> QED
      BY <2>1, <2>2, <2>3, <3>1, <3>2
  <2>4. CASE k # k0
    <3>1. Total(rows, k) = Total(row, k)
      <4>1. KeyRows(rows, k) = KeyRows(row, k) /\ \A i \in KeyRows(row, k) : rows[i].occurrences = row[i].occurrences
        BY <1>4, <2>4
      <4> QED
        BY <1>1, <4>1, TotalSame
    <3>2. \A i, j \in Open(k)' : i = j
      BY <1>5, <2>4 DEF DeliveryInv
    <3>3. Total(row, k) = commits[k]
      BY DEF DeliveryInv
    <3> QED
      BY <2>1, <2>2, <2>4, <3>1, <3>2, <3>3
  <2> QED
    BY <2>3, <2>4
<1> QED
  BY <1>6, <1>7, <1>8 DEF DeliveryInv

LEMMA StepCommits ==
    ASSUME DeliveryInv, NEW w \in Worker, Commit(w)
    PROVE  DeliveryInv'
<1>1. /\ Reporting(w) /\ row \in Seq(RowType) /\ overlapped' = overlapped
      /\ {"at", "key", "found", "seen", "channel"} \subseteq DOMAIN report[w]
      /\ report[w].key \in Key /\ report[w].found \subseteq KeyRows(row, report[w].key)
      /\ report[w].seen \subseteq Int /\ (report[w].found # {} => report[w].seen # {})
      /\ commits \in [Key -> Int]
  BY DEF Commit, Reporting, DeliveryInv, DeliveryShape
<1>2. CASE report[w].at = "poisoned"
  <2> DEFINE new == [report[w] EXCEPT !.at = "lost"]
  <2>1. report' = [report EXCEPT ![w] = new] /\ UNCHANGED <<row, commits>>
    BY <1>2 DEF Commit
  <2>2. "at" \in DOMAIN new /\ new.at = "lost"
    BY <1>1
  <2> HIDE DEF new
  <2> QED
    BY <1>1, <2>1, <2>2, ReportGoesOn
<1>3. CASE report[w].at = "flushed"
  <2> PICK k0 : k0 = report[w].key
    OBVIOUS
  <2> PICK found : found = report[w].found
    OBVIOUS
  <2> PICK rows : rows = row'
    OBVIOUS
  <2> DEFINE new == [report[w] EXCEPT !.at = "committed"]
  <2>1. /\ report' = [report EXCEPT ![w] = new] /\ rows = WrittenRow(w)
        /\ commits' = [commits EXCEPT ![k0] = commits[k0] + 1]
    BY <1>3 DEF Commit
  <2>2. "at" \in DOMAIN new /\ new.at = "committed"
    BY <1>1
  <2> HIDE DEF new
  <2>3. /\ k0 \notin overlapped => /\ Open(k0) \subseteq found /\ \A i, j \in Open(k0) : i = j
        /\ k0 \notin overlapped /\ found # {} =>
             \E i \in KeyRows(row, k0) : found = {i} /\ report[w].seen = {row[i].occurrences}
    BY <1>1 DEF DeliveryInv, ReadsWhatIsThere
  <2>4. CASE found = {}
    <3> DEFINE a == [key |-> k0, status |-> "open", occurrences |-> 1]
               n == Len(row) + 1
    <3>1. rows = Append(row, a)
      BY <2>1, <2>4 DEF WrittenRow
    <3>2. a \in RowType /\ a.key = k0 /\ a.status = "open" /\ a.occurrences = 1
      BY <1>1 DEF RowType, Status
    <3> HIDE DEF a
    <3>3. /\ rows \in Seq(RowType) /\ DOMAIN rows = 1 .. n /\ DOMAIN row = 1 .. Len(row)
          /\ Len(row) \in Nat /\ rows[n] = a /\ \A i \in DOMAIN row : rows[i] = row[i]
      BY <1>1, <3>1, <3>2
    <3>4. DOMAIN rows = DOMAIN row \union {n} /\ n \notin DOMAIN row
      BY <3>3
    <3> HIDE DEF n
    <3>5. KeyRows(rows, k0) = KeyRows(row, k0) \union {n} /\ n \notin KeyRows(row, k0)
      BY <3>2, <3>3, <3>4 DEF KeyRows
    <3>6. Total(rows, k0) = Total(row, k0) + 1
      <4>1. rows[n].occurrences = 1 /\ \A i \in KeyRows(row, k0) : rows[i].occurrences = row[i].occurrences
        BY <3>2, <3>3 DEF KeyRows
      <4> QED
        BY <1>1, <3>3, <3>5, <4>1, TotalAdd
    <3>7. ASSUME k0 \notin overlapped, NEW i \in DOMAIN rows, rows[i].key = k0, rows[i].status = "open"
          PROVE  i = n
      BY <2>3, <2>4, <3>3, <3>4, <3>7 DEF Open
    <3>8. /\ \A i \in DOMAIN row : i \in DOMAIN rows /\ rows[i] = row[i]
          /\ \A i \in DOMAIN rows : rows[i].key # k0 => i \in DOMAIN row
      BY <3>2, <3>3, <3>4
    <3>9. k0 \notin overlapped => \A i, j \in DOMAIN rows :
                                    (/\ rows[i].key = k0 /\ rows[i].status = "open"
                                     /\ rows[j].key = k0 /\ rows[j].status = "open") => i = j
      BY <3>7
    <3> QED
      BY <1>1, <2>1, <2>2, <3>3, <3>6, <3>8, <3>9, RowsWritten
  <2>5. CASE found # {}
    <3> DEFINE count == 1 + CHOOSE n \in report[w].seen : TRUE
    <3>1. rows = [i \in DOMAIN row |-> IF i \in found THEN [row[i] EXCEPT !.occurrences = count] ELSE row[i]]
      BY <2>1, <2>5 DEF WrittenRow
    <3>2. /\ count \in Int
          /\ \A i : report[w].seen = {row[i].occurrences} => count = 1 + row[i].occurrences
      BY <1>1, <2>5
    <3> HIDE DEF count
    <3>3. ASSUME NEW i \in DOMAIN row
          PROVE  /\ rows[i] \in RowType /\ rows[i].key = row[i].key /\ rows[i].status = row[i].status
                 /\ i \in found => rows[i].occurrences = count
                 /\ i \notin found => rows[i] = row[i]
      <4>1. row[i] \in RowType
        BY <1>1
      <4>2. CASE i \in found
        <5>1. rows[i] = [row[i] EXCEPT !.occurrences = count]
          BY <3>1, <4>2
        <5> QED
          BY <3>2, <4>1, <4>2, <5>1 DEF RowType
      <4>3. CASE i \notin found
        BY <3>1, <4>1, <4>3
      <4> QED
        BY <4>2, <4>3
    <3>4. rows \in Seq(RowType) /\ DOMAIN rows = DOMAIN row
      <4>1. DOMAIN row = 1 .. Len(row) /\ Len(row) \in Nat
        BY <1>1
      <4>2. DOMAIN rows = DOMAIN row /\ rows = [i \in DOMAIN row |-> rows[i]]
        BY <3>1
      <4> QED
        BY <3>3, <4>1, <4>2
    <3>5. found \subseteq KeyRows(row, k0)
      BY <1>1
    <3>6. \A i \in DOMAIN row : row[i].key # k0 => rows[i] = row[i]
      BY <3>3, <3>5 DEF KeyRows
    <3>7. KeyRows(rows, k0) = KeyRows(row, k0)
      BY <3>3, <3>4 DEF KeyRows
    <3>8. k0 \notin overlapped => Total(rows, k0) = Total(row, k0) + 1
      <4> SUFFICES ASSUME k0 \notin overlapped PROVE Total(rows, k0) = Total(row, k0) + 1
        OBVIOUS
      <4>1. PICK n \in KeyRows(row, k0) : found = {n} /\ report[w].seen = {row[n].occurrences}
        BY <2>3, <2>5
      <4>2. /\ rows[n].occurrences = 1 + row[n].occurrences
            /\ \A i \in KeyRows(row, k0) : i # n => rows[i].occurrences = row[i].occurrences
        BY <3>2, <3>3, <4>1 DEF KeyRows
      <4> QED
        BY <1>1, <3>4, <3>7, <4>1, <4>2, TotalPlus
    <3>9. k0 \notin overlapped => \A i, j \in DOMAIN rows :
                                    (/\ rows[i].key = k0 /\ rows[i].status = "open"
                                     /\ rows[j].key = k0 /\ rows[j].status = "open") => i = j
      BY <2>3, <3>3, <3>4 DEF Open
    <3>10. /\ \A i \in DOMAIN row : i \in DOMAIN rows /\ rows[i].key = row[i].key
           /\ \A i \in DOMAIN rows : i \in DOMAIN row
      BY <3>3, <3>4
    <3> HIDE DEF count
    <3> QED
      BY <1>1, <2>1, <2>2, <3>4, <3>6, <3>8, <3>9, <3>10, RowsWritten
  <2> QED
    BY <2>4, <2>5
<1> QED
  BY <1>2, <1>3 DEF Commit

LEMMA DeliveryGoesOn == DeliveryInv /\ [DeliveryNext]_deliveryVars => DeliveryInv'
<1> SUFFICES ASSUME DeliveryInv, [DeliveryNext]_deliveryVars PROVE DeliveryInv'
  OBVIOUS
<1>1. ASSUME NEW w \in Worker, NEW code \in Code, FailStage(w, code) PROVE DeliveryInv'
  BY <1>1, StepFails
<1>2. ASSUME NEW w \in Worker, ReportStep(w) PROVE DeliveryInv'
  BY <1>2, StepPersist, StepSend, StepCommits DEF ReportStep
<1>3. ASSUME NEW w \in Worker, Die(w) PROVE DeliveryInv'
  BY <1>3, StepDies
<1>4. ASSUME NEW i \in DOMAIN row, NEW to \in Status \ {"open"}, CloseRow(i, to) PROVE DeliveryInv'
  BY <1>4, StepCloses
<1>5. CASE UNCHANGED deliveryVars
  <2>1. UNCHANGED <<row, report, commits, overlapped>>
    BY <1>5 DEF deliveryVars
  <2>2. \A k : Open(k)' = Open(k)
    BY <2>1 DEF Open
  <2>3. DeliveryShape'
    BY <2>1 DEF DeliveryInv, DeliveryShape, Reporting
  <2>4. \A w \in Worker : ReadsWhatIsThere(w)'
    BY <2>1 DEF DeliveryInv, ReadsWhatIsThere, Reporting, Open
  <2>5. \A k \in Key \ overlapped : ReportsAlone(k)'
    BY <2>1 DEF DeliveryInv, ReportsAlone, Reporting
  <2> QED
    BY <2>1, <2>2, <2>3, <2>4, <2>5 DEF DeliveryInv
<1> QED
  BY <1>1, <1>2, <1>3, <1>4, <1>5 DEF DeliveryNext

(* The strengthening is an invariant of every run of reports.               *)
THEOREM DeliveryAlwaysInv == DeliverySpec => []DeliveryInv
  BY DeliveryStart, DeliveryGoesOn, PTL DEF DeliverySpec

(* However many workers fail, die and report, and whenever operators close  *)
(* rows: where no two report one condition at a time, it has at most one    *)
(* open row, and its rows count every failure that was committed.           *)
THEOREM ReportsAlwaysCounted == DeliverySpec => []EveryReportCounted
<1>1. DeliveryInv => EveryReportCounted
  <2> SUFFICES ASSUME DeliveryInv, NEW k \in Key \ overlapped
               PROVE  /\ Cardinality(Open(k)) <= 1
                      /\ MapThenSumSet(LAMBDA i : row[i].occurrences,
                                       {i \in DOMAIN row : row[i].key = k}) = commits[k]
    BY DEF EveryReportCounted
  <2>1. Cardinality(Open(k)) <= 1
    <3>1. \A i, j \in Open(k) : i = j
      BY DEF DeliveryInv
    <3>2. CASE Open(k) = {}
      BY <3>2, FS_EmptySet
    <3>3. ASSUME NEW i \in Open(k) PROVE Cardinality(Open(k)) <= 1
      <4>1. Open(k) = {i}
        BY <3>1, <3>3
      <4>2. Cardinality({i}) = 1
        BY FS_Singleton
      <4> QED
        BY <4>1, <4>2
    <3> QED
      BY <3>2, <3>3
  <2> DEFINE S == KeyRows(row, k)
  <2>2. /\ IsFiniteSet(S) /\ S \subseteq DOMAIN row /\ \A i \in S : row[i].occurrences \in Int
        /\ SumOver(Said(row), S) = commits[k]
    BY KeyRowsFinite DEF DeliveryInv, DeliveryShape, Total
  <2> HIDE DEF S
  <2>3. MapThenSumSet(LAMBDA i : row[i].occurrences, S) = commits[k]
    BY <2>2, SaidTotal
  <2>4. S = {i \in DOMAIN row : row[i].key = k}
    BY DEF S, KeyRows
  <2> QED
    BY <2>1, <2>3, <2>4
<1> QED
  BY <1>1, DeliveryAlwaysInv, PTL

-----------------------------------------------------------------------------
(***************************************************************************)
(* Theorems about the sweep of alerts, for every number of sweeps at once, *)
(* every estate and every set of rules.                                    *)
(***************************************************************************)

DraftOK(d) ==
    /\ d = [type |-> d.type, key |-> d.key, severity |-> d.severity]
    /\ d.type \in EvaluatedTypes /\ d.severity \in Severity
    /\ d.key \in AllKeys /\ d.key[1] = d.type

DraftsOK(drafts) == IsFiniteSet(drafts) /\ \A d \in drafts : DraftOK(d)

LoadedOK(loaded) ==
    DOMAIN loaded = DOMAIN RuleOf /\ \A p \in DOMAIN RuleOf : loaded[p] \in {None, RuleOf[p]}

LEMMA SeverityFacts ==
    /\ High \in Severity /\ Critical \in Severity
    /\ \A n \in Severity : /\ Promote(n) \in Severity
                           /\ AtLeast(n, High) \in Severity /\ AtLeast(n, Critical) \in Severity
  BY DEF High, Critical, Severity, Promote, AtLeast

LEMMA AtMostOneDraft ==
    ASSUME NEW drafts, NEW x, drafts \subseteq {x}, x \in drafts => DraftOK(x)
    PROVE  DraftsOK(drafts)
<1>1. IsFiniteSet(drafts)
  BY FS_Singleton, FS_Subset
<1> QED
  BY <1>1 DEF DraftsOK

LEMMA DraftIsOK ==
    ASSUME NEW type \in EvaluatedTypes, NEW subject \in Subjects, NEW day \in DueDays,
           NEW n \in Severity
    PROVE  DraftOK(Draft(type, subject, day, n))
  BY DEF DraftOK, Draft, AllKeys, AlertTypes

LEMMA DaysAreDue ==
    ASSUME NEW c \in Facts
    PROVE  /\ None \in DueDays /\ c.expires \in DueDays /\ c.id \in Subjects
           /\ \A o \in c.obligations : o.due \in DueDays /\ o.id \in Subjects
           /\ \A p \in DOMAIN RuleOf : NoticeDeadline(c, RuleOf[p]) \in DueDays
  BY DEF DueDays, Subjects

LEMMA ExpiringOK ==
    ASSUME NEW c \in Facts, NEW p \in DOMAIN RuleOf, NEW day
    PROVE  DraftsOK(Expiring(c, RuleOf[p], day))
<1> DEFINE r == RuleOf[p]
           left == c.expires - day
           n == IF left <= r.criticalDays THEN AtLeast(r.severity, Critical)
                ELSE IF left <= r.escalateDays THEN AtLeast(r.severity, High)
                ELSE r.severity
           x == Draft("contract_expiring", c.id, c.expires, n)
<1>1. n \in Severity
  BY RulesAssumption, SeverityFacts
<1>2. Expiring(c, r, day) \subseteq {x}
  BY DEF Expiring
<1> HIDE DEF n
<1>3. DraftOK(x)
  BY <1>1, DaysAreDue, DraftIsOK DEF EvaluatedTypes, ContractTypes
<1> HIDE DEF x
<1> QED
  BY <1>2, <1>3, AtMostOneDraft

LEMMA AutoRenewalOK ==
    ASSUME NEW c \in Facts, NEW p \in DOMAIN RuleOf, NEW day
    PROVE  DraftsOK(AutoRenewal(c, RuleOf[p], day))
<1> DEFINE r == RuleOf[p]
           d == NoticeDeadline(c, r)
           n == IF d - day <= r.criticalDays THEN AtLeast(r.severity, Critical) ELSE r.severity
           x == Draft("auto_renewal_notice", c.id, d, n)
<1>1. n \in Severity
  BY RulesAssumption, SeverityFacts
<1>2. AutoRenewal(c, r, day) \subseteq {x}
  BY DEF AutoRenewal
<1> HIDE DEF n
<1>3. DraftOK(x)
  BY <1>1, DaysAreDue, DraftIsOK DEF EvaluatedTypes, ContractTypes
<1> HIDE DEF x
<1> QED
  BY <1>2, <1>3, AtMostOneDraft

LEMMA HighRiskOK ==
    ASSUME NEW c \in Facts, NEW p \in DOMAIN RuleOf, NEW day
    PROVE  DraftsOK(HighRisk(c, RuleOf[p], day))
<1> DEFINE r == RuleOf[p]
           n == IF c.score >= r.criticalScore THEN AtLeast(r.severity, Critical) ELSE r.severity
           x == Draft("high_risk", c.id, None, n)
<1>1. n \in Severity
  BY RulesAssumption, SeverityFacts
<1>2. HighRisk(c, r, day) \subseteq {x}
  BY DEF HighRisk
<1> HIDE DEF n
<1>3. DraftOK(x)
  BY <1>1, DaysAreDue, DraftIsOK DEF EvaluatedTypes, ContractTypes
<1> HIDE DEF x
<1> QED
  BY <1>2, <1>3, AtMostOneDraft

LEMMA StandingOK ==
    ASSUME NEW c \in Facts, NEW p \in DOMAIN RuleOf, NEW day
    PROVE  DraftsOK(MissingClause(c, RuleOf[p], day)) /\ DraftsOK(ReviewRequired(c, RuleOf[p], day))
<1> DEFINE n == RuleOf[p].severity
           x == Draft("missing_mandatory_clause", c.id, None, n)
           y == Draft("review_required", c.id, None, n)
<1>1. n \in Severity
  BY RulesAssumption
<1>2. MissingClause(c, RuleOf[p], day) \subseteq {x} /\ ReviewRequired(c, RuleOf[p], day) \subseteq {y}
  BY DEF MissingClause, ReviewRequired
<1> HIDE DEF n
<1>3. DraftOK(x) /\ DraftOK(y)
  BY <1>1, DaysAreDue, DraftIsOK DEF EvaluatedTypes, ContractTypes
<1> HIDE DEF x, y
<1> QED
  BY <1>2, <1>3, AtMostOneDraft

LEMMA ObligationOK ==
    ASSUME NEW c \in Facts, NEW o \in c.obligations, NEW p \in DOMAIN RuleOf, NEW day
    PROVE  DraftsOK(ObligationDue(o, RuleOf[p], day))
<1> DEFINE r == RuleOf[p]
           n == IF o.due < day THEN AtLeast(r.severity, High) ELSE r.severity
           x == Draft("obligation_due", o.id, o.due, n)
<1>1. n \in Severity
  BY RulesAssumption, SeverityFacts
<1>2. ObligationDue(o, r, day) \subseteq {x}
  BY DEF ObligationDue
<1> HIDE DEF n
<1>3. DraftOK(x)
  BY <1>1, DaysAreDue, DraftIsOK DEF EvaluatedTypes, ContractTypes
<1> HIDE DEF x
<1> QED
  BY <1>2, <1>3, AtMostOneDraft

LEMMA DraftsUnion ==
    ASSUME NEW S, IsFiniteSet(S), NEW f, \A x \in S : DraftsOK(f[x]),
           NEW drafts, \A d : d \in drafts <=> \E x \in S : d \in f[x]
    PROVE  DraftsOK(drafts)
<1> DEFINE T == {f[x] : x \in S}
           g == [x \in S |-> f[x]]
<1>1. g \in [S -> T] /\ \A t \in T : \E x \in S : g[x] = t
  OBVIOUS
<1>2. IsFiniteSet(T)
  <2> HIDE DEF T, g
  <2> QED
    BY <1>1, OntoFinite
<1>3. \A t \in T : IsFiniteSet(t)
  BY DEF DraftsOK
<1>4. IsFiniteSet(UNION T)
  <2> HIDE DEF T
  <2> QED
    BY <1>2, <1>3, FS_UNION
<1>5. drafts = UNION T
  OBVIOUS
<1> QED
  BY <1>4, <1>5 DEF DraftsOK

(* The rule that applies is one of those loaded.                            *)
LEMMA RuleForFacts ==
    ASSUME NEW loaded, LoadedOK(loaded), NEW project, NEW type,
           RuleFor(loaded, project, type) # None
    PROVE  \E p \in DOMAIN RuleOf :
              /\ RuleFor(loaded, project, type) = RuleOf[p]
              /\ loaded[p] = RuleOf[p] /\ p[2] = type
<1> DEFINE rule(scope) == IF <<scope, type>> \in DOMAIN loaded THEN loaded[<<scope, type>>] ELSE None
<1>1. RuleFor(loaded, project, type) = IF rule(project) # None THEN rule(project) ELSE rule(Platform)
  BY DEF RuleFor
<1>2. ASSUME NEW scope, rule(scope) # None
      PROVE  \E p \in DOMAIN RuleOf : rule(scope) = RuleOf[p] /\ loaded[p] = RuleOf[p] /\ p[2] = type
  BY <1>2, <<scope, type>>[2] = type DEF LoadedOK
<1> HIDE DEF rule
<1> QED
  BY <1>1, <1>2

LEMMA DraftsOfOK ==
    ASSUME NEW c \in Facts, NEW type \in EvaluatedTypes, NEW loaded, LoadedOK(loaded), NEW day
    PROVE  DraftsOK(DraftsOf(c, type, loaded, day))
<1> DEFINE r == RuleFor(loaded, c.project, type)
<1>1. CASE r = None
  <2>1. DraftsOf(c, type, loaded, day) = {}
    BY <1>1 DEF DraftsOf
  <2> QED
    BY <2>1, FS_EmptySet DEF DraftsOK
<1>2. CASE r # None
  <2>1. PICK p \in DOMAIN RuleOf : r = RuleOf[p]
    BY <1>2, RuleForFacts
  <2>2. CASE type = "obligation_due"
    <3> DEFINE S == ObligationsRead(c, loaded, day)
               f == [o \in S |-> ObligationDue(o, RuleOf[p], day)]
    <3>1. S \subseteq c.obligations
      BY DEF ObligationsRead
    <3>2. IsFiniteSet(S)
      BY <3>1, FactsAssumption, FS_Subset
    <3>3. \A o \in S : DraftsOK(f[o])
      BY <3>1, ObligationOK
    <3>4. \A d : d \in DraftsOf(c, type, loaded, day) <=> \E o \in S : d \in f[o]
      BY <1>2, <2>1, <2>2 DEF DraftsOf
    <3> HIDE DEF S, f
    <3> QED
      BY <3>2, <3>3, <3>4, DraftsUnion
  <2>3. CASE type # "obligation_due"
    <3>1. DraftsOf(c, type, loaded, day) = Evaluate(type, c, RuleOf[p], day)
      BY <1>2, <2>1, <2>3 DEF DraftsOf
    <3>2. DraftsOK(Evaluate(type, c, RuleOf[p], day))
      <4>1. CASE type = "contract_expiring"
        BY <4>1, ExpiringOK DEF Evaluate
      <4>2. CASE type = "auto_renewal_notice"
        BY <4>2, AutoRenewalOK DEF Evaluate
      <4>3. CASE type = "high_risk"
        BY <4>3, HighRiskOK DEF Evaluate
      <4>4. CASE type = "missing_mandatory_clause"
        BY <4>4, StandingOK DEF Evaluate
      <4>5. CASE type = "review_required"
        BY <4>5, StandingOK DEF Evaluate
      <4> QED
        BY <2>3, <4>1, <4>2, <4>3, <4>4, <4>5 DEF EvaluatedTypes, ContractTypes
    <3> QED
      BY <3>1, <3>2
  <2> QED
    BY <2>2, <2>3
<1> QED
  BY <1>1, <1>2

LEMMA SetsAreEqual ==
    ASSUME NEW S, NEW T, \A x : x \in S <=> x \in T
    PROVE  S = T
  OBVIOUS

LEMMA TypesAreFinite == IsFiniteSet(EvaluatedTypes)
<1>1. EvaluatedTypes = {"contract_expiring"} \union ({"auto_renewal_notice"} \union ({"high_risk"}
          \union ({"missing_mandatory_clause"} \union ({"review_required"} \union {"obligation_due"}))))
  BY DEF EvaluatedTypes, ContractTypes
<1>2. \A x : IsFiniteSet({x})
  BY FS_Singleton
<1> QED
  BY <1>1, <1>2, FS_Union

Asked(c) == (IF c.alive /\ c.examined THEN TypesFor(c) ELSE {}) \union {"obligation_due"}

LEMMA CollectIsUnion ==
    ASSUME NEW c, NEW loaded, NEW day
    PROVE  \A d : d \in Collect({c}, loaded, day)
                    <=> \E type \in Asked(c) : d \in DraftsOf(c, type, loaded, day)
  BY DEF Collect, Asked

LEMMA AskedIsEvaluated == ASSUME NEW c PROVE Asked(c) \subseteq EvaluatedTypes
  BY DEF Asked, EvaluatedTypes, TypesFor

LEMMA CollectOK ==
    ASSUME NEW c \in Facts, NEW loaded, LoadedOK(loaded), NEW day
    PROVE  DraftsOK(Collect({c}, loaded, day))
<1> DEFINE f == [type \in Asked(c) |-> DraftsOf(c, type, loaded, day)]
           all == Collect({c}, loaded, day)
<1>1. IsFiniteSet(Asked(c))
  BY AskedIsEvaluated, TypesAreFinite, FS_Subset
<1>2. \A type \in Asked(c) : DraftsOK(f[type])
  BY AskedIsEvaluated, DraftsOfOK
<1>3. \A d : d \in all <=> \E type \in Asked(c) : d \in f[type]
  BY CollectIsUnion
<1> HIDE DEF f, all
<1>4. DraftsOK(all)
  BY <1>1, <1>2, <1>3, DraftsUnion
<1> QED
  BY <1>4 DEF all

-----------------------------------------------------------------------------
(* The window every obligation is read with is as wide as any rule's.       *)

LEMMA WidestIsWidest ==
    ASSUME NEW loaded, LoadedOK(loaded), NEW field, \A q \in DOMAIN RuleOf : RuleOf[q][field] \in Int,
           NEW p \in DOMAIN RuleOf, p[2] = "obligation_due", loaded[p] = RuleOf[p]
    PROVE  \E w \in Widest(loaded, field) : w \in Int /\ RuleOf[p][field] <= w
<1> DEFINE P == {q \in DOMAIN loaded : q[2] = "obligation_due" /\ loaded[q] # None}
           inForce == {loaded[q] : q \in P}
           V == {r[field] : r \in inForce}
           f == [q \in P |-> loaded[q][field]]
<1>1. p \in P /\ loaded[p] \in inForce /\ RuleOf[p][field] \in V
  BY RulesAssumption DEF LoadedOK
<1>2. P \subseteq DOMAIN RuleOf /\ \A q \in P : loaded[q] = RuleOf[q]
  BY DEF LoadedOK
<1>3. IsFiniteSet(P)
  BY <1>2, RulesAssumption, FS_Subset
<1>4. f \in [P -> V] /\ \A v \in V : \E q \in P : f[q] = v
  OBVIOUS
<1>5. \A v \in V : v \in Int
  BY <1>2
<1>6. Widest(loaded, field) = {Max(V)}
  BY <1>1 DEF Widest
<1> HIDE DEF P, inForce, V, f
<1>7. IsFiniteSet(V)
  BY <1>3, <1>4, OntoFinite
<1>8. Max(V) \in V /\ \A v \in V : Max(V) >= v
  BY <1>1, <1>5, <1>7, MaxFacts
<1> QED
  BY <1>1, <1>5, <1>6, <1>8

LEMMA ObligationsKept ==
    ASSUME NEW c \in Facts, c.alive, NEW loaded, LoadedOK(loaded), NEW day \in Int,
           NEW p \in DOMAIN RuleOf, p[2] = "obligation_due", loaded[p] = RuleOf[p]
    PROVE  UNION {ObligationDue(o, RuleOf[p], day) : o \in ObligationsRead(c, loaded, day)}
             = UNION {ObligationDue(o, RuleOf[p], day) : o \in c.obligations}
<1>1. PICK w \in Widest(loaded, "windowDays") : w \in Int /\ RuleOf[p].windowDays <= w
  BY RulesAssumption, WidestIsWidest
<1>2. PICK b \in Widest(loaded, "overdueDays") : b \in Int /\ RuleOf[p].overdueDays <= b
  BY RulesAssumption, WidestIsWidest
<1>3. ASSUME NEW o \in c.obligations, NEW d \in ObligationDue(o, RuleOf[p], day)
      PROVE  o \in ObligationsRead(c, loaded, day)
  <2>1. o.unfulfilled /\ o.due \in day - RuleOf[p].overdueDays .. day + RuleOf[p].windowDays
    BY <1>3 DEF ObligationDue
  <2>2. RuleOf[p].overdueDays \in Int /\ RuleOf[p].windowDays \in Int
    BY RulesAssumption
  <2>3. o.due \in day - b .. day + w
    BY <1>1, <1>2, <2>1, <2>2
  <2> QED
    BY <1>1, <1>2, <2>1, <2>3 DEF ObligationsRead
<1>4. ObligationsRead(c, loaded, day) \subseteq c.obligations
  BY DEF ObligationsRead
<1> QED
  BY <1>3, <1>4

LEMMA CollectIsConditions ==
    ASSUME NEW c \in Facts, NEW loaded, LoadedOK(loaded), today \in Int
    PROVE  Collect({c}, loaded, today) = Conditions(c, loaded)
<1> DEFINE r(type) == RuleFor(loaded, c.project, type)
           silent(type) == \/ r(type) = None \/ ~c.alive
                           \/ type # "obligation_due" /\ ~c.examined
                           \/ type \in ContractTypes /\ ~c.extracted
           said(type) == IF silent(type) THEN {} ELSE Evaluate(type, c, r(type), today)
<1>1. \A d : d \in Conditions(c, loaded) <=> \E type \in EvaluatedTypes : d \in said(type)
  BY Zenon DEF Conditions
<1>2. \A d : d \in Collect({c}, loaded, today)
              <=> \E type \in Asked(c) : d \in DraftsOf(c, type, loaded, today)
  BY CollectIsUnion
<1>3. ASSUME NEW type \in EvaluatedTypes, type \notin Asked(c) PROVE said(type) = {}
  BY <1>3 DEF EvaluatedTypes, TypesFor, Asked
<1>4. ASSUME NEW type \in Asked(c) PROVE type \in EvaluatedTypes /\ said(type) = DraftsOf(c, type, loaded, today)
  <2>1. type \in EvaluatedTypes
    BY <1>4, AskedIsEvaluated
  <2>2. CASE r(type) = None
    BY <2>1, <2>2 DEF DraftsOf
  <2>3. CASE r(type) # None /\ type # "obligation_due"
    <3>1. c.alive /\ c.examined /\ (type \in ContractTypes => c.extracted)
      BY <1>4, <2>3 DEF Asked, TypesFor, ContractTypes
    <3>2. said(type) = Evaluate(type, c, r(type), today)
      BY <2>3, <3>1
    <3>3. DraftsOf(c, type, loaded, today) = Evaluate(type, c, r(type), today)
      BY <2>3 DEF DraftsOf
    <3> QED
      BY <2>1, <3>2, <3>3
  <2>4. CASE r(type) # None /\ type = "obligation_due"
    <3>1. PICK p \in DOMAIN RuleOf : r(type) = RuleOf[p] /\ loaded[p] = RuleOf[p] /\ p[2] = type
      BY <2>4, RuleForFacts
    <3>2. DraftsOf(c, type, loaded, today)
            = UNION {ObligationDue(o, RuleOf[p], today) : o \in ObligationsRead(c, loaded, today)}
      BY <2>4, <3>1 DEF DraftsOf
    <3>3. CASE c.alive
      <4>1. type \notin ContractTypes
        BY <2>4 DEF ContractTypes
      <4>2. said(type) = Evaluate("obligation_due", c, RuleOf[p], today)
        BY <2>4, <3>1, <3>3, <4>1
      <4>3. Evaluate("obligation_due", c, RuleOf[p], today)
              = UNION {ObligationDue(o, RuleOf[p], today) : o \in c.obligations}
        BY Zenon DEF Evaluate
      <4>4. UNION {ObligationDue(o, RuleOf[p], today) : o \in ObligationsRead(c, loaded, today)}
              = UNION {ObligationDue(o, RuleOf[p], today) : o \in c.obligations}
        BY <2>4, <3>1, <3>3, ObligationsKept
      <4> HIDE DEF said
      <4>5. said(type) = DraftsOf(c, type, loaded, today)
        BY <3>2, <4>2, <4>3, <4>4
      <4> QED
        BY <2>1, <4>5
    <3>4. CASE ~c.alive
      <4>1. ObligationsRead(c, loaded, today) = {}
        BY <3>4 DEF ObligationsRead
      <4> QED
        BY <2>1, <3>2, <3>4, <4>1
    <3> QED
      BY <3>3, <3>4
  <2> QED
    BY <2>2, <2>3, <2>4
<1> HIDE DEF said
<1>5. \A d : d \in Collect({c}, loaded, today) <=> d \in Conditions(c, loaded)
  BY <1>1, <1>2, <1>3, <1>4
<1> QED
  BY <1>5, SetsAreEqual

-----------------------------------------------------------------------------

(***************************************************************************)
(* The strengthening.  The table of alerts is right because of what a      *)
(* sweep still knows when it writes: every row it read is still there with *)
(* its key, its drafts are what the rules it read said of the contract it  *)
(* read, and a sweep that is alone read every live row but those an        *)
(* operator reopened behind it, and nobody touched their severity since.   *)
(* So what it adds has no live row yet, and what it promotes stood at its  *)
(* base.                                                                   *)
(***************************************************************************)

\* A rule in the table is the one an administrator would write, on or off.
RulesShape ==
    /\ DOMAIN rules = DOMAIN RuleOf
    /\ \A p \in DOMAIN RuleOf :
         rules[p] = None \/ rules[p] \in [enabled : BOOLEAN, rule : {RuleOf[p]}]

AlertShape ==
    /\ today \in 0 .. MaxDay /\ contract \in Facts /\ RulesShape
    /\ alert \in Seq(AlertRow)
    /\ DOMAIN sweep = Sweeper
    /\ upsets \in Nat /\ raced \in BOOLEAN

RowsOwned ==
    \A i \in DOMAIN alert : alert[i].type \in EvaluatedTypes /\ alert[i].key[1] = alert[i].type

SweepOK(s) ==
    sweep[s] # Idle =>
        /\ sweep[s].at = "write"
        /\ DraftsOK(sweep[s].drafts)
        /\ DOMAIN sweep[s].read \subseteq DOMAIN alert
        /\ \A i \in DOMAIN sweep[s].read :
             /\ sweep[s].read[i] \in AlertRow /\ sweep[s].read[i].status \in Live
             /\ sweep[s].read[i].key = alert[i].key /\ sweep[s].read[i].type = alert[i].type
        /\ sweep[s].drafts = Collect({sweep[s].of}, sweep[s].rules, sweep[s].day)

(* A sweep by itself knows every live row, and that nobody changed its      *)
(* severity, but for the rows that operators reopened.                      *)
AloneOK(s) ==
    (~raced /\ sweep[s] # Idle) =>
        /\ \A t \in Sweeper \ {s} : sweep[t] = Idle
        /\ \A i \in Rows(Live) : i \in DOMAIN sweep[s].read \/ alert[i].reopened
        /\ \A i \in DOMAIN sweep[s].read :
             /\ alert[i].severity = sweep[s].read[i].severity
             /\ alert[i].base = sweep[s].read[i].base
             /\ alert[i].escalated = sweep[s].read[i].escalated

Up(a) == a.severity = IF a.escalated THEN Promote(a.base) ELSE a.base

EveryRowUp == ~raced => \A i \in DOMAIN alert : Up(alert[i])

AlertInv ==
    /\ AlertShape /\ RowsOwned /\ EveryRowUp /\ OneLivePerCondition
    /\ \A s \in Sweeper : SweepOK(s) /\ AloneOK(s)

LEMMA LoadedIsOK == RulesShape => LoadedOK(Loaded(rules))
  BY DEF RulesShape, LoadedOK, Loaded

LEMMA LiveFacts ==
    /\ {"open", "acknowledged"} = Live /\ "resolved" \notin Live /\ Live \cap Closed = {}
  BY DEF Live, Closed

LEMMA RefreshedFacts ==
    ASSUME NEW was \in AlertRow, NEW d, d.severity \in Severity, NEW new, new = Refreshed(was, d)
    PROVE  /\ new \in AlertRow /\ new.status = was.status /\ new.key = was.key /\ new.type = was.type
           /\ Up(new)
<1> DEFINE n == IF was.escalated THEN Promote(d.severity) ELSE d.severity
<1>1. n \in Severity
  BY SeverityFacts
<1>2. new = [was EXCEPT !.severity = n, !.base = d.severity]
  BY DEF Refreshed
<1> HIDE DEF n
<1>3. /\ new \in AlertRow /\ new.status = was.status /\ new.key = was.key /\ new.type = was.type
      /\ new.severity = n /\ new.base = d.severity /\ new.escalated = was.escalated
  BY <1>1, <1>2 DEF AlertRow
<1> QED
  BY <1>3 DEF Up, n

LEMMA EscalatedFacts ==
    ASSUME NEW was \in AlertRow, NEW r, NEW new, new = Escalated(was, r)
    PROVE  /\ new \in AlertRow /\ new.status = was.status /\ new.key = was.key /\ new.type = was.type
           /\ new.base = was.base /\ (Up(was) => Up(new))
<1>1. CASE new = was
  BY <1>1
<1>2. CASE ~was.escalated /\ new = [was EXCEPT !.severity = Promote(was.severity), !.escalated = TRUE]
  <2>1. Promote(was.severity) \in Severity
    BY SeverityFacts DEF AlertRow
  <2>2. /\ new \in AlertRow /\ new.status = was.status /\ new.key = was.key /\ new.type = was.type
        /\ new.base = was.base /\ new.severity = Promote(was.severity) /\ new.escalated
    BY <1>2, <2>1 DEF AlertRow
  <2> QED
    BY <1>2, <2>2 DEF Up
<1> QED
  BY <1>1, <1>2 DEF Escalated

LEMMA MergedFacts ==
    ASSUME NEW now \in AlertRow, NEW was \in AlertRow, NEW wanted \in AlertRow,
           NEW rewritten \in BOOLEAN, NEW new, new = Merged(now, was, wanted, rewritten)
    PROVE  /\ new \in AlertRow /\ new.key = now.key /\ new.type = now.type /\ new.reopened = now.reopened
           /\ new.status = IF wanted.status # was.status THEN wanted.status ELSE now.status
           /\ new.severity = IF wanted.severity # was.severity THEN wanted.severity ELSE now.severity
           /\ new.base = IF rewritten THEN wanted.base ELSE now.base
           /\ new.escalated = IF rewritten \/ wanted.escalated # was.escalated
                              THEN wanted.escalated ELSE now.escalated
<1> DEFINE a == IF wanted.status # was.status THEN wanted.status ELSE now.status
           b == IF wanted.severity # was.severity THEN wanted.severity ELSE now.severity
           c == IF rewritten THEN wanted.base ELSE now.base
           e == IF rewritten \/ wanted.escalated # was.escalated
                THEN wanted.escalated ELSE now.escalated
<1>1. /\ a \in Live \union Closed /\ b \in Severity /\ c \in Severity /\ e \in BOOLEAN
  BY DEF AlertRow
<1>2. new = [now EXCEPT !.status = a, !.severity = b, !.base = c, !.escalated = e]
  BY DEF Merged
<1> HIDE DEF a, b, c, e
<1>3. /\ new \in AlertRow /\ new.key = now.key /\ new.type = now.type /\ new.reopened = now.reopened
      /\ new.status = a /\ new.severity = b /\ new.base = c /\ new.escalated = e
  BY <1>1, <1>2 DEF AlertRow
<1> QED
  BY <1>3 DEF a, b, c, e

(* What a sweep wants of a row it read.                                     *)
LEMMA WantedFacts ==
    ASSUME NEW s \in Sweeper, SweepOK(s), sweep[s] # Idle, NEW i \in DOMAIN sweep[s].read,
           NEW by \in ByKey(sweep[s].read, sweep[s].drafts), NEW new, new = Wanted(s, by, i)
    PROVE  LET was == sweep[s].read[i]
           IN  /\ new \in AlertRow
               /\ new.status \in {was.status, "resolved"}
               /\ new.status # was.status =>
                    /\ was.key \notin Keys(sweep[s].drafts)
                    /\ RuleFor(sweep[s].rules, contract.project, was.type) # None
               /\ Up(was) => Up(new)
               /\ ~(\E d \in DOMAIN by : by[d] = i) => new.base = was.base
<1> DEFINE was == sweep[s].read[i]
           mine == {d \in DOMAIN by : by[d] = i}
           r == RuleFor(sweep[s].rules, contract.project, was.type)
           known == IF mine = {} THEN was ELSE Refreshed(was, CHOOSE d \in mine : TRUE)
<1>1. was \in AlertRow /\ DraftsOK(sweep[s].drafts)
  BY DEF SweepOK
<1>2. DOMAIN by \subseteq sweep[s].drafts
  BY DEF ByKey
<1>3. new = IF was.key \in Keys(sweep[s].drafts) THEN Escalated(known, r)
            ELSE IF r # None THEN [was EXCEPT !.status = "resolved"]
            ELSE was
  BY DEF Wanted
<1>4. /\ known \in AlertRow /\ known.status = was.status /\ (Up(was) => Up(known))
      /\ mine = {} => known.base = was.base
  <2>1. CASE mine = {}
    BY <1>1, <2>1
  <2>2. CASE mine # {}
    <3>1. PICK d \in mine : known = Refreshed(was, d)
      BY <2>2
    <3>2. d.severity \in Severity
      BY <1>1, <1>2 DEF DraftsOK, DraftOK
    <3> HIDE DEF known
    <3>3. known \in AlertRow /\ known.status = was.status /\ Up(known)
      BY <1>1, <3>1, <3>2, RefreshedFacts
    <3> QED
      BY <2>2, <3>3
  <2> QED
    BY <2>1, <2>2
<1>5. (\E d \in DOMAIN by : by[d] = i) <=> mine # {}
  OBVIOUS
<1> HIDE DEF known, mine, r
<1>6. CASE was.key \in Keys(sweep[s].drafts)
  <2>1. new = Escalated(known, r)
    BY <1>3, <1>6
  <2>2. /\ new \in AlertRow /\ new.status = known.status /\ new.base = known.base
        /\ (Up(known) => Up(new))
    BY <1>4, <2>1, EscalatedFacts
  <2> QED
    BY <1>4, <1>5, <2>2
<1>7. CASE was.key \notin Keys(sweep[s].drafts) /\ r # None
  <2>1. new = [was EXCEPT !.status = "resolved"]
    BY <1>3, <1>7
  <2>2. "resolved" \in Live \union Closed
    BY DEF Closed
  <2> HIDE DEF was
  <2>3. /\ new \in AlertRow /\ new.status = "resolved" /\ new.base = was.base
        /\ new.severity = was.severity /\ new.escalated = was.escalated
    BY <1>1, <2>1, <2>2 DEF AlertRow
  <2>4. Up(was) => Up(new)
    BY <2>3 DEF Up
  <2> QED
    BY <1>7, <2>3, <2>4 DEF was, r
<1>8. CASE was.key \notin Keys(sweep[s].drafts) /\ r = None
  BY <1>1, <1>3, <1>8
<1> QED
  BY <1>6, <1>7, <1>8

(* A sweep that is not over goes on while others add rows and change them,  *)
(* but for their keys.                                                      *)
LEMMA SweepGoesOn ==
    ASSUME NEW t \in Sweeper, SweepOK(t), sweep'[t] = sweep[t], upsets \in Nat,
           DOMAIN alert \subseteq DOMAIN alert',
           \A i \in DOMAIN alert : alert'[i].key = alert[i].key /\ alert'[i].type = alert[i].type
    PROVE  SweepOK(t)'
<1>1. CASE sweep[t] = Idle
  BY <1>1 DEF SweepOK
<1>2. CASE sweep[t] # Idle
  <2>1. DOMAIN sweep[t].read \subseteq DOMAIN alert
    BY <1>2 DEF SweepOK
  <2>2. \A i \in DOMAIN sweep[t].read :
          /\ sweep[t].read[i] \in AlertRow /\ sweep[t].read[i].status \in Live
          /\ sweep[t].read[i].key = alert'[i].key /\ sweep[t].read[i].type = alert'[i].type
    BY <1>2, <2>1 DEF SweepOK
  <2>3. sweep[t].drafts = Collect({sweep[t].of}, sweep[t].rules, sweep[t].day)
    BY <1>2 DEF SweepOK
  <2> QED
    BY <1>2, <2>1, <2>2, <2>3 DEF SweepOK
<1> QED
  BY <1>1, <1>2

(* What sweep s writes: rows it read, refreshed, escalated or retired; and  *)
(* new rows for what no row it read stands for.                             *)
LEMMA WrittenFacts ==
    ASSUME AlertInv, NEW s \in Sweeper, WriteAlerts(s)
    PROVE  /\ alert' \in Seq(AlertRow) /\ DOMAIN alert \subseteq DOMAIN alert'
           /\ \A i \in DOMAIN alert :
                /\ alert'[i].key = alert[i].key /\ alert'[i].type = alert[i].type
                /\ alert'[i].reopened = alert[i].reopened
                /\ \/ alert'[i].status = alert[i].status
                   \/ /\ alert'[i].status = "resolved" /\ i \in DOMAIN sweep[s].read
                      /\ alert[i].key \notin Keys(sweep[s].drafts)
                      /\ RuleFor(sweep[s].rules, contract.project, alert[i].type) # None
                /\ ~raced => Up(alert'[i])
           /\ \A j \in DOMAIN alert' \ DOMAIN alert :
                /\ alert'[j].type \in EvaluatedTypes /\ alert'[j].key[1] = alert'[j].type
                /\ alert'[j].status = "open" /\ Up(alert'[j])
                /\ \A i \in DOMAIN sweep[s].read : sweep[s].read[i].key # alert'[j].key
                /\ OpenKeysUnique(alert')
<1> DEFINE read == sweep[s].read
           raise == {d \in sweep[s].drafts : ~\E i \in DOMAIN read : read[i].key = d.key}
           added == {NewRow(d) : d \in raise}
<1>1. /\ sweep[s].at = "write" /\ sweep[s] # Idle /\ SweepOK(s) /\ AloneOK(s) /\ AlertShape
      /\ alert \in Seq(AlertRow)
  BY DEF WriteAlerts, AlertInv, Idle, AlertShape
<1>2. PICK by \in ByKey(read, sweep[s].drafts) :
        LET updated == [i \in DOMAIN alert |->
                          IF i \in DOMAIN read
                          THEN Merged(alert[i], read[i], Wanted(s, by, i),
                                      \E d \in DOMAIN by : by[d] = i)
                          ELSE alert[i]]
            written == updated \o SetToSeq(added)
        IN  alert' = IF OpenKeysUnique(written) THEN written ELSE alert
  BY DEF WriteAlerts
<1> DEFINE updated == [i \in DOMAIN alert |->
                          IF i \in DOMAIN read
                          THEN Merged(alert[i], read[i], Wanted(s, by, i),
                                      \E d \in DOMAIN by : by[d] = i)
                          ELSE alert[i]]
           new == SetToSeq(added)
           written == updated \o new
<1>3. alert' = IF OpenKeysUnique(written) THEN written ELSE alert
  BY <1>2
<1>4. ASSUME NEW i \in DOMAIN alert
      PROVE  /\ updated[i] \in AlertRow
             /\ updated[i].key = alert[i].key /\ updated[i].type = alert[i].type
             /\ updated[i].reopened = alert[i].reopened
             /\ \/ updated[i].status = alert[i].status
                \/ /\ updated[i].status = "resolved" /\ i \in DOMAIN read
                   /\ alert[i].key \notin Keys(sweep[s].drafts)
                   /\ RuleFor(sweep[s].rules, contract.project, alert[i].type) # None
             /\ ~raced => Up(updated[i])
  <2>1. CASE i \notin DOMAIN read
    <3>1. updated[i] = alert[i]
      BY <2>1
    <3> HIDE DEF updated
    <3> QED
      BY <1>1, <3>1 DEF AlertInv, EveryRowUp
  <2>2. CASE i \in DOMAIN read
    <3> DEFINE wanted == Wanted(s, by, i)
               rewritten == \E d \in DOMAIN by : by[d] = i
               now == alert[i]
               was == read[i]
    <3>1. /\ wanted \in AlertRow
          /\ wanted.status \in {was.status, "resolved"}
          /\ wanted.status # was.status =>
               /\ was.key \notin Keys(sweep[s].drafts)
               /\ RuleFor(sweep[s].rules, contract.project, was.type) # None
          /\ Up(was) => Up(wanted)
          /\ ~rewritten => wanted.base = was.base
      <4> HIDE DEF wanted
      <4>1. wanted = Wanted(s, by, i)
        BY DEF wanted
      <4> QED
        BY <1>1, <2>2, <4>1, WantedFacts
    <3>2. was \in AlertRow /\ was.key = now.key /\ was.type = now.type /\ now \in AlertRow
      BY <1>1, <2>2 DEF SweepOK
    <3>3. updated[i] = Merged(now, was, wanted, rewritten) /\ rewritten \in BOOLEAN
      BY <2>2
    <3>4. ~raced => /\ now.severity = was.severity /\ now.base = was.base
                    /\ now.escalated = was.escalated /\ Up(now)
      BY <1>1, <2>2 DEF AloneOK, AlertInv, EveryRowUp
    <3> HIDE DEF updated, wanted, rewritten, now, was
    <3>5. /\ updated[i] \in AlertRow /\ updated[i].key = now.key /\ updated[i].type = now.type
          /\ updated[i].reopened = now.reopened
          /\ updated[i].status = IF wanted.status # was.status THEN wanted.status ELSE now.status
          /\ updated[i].severity = IF wanted.severity # was.severity THEN wanted.severity ELSE now.severity
          /\ updated[i].base = IF rewritten THEN wanted.base ELSE now.base
          /\ updated[i].escalated = IF rewritten \/ wanted.escalated # was.escalated
                                    THEN wanted.escalated ELSE now.escalated
      BY <3>1, <3>2, <3>3, MergedFacts
    <3>6. ASSUME ~raced PROVE Up(updated[i])
      <4>1. Up(wanted)
        BY <3>1, <3>4, <3>6 DEF Up
      <4>2. /\ updated[i].severity = wanted.severity /\ updated[i].base = wanted.base
            /\ updated[i].escalated = wanted.escalated
        BY <3>1, <3>4, <3>5, <3>6
      <4> QED
        BY <4>1, <4>2 DEF Up
    <3>7. \/ updated[i].status = now.status
          \/ /\ updated[i].status = "resolved"
             /\ now.key \notin Keys(sweep[s].drafts)
             /\ RuleFor(sweep[s].rules, contract.project, now.type) # None
      BY <3>1, <3>2, <3>5
    <3> QED
      BY <2>2, <3>5, <3>6, <3>7 DEF now
  <2> QED
    BY <2>1, <2>2
<1>5. updated \in Seq(AlertRow) /\ DOMAIN updated = DOMAIN alert /\ Len(updated) = Len(alert)
  <2>1. DOMAIN alert = 1 .. Len(alert) /\ Len(alert) \in Nat
    BY <1>1
  <2>2. DOMAIN updated = DOMAIN alert /\ updated = [i \in DOMAIN alert |-> updated[i]]
    OBVIOUS
  <2> HIDE DEF updated
  <2> QED
    BY <1>4, <2>1, <2>2
<1>6. \A a \in added : /\ a \in AlertRow /\ a.type \in EvaluatedTypes /\ a.key[1] = a.type
                      /\ a.status = "open" /\ Up(a)
                      /\ \A i \in DOMAIN read : read[i].key # a.key
  <2> SUFFICES ASSUME NEW d \in raise
               PROVE  /\ NewRow(d) \in AlertRow /\ NewRow(d).type \in EvaluatedTypes
                      /\ NewRow(d).key[1] = NewRow(d).type /\ NewRow(d).status = "open"
                      /\ Up(NewRow(d)) /\ \A i \in DOMAIN read : read[i].key # NewRow(d).key
    OBVIOUS
  <2>1. DraftOK(d) /\ today \in 0 .. MaxDay
    BY <1>1 DEF SweepOK, DraftsOK, AlertShape
  <2>2. \A i \in DOMAIN read : read[i].key # d.key
    OBVIOUS
  <2> HIDE DEF raise, read
  <2>3. NewRow(d) \in AlertRow
    BY <2>1, LiveFacts DEF NewRow, AlertRow, DraftOK, AlertTypes
  <2> QED
    BY <2>1, <2>2, <2>3 DEF NewRow, DraftOK, Up
<1>7. IsFiniteSet(added)
  <2>1. IsFiniteSet(raise)
    <3>1. IsFiniteSet(sweep[s].drafts)
      BY <1>1 DEF SweepOK, DraftsOK
    <3> QED
      BY <3>1, FS_Subset
  <2> DEFINE f == [d \in raise |-> NewRow(d)]
  <2>2. f \in [raise -> added] /\ \A a \in added : \E d \in raise : f[d] = a
    OBVIOUS
  <2> HIDE DEF raise, added, f
  <2> QED
    BY <2>1, <2>2, OntoFinite
<1> HIDE DEF added
<1>8. new \in Seq(added)
  BY <1>7, SetToSeqFacts
<1>9. new \in Seq(AlertRow) /\ (\A k \in 1 .. Len(new) : new[k] \in added) /\ Len(new) \in Nat
  <2> HIDE DEF new
  <2>1. Len(new) \in Nat /\ \A k \in 1 .. Len(new) : new[k] \in added
    BY <1>8
  <2> QED
    BY <1>6, <1>8, <2>1
<1> HIDE DEF updated, new
<1>10. /\ written \in Seq(AlertRow) /\ DOMAIN written = 1 .. Len(alert) + Len(new)
       /\ DOMAIN alert = 1 .. Len(alert) /\ Len(alert) \in Nat
       /\ \A i \in 1 .. Len(alert) : written[i] = updated[i]
       /\ \A k \in 1 .. Len(new) : written[Len(alert) + k] = new[k]
  <2>1. /\ written \in Seq(AlertRow) /\ DOMAIN written = 1 .. Len(updated) + Len(new)
        /\ DOMAIN updated = 1 .. Len(updated) /\ Len(updated) \in Nat
        /\ \A i \in 1 .. Len(updated) : written[i] = updated[i]
        /\ \A k \in 1 .. Len(new) : written[Len(updated) + k] = new[k]
    <3>1. updated \in Seq(AlertRow) /\ new \in Seq(AlertRow)
      BY <1>5, <1>9
    <3> QED
      BY <3>1, ConcatFacts
  <2> HIDE DEF written
  <2> QED
    BY <1>5, <2>1
<1> HIDE DEF written
<1>11. CASE alert' = alert
  BY <1>1, <1>11 DEF AlertInv, EveryRowUp
<1>12. CASE alert' = written /\ OpenKeysUnique(written)
  <2>1. DOMAIN alert \subseteq DOMAIN alert' /\ \A i \in DOMAIN alert : alert'[i] = updated[i]
    BY <1>10, <1>12
  <2>2. ASSUME NEW j \in DOMAIN alert' \ DOMAIN alert PROVE alert'[j] \in added
    <3>1. j - Len(alert) \in 1 .. Len(new) /\ j = Len(alert) + (j - Len(alert))
      BY <1>9, <1>10, <1>12
    <3>2. PICK k \in 1 .. Len(new) : j = Len(alert) + k
      BY <3>1
    <3> QED
      BY <1>9, <1>10, <1>12, <3>2
  <2>3. alert' \in Seq(AlertRow)
    BY <1>10, <1>12
  <2> QED
    BY <1>4, <1>6, <1>12, <2>1, <2>2, <2>3
<1> QED
  BY <1>3, <1>11, <1>12

LEMMA StepWrites ==
    ASSUME AlertInv, NEW s \in Sweeper, WriteAlerts(s)
    PROVE  AlertInv'
<1>1. /\ sweep[s].at = "write" /\ sweep[s] # Idle /\ SweepOK(s) /\ AloneOK(s) /\ AlertShape
  BY DEF WriteAlerts, AlertInv, Idle
<1>2. sweep' = [sweep EXCEPT ![s] = Idle] /\ UNCHANGED <<today, contract, rules, upsets, raced>>
  BY DEF WriteAlerts, SweepUnchanged
<1>3. sweep'[s] = Idle /\ \A t \in Sweeper : t # s => sweep'[t] = sweep[t]
  BY <1>1, <1>2 DEF AlertShape
<1>4. /\ alert' \in Seq(AlertRow) /\ DOMAIN alert \subseteq DOMAIN alert'
      /\ \A i \in DOMAIN alert :
           /\ alert'[i].key = alert[i].key /\ alert'[i].type = alert[i].type
           /\ alert'[i].reopened = alert[i].reopened
           /\ alert'[i].status = alert[i].status \/ alert'[i].status = "resolved"
           /\ ~raced => Up(alert'[i])
      /\ \A j \in DOMAIN alert' \ DOMAIN alert :
           /\ alert'[j].type \in EvaluatedTypes /\ alert'[j].key[1] = alert'[j].type
           /\ alert'[j].status = "open" /\ Up(alert'[j])
           /\ \A i \in DOMAIN sweep[s].read : sweep[s].read[i].key # alert'[j].key
           /\ OpenKeysUnique(alert')
  BY WrittenFacts
<1>5. AlertShape'
  BY <1>1, <1>2, <1>4 DEF AlertShape, RulesShape
<1>6. RowsOwned'
  BY <1>4 DEF AlertInv, RowsOwned
<1>7. EveryRowUp'
  BY <1>2, <1>4 DEF EveryRowUp
<1>8. ASSUME NEW t \in Sweeper PROVE SweepOK(t)' /\ AloneOK(t)'
  <2>1. CASE t = s
    BY <1>3, <2>1 DEF SweepOK, AloneOK
  <2>2. CASE t # s
    <3>1. SweepOK(t)'
      BY <1>1, <1>2, <1>3, <1>4, <2>2, SweepGoesOn DEF AlertInv, AlertShape
    <3>2. ~raced => sweep[t] = Idle
      BY <1>1, <2>2 DEF AloneOK
    <3> QED
      BY <1>2, <1>3, <2>2, <3>1, <3>2 DEF AloneOK
  <2> QED
    BY <2>1, <2>2
<1>9. OneLivePerCondition'
  <2> SUFFICES ASSUME NEW i \in DOMAIN alert', NEW j \in DOMAIN alert', i # j,
                      alert'[i].status \in Live, alert'[j].status \in Live,
                      alert'[i].key = alert'[j].key, alert'[i].type \in EvaluatedTypes,
                      ~raced, ~alert'[i].reopened, ~alert'[j].reopened
               PROVE  FALSE
    BY <1>2 DEF OneLivePerCondition, Rows
  <2>1. \A k \in DOMAIN alert : alert'[k].status \in Live =>
           k \in Rows(Live) /\ (k \in DOMAIN sweep[s].read \/ alert[k].reopened)
    BY <1>1, <1>4, LiveFacts DEF AloneOK, Rows
  <2>2. CASE i \in DOMAIN alert /\ j \in DOMAIN alert
    BY <1>4, <2>1, <2>2 DEF AlertInv, OneLivePerCondition
  <2>3. \A k \in DOMAIN alert, l \in DOMAIN alert' \ DOMAIN alert :
           alert'[k].status \in Live /\ ~alert'[k].reopened => alert'[k].key # alert'[l].key
    <3> TAKE k \in DOMAIN alert, l \in DOMAIN alert' \ DOMAIN alert
    <3> HAVE alert'[k].status \in Live /\ ~alert'[k].reopened
    <3>1. k \in DOMAIN sweep[s].read
      BY <1>4, <2>1
    <3>2. sweep[s].read[k].key = alert[k].key
      BY <1>1, <3>1 DEF SweepOK
    <3> QED
      BY <1>4, <3>1, <3>2
  <2>4. CASE i \notin DOMAIN alert /\ j \notin DOMAIN alert
    BY <1>4, <2>4 DEF OpenKeysUnique
  <2> QED
    BY <2>2, <2>3, <2>4
<1> QED
  BY <1>5, <1>6, <1>7, <1>8, <1>9 DEF AlertInv

LEMMA StepReads ==
    ASSUME AlertInv, NEW s \in Sweeper, ReadEstate(s)
    PROVE  AlertInv'
<1> DEFINE loaded == Loaded(rules)
           new == [at |-> "write", rules |-> loaded, day |-> today, of |-> contract,
                   drafts |-> Collect({contract}, loaded, today),
                   read |-> [i \in {j \in DOMAIN alert : LiveAlerts(j)} |-> alert[i]]]
<1>1. /\ sweep' = [sweep EXCEPT ![s] = new] /\ AlertShape
      /\ raced' = (raced \/ \E t \in Sweeper \ {s} : sweep[t] # Idle)
      /\ UNCHANGED <<today, contract, rules, upsets, alert>>
  BY DEF ReadEstate, SweepUnchanged, AlertInv
<1>2. /\ new.at = "write" /\ new.rules = loaded /\ new.day = today /\ new.of = contract
      /\ new.drafts = Collect({contract}, loaded, today)
      /\ DOMAIN new.read = {j \in DOMAIN alert : LiveAlerts(j)}
      /\ \A i \in DOMAIN new.read : new.read[i] = alert[i]
  OBVIOUS
<1> HIDE DEF new
<1>3. sweep'[s] = new /\ \A t \in Sweeper : t # s => sweep'[t] = sweep[t]
  BY <1>1 DEF AlertShape
<1>4. DraftsOK(new.drafts)
  BY <1>1, <1>2, LoadedIsOK, CollectOK DEF AlertShape
<1>5. \A i \in DOMAIN alert : alert[i] \in AlertRow /\ alert[i].type \in EvaluatedTypes
  BY <1>1 DEF AlertShape, AlertInv, RowsOwned
<1>6. AlertShape'
  BY <1>1 DEF AlertShape, RulesShape
<1>7. RowsOwned' /\ EveryRowUp' /\ OneLivePerCondition'
  BY <1>1 DEF AlertInv, RowsOwned, EveryRowUp, OneLivePerCondition, Rows
<1>8. SweepOK(s)'
  <2>1. \A i \in DOMAIN new.read : new.read[i] = alert[i] /\ alert[i].status \in Live /\ i \in DOMAIN alert
    BY <1>2 DEF LiveAlerts
  <2>2. new.drafts = Collect({new.of}, new.rules, new.day)
    BY <1>2
  <2> QED
    BY <1>1, <1>2, <1>3, <1>4, <1>5, <2>1, <2>2 DEF SweepOK
<1>9. AloneOK(s)'
  <2>1. \A i \in Rows(Live) : i \in DOMAIN new.read
    BY <1>2, <1>5 DEF Rows, LiveAlerts, Evaluated
  <2> QED
    BY <1>1, <1>2, <1>3, <2>1 DEF AloneOK, Rows
<1>10. ASSUME NEW t \in Sweeper, t # s PROVE SweepOK(t)' /\ AloneOK(t)'
  <2>1. SweepOK(t)'
    BY <1>1, <1>3, <1>10, SweepGoesOn DEF AlertInv, AlertShape
  <2>2. raced' \/ sweep'[t] = Idle
    BY <1>1, <1>3, <1>10
  <2> QED
    BY <2>1, <2>2 DEF AloneOK
<1> QED
  BY <1>6, <1>7, <1>8, <1>9, <1>10 DEF AlertInv

LEMMA StepSweepDies ==
    ASSUME AlertInv, NEW s \in Sweeper, SweepDies(s)
    PROVE  AlertInv'
<1>1. /\ sweep' = [sweep EXCEPT ![s] = Idle] /\ AlertShape /\ upsets' = upsets + 1
      /\ UNCHANGED <<today, contract, rules, raced, alert>>
  BY DEF SweepDies, AlertInv
<1>2. sweep'[s] = Idle /\ \A t \in Sweeper : t # s => sweep'[t] = sweep[t]
  BY <1>1 DEF AlertShape
<1>3. AlertShape'
  BY <1>1 DEF AlertShape, RulesShape
<1>4. RowsOwned' /\ EveryRowUp' /\ OneLivePerCondition'
  BY <1>1 DEF AlertInv, RowsOwned, EveryRowUp, OneLivePerCondition, Rows
<1>5. ASSUME NEW t \in Sweeper PROVE SweepOK(t)' /\ AloneOK(t)'
  <2>1. CASE t = s
    BY <1>2, <2>1 DEF SweepOK, AloneOK
  <2>2. CASE t # s
    <3>1. SweepOK(t)'
      <4>1. upsets' # 0
        BY <1>1 DEF AlertShape
      <4> QED
        BY <1>1, <1>2, <2>2, <4>1, SweepGoesOn DEF AlertInv, AlertShape
    <3>2. AloneOK(t)
      BY DEF AlertInv
    <3> QED
      BY <1>1, <1>2, <2>2, <3>1, <3>2 DEF AloneOK, Rows
  <2> QED
    BY <2>1, <2>2
<1> QED
  BY <1>3, <1>4, <1>5 DEF AlertInv

LEMMA StepUpdates ==
    ASSUME AlertInv, NEW i \in DOMAIN alert, NEW to \in Live \union Closed, UpdateAlert(i, to)
    PROVE  AlertInv'
<1> DEFINE again == alert[i].reopened \/ (alert[i].status \in Closed /\ to \in Live)
<1>1. /\ alert' = [alert EXCEPT ![i].status = to, ![i].reopened = again]
      /\ AlertShape /\ upsets' = upsets + 1 /\ alert \in Seq(AlertRow)
      /\ UNCHANGED <<today, contract, rules, sweep, raced>>
  BY DEF UpdateAlert, AlertInv, AlertShape
<1> DEFINE new == [alert[i] EXCEPT !.status = to, !.reopened = again]
<1>a. alert[i] \in AlertRow
  BY <1>1
<1>2. again \in BOOLEAN /\ alert[i] \in AlertRow
  <2>1. alert[i].reopened \in BOOLEAN
    BY <1>a DEF AlertRow
  <2> QED
    BY <1>a, <2>1
<1>3. alert[i].reopened => again
  OBVIOUS
<1>4. to \in Live => alert[i].status \in Live \/ again
  BY <1>2 DEF AlertRow
<1> HIDE DEF again
<1>5. /\ new \in AlertRow /\ new.key = alert[i].key /\ new.type = alert[i].type
      /\ new.status = to /\ new.reopened = again /\ new.severity = alert[i].severity
      /\ new.base = alert[i].base /\ new.escalated = alert[i].escalated
  BY <1>2 DEF AlertRow
<1>6. alert' = [alert EXCEPT ![i] = new]
  BY <1>1
<1> HIDE DEF new
<1>b. alert \in Seq(AlertRow) /\ new \in AlertRow
  BY <1>1, <1>5
<1>7. /\ alert' \in Seq(AlertRow) /\ DOMAIN alert' = DOMAIN alert /\ alert'[i] = new
      /\ \A j \in DOMAIN alert : j # i => alert'[j] = alert[j]
  BY <1>b, <1>6
<1>8. \A j \in DOMAIN alert :
         /\ alert'[j].key = alert[j].key /\ alert'[j].type = alert[j].type
         /\ alert'[j].severity = alert[j].severity /\ alert'[j].base = alert[j].base
         /\ alert'[j].escalated = alert[j].escalated
         /\ alert[j].reopened => alert'[j].reopened
         /\ alert'[j].status \in Live => alert[j].status \in Live \/ alert'[j].reopened
  BY <1>3, <1>4, <1>5, <1>7
<1>9. AlertShape'
  BY <1>1, <1>7 DEF AlertShape, RulesShape
<1>10. RowsOwned' /\ EveryRowUp'
  BY <1>1, <1>7, <1>8 DEF AlertInv, RowsOwned, EveryRowUp, Up
<1>11. OneLivePerCondition'
  BY <1>1, <1>7, <1>8 DEF AlertInv, OneLivePerCondition, Rows
<1>12. ASSUME NEW t \in Sweeper PROVE SweepOK(t)' /\ AloneOK(t)'
  <2>1. SweepOK(t)'
    <3>1. upsets' # 0 /\ SweepOK(t) /\ upsets \in Nat /\ sweep'[t] = sweep[t]
      BY <1>1 DEF AlertShape, AlertInv
    <3> QED
      BY <1>7, <1>8, <3>1, SweepGoesOn
  <2>2. AloneOK(t)'
    <3>1. AloneOK(t) /\ SweepOK(t)
      BY DEF AlertInv
    <3>2. \A j \in Rows(Live)' : j \in Rows(Live) \/ alert'[j].reopened
      BY <1>7, <1>8 DEF Rows
    <3>3. \A j \in Rows(Live) : alert[j].reopened => alert'[j].reopened
      BY <1>8 DEF Rows
    <3>4. SUFFICES ASSUME ~raced, sweep[t] # Idle
                   PROVE  /\ \A u \in Sweeper \ {t} : sweep[u] = Idle
                          /\ \A j \in Rows(Live)' : j \in DOMAIN sweep[t].read \/ alert'[j].reopened
                          /\ \A j \in DOMAIN sweep[t].read :
                               /\ alert'[j].severity = sweep[t].read[j].severity
                               /\ alert'[j].base = sweep[t].read[j].base
                               /\ alert'[j].escalated = sweep[t].read[j].escalated
      BY <1>1 DEF AloneOK
    <3>5. DOMAIN sweep[t].read \subseteq DOMAIN alert
      BY <3>1, <3>4 DEF SweepOK
    <3>6. \A j \in DOMAIN sweep[t].read :
            /\ alert'[j].severity = sweep[t].read[j].severity
            /\ alert'[j].base = sweep[t].read[j].base
            /\ alert'[j].escalated = sweep[t].read[j].escalated
      BY <1>8, <3>1, <3>4, <3>5 DEF AloneOK
    <3> QED
      BY <1>1, <3>1, <3>2, <3>3, <3>4, <3>6 DEF AloneOK
  <2> QED
    BY <2>1, <2>2
<1> QED
  BY <1>9, <1>10, <1>11, <1>12 DEF AlertInv

(* Nothing of this touches an alert or a sweep.                             *)
LEMMA EstateMoves ==
    ASSUME AlertInv, UNCHANGED <<alert, sweep, raced>>, AlertShape'
    PROVE  AlertInv'
<1>1. RowsOwned' /\ EveryRowUp' /\ OneLivePerCondition'
  BY DEF AlertInv, RowsOwned, EveryRowUp, OneLivePerCondition, Rows
<1>2. ASSUME NEW t \in Sweeper PROVE SweepOK(t)' /\ AloneOK(t)'
  <2>1. SweepOK(t)'
    BY SweepGoesOn DEF AlertInv, AlertShape
  <2>2. AloneOK(t)'
    BY DEF AlertInv, AloneOK, Rows
  <2> QED
    BY <2>1, <2>2
<1> QED
  BY <1>1, <1>2 DEF AlertInv

LEMMA StepEdits ==
    ASSUME AlertInv, EditContract \/ NextDay \/ (\E p \in DOMAIN rules : EditRule(p) \/ DeleteRule(p))
    PROVE  AlertInv'
<1>1. AlertShape
  BY DEF AlertInv
<1>2. CASE EditContract
  <2>1. AlertShape' /\ upsets' # 0
    BY <1>1, <1>2 DEF EditContract, AlertShape, RulesShape
  <2> QED
    BY <1>2, <2>1, EstateMoves DEF EditContract
<1>3. CASE NextDay
  <2>1. AlertShape'
    BY <1>1, <1>3, CalendarAssumption DEF NextDay, AlertShape, RulesShape
  <2> QED
    BY <1>3, <2>1, EstateMoves DEF NextDay
<1>4. ASSUME NEW p \in DOMAIN rules, EditRule(p) \/ DeleteRule(p) PROVE AlertInv'
  <2>1. /\ upsets' = upsets + 1 /\ UNCHANGED <<today, contract, alert, sweep, raced>>
        /\ \E new : /\ rules' = [rules EXCEPT ![p] = new]
                    /\ new = None \/ new \in [enabled : BOOLEAN, rule : {RuleOf[p]}]
    <3>1. CASE DeleteRule(p)
      BY <3>1 DEF DeleteRule
    <3>2. CASE EditRule(p)
      <4> DEFINE new == IF rules[p] = None THEN [enabled |-> TRUE, rule |-> RuleOf[p]]
                        ELSE [rules[p] EXCEPT !.enabled = ~rules[p].enabled]
      <4>1. rules[p] = None \/ rules[p] \in [enabled : BOOLEAN, rule : {RuleOf[p]}]
        BY <1>1 DEF AlertShape, RulesShape
      <4>2. new \in [enabled : BOOLEAN, rule : {RuleOf[p]}]
        BY <4>1
      <4> QED
        BY <3>2, <4>2 DEF EditRule
    <3> QED
      BY <1>4, <3>1, <3>2
  <2>2. RulesShape'
    BY <1>1, <2>1 DEF AlertShape, RulesShape
  <2>3. AlertShape' /\ upsets' # 0
    BY <1>1, <2>1, <2>2 DEF AlertShape
  <2> QED
    BY <2>1, <2>3, EstateMoves
<1> QED
  BY <1>2, <1>3, <1>4

LEMMA AlertsStart == AlertInit => AlertInv
<1> SUFFICES ASSUME AlertInit PROVE AlertInv
  OBVIOUS
<1>1. RulesShape
  BY DEF AlertInit, RulesShape
<1>2. AlertShape
  <2>1. today \in 0 .. MaxDay /\ contract \in Facts /\ upsets \in Nat /\ raced \in BOOLEAN
    <3>1. today = 0 /\ upsets = 0 /\ raced = FALSE /\ contract \in Facts
      BY DEF AlertInit
    <3>2. 0 \in 0 .. MaxDay
      BY CalendarAssumption
    <3>3. raced \in BOOLEAN
      BY <3>1, Zenon
    <3> QED
      BY <3>1, <3>2, <3>3
  <2>2. alert \in Seq(AlertRow)
    <3>1. alert = <<>>
      BY DEF AlertInit
    <3> QED
      BY <3>1
  <2>3. DOMAIN sweep = Sweeper
    BY DEF AlertInit
  <2> QED
    BY <1>1, <2>1, <2>2, <2>3 DEF AlertShape
<1>3. alert = <<>> /\ \A s \in Sweeper : sweep[s] = Idle
  BY DEF AlertInit
<1> QED
  BY <1>2, <1>3 DEF AlertInv, RowsOwned, EveryRowUp, OneLivePerCondition, SweepOK, AloneOK, Rows

LEMMA AlertsGoOn == AlertInv /\ [AlertNext]_alertVars => AlertInv'
<1> SUFFICES ASSUME AlertInv, [AlertNext]_alertVars PROVE AlertInv'
  OBVIOUS
<1>1. ASSUME NEW s \in Sweeper, SweepStep(s) PROVE AlertInv'
  BY <1>1, StepReads, StepWrites DEF SweepStep
<1>2. ASSUME NEW s \in Sweeper, SweepDies(s) PROVE AlertInv'
  BY <1>2, StepSweepDies
<1>3. ASSUME NEW i \in DOMAIN alert, NEW to \in Live \union Closed, UpdateAlert(i, to)
      PROVE  AlertInv'
  BY <1>3, StepUpdates
<1>4. CASE EditContract \/ NextDay \/ (\E p \in DOMAIN rules : EditRule(p) \/ DeleteRule(p))
  BY <1>4, StepEdits
<1>5. CASE UNCHANGED alertVars
  <2>1. AlertShape' /\ UNCHANGED <<alert, sweep, raced, upsets, contract>>
    BY <1>5 DEF AlertInv, AlertShape, RulesShape, alertVars
  <2> QED
    BY <2>1, EstateMoves
<1> QED
  BY <1>1, <1>2, <1>3, <1>4, <1>5 DEF AlertNext

(* The strengthening is an invariant of every run of sweeps and operators.  *)
THEOREM AlertsAlwaysInv == AlertSpec => []AlertInv
  BY AlertsStart, AlertsGoOn, PTL DEF AlertSpec

(* Whatever rules are in force, on whatever day: the one query over all     *)
(* obligations, with the widest window of any rule, loses none that its own *)
(* rule would have raised (_collect_obligations).                           *)
THEOREM PrefilterNeverLoses == AlertSpec => []PrefilterLosesNothing
<1>1. AlertInv => PrefilterLosesNothing
  <2>1. SUFFICES ASSUME AlertInv, NEW c \in Facts
                 PROVE  Collect({c}, Loaded(rules), today) = Conditions(c, Loaded(rules))
    BY DEF PrefilterLosesNothing
  <2>2. today \in Int /\ LoadedOK(Loaded(rules))
    BY <2>1, LoadedIsOK DEF AlertInv, AlertShape
  <2> DEFINE loaded == Loaded(rules)
  <2> HIDE DEF loaded
  <2> QED
    BY <2>2, CollectIsConditions
<1> QED
  BY <1>1, AlertsAlwaysInv, PTL

(* A condition has one live alert, unless an operator reopened a row behind *)
(* the sweep's back or two sweeps ran at once.                              *)
THEOREM OneLiveAlways == AlertSpec => []OneLivePerCondition
<1>1. AlertInv => OneLivePerCondition
  BY DEF AlertInv
<1> QED
  BY <1>1, AlertsAlwaysInv, PTL

(* However many sweeps refresh an alert, and however its rule is retuned in *)
(* between, it stands at most one step above what was last evaluated.       *)
THEOREM OneStepUpAlways == AlertSpec => []OneStepUp
<1>1. AlertInv => OneStepUp
  BY DEF AlertInv, EveryRowUp, Up, OneStepUp, Rows
<1> QED
  BY <1>1, AlertsAlwaysInv, PTL

(* A sweep retires only under a rule in force for the type, and, where the  *)
(* contract, the rules and the day are as it read them, only what no rule   *)
(* raises any longer, whatever else happened (_reconcile).                  *)
THEOREM AlwaysRetiredOnGrounds == AlertSpec => RetiredOnGrounds
<1> DEFINE Grounds(s, i) ==
        /\ RuleFor(sweep[s].rules, contract.project, alert[i].type) # None
        /\ (sweep[s].rules = Loaded(rules) /\ sweep[s].day = today
             /\ sweep[s].of = contract) =>
                alert[i].key \notin Keys(Conditions(contract, Loaded(rules)))
<1>1. ASSUME AlertInv, AlertNext, NEW s \in Sweeper, NEW i \in Rows(Live),
             sweep[s].at = "write", sweep'[s] = Idle, alert'[i].status = "resolved"
      PROVE  Grounds(s, i)
  <2>1. /\ i \in DOMAIN alert /\ alert[i].status # "resolved" /\ sweep[s] # Idle
        /\ DOMAIN sweep = Sweeper /\ SweepOK(s)
    BY <1>1, LiveFacts DEF Rows, Idle, AlertInv, AlertShape
  <2>2. \/ \E t \in Sweeper : ReadEstate(t) \/ WriteAlerts(t) \/ SweepDies(t)
        \/ UNCHANGED sweep
    BY <1>1 DEF AlertNext, SweepStep, UpdateAlert, EditRule, DeleteRule, EditContract, NextDay
  <2>3. PICK t \in Sweeper : WriteAlerts(t)
    BY <1>1, <2>1, <2>2 DEF ReadEstate, SweepDies
  <2>4. t = s
    BY <1>1, <2>1, <2>3 DEF WriteAlerts
  <2>5. /\ alert[i].key \notin Keys(sweep[s].drafts)
        /\ RuleFor(sweep[s].rules, contract.project, alert[i].type) # None
    BY <1>1, <2>1, <2>3, <2>4, WrittenFacts
  <2>6. ASSUME sweep[s].rules = Loaded(rules), sweep[s].day = today, sweep[s].of = contract
        PROVE  alert[i].key \notin Keys(Conditions(contract, Loaded(rules)))
    <3>1. sweep[s].drafts = Collect({contract}, Loaded(rules), today)
      BY <2>1, <2>6 DEF SweepOK
    <3>2. today \in Int /\ LoadedOK(Loaded(rules)) /\ contract \in Facts
      BY <1>1, LoadedIsOK DEF AlertInv, AlertShape
    <3> QED
      BY <2>5, <3>1, <3>2, CollectIsConditions
  <2> QED
    BY <2>5, <2>6
<1>2. AlertInv /\ [AlertNext]_alertVars =>
        [\A s \in Sweeper : \A i \in Rows(Live) :
           (sweep[s].at = "write" /\ sweep'[s] = Idle /\ alert'[i].status = "resolved") =>
              /\ RuleFor(sweep[s].rules, contract.project, alert[i].type) # None
              /\ (sweep[s].rules = Loaded(rules) /\ sweep[s].day = today
                   /\ sweep[s].of = contract) =>
                      alert[i].key \notin Keys(Conditions(contract, Loaded(rules)))]_alertVars
  BY <1>1
<1> QED
  BY <1>2, AlertsAlwaysInv, PTL DEF AlertSpec, RetiredOnGrounds
=============================================================================
