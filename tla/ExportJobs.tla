----------------------------- MODULE ExportJobs -----------------------------
(***************************************************************************)
(* Export jobs (export/service.py, api/v1/exports.py, the export part of   *)
(* orchestrator/maintenance.py): requests that write a job row, background *)
(* tasks of the API process that build the file, downloads, and the sweep  *)
(* that removes what has expired.                                          *)
(*                                                                         *)
(* Only committed rows are shown.  A task runs in one session_scope, so the*)
(* RUNNING it flushes is seen by nobody else and the FAILED it flushes is  *)
(* rolled back by the exception it raises again.  Storage is not part of   *)
(* the transaction.  One sweep runs at a time (_sweep_lock).               *)
(***************************************************************************)
EXTENDS Integers, FiniteSets

CONSTANTS
    Export,
    Undeletable,   \* exports whose key the storage cannot delete
    Limit,         \* rows one sweep takes
    MaxFaults      \* failing renderers, storages and processes

ASSUME ExportAssumption == Limit \in Nat \ {0} /\ MaxFaults \in Nat

VARIABLES
    status,    \* committed ExportJob.status, or "none" before the request
    due,       \* exports whose expires_at has passed
    file,      \* exports whose file is in storage
    task,      \* task[e]: the background task of an export
    purge,     \* the sweep's transaction
    link,      \* exports with a download URL that has not lapsed
    stream,    \* stream[e]: the transfer of a file by its URL
    faults     \* counter of the bound

exportVars == <<status, due, file, task, purge, link, stream, faults>>

NoPurge == [at |-> "idle", requeue |-> {}, left |-> {}, expire |-> {}]

ExportInit ==
    /\ status = [e \in Export |-> "none"]
    /\ due = {} /\ file = {}
    /\ task = [e \in Export |-> "none"]
    /\ purge = NoPurge
    /\ link = {} /\ stream = [e \in Export |-> "none"]
    /\ faults = 0

-----------------------------------------------------------------------------
(* A request and its background task.                                       *)

\* create, the commit of the handler, and the task it leaves in memory.
Create(e) ==
    /\ status[e] = "none"
    /\ status' = [status EXCEPT ![e] = "queued"]
    /\ task' = [task EXCEPT ![e] = "waiting"]
    /\ UNCHANGED <<due, file, purge, link, stream, faults>>

\* run up to _store: RUNNING, the rows, the rendered file.
Build(e) ==
    /\ task[e] = "waiting" /\ status[e] = "queued"
    /\ task' = [task EXCEPT ![e] = "built"]
    /\ UNCHANGED <<status, due, file, purge, link, stream, faults>>

\* _store puts the bytes where the row will say.
Store(e) ==
    /\ task[e] = "built"
    /\ file' = file \union {e}
    /\ task' = [task EXCEPT ![e] = "stored"]
    /\ UNCHANGED <<status, due, purge, link, stream, faults>>

\* The end of session_scope, after COMPLETED and expires_at.
CommitRun(e) ==
    /\ task[e] = "stored"
    /\ status' = [status EXCEPT ![e] = "completed"]
    /\ task' = [task EXCEPT ![e] = "done"]
    /\ UNCHANGED <<due, file, purge, link, stream, faults>>

\* run marks the row FAILED and raises; _run_export logs it.
FailRun(e) ==
    /\ task[e] \in {"waiting", "built", "stored"}
    /\ faults < MaxFaults
    /\ task' = [task EXCEPT ![e] = "failed"]
    /\ faults' = faults + 1
    /\ UNCHANGED <<status, due, file, purge, link, stream>>

\* The API process ends, with every task it holds.
Restart ==
    /\ \E e \in Export : task[e] \in {"waiting", "built", "stored"}
    /\ faults < MaxFaults
    /\ task' = [e \in Export |-> IF task[e] \in {"waiting", "built", "stored"}
                                 THEN "dead" ELSE task[e]]
    /\ faults' = faults + 1
    /\ UNCHANGED <<status, due, file, purge, link, stream>>

\* expires_at passes.
Lapse(e) ==
    /\ status[e] = "completed" /\ e \notin due
    /\ due' = due \union {e}
    /\ UNCHANGED <<status, file, task, purge, link, stream, faults>>

-----------------------------------------------------------------------------
(* Downloads.                                                               *)

\* download_url, and stream_export once more when the URL is a token.
Downloadable(e) == status[e] = "completed" /\ e \notin due

MintLink(e) ==
    /\ Downloadable(e) /\ e \notin link
    /\ link' = link \union {e}
    /\ UNCHANGED <<status, due, file, task, purge, stream, faults>>

LapseLink(e) ==
    /\ e \in link
    /\ link' = link \ {e}
    /\ UNCHANGED <<status, due, file, task, purge, stream, faults>>

\* stream_export: the row is looked at before the response starts.
CheckRow(e) ==
    /\ e \in link /\ stream[e] = "none"
    /\ Downloadable(e)
    /\ stream' = [stream EXCEPT ![e] = "checked"]
    /\ UNCHANGED <<status, due, file, task, purge, link, faults>>

\* get_stream opens the file when the response is sent; object storage answers
\* a presigned URL by itself.
Fetch(e) ==
    /\ stream[e] = "checked" \/ (e \in link /\ stream[e] = "none")
    /\ stream' = [stream EXCEPT ![e] = IF e \in file THEN "served" ELSE "missing"]
    /\ UNCHANGED <<status, due, file, task, purge, link, faults>>

-----------------------------------------------------------------------------
(* The sweep.                                                               *)

\* recover_stalled's query.
Stalled == {e \in Export : status[e] = "running"}

ExpiredCompleted == {e \in Export : status[e] = "completed"}

\* purge_expired's query.
Expired == {e \in Export : status[e] = "completed" /\ e \in due}

BeginPurge ==
    /\ purge.at = "idle"
    /\ \E rows \in SUBSET Expired :
         /\ rows # {} \/ Stalled # {}
         /\ Cardinality(rows) = Limit \/ (Cardinality(rows) < Limit /\ rows = Expired)
         /\ purge' = [at |-> "sweeping", requeue |-> Stalled, left |-> rows, expire |-> {}]
    /\ UNCHANGED <<status, due, file, task, link, stream, faults>>

PurgeFileAlways(e) ==
    /\ purge.at = "sweeping" /\ e \in purge.left
    /\ IF e \in Undeletable THEN UNCHANGED file ELSE file' = file \ {e}
    /\ purge' = [purge EXCEPT !.left = @ \ {e}, !.expire = @ \union {e}]
    /\ UNCHANGED <<status, due, task, link, stream, faults>>

PurgeFileOrStop(e) ==
    /\ purge.at = "sweeping" /\ e \in purge.left
    /\ IF e \in Undeletable
       THEN purge' = [purge EXCEPT !.left = {}] /\ UNCHANGED file
       ELSE /\ file' = file \ {e}
            /\ purge' = [purge EXCEPT !.left = @ \ {e}, !.expire = @ \union {e}]
    /\ UNCHANGED <<status, due, task, link, stream, faults>>

\* One row: a file that is gone already is no error, a key that cannot be
\* deleted leaves its row for the next sweep.
PurgeFile(e) ==
    /\ purge.at = "sweeping" /\ e \in purge.left
    /\ IF e \in Undeletable
       THEN purge' = [purge EXCEPT !.left = @ \ {e}] /\ UNCHANGED file
       ELSE /\ file' = file \ {e}
            /\ purge' = [purge EXCEPT !.left = @ \ {e}, !.expire = @ \union {e}]
    /\ UNCHANGED <<status, due, task, link, stream, faults>>

CommitPurge ==
    /\ purge.at = "sweeping" /\ purge.left = {}
    /\ status' = [e \in Export |-> IF e \in purge.expire THEN "expired"
                                   ELSE IF e \in purge.requeue THEN "queued" ELSE status[e]]
    /\ purge' = NoPurge
    /\ UNCHANGED <<due, file, task, link, stream, faults>>

\* The worker that sweeps dies, or its commit fails: the files stay deleted.
PurgeDies ==
    /\ purge.at = "sweeping"
    /\ faults < MaxFaults
    /\ faults' = faults + 1
    /\ purge' = NoPurge
    /\ UNCHANGED <<status, due, file, task, link, stream>>

-----------------------------------------------------------------------------

PurgeStep == BeginPurge \/ (\E e \in Export : PurgeFile(e)) \/ CommitPurge

ExportNext ==
    \/ \E e \in Export :
         \/ Create(e) \/ Build(e) \/ Store(e) \/ CommitRun(e) \/ FailRun(e) \/ Lapse(e)
         \/ MintLink(e) \/ LapseLink(e) \/ CheckRow(e) \/ Fetch(e)
    \/ Restart \/ PurgeStep \/ PurgeDies

ExportSpec == ExportInit /\ [][ExportNext]_exportVars

\* maintenance_loop sweeps for ever, and somebody is always sweeping.
ExportFairSpec == ExportSpec /\ WF_exportVars(PurgeStep)

-----------------------------------------------------------------------------

ExportTypeOK ==
    /\ status \in [Export -> {"none", "queued", "running", "failed", "completed", "expired"}]
    /\ due \subseteq Export /\ file \subseteq Export /\ link \subseteq Export
    /\ task \in [Export -> {"none", "waiting", "built", "stored", "done", "failed", "dead"}]
    /\ purge \in [at : {"idle", "sweeping"}, requeue : SUBSET Export,
                  left : SUBSET due, expire : SUBSET due]
    /\ stream \in [Export -> {"none", "checked", "served", "missing"}]
    /\ faults \in 0 .. MaxFaults

\* A download that fails for want of a file is one whose export has expired:
\* neither a crash of the task or of the sweep nor a sweep at the same time
\* takes the file from under a URL (stream_export, purge_expired).
OnlyExpiryLosesDownloads == \A e \in Export : stream[e] = "missing" => e \in due

\* The row says what storage holds: a finished export has its file, an expired
\* one has not (purge_expired's `continue`).
RowTellsFile ==
    \A e \in Export :
        /\ Downloadable(e) => e \in file
        /\ status[e] = "expired" => e \notin file

\* Every expired export is purged, although some keys cannot be deleted, a
\* sweep died after the deletion, and a sweep takes a few rows only
\* (purge_expired: "one bad key must not stop the sweep").  The exception: the
\* query has a limit and no order, and a row whose key cannot be deleted stays
\* in its answer, so as many of those as the limit may be all it ever returns.
EveryExpiredIsPurged ==
    \A e \in Export \ Undeletable :
        e \in due ~> \/ status[e] = "expired"
                     \/ Cardinality(Undeletable \cap Expired) >= Limit

\* api/v1/exports.py, _run_export: the job row already records the failure.
FailureIsRecorded == \A e \in Export : task[e] = "failed" => status[e] = "failed"
=============================================================================
