------------------------------- MODULE Uploads -------------------------------
(***************************************************************************)
(* How documents enter and leave a project (services/upload.py,            *)
(* services/archive.py, services/contract.py): batches of files that are   *)
(* hashed, checked for duplicates, stored, written and queued by one       *)
(* request each, deletions, and the workers that take the queued jobs.     *)
(*                                                                         *)
(* A request is one database transaction, committed when its handler has   *)
(* returned; object storage and a broker are outside it.  A document is    *)
(* its content hash; one of Word is stored twice, as uploaded and as the   *)
(* PDF the pipeline reads.  Archives are unpacked before the loop over     *)
(* files, so a batch is the sequence of the documents in it.               *)
(***************************************************************************)
EXTENDS Integers, FiniteSets, FiniteSetsExt, Sequences, SequencesExt

CONSTANTS
    Request,         \* requests in flight at a time
    Batches,         \* batches users upload: sequences of documents
    Word,            \* the documents that are Word files
    Drivers,         \* among "postgres" (the queue is a table) and "broker"
    DuplicateCheck,  \* UPLOAD_DUPLICATE_CHECK
    MaxUploads, MaxDeletes, MaxFaults

\* A batch has at least one file.
ASSUME UploadsAssumption == \A b \in Batches : b \in Seq(ToSet(b)) /\ b # <<>>

VARIABLES
    contract,   \* committed contracts, oldest first
    file,       \* keys in object storage
    job,        \* committed jobs: <<contract, n>> -> "queued" or "done"
    message,    \* jobs a worker can be given
    req,        \* req[r]: what a request has done so far
    driver,     \* QUEUE_DRIVER, for good
    uploads, deletes, faults,   \* counters of the bounds
    torn,       \* history: contracts purged by a deletion that never committed
    overlapped  \* history: contracts that were deleted and replaced at one time

bounds == <<driver, uploads, deletes, faults>>
uploadVars == <<contract, file, job, message, req, bounds, torn, overlapped>>

Document == UNION {ToSet(b) : b \in Batches}
Kind     == {"original", "pdf"}
Version  == 1 .. MaxUploads + 1

\* StorageKey.contract_file: one directory for each version of a contract.
Key(id, version, kind) == <<id, version, kind>>

\* What the pipeline reads of a new contract.
ProcessedKind(doc) == IF doc \in Word THEN "pdf" ELSE "original"

Idle == [at |-> "idle"]

\* "no contract": what a document that is not replacing one is targeted at.
Nobody == <<0, 0>>

\* A contract's identity is the upload that made it and its place in it; the one
\* that is there at the start comes from upload 0.
Id == (0 .. MaxUploads) \X (1 .. Max({Len(b) : b \in Batches}))

Live(c)        == ~c.deleted
ById(rows, id) == CHOOSE i \in DOMAIN rows : rows[i].id = id

NewContract(id, doc) ==
    [id |-> id, hash |-> doc, deleted |-> FALSE, version |-> 1,
     storagePath    |-> Key(id, 1, ProcessedKind(doc)),
     processingPath |-> Key(id, 1, ProcessedKind(doc))]

FilesOf(id, doc) == {Key(id, 1, "original"), Key(id, 1, ProcessedKind(doc))}

UploadsInit ==
    /\ \E doc \in Document :
         contract = <<NewContract(<<0, 1>>, doc)>> /\ file = FilesOf(<<0, 1>>, doc)
    /\ job = <<>> /\ message = {}
    /\ req = [r \in Request |-> Idle]
    /\ driver \in Drivers
    /\ uploads = 0 /\ deletes = 0 /\ faults = 0
    /\ torn = {} /\ overlapped = {}

-----------------------------------------------------------------------------
(* What a transaction in progress holds and waits for.                      *)

Uploading(r) == req[r].at \in {"check", "store", "insert", "enqueue", "commit"}
Deleting(r)  == req[r].at \in {"delete", "deleted"}

\* Contracts a request has found, to replace them or to delete them.
Replaces(r) == IF Uploading(r) THEN {req[r].target} \union {u.id : u \in ToSet(req[r].replaced)}
               ELSE {}
Deletes(r)  == IF Deleting(r) THEN {req[r].id} ELSE {}

Doc(r) == req[r].batch[req[r].next]

\* Requests whose uncommitted rows make the next write of r wait: the same hash
\* inserted (uq_contracts_project_id_sha256_hash), the same row updated.
WaitsFor(r) ==
    {s \in Request \ {r} :
        \/ /\ req[r].at = "store" /\ req[r].target = Nobody
           /\ Uploading(s) /\ \E c \in ToSet(req[s].created) : c.hash = Doc(r)
        \/ /\ req[r].at = "insert"
           /\ \/ Uploading(s) /\ \E u \in ToSet(req[s].replaced) : u.id = req[r].target
              \/ req[s].at = "deleted" /\ req[s].id = req[r].target
        \/ /\ req[r].at = "delete"
           /\ \/ Uploading(s) /\ \E u \in ToSet(req[s].replaced) : u.id = req[r].id
              \/ req[s].at = "deleted" /\ req[s].id = req[r].id}

-----------------------------------------------------------------------------
(* UploadService.upload.                                                    *)

BeginUpload(r, batch, replace) ==
    /\ req[r].at \in {"idle", "done", "aborted"}
    /\ uploads < MaxUploads
    /\ uploads' = uploads + 1
    /\ req' = [req EXCEPT ![r] =
                 [at |-> "check", upload |-> uploads + 1, batch |-> batch,
                  replace |-> replace, next |-> 1, seen |-> {}, target |-> Nobody,
                  version |-> 0, created |-> <<>>, replaced |-> <<>>,
                  queue |-> {}, state |-> "queued", clash |-> {}]]
    /\ UNCHANGED <<contract, file, job, message, driver, deletes, faults, torn, overlapped>>

\* get_by_hash looks among live contracts only.
Existing(doc) == {c \in ToSet(contract) : Live(c) /\ c.hash = doc}

\* A document seen earlier in the batch is never stored again; one that is in
\* the project already is refused by policy.
IsDuplicate(r) ==
    \/ Doc(r) \in req[r].seen
    \/ Existing(Doc(r)) # {} /\ DuplicateCheck /\ ~req[r].replace

NextFile(rec) ==
    [rec EXCEPT !.next = @ + 1, !.target = Nobody,
                !.at = IF rec.next = Len(rec.batch) THEN "enqueue" ELSE "check"]

\* _process_one up to the conversion: what it finds here it acts upon later.
CheckFile(r) ==
    LET found == IF req[r].replace THEN {c.id : c \in Existing(Doc(r))} ELSE {}
    IN  /\ req[r].at = "check"
        /\ IF IsDuplicate(r)
           THEN req' = [req EXCEPT ![r] = NextFile(@)] /\ UNCHANGED overlapped
           ELSE /\ req' = [req EXCEPT ![r].at = "store",
                             ![r].target = IF found = {} THEN Nobody ELSE CHOOSE id \in found : TRUE]
                /\ overlapped' = overlapped \union (found \intersect UNION {Deletes(s) : s \in Request})
        /\ UNCHANGED <<contract, file, job, message, bounds, torn>>

AcceptedUnseen(rec, doc, id) ==
    NextFile([rec EXCEPT !.queue = @ \union {<<id, rec.upload>>}])

\* A document is in: it shadows identical ones, and its job goes with the batch.
Accepted(rec, doc, id) ==
    NextFile([rec EXCEPT !.seen = @ \union {doc}, !.queue = @ \union {<<id, rec.upload>>}])

\* _create_contract: the bytes, then the row.  The unique constraint counts
\* deleted contracts too.
CreateContract(r) ==
    LET id == <<req[r].upload, req[r].next>>
    IN  /\ req[r].at = "store" /\ req[r].target = Nobody /\ WaitsFor(r) = {}
        /\ file' = file \union FilesOf(id, Doc(r))
        /\ req' = [req EXCEPT ![r] =
             IF \E c \in ToSet(contract) \union ToSet(req[r].created) : c.hash = Doc(r)
             THEN [at |-> "aborted", clash |-> {Doc(r)}]
             ELSE Accepted([@ EXCEPT !.created = Append(req[r].created, NewContract(id, Doc(r)))],
                           Doc(r), id)]
        /\ UNCHANGED <<contract, job, message, bounds, torn, overlapped>>

\* _add_version: the next number is read, and the document as uploaded stored
\* under it, before the rows that claim it are written.
StoreVersion(r) ==
    LET version == 1 + Max({c.version : c \in {d \in ToSet(contract) : d.id = req[r].target}})
    IN  /\ req[r].at = "store" /\ req[r].target # Nobody
        /\ file' = file \union {Key(req[r].target, version, "original")}
        /\ req' = [req EXCEPT ![r].at = "insert", ![r].version = version]
        /\ UNCHANGED <<contract, job, message, bounds, torn, overlapped>>

InsertVersion(r) ==
    /\ req[r].at = "insert" /\ WaitsFor(r) = {}
    /\ req' = [req EXCEPT ![r] =
         IF \E c \in ToSet(contract) : c.id = @.target /\ c.version >= @.version
         THEN [at |-> "aborted", clash |-> {Doc(r)}]
         ELSE Accepted([@ EXCEPT !.replaced = Append(req[r].replaced,
                                                  [id |-> req[r].target, version |-> req[r].version])],
                       Doc(r), @.target)]
    /\ UNCHANGED <<contract, file, job, message, bounds, torn, overlapped>>

\* Two requests that bring the same documents in opposite orders wait for each
\* other; the database aborts one of them.
DeadlockVictim(r) ==
    /\ \E s \in WaitsFor(r) : r \in WaitsFor(s)
    /\ req' = [req EXCEPT ![r] = [at |-> "aborted", clash |-> {}]]
    /\ UNCHANGED <<contract, file, job, message, bounds, torn, overlapped>>

\* enqueue_many: the postgres driver writes into this transaction, a broker is
\* told at once.
Enqueue(r) ==
    /\ req[r].at = "enqueue"
    /\ message' = IF driver = "broker" THEN message \union req[r].queue ELSE message
    /\ req' = [req EXCEPT ![r].at = "commit"]
    /\ UNCHANGED <<contract, file, job, bounds, torn, overlapped>>

\* The broker is unreachable: the jobs are kept, as failed.
EnqueueFails(r) ==
    /\ req[r].at = "enqueue" /\ driver = "broker"
    /\ faults < MaxFaults
    /\ faults' = faults + 1
    /\ req' = [req EXCEPT ![r].at = "commit", ![r].state = "failed"]
    /\ UNCHANGED <<contract, file, job, message, driver, uploads, deletes, torn, overlapped>>

WithVersionsAsPdf(rows, replaced) ==
    [i \in DOMAIN rows |->
        LET mine == {u.version : u \in {w \in ToSet(replaced) : w.id = rows[i].id}}
            key  == Key(rows[i].id, Max(mine), ProcessedKind(rows[i].hash))
        IN  IF mine = {} THEN rows[i]
            ELSE [rows[i] EXCEPT !.version = Max(mine), !.storagePath = key, !.processingPath = key]]

\* The columns of the conversion keep what they had.
WithVersions(rows, replaced) ==
    [i \in DOMAIN rows |->
        LET mine == {u.version : u \in {w \in ToSet(replaced) : w.id = rows[i].id}}
        IN  IF mine = {} THEN rows[i]
            ELSE [rows[i] EXCEPT !.version = Max(mine),
                                 !.storagePath = Key(rows[i].id, Max(mine), "original")]]

CommitUploadQueueApart(r) ==
    /\ req[r].at = "commit"
    /\ contract' = WithVersions(contract \o req[r].created, req[r].replaced)
    /\ job' = [j \in DOMAIN job \union req[r].queue |->
                  IF j \in DOMAIN job THEN job[j] ELSE req[r].state]
    /\ req' = [req EXCEPT ![r] = [at |-> "done", clash |-> {}]]
    /\ UNCHANGED <<file, message, bounds, torn, overlapped>>

\* The end of get_db.
CommitUpload(r) ==
    /\ req[r].at = "commit"
    /\ contract' = WithVersions(contract \o req[r].created, req[r].replaced)
    /\ job' = [j \in DOMAIN job \union req[r].queue |->
                  IF j \in DOMAIN job THEN job[j] ELSE req[r].state]
    /\ message' = IF driver = "postgres" THEN message \union req[r].queue ELSE message
    /\ req' = [req EXCEPT ![r] = [at |-> "done", clash |-> {}]]
    /\ UNCHANGED <<file, bounds, torn, overlapped>>

\* The process is killed, or loses its database, before the commit.
Die(r) ==
    /\ Uploading(r) \/ Deleting(r)
    /\ faults < MaxFaults
    /\ faults' = faults + 1
    /\ req' = [req EXCEPT ![r] = Idle]
    /\ torn' = torn \union (IF req[r].at = "deleted" /\ req[r].purge THEN {req[r].id} ELSE {})
    /\ UNCHANGED <<contract, file, job, message, driver, uploads, deletes, overlapped>>

-----------------------------------------------------------------------------
(* Deletion and processing.                                                 *)

Active(id) == \E j \in DOMAIN job : j[1] = id /\ job[j] = "queued"

BeginDeleteAnyway(r, c, purge) ==
    /\ req[r].at \in {"idle", "done", "aborted"}
    /\ deletes < MaxDeletes
    /\ deletes' = deletes + 1
    /\ Live(c)
    /\ req' = [req EXCEPT ![r] = [at |-> "delete", id |-> c.id, purge |-> purge]]
    /\ overlapped' = overlapped \union ({c.id} \intersect UNION {Replaces(s) : s \in Request})
    /\ UNCHANGED <<contract, file, job, message, driver, uploads, faults, torn>>

\* delete_contract: refused while a job is active.
BeginDelete(r, c, purge) ==
    /\ req[r].at \in {"idle", "done", "aborted"}
    /\ deletes < MaxDeletes
    /\ deletes' = deletes + 1
    /\ Live(c) /\ ~Active(c.id)
    /\ req' = [req EXCEPT ![r] = [at |-> "delete", id |-> c.id, purge |-> purge]]
    /\ overlapped' = overlapped \union ({c.id} \intersect UNION {Replaces(s) : s \in Request})
    /\ UNCHANGED <<contract, file, job, message, driver, uploads, faults, torn>>

\* The row is marked, not yet committed; a purge takes the files at once.
PurgeFiles(r) ==
    /\ req[r].at = "delete" /\ WaitsFor(r) = {}
    /\ file' = IF req[r].purge THEN {k \in file : k[1] # req[r].id} ELSE file
    /\ req' = [req EXCEPT ![r].at = "deleted"]
    /\ UNCHANGED <<contract, job, message, bounds, torn, overlapped>>

CommitDelete(r) ==
    /\ req[r].at = "deleted"
    /\ contract' = [contract EXCEPT ![ById(contract, req[r].id)].deleted = TRUE]
    /\ req' = [req EXCEPT ![r] = [at |-> "done", clash |-> {}]]
    /\ UNCHANGED <<file, job, message, bounds, torn, overlapped>>

\* run_stage: a job that is not in the database is an error nobody retries.
Work(j) ==
    /\ j \in message
    /\ message' = message \ {j}
    /\ job' = IF j \in DOMAIN job THEN [job EXCEPT ![j] = "done"] ELSE job
    /\ UNCHANGED <<contract, file, req, bounds, torn, overlapped>>

-----------------------------------------------------------------------------

UploadStep(r) ==
    \/ CheckFile(r) \/ CreateContract(r) \/ StoreVersion(r) \/ InsertVersion(r)
    \/ DeadlockVictim(r) \/ Enqueue(r) \/ CommitUpload(r)

DeleteStep(r) == PurgeFiles(r) \/ CommitDelete(r)

UploadsNext ==
    \/ \E r \in Request :
         \/ \E batch \in Batches, replace \in BOOLEAN : BeginUpload(r, batch, replace)
         \/ UploadStep(r) \/ EnqueueFails(r) \/ Die(r) \/ DeleteStep(r)
         \/ \E c \in ToSet(contract), purge \in BOOLEAN : BeginDelete(r, c, purge)
    \/ \E j \in message : Work(j)

UploadsSpec == UploadsInit /\ [][UploadsNext]_uploadVars

-----------------------------------------------------------------------------

UploadsTypeOK ==
    /\ \A c \in ToSet(contract) :
         /\ c.id \in Id /\ c.hash \in Document /\ c.deleted \in BOOLEAN
         /\ c.version \in Version
         /\ {c.storagePath, c.processingPath} \subseteq Id \X Version \X Kind
    /\ file \subseteq Id \X Version \X Kind
    /\ \A j \in DOMAIN job : job[j] \in {"queued", "done", "failed"}
    /\ \A r \in Request :
         \/ req[r].at \in {"idle", "done", "aborted"}
         \/ Deleting(r) /\ req[r].id \in Id
         \/ /\ Uploading(r)
            /\ req[r].version \in Version \union {0} /\ req[r].target \in Id \union {Nobody}
            /\ req[r].at \in {"check", "store", "insert"} => req[r].next <= Len(req[r].batch)

\* The bytes a live contract names are in storage, at every version and after
\* any crash, unless a purge is under way, never committed, or met a replacement.
FileBehindContract ==
    \A c \in ToSet(contract) :
        Live(c) => \/ {c.storagePath, c.processingPath} \subseteq file
                   \/ c.id \in torn \union overlapped
                   \/ \E r \in Request : c.id \in Deletes(r)

\* A batch fails on a document only when somebody else brought it in: identical
\* files inside one batch never cost the others (upload, seen_hashes).
BatchLostOnlyToOthers ==
    \A r \in Request : req[r].at = "aborted" =>
        req[r].clash \subseteq {c.hash : c \in ToSet(contract)}

\* A job can be given to a worker, with the postgres driver, which commits the
\* message with it (enqueue_many with db=).
NoStrandedJob ==
    driver = "postgres" => \A j \in DOMAIN job : job[j] = "queued" => j \in message

\* A deleted contract has no job running, unless it was being replaced at the
\* same time (delete_contract looks for active jobs before it writes).
DeletedIsIdle ==
    \A c \in ToSet(contract) : ~Live(c) => ~Active(c.id) \/ c.id \in overlapped

\* Jobs are for contracts that are there, and come to a worker (upload,
\* delete_contract).
JobsHaveAFuture == NoStrandedJob /\ DeletedIsIdle

\* upload.py, above enqueue_many: no worker is given a job whose rows are not
\* there, whatever the driver, so none is left queued with nobody coming.
NoStrandedJobOnAnyDriver ==
    \A j \in DOMAIN job : job[j] = "queued" => j \in message

\* models/contract.py:71: storage_path always equals processing_file_path.
StoragePathIsProcessing ==
    \A c \in ToSet(contract) : c.storagePath = c.processingPath
=============================================================================
