# A verification of CLEAR

CLEAR (`src/backend/app`) turns uploaded contracts into structured data that can
be searched, asked and watched. A contract is carried through the stages of
`STAGE_ORDER` (core/enums.py) by jobs: a worker claims a message from a queue,
runs one stage in one transaction, and enqueues the next. Around that, uploads
bring documents in, extraction and embedding replace what earlier runs left,
alerts and exports follow what is there. What is hard is seldom one function; it
is what is between them: leases that lapse under a worker that is still running,
a commit followed by an enqueue, plans made against checkpoints that another job
changes, transactions that wait for each other, storage that no transaction
covers. The modules in this directory model these parts, TLC checks them on
small instances, and TLAPS proves what matters most of fourteen of them for every
instance.

## The system and its parts

| Part (under `src/backend/app`) | State | Operations | Hard because | Modelled in |
|---|---|---|---|---|
| Postgres stage queue: `orchestrator/queue.py` (`PostgresQueueDriver`), `models/queue.py`; claim loop `cli.py` | `stage_queue` rows: state, attempt, lease | enqueue, claim, complete, fail, reclaim_stale | a claim is a lease, settlements are not tied to it; crashes; fail() reads then writes | `StageQueue`, `DeliveryBudget` |
| Workflow engine: `orchestrator/workflow.py`, `core/versions.py` | none (operators over the run history) | plan, next_after, matches | reuse of output whose input is replaced | `WorkflowEngine` |
| Run history: `repositories/processing.py`, `models/processing.py` | `processing_jobs`, `job_stage_runs` | checkpoints, start_run, mark_*, find_stalled | attempts per job, checkpoints per contract | `IncrementalRun`, `Pipeline` |
| Runner: `orchestrator/runner.py` | one session per stage; job state, stored plan | run_stage: load, plan, skip or run, finalise, dispatch, retry | transaction, then enqueue, then settlement; reads without locks | `Pipeline`, and the walk in `IncrementalRun` |
| Job operations: `api/v1/jobs.py`, `cli.py` | job rows | reprocess, retry, cancel, cip reprocess | act on a state that changes under them | `Pipeline` |
| Maintenance: `orchestrator/maintenance.py` | none | leases, stalled jobs, alerts, exports | judges liveness by the clock | in the module of what it sweeps |
| BullMQ shim: `queue/src/*.ts`, `api/internal.py` | BullMQ jobs, dead letters | enqueue, dispatch, retry, dead-letter, replay, discard | two retry counters; calls that outlive their connection | `BullDispatch` |
| Uploads and deletions: `services/upload.py`, `archive.py`, `contract.py` | contracts, versions, files, jobs | upload, replace, delete, purge | storage and broker outside the transaction; duplicates looked for before rows clash | `Uploads` |
| Document pipeline: `ai/docpipeline/` | one document in memory | headings, windows in waves, boundary repair, sections | calls overlap and fail; absence must mean that all was read | `Sections`, `ClauseDetection` |
| Extraction: `ai/extraction/` | one result in memory | parties, metadata, categories, derived ones, assessment, digest | a few calls at a time, each may fail or raise | `ExtractionEngine`, `BatchPlanner` |
| Extraction stage: `orchestrator/stages/extraction*.py` | chunks, clauses, vectors, projection of a contract | clean up, write chunks, ask, write | two jobs of one contract at a time | `ContractKnowledge` |
| Embedding: `ai/embedding/`, `orchestrator/stages/embedding.py` | embedding rows by level and space | reuse, delete, write | models change by deployment; levels fail singly | `EmbeddingIndex` |
| Model calls: `ai/resilience.py` | one call | attempt, wait, give up | the last retry against a deadline | `RetryCall` |
| Retrieval and answers: `ai/retrieval/`, `ai/rag/`, `services/copilot.py` | one question in memory | two legs, fusion, expansion, deduplication, ranking, context, validation | every step may drop or replace a record | `Retrieval`, `Answering` |
| Alert evaluation: `services/alert_evaluator.py`, `api/v1/admin.py` | `alerts`, `alert_rules` | evaluate, refresh, escalate, retire; operators' edits | reconciles what operators change meanwhile | `AlertRules`, `AlertSweep` |
| Alert delivery: `alerting/`, `services/alerts.py` | `alerts` of failures | tell the channels, find or insert, count | two workers report one condition; deaths before the commit | `AlertDelivery` |
| Exports: `export/service.py`, `api/v1/exports.py` | `export_jobs`, files | create, run, recover, purge, download | state changes inside the transaction they report on | `ExportJobs` |
| Redis list driver, cache, identity, parsers, storage adapters, search and admin endpoints, evaluation, frontend, deployment | | | | not modelled, see below |

How they interact: `run_stage` is called by the claim loop with a claimed row; it
reads and writes the job row and the run history in one session, asks the
engine for a plan and calls the stage's handler; after its commit it calls the
queue. A failure that is final calls alert delivery inside that session. The
claim loop settles the row last. The API and the CLI write job rows and enqueue.
The sweep, run by one process at a time under an advisory lock, reads every
table and writes most. Everything shared is in Postgres or in object storage.

What makes each part correct:

- *queue*: a message is delivered at most `max_attempts` times, no two
  deliveries can be taken for one another, and every message is settled;
- *engine*: the loop computes the plan its comments describe; nothing is reused
  after something that runs;
- *runs of a contract*: a READY job leaves output for every stage, computed from
  what is there now, by the versions that were asked for;
- *runner with queue, sweep and operators*: no handler runs before its inputs
  exist, no job stops without a trace, and in the end nothing is older than what
  it was computed from;
- *uploads*: a live contract has its file, a batch is lost to others only, a job
  has a worker coming;
- *clauses and extraction*: the whole document is read once and in order, absent
  means that, and what a failing call lost is on record;
- *knowledge and vectors*: what is there comes from one run, and a vector is one
  of the text and the versions its row names;
- *questions*: what was found is handed on or was dropped for a reason; what is
  cited was sent;
- *alerts*: a condition has one live alert and the table agrees with the estate
  in the end; a failure is counted once and its report ends;
- *exports*: a file goes by expiry only, and the row tells of it.

PROJECT.json lists every component with its sources, every hazard at its line,
and for every definition the lines it models.

## The modules: orchestration

**`DeliveryBudget`** is the abstract queue: per message a set of attempt numbers
used so far, each delivery under a higher one.

**`StageQueue`** is the Postgres driver with the claim loop. A row has `state`,
`queue` (its stage) and `attempt`. A process has a slot per stage and unit of
concurrency; `held[slot]` is the row it runs, `got[slot]` the attempt the claim
returned. `Claim`, `Complete`, `FailRead`/`FailWrite` (the SELECT and the UPDATE
of `fail()`), `Reclaim` are the driver's statements, `Crash` the death of a
process. `Complete` and `FailWrite` address the row, not the lease, as the code
does. `Budget == INSTANCE DeliveryBudget` with `used <- delivered` is the
refinement. One timing assumption, stated in the module: `fail()`'s two
statements take less time than the backoff and the lease, so the row is neither
claimed nor reclaimed between them; two overlapping `fail()` calls are allowed.

**`WorkflowEngine`** has operators only: `MustRun` (`_plan_stage`), `Matches`
(`ComponentVersions.matches`, asymmetric), `PlanOf` (what `plan()` means),
`MissingBefore` (`_validate_prerequisites`), `NextAfter`. A stage is its position
in `STAGE_ORDER`.

**`IncrementalRun`** is one contract's jobs, one after another, under changing
versions. `StartJob`, `PlanStage`, `StartWalk` are `plan()` with its loop
variable and its `upstream_reruns` flag; `RunStage`, `SkipStage`, `FailStage` are
the branches of `_execute`; `Deploy` changes the versions in force. `output[s]`
is what the stage's rows were made by and from, which the code does not record:
it is what the properties compare the checkpoints with.

**`Pipeline`** extends both: jobs moved by `run_stage` over the queue. A slot's
`step` says how far `run_stage` has come. `Load` is everything up to the first
write; `Begin` is `mark_stage_started`, whose flush takes the row lock that lasts
to the commit; `Succeed`, `Halt`, `StageFails` and `Skip` end in the commit;
`Enqueues`/`EnqueueFails` come after it; `Settle`/`GiveBack` settle the row.
`snap[slot]` is what the session read, so that a write can be as stale as it is
in the code, where SQLAlchemy writes only the columns that differ from what was
read. `FindStalled`/`FailStalled` and `FindCancellable`/`MarkCancelled` are a
read and a later write each. Versions are fixed here (`IncrementalRun` varies
them), so a plan depends on which stages have succeeded.

**`BullDispatch`** is the Node shim, the default driver, and follows one dispatch
decision. An entry is a BullMQ job: `state`, `made` (attemptsMade), `stalls`. A
call is one POST to the stage endpoint; `call[c]` says how far `run_stage` is
with it, or what it answered. `Take`, `Completes`, `Rejects` are the processor,
`Run...`, `DispatchNext`, `ScheduleRetry` are Python, each side free to go on
without the other: after `Disconnect` or `Stall` an old call still commits.
`Throws` is BullMQ's count with the `failed` handler, `DeadLetter`, `Replay`,
`ReplayRemove`, `Discard` the dead letters, whose id (worker.ts:169) lets one
stage and job have one. The runner's work is reduced to its outcomes; `Pipeline`
has its detail. What BullMQ does (its count, its locks, its stall limit) is
modelled from the options and calls in `queue/src`; where versions of the library
differ (whether failing for stalls costs an attempt) both happen. One timing
assumption: a replay's two calls to Redis take less than a backoff.

## The modules: services

**`AlertRules`** has operators only: each type of alert as a function of a
contract, the rule in force and the day (`Expiring` ... `ObligationDue`), the
choice of the rule (`RuleFor`: the project's, else the platform's), and what the
evaluator reads in one query (`Widest`, `ObligationsRead`, `Collect`).

**`AlertSweep`** reconciles. `ReadEstate(s)` is the sweep up to its last read,
`WriteAlerts(s)` its commit with the table as the unique index leaves it: new
rows, refreshed and escalated ones (`Refreshed`, `Escalated`), retired ones
(`Wanted`). Operators (`UpdateAlert`), administrators (`EditRule`, `DeleteRule`),
the contract (`EditContract`) and the calendar (`NextDay`) move in between, and
the CLI's sweep, which takes no lock, runs beside the loop's.

**`AlertDelivery`** is the report of a failed stage: `FailStage` commits nothing
yet, `Persist` looks for the open row and inserts or counts up, `Send` tells a
channel with its bounded retries, `Commit` commits both, `Die` is a death before
that, `CloseRow` an operator. A write that meets another's uncommitted row waits.

**`ExportJobs`** shows committed rows only: the RUNNING and FAILED that
`ExportService.run` flushes are in the transaction its exception rolls back.
`Create`, `Build`, `Store`, `CommitRun`, `FailRun`, `Restart` are the request and
its background task; `MintLink`, `CheckRow`, `Fetch` a download in its two halves;
`BeginPurge`, `PurgeFile`, `CommitPurge`, `PurgeDies` the sweep, which deletes
files before it commits their rows.

**`Uploads`** has requests over batches of documents: `CheckFile` (duplicates, in
the batch and in the project), `CreateContract`, `StoreVersion`/`InsertVersion`
for a replacement, `Enqueue`, `CommitUpload`; a clash of the content hash aborts
the whole request and a deadlock picks a victim. `BeginDelete`, `PurgeFiles`,
`CommitDelete` are a deletion, `Work` a worker. With the Postgres driver the
message is part of the commit, with a broker it is not.

## The modules: documents

**`Sections`** cuts the readable paragraphs of a document under its headings and
splits what is too long below its title. **`ClauseDetection`** extends it:
headings that name a clause, the model's mapping of the others (asked twice), the
extents under them, then windows of pages searched in waves, whose calls end in
any order or fail, repaired at paragraph boundaries; early stopping; the
exhausted search.

**`ExtractionEngine`** is one extraction on one event loop: `StartClause` passes
the semaphore, `AnswerClause` is everything after a call's answer up to the next
await, `Gathered` collects, `RunFinancial`, `RunDates`, `RunItems` are the
categories derived at once, `Assess` the missing clauses and review triggers,
`Summarise` the digest. A call may answer, refuse or fail, what follows it may
raise, and so may the progress report after a clause is recorded.
**`BatchPlanner`** is `plan_batches`, one step per candidate; nothing in the
repository calls it yet.

**`ContractKnowledge`** is what runs of the extraction stage leave in the tables
of a contract: `ClearTable` one DELETE, `WriteChunks` the insert that lets one
run at a time past the unique key, `FinishRun`/`FailRun` the commits. Deletions
that meet another transaction's rows wait and then remove only what they saw.

**`EmbeddingIndex`** is the same for vectors: per level what is reused from rows
of the same text and versions (`Reusable`), what is deleted (`Doomed`), what the
provider is asked for (`Embed`), and the commit (`Finish`), with `Extract`,
`Deploy` and `EditLevels` beside it.

**`RetryCall`** is `call_with_retries` in ticks: attempts, jittered waits, the
deadline. No caller passes `deadline_seconds`; both cases are modelled.

**`Retrieval`** and **`Answering`** are pure functions of a question: `Searched` (vector and keyword
legs, `Fuse`), `Found`, `Expanded` (neighbours, graph), `Deduplicate`, `Rerank`;
`Assemble` (history and items against the budget), `StripLabels`, `Confidence`,
`Validate`. The loops over levels, seeds, records and passages are folds over one
step each (`SearchLevel`, `Widen`, `Follow`, `Place`, `Admit`, `Offer`); what
Python sorts and filters is `InOrder` and `Those`. A question is two steps,
`AskPrepare` and `AskAnswer`, over the `Worlds`, `Plans`, `Rankings`, `Asks`,
`Costs` and `Replies` that `MCDocuments` gives values.

`outdated`, `broken`, `replanned`, `dropped`, `byHand`, `ran`, `changed`,
`tainted`, `delivered`, `given_up`, `reopened`, `raced`, `base`, `commits`,
`overlapped`, `torn`, `contested`, `latest`, `rivals` and the field `of` of a sweep
are history: no action reads them, apart from those that record history.

## What is checked

| Run | Instance | What it shows |
|---|---|---|
| `incremental` | 3 stages, 3 jobs, 2 attempts, 2 deploys | `LoopComputesPlan`, `NothingReusedAfterARun`, `ReadyIsCurrent` |
| `pipeline` | validation, DOCPIPELINE and one stage more; 2 jobs, 3 rows, 1 worker with a slot per stage, 1 fault, 1 operation | `UpstreamFirst`, `CurrentAtRest` |
| `pipeline_late` | extraction and embedding, 2 slots for the first: the same stage of one job in two hands; 2 faults, 1 operation | `NoSilentStop`, `CurrentAtRest` |
| `pipeline_live` | 2 stages | `Progress` |
| `bull` | 2 entries, 2 attempts, 1 stall tolerated, 2 faults | `NothingLost`, `ExhaustedMeansNoRetry`, `ImplementsWiderBudget`, `EveryEntrySettles` |
| `alerts` | 1 contract with two states of its facts, 3 rules, 2 sweeps, 2 days, 2 edits or deaths | `PrefilterLosesNothing`, `OneLivePerCondition`, `OneStepUp`, `RetiredOnGrounds`, `EventuallyAgrees` |
| `services`: queue | 2 rows, 2 workers, 3 attempts | `UniqueDelivery`, `ImplementsBudget`, `EventuallySettled` |
| `services`: reports | 2 workers, 3 codes in 2 categories, 2 channels, 2 attempts | `EveryReportCounted`, `EveryReportEnds` |
| `services`: exports | 3 exports, one undeletable, sweeps of 2 rows, 1 fault | `OnlyExpiryLosesDownloads`, `RowTellsFile`, `EveryExpiredIsPurged` |
| `documents`: uploads | 2 requests that meet in opposite orders, a batch with one document twice, a Word file, a deletion, both drivers | `FileBehindContract`, `BatchLostOnlyToOthers`, `JobsHaveAFuture` |
| `documents`: detection | 5 documents of 6 paragraphs on 4 pages, 2 clauses, windows of 2 pages, waves of 2 | `ReadInFull`, `AbsentMeansReached`, `FirstFindKept`, `SectionsApart` |
| `documents`: planner | 4 clauses, all evidence over 2 chunks | `PlanIsSound` |
| `documents`: engine | 3 categories, 3 derived ones, 2 at a time, 2 mishaps | `AccountedFor` |
| `documents`: knowledge | 3 runs, 4 tables, 2 runs lost | `KnowledgeWhole` |
| `documents`: embedding | 2 workers, 3 runs, 2 levels, 2 spaces, one extraction, profile edit and setback | `VectorsMatchText`, `LevelsWholeAndUnmixed` |
| `documents`: retry | 3 attempts of 2 ticks, deadline 7 | `CallWithinDeadline` |
| `documents`: question | 11 passages of 3 contracts, two clauses of one number, all modes, plans and rankings | `EvidenceAccounted`, `AnswerAccountable` |
| `incremental_ready_without_output`, `bull_double_retry`, `upload_replaced_word`, `extraction_unrecorded_failure` | as above; the second with no faults at all | the first four disagreements below |

`MCServices` and `MCDocuments` are sums: a behaviour is one of one part, chosen
in the initial state, and the variables of the others keep one value. The parts
share nothing but the database and no rows of it that the properties are about,
so a product would only multiply what each does alone.

Why the bounds are enough for the cases of interest: two workers and a lapsed
lease suffice for a row in two hands, three attempts for a number that is
neither the first nor the last; three stages make a stage with something before
and something after it, three jobs an old checkpoint, a newer one, and the plan
that chooses between them; a faulty step and an operation at *any* point of two
overlapping jobs cover the pairs of events the hazards are about. That one fault
is too few where two hands must both go wrong is why `pipeline_late` has two:
with one, `NoSilentStop` seemed to hold without its exception `dropped`. In
`Pipeline` a process with several slots behaves as several workers do, but for
dying alone. Two requests, two sweeps and two workers make every pair of
transactions; three extraction runs make one that waits for two; three exports
make a sweep that leaves one for the next; four pages with windows of two make a
window that is first, in the middle and last, in one wave or in two.
Bounds by name: `MaxJobs`, `MaxDeploys`, `MaxFaults`, `MaxOps`, `Row`, `Job`;
`MaxEntries` (two: the entry and its twin or its replay) and `MaxStarts`, which
`ImplementsWiderBudget` shows is never reached; `MaxDay`, `MaxUpsets`;
`MaxFailures`, `MaxCloses`, `MaxDeaths`; `MaxUploads`, `MaxDeletes`; `MaxRuns`,
`MaxExtracts`, `MaxEdits`, `MaxSetbacks`; `MaxMishaps`, `MaxLosses`.

Larger instances that were checked besides, without a violation: `Pipeline` on
`pipeline_late`'s stages with three and four faults and no operation and with
three attempts, on `pipeline`'s with two operations and no fault, on `pipeline_late`'s
with two operations and one fault, `Progress` on the same stages with two slots for the first, four rows and three faults
(some minutes); the shim with three entries, and with three faults; two extractions and two setbacks of
the index; three uploads and two faults; four mishaps of an extraction; three
failures and two deaths of reports.

A fault of `Pipeline` is a crash, an error, or a lease or heartbeat that lapses
although the work is going on; leases and heartbeats of abandoned work lapse
freely. Rows that are settled and in nobody's hands are taken again for new
messages (`Post`), so three rows carry any number of messages; `Post` is not
enabled while none is free, which with the bounds above only delays it.

`MCPipeline.cfg` and `MCPipelineLate.cfg` use `VIEW MCView`: it forgets what a
free or dead row held before and the deliveries, which no action and no property
of these runs reads again; it halves the states and hides no step. The liveness
runs use no view. `CHECK_DEADLOCK FALSE` stands in every configuration because
every instance may stop: bounded histories are used up, a system whose jobs
are all settled waits for a user, and a question is answered.

Fairness is weak fairness of what loops do again and again: the claim loop polls
while it has a free slot (cli.py:342-360), a stage under timeouts ends and is
settled, the sweep comes round every minute (maintenance.py:134-161) and will
sooner or later find a row abandoned. Nothing is assumed of users, crashes or
faults, and nothing strong: a claim of a pending row stays enabled until someone
takes it. `Progress` says what that buys: every job finishes or leaves a dead
row. In `BullDispatch` it is the same of the shim's workers, the endpoint's calls
and a replay under way; `EveryEntrySettles` speaks of entries: a decision gains
one with each transient failure, and whether that ends depends on the failure,
not on a budget. In `AlertSweep` and `ExportJobs` it is the loop's sweep alone,
in `AlertDelivery` the handler that is running, whose attempts have timeouts.

## Where the code disagrees with what it says

With a run:

1. `ReadyHasOutput`: a failed stage commits its cleanup's deletes, a retry from
   that stage ignores `force` and reuses an older checkpoint; the job is READY
   with nothing behind it, the very outcome workflow.py:172-178 describes.
2. `WithinBudget`: with the Node shim a transient failure is retried twice, by the
   runner's fresh message and by BullMQ; the copies count from one each, so the
   stage runs more often than `QUEUE_MAX_ATTEMPTS`, and may succeed twice.
   `ImplementsWiderBudget` is what holds per entry.
3. `StoragePathIsProcessing`: a replacement by a Word document leaves the path of
   the previous version's PDF (models/contract.py:69-70 says they are equal).
4. `FailureIsOnRecord`: a category whose call fails has no outcome.

With a configuration beside the runs that shows it (same modules, one property):

- `MCReusedMatchesVersions.cfg`: attempts are numbered per job, and
  `checkpoints()` takes the highest attempt of the contract for the newest.
- `MCEveryJobFinishes.cfg`: a job whose first row dies stays QUEUED; the sweep
  looks at running states only.
- `MCCancelStops.cfg`: a cancel that lands after a stage loaded the job is
  overwritten or not looked at, and the next stage is dispatched.
- `MCOnePlanPerRun.cfg`: two deliveries of a job's first stage build two plans.
- `MCDisabledMeansOff.cfg`: a disabled project rule falls back to the platform's.
- `MCAlertClashes.cfg` (with `-continue`, for both): an alert's insert that clashes
  aborts the transaction that recorded the failure (`AlertingIsHarmless`); two
  codes of one stage are two rows (`OneRowPerStage`).
- `MCFailureIsRecorded.cfg`: a failed export stays queued (its FAILED is rolled
  back), and `recover_stalled`, which looks for committed RUNNING rows, never
  finds one.
- `MCNoStrandedJobOnAnyDriver.cfg`: with a broker, a worker is told of a job
  before it is committed; it finds none, and the message is gone.
- `MCAbsentMeansSearched.cfg`: a window whose search failed counts as read.
- `MCNeverMixed.cfg`: two embedding runs with different models leave vectors of
  both. `MCRivalRuns.cfg` (for either of two properties): two extraction jobs
  of a contract leave rows of both (`NeverDuplicated`), and columns of the one
  that found something (`ProjectionOfOneRun`).
- `MCReprocessRunsOn.cfg`: `cip reprocess` promises that "every stage from
  --from-stage onward runs again" (cli.py:426), but what follows the stage it
  queues is decided by the plan the job has stored, which leaves out the stages
  before its own first one and may reuse what is outdated by now; the message's
  option `force` is not read.

Properties that pass state what is true around these: their premises name
exactly the excluded histories (`tainted`, a dead row, `broken`, `replanned`,
`dropped`, a job in `byHand` that began later than the first stage, `raced`,
`torn`, `overlapped`, `contested`, `rivals`). `dropped` is a
worker that ran late: another delivery of its row settles the row, and then the
worker dies between its commit and its enqueue, or gives a row back that another
holder completes. What it had to enqueue is gone with it: the job may stay
RETRYING, where no sweep looks. In `NothingLost`, `given_up` is a dead letter
that was never written (the write failed, the process died, or the entry failed
for stalls with attempts left) or was discarded, `reopened` a job that a call
nobody waits for turned from FAILED or passed into RETRYING.

Met while modelling, without a configuration:

- A 4xx is retried like any error (a plain `Error` is thrown; worker.ts:126-129
  says it goes straight to the dead letter queue), and BullMQ's own backoff is
  used, not Python's delay.
- Retrieval: a neighbour that was added at half a score may suppress a hit with a
  lower score that says the same; `_expand_graph` remembers clause numbers, not
  clauses, across contracts; with semantic search, or below the 92nd place of a
  level, which a `COPILOT_TOP_K` of up to 200 allows (config.py:1153), a graph
  record may take the place of a hit's own and lose its similarity
  (`SafeLimit`). An answer that honestly finds nothing scores the same
  with invented labels as with none.
- The batch planner compares candidates with the seed only.
- Embedding: a level whose provider fails loses its old vectors while the stage
  succeeds; a level that is switched off keeps its vectors, so a reindex finds
  the contract stale for ever; what is reused is looked up without provider and
  dimension, for which reason `VectorsMatchText` compares `ReuseKey`s.
- Exports: `purge_expired` takes `limit` rows without an order and leaves those
  whose key cannot be deleted as they are. As many of these as a sweep takes may
  starve all others for ever; `EveryExpiredIsPurged` excepts that state, and with
  two undeletable keys in the run it fails without the exception.
- Extraction: an extraction whose every call failed is stored as a clean one; a
  clause that was found and fails a hard check is stored as not found, with the
  errors among the outcome's issues and, unless it is mandatory, no review;
  metadata of an earlier run stay where the new one found nothing; a run for some
  clauses deletes all and reports the rest missing; a derived category that
  raises fails the whole; `contract.needs_review` is never reset; a progress
  report that raises after a clause is recorded drops its clauses and leaves two
  outcomes.

## What is proved

Each component's theorems rest on an inductive invariant, which TLC checked
before it was proved (except `AskInv`, which only says what was computed from what).

`ServicesProofs`, the queue: for any rows, processes, queues, concurrency and any budget
above zero (`QueueAssumption`). `TypeCorrect`, `DeliveriesAreUnique` and
`QueueImplementsBudget` follow from `QueueInv`: the types, and that what a slot
holds was delivered to it, that a pending row's attempt is above everything it
was delivered at, that any other row's is at least that, and that two
slots with one row hold it under different numbers. Uniqueness alone is not
inductive: a claim keeps it only because a pending row's attempt is above every
number it was delivered at, and `FailWrite` keeps *that* only because what
`fail()` read is no lower than any delivery (`SeenCoversDeliveries`), which the
timing assumption carries to the write.

`IncrementalRunProofs`: for any number of stages, payloads, cacheable and
clearing stages, jobs and deploys (`EngineAssumption`, `RunAssumption`).
`PlansAreRight` needs the state of the half-run loop: up to the cursor the plan is the
declarative plan, and the flag says whether a stage so far runs.
`RunsAreSuffixes` needs that what follows a planned run in the scope is planned
to run, and that the plan made after DOCPIPELINE runs everything: validation is
never cacheable (`1 \notin Cacheable`, stages/validation.py:47), and a full plan
therefore starts with a stage that runs (`ReplanRunsAll`).

`ReadyJobsAreCurrent` is about rows, and a plan reuses them on the word of
`workflow_stage_runs` alone; so `CurrentInv` says what that word is worth. Without
a rollback a run that satisfies the versions in force means that the stage's rows
carry them, and without a failure a stage that has succeeded has rows
(`HistoryTrue`); a plan being made has found only runs of the history
(`PlanningKnows`); stages behind the walk have succeeded, those of the scope that
did not run, skipped or jumped over, are still reusable, and those that ran left rows
of the versions planned with unless these were deployed over since
(`BehindTheWalk`); between jobs every row was computed
from the rows there are (`RestSound`). That nothing is reused after a run then
carries soundness from a stage to the next. `WorkflowEngineProofs` holds the lemmas
about `NextAfter` and `PlanOf` that this module and the next one share.

`PipelineProofs`: for any jobs, stages, processes, attempts, faults and operations
(the assumptions of the queue and the engine, and `PipelineAssumption`, which
adds that no stage's state is "none", QUEUED or RETRYING, as STAGE_TO_STATE has
it, and `ReplanAssumption`: DOCPIPELINE is the third stage, enums.py:228, or an
earlier one of a shorter instance, and validation is not cacheable). `UpstreamFirst` says nothing of a row before its handler runs, and a row of
a job is inserted long before; so `PipelineInv` follows the promise along. A stored plan passes over no stage that
has not succeeded (`PlansSound`, which the plan made again after DOCPIPELINE keeps,
because it is made against what has succeeded by then). A row that may still be
delivered is for a stage whose upstream has succeeded, or it is for the stage an
unplanned job starts with (`RowsFollow`): only the session that plans the job
finds out, and `plan()` refuses if it is not so. A session that will store its
plan, or enqueue after its commit, has seen what it promises (`SessionsSound`).
`JobsAdvance` is what every step does to every job, and the frame lemmas `RowKept`
and `SessionKept` carry the rest over it, so that each action's proof is about the
slot that moves. A FAILED job whose row is delivered again, a plan that is stored
twice and a state overwritten by a cancel are in the model, and disturb nothing.
`NoJobStopsSilently` needs to know which row or worker a waiting job depends on, for
not every live row will do: one that a worker is about to settle is as good as gone.
`CarryInv` says that a job in QUEUED or RETRYING has a row that nobody is about to
settle, or a worker that is about to enqueue or to give its row back. A session
that runs a handler on a row another delivery has settled carries nothing, and
need not: that delivery has enqueued what comes next, or ended the job.

`AlwaysCurrentAtRest` says of the end of all work what no step sees: a stage that
commits makes every later one outdated, and only other steps, of a worker that may
die, late deliveries that reuse, and a plan made again in between, decide whether
those will run. `CurrentInv` has two halves. While none of the excluded histories has
happened (`Steady`), what is outdated lies ahead of a row that may still be delivered,
or of a worker about to enqueue or give back (`Covered`): at the stage they stand
for no outdated stage has been passed yet, and the job's plan, or the one it will get,
runs each of them (`Ahead`). A row whose worker has its session loaded counts
only if the plan in that session runs them too, or is bound to be noticed as replacing
another (`RowCarries`). That this survives a success that comes late, a skip and a
second plan is a matter of the shape of plans: nothing is reused after a stage that
runs, nothing is missing from the job's first stage on, all of it runs as long as the
first stage has not succeeded (`PlanShaped`), and a job past DOCPIPELINE that ran it
reuses nothing (`AfterDoc`). For the last of these DOCPIPELINE must be
the third stage, as it is: a handler that succeeds before it begins its job, or its
job begins with the first stage, and either way its plan reuses nothing
(`RanWithDoc`). At rest nobody carries, so nothing is outdated, or
no stage has run at all.

`BullDispatchProofs`: for any number of entries, attempts, tolerated stalls and
faults (`BullAssumption`). `BullInv` says that each start of an entry is paid for
by an attempt, by a stall, or is the one under way (`StartsAccounted`), from
which `BullImplementsWiderBudget` follows; and that a call carries the attempt
its entry is in while the runner asks for a retry only below the maximum, from
which `ExhaustedNeverRetried` follows: an exhausted entry was last posted at
the maximum. It says no more than that the two counters agree: the last call of an
exhausted entry may have committed a success or a failure that nobody read. `NothingIsLost` needs more than its property, since an entry under
way whose call is settled is about to vanish: `Carried` says that some entry
waits, or has a call that is not settled, or that a letter is there which no
replay is about to remove.

`ServicesProofs`, exports: for any exports, sweep limit, faults and undeletable
keys (`ExportAssumption`). `ExportInv` ties a task to its committed row, so that
no file that was promised is written or deleted by anybody else (`TaskAndRow`),
keeps a file from its storage to its expiry (`FileKept`), and says that a sweep
about to mark rows expired has deleted their files (`PurgeSound`).

`ServicesProofs`, reports of failures: for any workers, codes, channels and deaths
(`SendAttemptsAssumption`). That rows count every failure is a sum over rows
against a number of commits, and a worker adds one to what it *read*; so
`DeliveryInv` says that the only worker at a condition has read the row that is
there, with its count (`ReadsWhatIsThere`). Two at one condition are what
`overlapped` records, and nothing is claimed of it after that.

`ServicesProofs`, alerts: for any estate of contracts with finitely many
obligations, any rules, days, operators' edits and sweeps at once
(`FactsAssumption`, `RulesAssumption`, `CalendarAssumption`). `PrefilterNeverLoses`
is about the widest window being wide enough, whatever the rules; it needs no
more than the rules being of the shape an administrator can write.
`AlwaysRetiredOnGrounds` speaks of each sweep by what it read, so that edits,
escalations and other sweeps before or beside it are no exception: its drafts are
what the rules it read say of the contract it read (`SweepOK`). For `OneLiveAlways` and `OneStepUpAlways` a sweep must know what
it overwrites: what it has read is of the rows that are there (`SweepOK`), and a
sweep that is alone has read every live row, severity included, but for those
reopened since (`AloneOK`).

`DocumentsProofs`, uploads: for any documents, batches of any length, requests and faults
(`UploadsAssumption`). `FileIsBehindContract` is about bytes written by a request
long before the row that names them is committed, and `UploadsInv` therefore
follows them: what a request created has its files and paths of its own
(`CreatedOK`), a version it stored is of a committed contract (`ReplacedOK`), what
it will queue is one of these (`QueueOK`), ids carry the upload that made them
(`NumbersOK`), and whatever a purge meets is marked at both of its checks
(`OverlapsSeen`). Only then is "bytes are missing only of what a purge took" an
invariant (`FilesThere`). A batch that clashed did so with a document that somebody
else committed, because a document a batch repeats is not inserted twice
(`TargetOK`).

`DocumentsProofs`, calls: for any attempts, times and limits (`RetryAssumption`).
An attempt begins with its whole timeout left before the deadline (`TimeLeft`), and
each attempt but the first is behind one wait (`RoundsUsed`).

`DocumentsProofs`, knowledge: for any runs, tables that end with the chunks, facts
and losses (`KnowledgeAssumption`). That a document has sections, so that every
run has chunks, is part of the model. `OneWriter` says that the run past the
unique key has deleted every chunk there was; `AloneClearsAll` that a run without
rivals has deleted all rows of the tables it has come to. `KnowledgeWhole`
follows from these with what the last commit wrote (`LastIsWhole`).

`DocumentsProofs`, the index: for any workers, contracts, levels, texts and
spaces (`EmbeddingAssumption`). A vector in hand is of its text and space from the
moment it is found to be reusable (`RunOK`), and a run of a contract that nothing
else works on has read all of it and has cleared every level it has got to
(`UncontestedIsAlone`), so that what it writes is all there is (`LevelsWhole`).

`DocumentsProofs`, an extraction: for any Clause Master, mandatory and derived
categories, requests, evidence, number of calls at a time and mishaps
(`EngineAssumption`; a clause is among the outcomes as `clause:<key>`, engine.py:366,
so its name is no other category's). `AccountedFor` is about the end, and what it
accounts for was recorded by calls that overlapped; so `EngineInv` says at every
moment that a category waits, has its call out or has said (`EveryoneIsSomewhere`),
and that what the outcomes say of it is what its call said (`OutcomesTell`). Only
what raised is known later: the clauses' losses have an error once they are gathered,
and a loss after them ends the extraction (`LossesSeen`). A find that is rejected (engine.py:507-521) is an ending of its own, and the one
"not found" with errors (`Rejected`). That the clauses of the
plan which were found are the clauses of the Clause Master which were, in its order
(`GatheredFacts`), is what selecting from a list twice comes to (`AmongAmong`).

`DocumentsProofs`, the plan of the calls: for any clauses, evidence, limit and
budget (`PlannerAssumption`). `TurnedAwayForRoom` speaks of pairs of batches (the plan is greedy, and
that no plan has fewer calls is not claimed); `PlanInv`
says of each why it is as it is: its seed was the least clause without a batch
(`SeedLeast`), and what the scan has passed by is taken or too dear for the batch
so far (`Passed`), which remains so as the batch grows because the cost, a sum over
chunks of a greatest share, grows with it.

`DocumentsProofs`, the search for clauses: for any document, profile, windows and
waves (`SectionsAssumption`, `DetectionAssumption`; `NotFound` is no number and no
record). An answer is about clauses that are still outstanding when its wave is
finished (`AnswersAreAsked`), so the first that has a clause is the one reported
(`FirstReported`), and every text is a part of its heading's section or an answer
with its continuation (`TextsInPlace`). Sections do not meet because each ends
before the next heading. `AbsentAlwaysReached` rests on `WindowsCover`: with the
code's count, rounded up, windows of any size and overlap leave no page between them
and reach the last.

`DocumentsProofs`, the sections: for any document and any limit
(`SectionsAssumption`). `AlwaysReadInFull` has no invariant but that the document
stays what it is (`DocumentStays`): it is about what four folds compute. The lemmas
on folds of `DataLemmas` take the fold's step as a function, so that a property
which the step keeps (`StaysIn`) holds of its result (`FoldRuns`). The loop over a document and
the loop over a section build a list of blocks in the same two ways, a block more
or the last block longer, and both keep the list a cut of what was read (`Cut`): in order, each
paragraph once. Chunks and their references are the pieces of the sections laid
end to end (`IsFlat`); two that shared a reference would share a first paragraph.

`DataLemmas` holds what these modules share: least and greatest elements of
finite sets, sums over finite sets, sequences put one behind the other. The
induction over a finite set that they need is the choice of a least
counterexample; that over numbers and sequences (`NaturalsAreAll`,
`SequencesAreAll`) takes a set for the predicate, which the library's theorems, with
an operator for it, do not: what `Among` selects from a list of any length is
proved with it.

`AnsweringProofs`: for any passages, worlds, plans, rankings, prices, histories and
texts of the model (`PassageAssumption`, `QuestionAssumption`). What these assume
of a plan is what makes plans: at most 50 contracts are named (schemas/search.py:37),
under the cap on candidates; levels come in the order summary, clause, chunk
(planner.py); a re-ranker's scores are clamped (rerank.py:190); the keyword query
returns by descending rank. Of clause numbers they assume nothing: where several
clauses of a contract have one number, `TheReferred` is whichever the query, which
has no order, returns first. `AskInv` only says
that the evidence is what `Prepare` makes of some question, and the reply what
`Answer` makes of it; the work is in what the functions compute, one lemma for each
step in the order of the code. A fold goes through one value per element, and a
property of the value and the number of elements read is carried along
(`SearchGoesOn`, `WidenKeeps`, `FollowKeeps`, `PlaceGoesOn`, `AdmitGoesOn`,
`OfferGoesOn`), from the first (`LevelsTurn`, `NaturalsAreAll`) to the last. A sort has every place
once (`OrderFacts`, from the number of those that come before being different for
each), so nothing is lost by one.

`AlwaysAccounted` relates both ends of this. Each record that was found is stood for
by one of the same row or of the same text with a score no lower (`Stands`),
through the best of each row (`BestOK`) and the suppression of copies (`KeptOK`), and
re-ranking only shuffles (`Shuffled`). Similarities survive because no later record
of a row outscores one that a search found (`Kept`): a neighbour is no row that was
found, and a clause from the graph has 4/10 of at most 1/61, less than any clause
down to the 92nd place, hence `SafeLimit`. The vouching
passage exists because what was measured at an answering level is still among the
hits (`MeasuredOK`). The scope is kept because candidates are only ever
narrowed (`Narrower`).
`AlwaysAccountable` takes the package as it is filled: each passage read is cited, blank or
dropped, nothing is dropped before the minimum is cited, and the budget holds
from there on (`OfferedOK`); the confidence of an answer with an
invented label is at most half because coverage is at most one and the mean of
percentages at most a hundred (`HalfAtMost`, `SumOfPercentages`).

Model-checked only: all liveness (`EventuallySettled`, `Progress`,
`EveryEntrySettles`, `EventuallyAgrees`, `EveryReportEnds`,
`EveryExpiredIsPurged`), which is out of the prover's reach.

## What is not modelled, and why

- *Queue*: priorities, backoff and `available_at` only order claims, and the
  models allow every order. Reading and requeueing dead rows, statistics, bulk
  enqueue and shutdown of the shim, and the retention of BullMQ's lists.
- *Redis list driver*: only its push side is called; `pop`, `promote_delayed` and
  `send_to_dlq` have no caller.
- *Runner*: the second attempt at recording a failure on a broken session, jobs
  and contracts deleted under a queued message, metrics and caches. `PAUSED`
  exists but nothing sets it, nor are `validate_transition` and
  `dependencies_satisfied` called. `reclaim_stalled_jobs` passes a column that
  does not exist; the repository drops it and the state change remains, which is
  what is modelled. `Pipeline` takes a handler to succeed, to fail before or
  after its cleanup, or to halt; what extraction and embedding do is in
  `ContractKnowledge` and `EmbeddingIndex`, the other handlers transform data.
- *Identity*: login, token rotation and guards are request-response code over
  single rows; the count-then-write guard is a hazard of the list.
- *Cache*: `cached()` and `RedisLock` have no caller; single reads and writes
  with a TTL remain.
- *Uploads*: what makes a file or an archive invalid; a batch is what is left.
- *Extraction and the search for clauses*: prompts, the checks of single values,
  evidence scores, issues of the schema, an answer of which some items
  are rejected (it counts as found), the risk rules of a clause, `only_categories` and
  `skip_summary`, early stopping switched off, parties and classification,
  quotes located in a page. In `ContractKnowledge` documents without a section.
- *Questions*: the filters of a plan but for contracts and types (a risk band or
  unlimited liability narrows as one type does), the planner's choice of a plan, streaming, stored conversations.
- *Parsers, chunking, document model, graph builder*: data without control worth
  a state machine. *Storage* adapters: their effects are in `Uploads` and
  `ExportJobs`. *Search, knowledge, portfolio, audit and administration*
  endpoints: queries and single-row edits. *Seeds, configuration, user manual,
  migrations, deployment, evaluation, frontend*: no state of the system.

## What could come next

An abstract life of a job (queued, running, settled, by whom) that `Pipeline` implements outside the excluded histories;
`Pipeline` with `ContractKnowledge` in place of its handlers, so that overlapping
jobs need no exclusion.
