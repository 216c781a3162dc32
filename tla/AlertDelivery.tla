---------------------------- MODULE AlertDelivery ----------------------------
(***************************************************************************)
(* How a terminal failure of a stage becomes an alert (services/alerts.py, *)
(* alerting/): workers that fail the same stage of the same document, the  *)
(* row each writes inside the transaction that records the failure, the    *)
(* channels that are told before that transaction commits, and operators   *)
(* who close rows meanwhile.                                               *)
(*                                                                         *)
(* The database is READ COMMITTED.  A pending insert or update makes every *)
(* other writer of the same open key wait; a waiting insert then meets the *)
(* committed row and fails on uq_alerts_open_dedupe, a waiting update goes *)
(* through with the values its session computed before it waited.          *)
(***************************************************************************)
EXTENDS Integers, FiniteSets, FiniteSetsExt, Sequences

CONSTANTS
    Worker,
    Code,          \* error codes the stage fails with
    CategoryOf,    \* CategoryOf[code]: _CODE_CATEGORY, else the stage's own
    Configured,    \* ALERT_PROVIDER
    Usable,        \* the configured channels that have what they need
    SendAttempts,  \* ALERT_MAX_ATTEMPTS, at least 1
    MaxFailures,   \* failures that are reported, all workers together
    MaxCloses,     \* rows operators acknowledge, resolve or dismiss
    MaxDeaths      \* workers killed or shut down before their commit

ASSUME SendAttemptsAssumption == SendAttempts \in Nat \ {0}

VARIABLES
    row,           \* committed alerts of this document and stage, oldest first
    report,        \* report[w]: how far the report of w's failure is
    failures, closes, deaths,  \* counters of the bounds
    commits,       \* history: reports whose transaction committed, by key
    overlapped     \* history: keys two workers reported at the same time

deliveryVars == <<row, report, failures, closes, deaths, commits, overlapped>>

Status == {"open", "acknowledged", "resolved", "dismissed"}

\* build_dispatcher: what was asked for and works, and the console when nothing
\* asked for works, unless silence was asked for.
Channel ==
    LET working == Configured \cap Usable
    IN  IF working = {} /\ "null" \notin Configured THEN {"console"} ELSE working

\* One category, document and stage make a condition; the document and the
\* stage are fixed here.
Key == {CategoryOf[c] : c \in Code}

Untold == [tries |-> 0, told |-> FALSE]

Open(key) == {i \in DOMAIN row : row[i].key = key /\ row[i].status = "open"}

Reporting(w) == report[w].at \in {"read", "flushed", "poisoned"}

DeliveryInit ==
    /\ row = <<>>
    /\ report = [w \in Worker |-> [at |-> "running"]]
    /\ failures = 0 /\ closes = 0 /\ deaths = 0
    /\ commits = [k \in Key |-> 0]
    /\ overlapped = {}

-----------------------------------------------------------------------------

\* raise_processing_failure, and the read at the start of _persist.  A worker
\* whose job failed before fails again when somebody retries the job.
FailStage(w, code) ==
    LET key == CategoryOf[code] IN
    /\ report[w].at \in {"running", "committed", "lost"}
    /\ failures < MaxFailures
    /\ failures' = failures + 1
    /\ \E found \in {{i} : i \in Open(key)} \union (IF Open(key) = {} THEN {{}} ELSE {}) :
         report' = [report EXCEPT ![w] =
            [at |-> "read", key |-> key, found |-> found,
             seen |-> {row[i].occurrences : i \in found},
             channel |-> [c \in Channel |-> Untold]]]
    /\ overlapped' = overlapped \union
            {k \in {key} : \E v \in Worker \ {w} : Reporting(v) /\ report[v].key = k}
    /\ UNCHANGED <<row, closes, deaths, commits>>

PersistInTurn(w) ==
    /\ report[w].at = "read"
    /\ \A v \in Worker \ {w} : Reporting(v) => report[v].key # report[w].key
    /\ report' = [report EXCEPT ![w].at =
            IF report[w].found = {} /\ Open(report[w].key) # {} THEN "poisoned"
            ELSE "flushed"]
    /\ UNCHANGED <<row, failures, closes, deaths, commits, overlapped>>

\* The flush of _persist.  raise_event swallows its failure.
Persist(w) ==
    /\ report[w].at = "read"
    /\ \A v \in Worker : report[v].at = "flushed" => report[v].key # report[w].key
    /\ report' = [report EXCEPT ![w].at =
            IF report[w].found = {} /\ Open(report[w].key) # {} THEN "poisoned"
            ELSE "flushed"]
    /\ UNCHANGED <<row, failures, closes, deaths, commits, overlapped>>

\* _deliver stops at the first success and after the last attempt.
ChannelDone(c) == c.told \/ c.tries = SendAttempts

\* One attempt at one channel; the channels go on concurrently.
Send(w, channel) ==
    /\ report[w].at \in {"flushed", "poisoned"}
    /\ ~ChannelDone(report[w].channel[channel])
    /\ \E told \in BOOLEAN :
         report' = [report EXCEPT ![w].channel[channel] =
                        [tries |-> report[w].channel[channel].tries + 1, told |-> told]]
    /\ UNCHANGED <<row, failures, closes, deaths, commits, overlapped>>

WrittenFromZero(w) ==
    IF report[w].found = {}
    THEN Append(row, [key |-> report[w].key, status |-> "open", occurrences |-> 0])
    ELSE [i \in DOMAIN row |->
            IF i \in report[w].found
            THEN [row[i] EXCEPT !.occurrences = 1 + CHOOSE n \in report[w].seen : TRUE]
            ELSE row[i]]

\* The row as w's transaction leaves it: a new one, or the one it found with
\* the count it read plus one.
WrittenRow(w) ==
    IF report[w].found = {}
    THEN Append(row, [key |-> report[w].key, status |-> "open", occurrences |-> 1])
    ELSE [i \in DOMAIN row |->
            IF i \in report[w].found
            THEN [row[i] EXCEPT !.occurrences = 1 + CHOOSE n \in report[w].seen : TRUE]
            ELSE row[i]]

\* The end of session_scope in run_stage.  After a failed flush the session can
\* only be rolled back: the job's failure goes with the alert.
Commit(w) ==
    /\ report[w].at \in {"flushed", "poisoned"}
    /\ \A c \in Channel : ChannelDone(report[w].channel[c])
    /\ IF report[w].at = "flushed"
       THEN /\ row' = WrittenRow(w)
            /\ commits' = [commits EXCEPT ![report[w].key] = @ + 1]
       ELSE UNCHANGED <<row, commits>>
    /\ report' = [report EXCEPT ![w].at =
                     IF report[w].at = "flushed" THEN "committed" ELSE "lost"]
    /\ UNCHANGED <<failures, closes, deaths, overlapped>>

\* A kill, or a cancellation that _deliver lets through at shutdown.
Die(w) ==
    /\ Reporting(w)
    /\ deaths < MaxDeaths
    /\ deaths' = deaths + 1
    /\ report' = [report EXCEPT ![w] = [at |-> "running"]]
    /\ UNCHANGED <<row, failures, closes, commits, overlapped>>

\* update_alert, which waits for a pending update of the row.
CloseRow(i, status) ==
    /\ closes < MaxCloses
    /\ row[i].status = "open"
    /\ \A w \in Worker : ~(report[w].at = "flushed" /\ i \in report[w].found)
    /\ row' = [row EXCEPT ![i].status = status]
    /\ closes' = closes + 1
    /\ UNCHANGED <<report, failures, deaths, commits, overlapped>>

ReportStep(w) == Persist(w) \/ (\E c \in Channel : Send(w, c)) \/ Commit(w)

DeliveryNext ==
    \/ \E w \in Worker : (\E code \in Code : FailStage(w, code)) \/ ReportStep(w) \/ Die(w)
    \/ \E i \in DOMAIN row, status \in Status \ {"open"} : CloseRow(i, status)

DeliverySpec == DeliveryInit /\ [][DeliveryNext]_deliveryVars

\* A handler that runs goes on: asyncio gives every coroutine its turn, every
\* attempt has a timeout and every lock is held by such a handler.
DeliveryFairSpec == DeliverySpec /\ \A w \in Worker : WF_deliveryVars(ReportStep(w))

-----------------------------------------------------------------------------

DeliveryTypeOK ==
    /\ \A i \in DOMAIN row :
         row[i] \in [key : Key, status : Status, occurrences : 1 .. MaxFailures]
    /\ \A w \in Worker :
         /\ report[w].at \in {"running", "read", "flushed", "poisoned", "committed", "lost"}
         /\ Reporting(w) => report[w].channel \in
                [Channel -> [tries : 0 .. SendAttempts, told : BOOLEAN]]
    /\ commits \in [Key -> 0 .. MaxFailures]
    /\ overlapped \subseteq Key

\* Where no two workers report one condition at a time, its rows account for
\* every failure that was recorded: a repeat is a count, never a lost report
\* and never a second open row (docs/alerting.md, guarantee 4).
EveryReportCounted ==
    \A k \in Key \ overlapped :
        /\ Cardinality(Open(k)) <= 1
        /\ MapThenSumSet(LAMBDA i : row[i].occurrences,
                         {i \in DOMAIN row : row[i].key = k}) = commits[k]

\* A report ends, however its channels behave and whoever holds its row.
EveryReportEnds == \A w \in Worker : Reporting(w) ~> ~Reporting(w)

\* docs/alerting.md, guarantee 1: alerting never changes the outcome of what
\* raised it.
AlertingIsHarmless == \A w \in Worker : report[w].at # "lost"

\* alerting/base.py, dedupe_key: two failures of the same stage on the same
\* document are one condition, not two alerts.
OneRowPerStage ==
    Cardinality({i \in DOMAIN row : row[i].status = "open"}) <= 1
=============================================================================
