---------------------------- MODULE BullDispatch ----------------------------
(***************************************************************************)
(* The other production driver: the Node shim (queue/src) that keeps one   *)
(* BullMQ queue per stage, calls the stage endpoint for each entry and     *)
(* turns the answer into a BullMQ outcome.  The module follows what becomes *)
(* of one dispatch decision for one stage of one job.                      *)
(*                                                                         *)
(* Both sides retry.  The runner enqueues a fresh message for a transient  *)
(* failure (runner.py, _schedule_retry) and answers should_retry, for      *)
(* which the processor throws and BullMQ redelivers the entry it has.  The *)
(* attempt that Python sees is the entry's own count plus one, so a fresh  *)
(* message starts from one again.                                          *)
(*                                                                         *)
(* Node and Python only meet in an HTTP call.  Either may go on without    *)
(* the other: a call whose connection broke, or whose entry was taken for  *)
(* stalled, runs to its end in Python, and nobody reads its answer.        *)
(*                                                                         *)
(* BullMQ itself is a library: its part (the count of attempts, the lock,  *)
(* stalled entries, an id that is taken once) is modelled from the options *)
(* and calls in queue/src.  Delays and priorities only order deliveries.   *)
(***************************************************************************)
EXTENDS Naturals, FiniteSets

CONSTANTS MaxEntries,   \* bound: BullMQ jobs, the first one and what retries and replays add
          MaxAttempts,  \* QUEUE_MAX_ATTEMPTS, of the shim and of the runner alike
          MaxStalls,    \* maxStalledCount
          MaxFaults     \* bound: broken connections, stalls and crashes of the API

ASSUME BullAssumption ==
    /\ MaxEntries \in Nat \ {0}
    /\ MaxAttempts \in Nat \ {0}
    /\ MaxStalls \in Nat
    /\ MaxFaults \in Nat

Entry == 1..MaxEntries

(* A call to the stage endpoint: the entry it is for, and how often the    *)
(* entry had been started.  MaxStarts is a bound that is never reached.    *)
MaxStarts == MaxAttempts + MaxStalls + 1
Call == Entry \X (1..MaxStarts)

VARIABLES
    state,      \* state[e]: where BullMQ has the entry
    made,       \* made[e]: job.attemptsMade
    stalls,     \* stalls[e]: how often the entry was found stalled
    starts,     \* starts[e]: how often the processor was started on it
    call,       \* call[c]: how far Python is with a call, or what it answers
    attempt,    \* attempt[c]: the attempt the call was posted with
    job,        \* the ProcessingJob: "open", "passed" (next stage queued, or READY), "ended" (FAILED)
    lettering,  \* entries whose deadLetter() is under way
    dlq,        \* entries the dead letter queue names
    replaying,  \* dead letters a replay has re-added and not yet removed
    faults,     \* faults so far
    ran,        \* history: the calls in which the stage ran to a commit
    given_up,   \* history: a failed entry has no dead letter, or an operator dropped it
    reopened    \* history: a call nobody waits for made a settled job RETRYING

entryVars == <<state, made, stalls, starts>>
pythonVars == <<call, attempt, job, ran, reopened>>
letterVars == <<lettering, dlq, replaying, given_up>>
bullVars == <<entryVars, pythonVars, letterVars, faults>>

CallState == {"none", "posted", "to_next", "to_retry", "settled", "again", "error"}
InPython == {"posted", "to_next", "to_retry"}

TypeOK ==
    /\ state \in [Entry -> {"absent", "waiting", "active", "completed", "failed"}]
    /\ made \in [Entry -> 0..MaxAttempts]
    /\ stalls \in [Entry -> 0..MaxStalls + 1]
    /\ starts \in [Entry -> 0..MaxStarts]
    /\ call \in [Call -> CallState]
    /\ attempt \in [Call -> 0..MaxAttempts]
    /\ job \in {"open", "passed", "ended"}
    /\ lettering \in SUBSET Entry
    /\ dlq \in SUBSET Entry
    /\ replaying \in SUBSET dlq
    /\ faults \in 0..MaxFaults
    /\ ran \in SUBSET Call
    /\ given_up \in BOOLEAN
    /\ reopened \in BOOLEAN
    /\ \A e \in lettering \cup dlq : state[e] = "failed" /\ made[e] = MaxAttempts

Init ==
    /\ state = [e \in Entry |-> "absent"]
    /\ made = [e \in Entry |-> 0]
    /\ stalls = [e \in Entry |-> 0]
    /\ starts = [e \in Entry |-> 0]
    /\ call = [c \in Call |-> "none"]
    /\ attempt = [c \in Call |-> 0]
    /\ job = "open"
    /\ lettering = {}
    /\ dlq = {}
    /\ replaying = {}
    /\ faults = 0
    /\ ran = {}
    /\ given_up = FALSE
    /\ reopened = FALSE

Fault == faults < MaxFaults /\ faults' = faults + 1

(* The next identity: every message has an id of its own (dispatch_id, or  *)
(* the time of a replay), so an added entry never collapses onto another.  *)
Fresh(e) == state[e] = "absent" /\ \A d \in 1..e - 1 : state[d] # "absent"

Add(e) == Fresh(e) /\ state' = [state EXCEPT ![e] = "waiting"]

(* POST /enqueue, with the message of the dispatch decision.               *)
Enqueue ==
    /\ Add(1)
    /\ UNCHANGED <<made, stalls, starts, pythonVars, letterVars, faults>>

-----------------------------------------------------------------------------
(* The processor takes an entry and posts it under the attempt BullMQ has. *)
Take(e) ==
    LET c == <<e, starts[e] + 1>> IN
    /\ state[e] = "waiting"
    /\ starts[e] < MaxStarts
    /\ state' = [state EXCEPT ![e] = "active"]
    /\ starts' = [starts EXCEPT ![e] = @ + 1]
    /\ call' = [call EXCEPT ![c] = "posted"]
    /\ attempt' = [attempt EXCEPT ![c] = made[e] + 1]
    /\ UNCHANGED <<made, stalls, job, ran, reopened, letterVars, faults>>

-----------------------------------------------------------------------------
(***************************************************************************)
(* The endpoint runs the stage and commits...                              *)
(***************************************************************************)
Commits(c, step) ==
    /\ call[c] = "posted"
    /\ call' = [call EXCEPT ![c] = step]
    /\ ran' = ran \cup {c}
    /\ UNCHANGED <<entryVars, attempt, letterVars, faults>>

RunSucceeds(c) == Commits(c, "to_next") /\ UNCHANGED <<job, reopened>>

(* The endpoint raises before a commit, for one because plan() refuses the *)
(* stage, and answers with an error status.                                *)
RunRaises(c) ==
    /\ call[c] = "posted"
    /\ call' = [call EXCEPT ![c] = "error"]
    /\ UNCHANGED <<entryVars, attempt, job, ran, reopened, letterVars, faults>>

RunFailsForGood(c) == Commits(c, "settled") /\ job' = "ended" /\ UNCHANGED reopened

(* Whether a processor still waits for the answer.                         *)
Awaited(c) == state[c[1]] = "active" /\ starts[c[1]] = c[2]

(* mark_retrying, whatever another delivery has made of the job since.     *)
MarkRetrying(c) ==
    /\ job' = "open"
    /\ reopened' = (reopened \/ (job # "open" /\ ~Awaited(c)))

(* Faulty: the runner counts the attempt it is in as one still to come.    *)
RunFailsForNowOnceMore(c) ==
    /\ attempt[c] <= MaxAttempts
    /\ Commits(c, "to_retry")
    /\ MarkRetrying(c)

RunFailsForNow(c) ==
    /\ attempt[c] < MaxAttempts
    /\ Commits(c, "to_retry")
    /\ MarkRetrying(c)

(***************************************************************************)
(* ...and then talks to the queue: _dispatch_next after a success.  An     *)
(* enqueue that fails, or whose answer is lost, marks the job failed.      *)
(***************************************************************************)
DispatchNext(c) ==
    /\ call[c] = "to_next"
    /\ call' = [call EXCEPT ![c] = "settled"]
    /\ job' \in {"passed", "ended"}
    /\ UNCHANGED <<entryVars, attempt, ran, reopened, letterVars, faults>>

(* _schedule_retry: a message of its own, and the answer asks for a retry  *)
(* whether or not it was enqueued.                                         *)
Requeued(c) ==
    /\ call[c] = "to_retry"
    /\ call' = [call EXCEPT ![c] = "again"]
    /\ UNCHANGED <<made, stalls, starts, attempt, ran, reopened, letterVars, faults>>

ScheduleRetry(c) ==
    /\ Requeued(c)
    /\ \E e \in Entry : Add(e)
    /\ job' \in {job, "ended"}      \* "ended": queued, but the answer was lost

ScheduleRetryFails(c) ==
    /\ Requeued(c)
    /\ UNCHANGED state
    /\ job' = "ended"

-----------------------------------------------------------------------------
(***************************************************************************)
(* The processor reads the answer of the call it made.  BullMQ counts the  *)
(* attempt when the processor returns or throws.                           *)
(***************************************************************************)
Current(e) == <<e, starts[e]>>

(* Faulty: an answer that never came is taken for a stage that is through. *)
CompletesUnanswered(e) ==
    /\ state[e] = "active"
    /\ call[Current(e)] \in {"settled", "error"}
    /\ state' = [state EXCEPT ![e] = "completed"]
    /\ made' = [made EXCEPT ![e] = @ + 1]
    /\ UNCHANGED <<stalls, starts, pythonVars, letterVars, faults>>

Completes(e) ==
    /\ state[e] = "active"
    /\ call[Current(e)] = "settled"
    /\ state' = [state EXCEPT ![e] = "completed"]
    /\ made' = [made EXCEPT ![e] = @ + 1]
    /\ UNCHANGED <<stalls, starts, pythonVars, letterVars, faults>>

(* Faulty: a throw that does not cost an attempt.                          *)
ThrowsFree(e) ==
    /\ state' = [state EXCEPT ![e] = "waiting"]
    /\ UNCHANGED <<made, stalls, starts, pythonVars, letterVars>>

(***************************************************************************)
(* A throw: BullMQ delivers the entry again, or fails it, and then the     *)
(* 'failed' handler finds it exhausted and starts deadLetter().            *)
(* TIMING ASSUMPTION: a replay's two calls to Redis take less than the     *)
(* backoff, so no entry uses up its attempts between them.                 *)
(***************************************************************************)
Throws(e) ==
    /\ made' = [made EXCEPT ![e] = @ + 1]
    /\ \/ /\ made[e] + 1 < MaxAttempts
          /\ state' = [state EXCEPT ![e] = "waiting"]
          /\ UNCHANGED lettering
       \/ /\ made[e] + 1 >= MaxAttempts
          /\ replaying = {}
          /\ state' = [state EXCEPT ![e] = "failed"]
          /\ lettering' = lettering \cup {e}
    /\ UNCHANGED <<stalls, starts, pythonVars, dlq, replaying, given_up>>

(***************************************************************************)
(* RetryableStageError, TransportError, or the plain Error of a 4xx, which *)
(* BullMQ retries like the others: only an UnrecoverableError would not be.*)
(***************************************************************************)
Rejects(e) ==
    /\ state[e] = "active"
    /\ call[Current(e)] \in {"again", "error"}
    /\ Throws(e)
    /\ UNCHANGED faults

(* The connection breaks or times out: Python does not notice.             *)
Disconnect(e) ==
    /\ Fault
    /\ state[e] = "active"
    /\ Throws(e)

(* The endpoint's process dies, with every call in it.                     *)
ApiCrash ==
    /\ Fault
    /\ \E c \in Call : call[c] \in InPython
    /\ call' = [c \in Call |-> IF call[c] \in InPython THEN "error" ELSE call[c]]
    /\ UNCHANGED <<entryVars, attempt, job, ran, reopened, letterVars>>

(* Faulty: no limit is set for stalls.                                     *)
StallUnlimited(e) ==
    /\ Fault
    /\ state[e] = "active"
    /\ state' = [state EXCEPT ![e] = "waiting"]
    /\ UNCHANGED <<made, stalls, starts, pythonVars, letterVars>>

(***************************************************************************)
(* The lock of an active entry lapses, because its worker died or hung:    *)
(* BullMQ hands it out again under the attempt it had.  Beyond             *)
(* maxStalledCount it fails, which may cost an attempt or not (versions of *)
(* the library differ); with attempts left there is no dead letter.        *)
(***************************************************************************)
Stall(e) ==
    /\ Fault
    /\ state[e] = "active"
    /\ stalls' = [stalls EXCEPT ![e] = @ + 1]
    /\ \/ /\ stalls[e] < MaxStalls
          /\ state' = [state EXCEPT ![e] = "waiting"]
          /\ UNCHANGED <<made, lettering, given_up>>
       \/ /\ stalls[e] >= MaxStalls /\ replaying = {}
          /\ state' = [state EXCEPT ![e] = "failed"]
          /\ \E n \in {made[e], made[e] + 1} :
                /\ made' = [made EXCEPT ![e] = n]
                /\ lettering' = IF n >= MaxAttempts THEN lettering \cup {e} ELSE lettering
                /\ given_up' = (given_up \/ n < MaxAttempts)
    /\ UNCHANGED <<starts, pythonVars, dlq, replaying>>

-----------------------------------------------------------------------------
(***************************************************************************)
(* deadLetter(): its id is made of the stage, the job and attemptsMade,    *)
(* so a second dead letter of this stage and job adds nothing.             *)
(***************************************************************************)
DeadLetter(e) ==
    /\ e \in lettering
    /\ lettering' = lettering \ {e}
    /\ dlq' = IF dlq = {} THEN {e} ELSE dlq
    /\ UNCHANGED <<entryVars, pythonVars, replaying, given_up, faults>>

(* The write fails and is logged, or the process dies before it.           *)
LoseLetter(e) ==
    /\ e \in lettering
    /\ lettering' = lettering \ {e}
    /\ given_up' = TRUE
    /\ UNCHANGED <<entryVars, pythonVars, dlq, replaying, faults>>

(* Faulty: the dead letter is removed first and re-added from memory.      *)
ReplayRemovingFirst(d) ==
    /\ d \in dlq
    /\ dlq' = dlq \ {d}
    /\ (\E e \in Entry : Add(e)) \/ UNCHANGED state
    /\ UNCHANGED <<made, stalls, starts, pythonVars, lettering, replaying, given_up, faults>>

(* POST /dlq/:id/replay adds the message under a new id...                 *)
Replay(d) ==
    /\ d \in dlq
    /\ \E e \in Entry : Add(e)
    /\ replaying' = replaying \cup {d}
    /\ UNCHANGED <<made, stalls, starts, pythonVars, lettering, dlq, given_up, faults>>

(* ...and removes the dead letter,                                         *)
ReplayRemove(d) ==
    /\ d \in replaying
    /\ dlq' = dlq \ {d}
    /\ replaying' = replaying \ {d}
    /\ UNCHANGED <<entryVars, pythonVars, lettering, given_up, faults>>

(* unless the shim dies in between.                                        *)
ReplayInterrupted(d) ==
    /\ d \in replaying
    /\ replaying' = replaying \ {d}
    /\ UNCHANGED <<entryVars, pythonVars, lettering, dlq, given_up, faults>>

(* DELETE /dlq/:id                                                         *)
Discard(d) ==
    /\ d \in dlq
    /\ dlq' = dlq \ {d}
    /\ replaying' = replaying \ {d}
    /\ given_up' = TRUE
    /\ UNCHANGED <<entryVars, pythonVars, lettering, faults>>

-----------------------------------------------------------------------------
Python(c) ==
    \/ RunSucceeds(c)
    \/ RunRaises(c)
    \/ RunFailsForGood(c)
    \/ RunFailsForNow(c)
    \/ DispatchNext(c)
    \/ ScheduleRetry(c)
    \/ ScheduleRetryFails(c)

Processor(e) ==
    \/ Take(e)
    \/ Completes(e)
    \/ Rejects(e)

Operator(d) == Replay(d) \/ Discard(d)

Next ==
    \/ Enqueue
    \/ \E c \in Call : Python(c)
    \/ \E e \in Entry : Processor(e) \/ DeadLetter(e) \/ ReplayRemove(e)
    \/ \E e \in Entry : Disconnect(e) \/ Stall(e) \/ LoseLetter(e) \/ ReplayInterrupted(e)
    \/ \E e \in Entry : Operator(e)
    \/ ApiCrash

Spec == Init /\ [][Next]_bullVars

(***************************************************************************)
(* A worker with a free slot takes what waits, a call ends (the shim waits *)
(* QUEUE_STAGE_TIMEOUT_MS for it), and a promise under way is settled.     *)
(* With entries and starts bounded, some step of some call or entry is as  *)
(* good as a step of each.                                                 *)
(***************************************************************************)
Fairness ==
    /\ WF_bullVars(\E c \in Call : Python(c))
    /\ WF_bullVars(\E e \in Entry : Processor(e))
    /\ WF_bullVars(\E e \in Entry : ReplayRemove(e))

FairSpec == Spec /\ Fairness

-----------------------------------------------------------------------------
(***************************************************************************)
(* The dispatch decision never vanishes: until the next stage is queued or *)
(* the job is FAILED, BullMQ has an entry that will be delivered, or there *)
(* is (or is about to be) a dead letter, or Python is still at work on a   *)
(* call.  Excluded is what given_up and reopened name: a reopened job may  *)
(* stay RETRYING, a state the sweep of stalled jobs does not look at.      *)
(***************************************************************************)
Live(e) == state[e] \in {"waiting", "active"}

NothingLost ==
    \/ state[1] = "absent"
    \/ job # "open"
    \/ \E e \in Entry : Live(e)
    \/ \E c \in Call : call[c] \in InPython
    \/ lettering \cup dlq # {}
    \/ given_up
    \/ reopened

(***************************************************************************)
(* BullMQ's attemptsMade and the attempt the runner compares with its own  *)
(* budget run out together: where an entry is exhausted, the runner did    *)
(* not mean to make its last attempt again.  That call queues no message   *)
(* of its own beside the dead letter and does not ask for a redelivery.    *)
(* It may have raised, and it may have committed a success or a failure    *)
(* that nobody read, because the connection broke or the entry stalled.    *)
(***************************************************************************)
ExhaustedMeansNoRetry ==
    \A e \in lettering \cup dlq : call[Current(e)] \notin {"to_retry", "again"}

(***************************************************************************)
(* Per entry the shim keeps the promise of the Postgres queue, with a      *)
(* wider budget: an entry is started at most once per attempt and once per *)
(* tolerated stall, each time as a delivery of its own.                    *)
(***************************************************************************)
Budget == INSTANCE DeliveryBudget
            WITH Message <- Entry,
                 MaxAttempts <- MaxAttempts + MaxStalls,
                 sent <- {e \in Entry : state[e] # "absent"},
                 used <- [e \in Entry |-> 1..starts[e]]

ImplementsWiderBudget == Budget!BudgetSpec

(***************************************************************************)
(* Every entry is completed or failed in the end, for good: throws and     *)
(* stalls run out.  This says nothing of the decision as a whole, which    *)
(* gains an entry with every transient failure: MaxEntries cuts that off.  *)
(***************************************************************************)
EveryEntrySettles == <>[](\A e \in Entry : ~Live(e))

(***************************************************************************)
(* The attempt budget of one dispatch decision: without broken calls,      *)
(* stalls or replays, its stage runs at most QUEUE_MAX_ATTEMPTS times.     *)
(***************************************************************************)
WithinBudget == Cardinality(ran) <= MaxAttempts

=============================================================================
