------------------------------ MODULE RetryCall ------------------------------
(***************************************************************************)
(* One call of a language model with its retries (ai/resilience.py,        *)
(* call_with_retries).  Time is counted in ticks from the start of the     *)
(* call; an attempt ends at its timeout at the latest, the wait before the *)
(* next one is jittered, and a retry that might outlive the deadline is not*)
(* begun.                                                                  *)
(***************************************************************************)
EXTENDS Integers

CONSTANTS
    MaxAttempts,     \* attempts_allowed
    AttemptTimeout,  \* attempt_timeout
    Deadline,        \* deadline_seconds
    Base,            \* retry_backoff_seconds
    Cap              \* the cap of one wait

ASSUME RetryAssumption ==
    /\ MaxAttempts \in Nat \ {0}
    /\ AttemptTimeout \in Nat /\ Deadline \in Nat /\ Base \in Nat /\ Cap \in Nat

VARIABLES
    phase,      \* "calling", "failed", "waiting", "returned" or "raised"
    attempt,    \* the attempt that runs or ran last
    clock,      \* ticks since the call began
    error,      \* the reason of the last failure, as classify_retryable names it
    wake,       \* when the wait is over
    retries,    \* CallOutcome.retries
    bounded     \* whether the caller gave a deadline; neither provider does

retryVars == <<phase, attempt, clock, error, wake, retries, bounded>>

\* classify_retryable: what a retry may help with, and "none": a refusal, a bad
\* request, a cancellation of the caller.
Reason == {"timeout", "rate_limit", "transport", "server"}

\* backoff_delay: full jitter under a ceiling that doubles.
Delay == {d \in 0 .. Cap : d <= Base * 2 ^ (attempt - 1)}

RetryInit ==
    /\ phase = "calling" /\ attempt = 1 /\ clock = 0
    /\ error = "none" /\ wake = 0 /\ retries = 0
    /\ bounded \in BOOLEAN

\* wait_for(operation()): an answer, or an error, within the attempt's time; a
\* timeout takes all of it.
Succeed(duration) ==
    /\ phase = "calling"
    /\ clock' = clock + duration
    /\ phase' = "returned"
    /\ UNCHANGED <<attempt, error, wake, retries, bounded>>

Fail(duration, reason) ==
    /\ phase = "calling"
    /\ clock' = clock + duration
    /\ error' = reason
    /\ phase' = "failed"
    /\ UNCHANGED <<attempt, wake, retries, bounded>>

TimeOut ==
    /\ phase = "calling"
    /\ clock' = clock + AttemptTimeout
    /\ error' = "timeout"
    /\ phase' = "failed"
    /\ UNCHANGED <<attempt, wake, retries, bounded>>

Hopeless == error = "none" \/ attempt >= MaxAttempts

FitsNow(delay) == bounded => clock + delay <= Deadline

\* spent + delay + attempt_timeout against the deadline.
Fits(delay) == bounded => clock + delay + AttemptTimeout <= Deadline

Raise ==
    /\ phase = "failed"
    /\ Hopeless \/ \E delay \in Delay : ~Fits(delay)
    /\ phase' = "raised"
    /\ UNCHANGED <<attempt, clock, error, wake, retries, bounded>>

RetryLater(delay) ==
    /\ phase = "failed" /\ ~Hopeless /\ Fits(delay)
    /\ phase' = "waiting"
    /\ wake' = clock + delay
    /\ retries' = retries + 1
    /\ UNCHANGED <<attempt, clock, error, bounded>>

\* The wait itself; the next attempt starts with a clock of its own.
TryAgain ==
    /\ phase = "waiting"
    /\ clock' = wake
    /\ attempt' = attempt + 1
    /\ phase' = "calling"
    /\ UNCHANGED <<error, wake, retries, bounded>>

RetryNext ==
    \/ \E duration \in 0 .. AttemptTimeout :
         Succeed(duration) \/ \E reason \in Reason \union {"none"} : Fail(duration, reason)
    \/ TimeOut
    \/ Raise
    \/ \E delay \in Delay : RetryLater(delay)
    \/ TryAgain

RetrySpec == RetryInit /\ [][RetryNext]_retryVars

-----------------------------------------------------------------------------

\* A call is over by its deadline whatever its attempts and waits take, unless
\* its first attempt alone is longer (the docstring's "so a stage cannot outlive
\* its own worker lease"); without one, by the end of its allowed attempts, each
\* with the longest wait before it.
CallWithinDeadline ==
    /\ clock <= IF bounded
                THEN (IF Deadline < AttemptTimeout THEN AttemptTimeout ELSE Deadline)
                ELSE MaxAttempts * (AttemptTimeout + Cap)
    /\ attempt <= MaxAttempts
=============================================================================
