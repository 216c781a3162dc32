------------------------- MODULE BullDispatchProofs -------------------------
(***************************************************************************)
(* Theorems about the Node shim for every number of entries, attempts,     *)
(* tolerated stalls and faults.                                            *)
(***************************************************************************)
EXTENDS BullDispatch, TLAPS

(***************************************************************************)
(* The strengthening.  Each start of an entry is paid for: by an attempt,  *)
(* by a stall, or it is the one under way.                                 *)
(***************************************************************************)
StartsAccounted ==
    \A e \in Entry :
        /\ starts[e] <= made[e] + stalls[e] + (IF state[e] = "active" THEN 1 ELSE 0)
        /\ Live(e) => made[e] < MaxAttempts /\ stalls[e] <= MaxStalls
        /\ state[e] = "absent" => made[e] = 0 /\ stalls[e] = 0

(* The call under way carries the attempt its entry is in.                 *)
CallCarriesAttempt ==
    \A e \in Entry : state[e] = "active" =>
        starts[e] >= 1 /\ attempt[Current(e)] = made[e] + 1

(* The runner asks for a retry only below its own maximum.                 *)
RetriesBelowMaximum ==
    \A c \in Call : call[c] \in {"to_retry", "again"} => attempt[c] < MaxAttempts

(* An entry with a dead letter was last posted under the maximum.          *)
LetteredAtMaximum ==
    \A e \in lettering \cup dlq :
        starts[e] >= 1 /\ attempt[Current(e)] = MaxAttempts

BullInv ==
    /\ TypeOK
    /\ StartsAccounted
    /\ CallCarriesAttempt
    /\ RetriesBelowMaximum
    /\ LetteredAtMaximum

-----------------------------------------------------------------------------
(* The first state satisfies the invariant: no entry, no call.             *)
LEMMA InitBullInv == Init => BullInv
<1> SUFFICES ASSUME Init PROVE BullInv
  OBVIOUS
<1> USE BullAssumption DEF Init
<1>1. MaxStarts \in Nat \ {0}
  BY DEF MaxStarts
<1>2. TypeOK
  <2>1. starts \in [Entry -> 0..MaxStarts] /\ call \in [Call -> CallState]
    BY <1>1 DEF CallState
  <2>2. /\ made \in [Entry -> 0..MaxAttempts]
        /\ stalls \in [Entry -> 0..MaxStalls + 1]
        /\ attempt \in [Call -> 0..MaxAttempts]
        /\ faults \in 0..MaxFaults
    OBVIOUS
  <2>3. QED
    BY <2>1, <2>2 DEF TypeOK
<1>3. StartsAccounted /\ CallCarriesAttempt
  BY DEF StartsAccounted, CallCarriesAttempt, Live
<1>4. RetriesBelowMaximum /\ LetteredAtMaximum
  BY DEF RetriesBelowMaximum, LetteredAtMaximum
<1>5. QED
  BY <1>2, <1>3, <1>4 DEF BullInv

(* The call an entry was last started with is a call.                      *)
LEMMA CurrentIsCall ==
    ASSUME TypeOK, NEW e \in Entry, starts[e] >= 1
    PROVE  Current(e) \in Call
BY BullAssumption DEF TypeOK, Current, Call, MaxStarts

(***************************************************************************)
(* Python moves a call along and leaves entries and dead letters alone.    *)
(***************************************************************************)
LEMMA PythonKeepsInv ==
    ASSUME BullInv,
           UNCHANGED <<made, stalls, starts, attempt, letterVars, faults>>,
           UNCHANGED state \/ \E e \in Entry : Add(e),
           job' \in {"open", "passed", "ended"}, reopened' \in BOOLEAN,
           ran' \in SUBSET Call, call' \in [Call -> CallState],
           \A c \in Call : call'[c] \in {"to_retry", "again"} =>
               call[c] \in {"to_retry", "again"} \/ attempt[c] < MaxAttempts
    PROVE  BullInv'
<1> USE BullAssumption DEF BullInv, letterVars, Add, Fresh
<1>1. TypeOK'
  BY DEF TypeOK
<1>2. StartsAccounted'
  BY DEF TypeOK, StartsAccounted, Live
<1>3. CallCarriesAttempt' /\ LetteredAtMaximum'
  BY DEF TypeOK, CallCarriesAttempt, LetteredAtMaximum, Current
<1>4. RetriesBelowMaximum'
  BY DEF RetriesBelowMaximum
<1>5. QED
  BY <1>1, <1>2, <1>3, <1>4

(* Every step of run_stage() is of that kind.                              *)
LEMMA PythonStepKeepsInv ==
    ASSUME BullInv, NEW c \in Call, Python(c)
    PROVE  BullInv'
<1> USE DEF BullInv, TypeOK, entryVars, CallState
<1>1. CASE RunSucceeds(c) \/ RunFailsForGood(c)
  BY <1>1, PythonKeepsInv DEF RunSucceeds, RunFailsForGood, Commits
<1>2. CASE RunRaises(c)
  BY <1>2, PythonKeepsInv DEF RunRaises
<1>3. CASE RunFailsForNow(c)
  <2>1. reopened' \in BOOLEAN /\ job' = "open"
    BY <1>3 DEF RunFailsForNow, MarkRetrying
  <2>2. QED
    BY <1>3, <2>1, PythonKeepsInv DEF RunFailsForNow, Commits
<1>4. CASE DispatchNext(c)
  BY <1>4, PythonKeepsInv DEF DispatchNext
<1>5. CASE ScheduleRetry(c) \/ ScheduleRetryFails(c)
  BY <1>5, PythonKeepsInv DEF ScheduleRetry, ScheduleRetryFails, Requeued
<1>6. QED
  BY <1>1, <1>2, <1>3, <1>4, <1>5 DEF Python

(* A crash of the endpoint answers every call in it with an error.         *)
LEMMA ApiCrashKeepsInv ==
    ASSUME BullInv, ApiCrash
    PROVE  BullInv'
<1> USE BullAssumption DEF BullInv, ApiCrash, Fault, entryVars, letterVars
<1>1. TypeOK'
  BY DEF TypeOK, CallState
<1>2. StartsAccounted'
  BY DEF StartsAccounted, Live
<1>3. CallCarriesAttempt' /\ LetteredAtMaximum'
  BY DEF CallCarriesAttempt, LetteredAtMaximum, Current
<1>4. RetriesBelowMaximum'
  BY DEF RetriesBelowMaximum
<1>5. QED
  BY <1>1, <1>2, <1>3, <1>4

-----------------------------------------------------------------------------
(* An added entry is new: nothing is counted for it.                       *)
LEMMA AddKeepsInv ==
    ASSUME BullInv, NEW e \in Entry, Add(e), replaying' \in SUBSET dlq,
           UNCHANGED <<made, stalls, starts, pythonVars, lettering, dlq, given_up, faults>>
    PROVE  BullInv'
<1> USE BullAssumption DEF BullInv, Add, Fresh, pythonVars
<1>1. TypeOK'
  BY DEF TypeOK
<1>2. StartsAccounted'
  BY DEF TypeOK, StartsAccounted, Live
<1>3. CallCarriesAttempt' /\ LetteredAtMaximum'
  BY DEF TypeOK, CallCarriesAttempt, LetteredAtMaximum, Current
<1>4. RetriesBelowMaximum'
  BY DEF RetriesBelowMaximum
<1>5. QED
  BY <1>1, <1>2, <1>3, <1>4

(* A delivery posts the entry under the attempt after those it has made.   *)
LEMMA TakeKeepsInv ==
    ASSUME BullInv, NEW e \in Entry, Take(e)
    PROVE  BullInv'
<1> USE BullAssumption DEF BullInv, Take, letterVars
<1>1. /\ made[e] \in Nat /\ made[e] + 1 \in 0..MaxAttempts
      /\ starts[e] + 1 \in 1..MaxStarts
      /\ <<e, starts[e] + 1>> \in Call
  BY DEF TypeOK, StartsAccounted, Live, Call, MaxStarts
<1>2. TypeOK'
  BY <1>1 DEF TypeOK, CallState
<1>3. StartsAccounted'
  BY DEF TypeOK, StartsAccounted, Live
<1>4. CallCarriesAttempt'
  <2> SUFFICES ASSUME NEW d \in Entry, state'[d] = "active"
               PROVE  starts'[d] >= 1 /\ attempt'[Current(d)'] = made'[d] + 1
    BY DEF CallCarriesAttempt
  <2>1. CASE d = e
    BY <1>1, <2>1 DEF TypeOK, Current
  <2>2. CASE d # e
    <3>1. state[d] = "active" /\ starts'[d] = starts[d] /\ Current(d)' = Current(d)
      BY <2>2 DEF TypeOK, Current
    <3>2. starts[d] >= 1 /\ attempt[Current(d)] = made[d] + 1
      BY <3>1 DEF CallCarriesAttempt
    <3>3. attempt'[Current(d)] = attempt[Current(d)]
      BY <2>2, <3>2, CurrentIsCall DEF TypeOK, Current
    <3>4. QED
      BY <3>1, <3>2, <3>3
  <2>3. QED
    BY <2>1, <2>2
<1>5. RetriesBelowMaximum'
  BY <1>1 DEF TypeOK, RetriesBelowMaximum
<1>6. LetteredAtMaximum'
  <2> SUFFICES ASSUME NEW d \in lettering \cup dlq
               PROVE  starts'[d] >= 1 /\ attempt'[Current(d)'] = MaxAttempts
    BY DEF LetteredAtMaximum
  <2>1. d \in Entry /\ d # e /\ starts[d] >= 1 /\ attempt[Current(d)] = MaxAttempts
    BY DEF TypeOK, LetteredAtMaximum
  <2>2. starts'[d] = starts[d] /\ Current(d)' = Current(d)
    BY <2>1 DEF TypeOK, Current
  <2>3. attempt'[Current(d)] = attempt[Current(d)]
    BY <2>1, CurrentIsCall DEF TypeOK, Current
  <2>4. QED
    BY <2>1, <2>2, <2>3
<1>7. QED
  BY <1>2, <1>3, <1>4, <1>5, <1>6

(* A completion counts the attempt it ends.                                *)
LEMMA CompletesKeepsInv ==
    ASSUME BullInv, NEW e \in Entry, Completes(e)
    PROVE  BullInv'
<1> USE BullAssumption DEF BullInv, Completes, pythonVars, letterVars
<1>1. made[e] + 1 \in 0..MaxAttempts
  BY DEF TypeOK, StartsAccounted, Live
<1>2. TypeOK'
  BY <1>1 DEF TypeOK
<1>3. StartsAccounted'
  BY DEF TypeOK, StartsAccounted, Live
<1>4. CallCarriesAttempt' /\ LetteredAtMaximum'
  BY DEF TypeOK, CallCarriesAttempt, LetteredAtMaximum, Current
<1>5. RetriesBelowMaximum'
  BY DEF RetriesBelowMaximum
<1>6. QED
  BY <1>2, <1>3, <1>4, <1>5

(* A throw counts it too, and exhausts the entry at the maximum.           *)
LEMMA ThrowsKeepsInv ==
    ASSUME BullInv, NEW e \in Entry, state[e] = "active", Throws(e),
           faults' \in 0..MaxFaults
    PROVE  BullInv'
<1> USE BullAssumption DEF BullInv, Throws, pythonVars
<1>1. made[e] \in Nat /\ made[e] + 1 \in 0..MaxAttempts
  BY DEF TypeOK, StartsAccounted, Live
<1>2. TypeOK'
  BY <1>1 DEF TypeOK
<1>3. StartsAccounted'
  BY <1>1 DEF TypeOK, StartsAccounted, Live
<1>4. CallCarriesAttempt'
  BY DEF TypeOK, CallCarriesAttempt, Current
<1>5. LetteredAtMaximum'
  BY <1>1 DEF TypeOK, LetteredAtMaximum, CallCarriesAttempt, Current
<1>6. RetriesBelowMaximum'
  BY DEF RetriesBelowMaximum
<1>7. QED
  BY <1>2, <1>3, <1>4, <1>5, <1>6

(* A stall is counted apart from the attempts.                             *)
LEMMA StallKeepsInv ==
    ASSUME BullInv, NEW e \in Entry, Stall(e)
    PROVE  BullInv'
<1> USE BullAssumption DEF BullInv, Stall, Fault, pythonVars
<1>1. /\ made[e] \in Nat /\ made[e] + 1 \in 0..MaxAttempts
      /\ stalls[e] \in Nat /\ stalls[e] + 1 \in 0..MaxStalls + 1
  BY DEF TypeOK, StartsAccounted, Live
<1>2. TypeOK'
  <2>1. CASE stalls[e] < MaxStalls
    BY <1>1, <2>1 DEF TypeOK
  <2>2. CASE stalls[e] >= MaxStalls
    <3>1. PICK n \in {made[e], made[e] + 1} :
             /\ made' = [made EXCEPT ![e] = n]
             /\ lettering' = IF n >= MaxAttempts THEN lettering \cup {e} ELSE lettering
             /\ given_up' = (given_up \/ n < MaxAttempts)
      BY <1>1, <2>2
    <3>2. n \in 0..MaxAttempts
      BY <1>1
    <3>3. given_up' \in BOOLEAN
      BY <3>1
    <3>4. QED
      BY <1>1, <2>2, <3>1, <3>2, <3>3 DEF TypeOK
  <2>3. QED
    BY <1>1, <2>1, <2>2
<1>3. StartsAccounted'
  BY <1>1 DEF TypeOK, StartsAccounted, Live
<1>4. CallCarriesAttempt'
  BY DEF TypeOK, CallCarriesAttempt, Current
<1>5. LetteredAtMaximum'
  BY <1>1 DEF TypeOK, LetteredAtMaximum, CallCarriesAttempt, Current
<1>6. RetriesBelowMaximum'
  BY DEF RetriesBelowMaximum
<1>7. QED
  BY <1>2, <1>3, <1>4, <1>5, <1>6

(* Writing, losing, replaying and removing dead letters adds none that was *)
(* not about to be written.                                                *)
LEMMA LettersKeepInv ==
    ASSUME BullInv, UNCHANGED <<entryVars, pythonVars, faults>>,
           lettering' \cup dlq' \subseteq lettering \cup dlq,
           replaying' \in SUBSET dlq', given_up' \in BOOLEAN
    PROVE  BullInv'
<1> USE BullAssumption DEF BullInv, entryVars, pythonVars
<1>1. TypeOK'
  BY DEF TypeOK
<1>2. StartsAccounted'
  BY DEF StartsAccounted, Live
<1>3. CallCarriesAttempt' /\ LetteredAtMaximum'
  BY DEF CallCarriesAttempt, LetteredAtMaximum, Current
<1>4. RetriesBelowMaximum'
  BY DEF RetriesBelowMaximum
<1>5. QED
  BY <1>1, <1>2, <1>3, <1>4

LEMMA LetterStepKeepsInv ==
    ASSUME BullInv, NEW e \in Entry,
           \/ DeadLetter(e) \/ LoseLetter(e) \/ Discard(e)
           \/ ReplayRemove(e) \/ ReplayInterrupted(e)
    PROVE  BullInv'
<1> USE DEF BullInv, TypeOK
<1>1. CASE DeadLetter(e)
  BY <1>1, LettersKeepInv DEF DeadLetter
<1>2. CASE LoseLetter(e)
  BY <1>2, LettersKeepInv DEF LoseLetter
<1>3. CASE Discard(e)
  BY <1>3, LettersKeepInv DEF Discard
<1>4. CASE ReplayRemove(e)
  BY <1>4, LettersKeepInv DEF ReplayRemove
<1>5. CASE ReplayInterrupted(e)
  BY <1>5, LettersKeepInv DEF ReplayInterrupted
<1>6. QED
  BY <1>1, <1>2, <1>3, <1>4, <1>5

LEMMA NextBullInv == BullInv /\ [Next]_bullVars => BullInv'
<1> SUFFICES ASSUME BullInv, [Next]_bullVars
             PROVE  BullInv'
  OBVIOUS
<1>1. CASE UNCHANGED bullVars
  BY <1>1 DEF bullVars, entryVars, pythonVars, letterVars, BullInv, TypeOK,
              StartsAccounted, CallCarriesAttempt, RetriesBelowMaximum,
              LetteredAtMaximum, Live, Current
<1>2. CASE Enqueue
  <2>1. 1 \in Entry
    BY BullAssumption DEF Entry
  <2>2. replaying' \in SUBSET dlq
    BY <1>2 DEF Enqueue, letterVars, BullInv, TypeOK
  <2>3. QED
    BY <1>2, <2>1, <2>2, AddKeepsInv DEF Enqueue, letterVars
<1>3. ASSUME NEW e \in Entry, Replay(e)
      PROVE  BullInv'
  <2>1. replaying' \in SUBSET dlq
    BY <1>3 DEF Replay, BullInv, TypeOK
  <2>2. QED
    BY <1>3, <2>1, AddKeepsInv DEF Replay
<1>4. ASSUME NEW e \in Entry, Disconnect(e) \/ Rejects(e)
      PROVE  BullInv'
  <2>1. faults' \in 0..MaxFaults
    BY <1>4, BullAssumption DEF Disconnect, Rejects, Fault, BullInv, TypeOK
  <2>2. QED
    BY <1>4, <2>1, ThrowsKeepsInv DEF Disconnect, Rejects
<1>5. CASE Next
  BY <1>2, <1>3, <1>4, <1>5, PythonStepKeepsInv, ApiCrashKeepsInv, TakeKeepsInv,
     CompletesKeepsInv, StallKeepsInv, LetterStepKeepsInv
     DEF Next, Processor, Operator
<1>6. QED
  BY <1>1, <1>5

(***************************************************************************)
(* The bookkeeping of the shim: attempts, stalls and starts of an entry,   *)
(* the attempt its call carries, and what a dead letter says of it.        *)
(***************************************************************************)
THEOREM BullInvariant == Spec => []BullInv
BY InitBullInv, NextBullInv, PTL DEF Spec

(* Every variable of the shim stays in its type; a dead letter names an    *)
(* entry that used up its attempts.                                        *)
THEOREM TypeCorrect == Spec => []TypeOK
<1>1. BullInv => TypeOK
  BY DEF BullInv
<1>2. QED
  BY <1>1, BullInvariant, PTL

(* BullMQ's count and the runner's maximum run out together: the last call *)
(* of an exhausted entry is none the runner goes on to make again.         *)
THEOREM ExhaustedNeverRetried == Spec => []ExhaustedMeansNoRetry
<1>1. BullInv => ExhaustedMeansNoRetry
  <2> SUFFICES ASSUME BullInv, NEW e \in lettering \cup dlq
               PROVE  call[Current(e)] \notin {"to_retry", "again"}
    BY DEF ExhaustedMeansNoRetry
  <2>1. /\ e \in Entry
        /\ starts[e] >= 1
        /\ attempt[Current(e)] = MaxAttempts
    BY DEF BullInv, TypeOK, LetteredAtMaximum
  <2>2. Current(e) \in Call
    BY <2>1, CurrentIsCall DEF BullInv
  <2>3. QED
    BY <2>1, <2>2, BullAssumption DEF BullInv, RetriesBelowMaximum
<1>2. QED
  BY <1>1, BullInvariant, PTL

-----------------------------------------------------------------------------
(***************************************************************************)
(* The refinement: adding an entry is a Send, starting the processor on it *)
(* a Deliver under the number of the start.                                *)
(***************************************************************************)
LEMMA WiderBudgetStep ==
    BullInv /\ [Next]_bullVars => [Budget!BudgetNext]_(Budget!budgetVars)
<1> SUFFICES ASSUME BullInv, [Next]_bullVars
             PROVE  [Budget!BudgetNext]_(Budget!budgetVars)
  OBVIOUS
<1> USE BullAssumption
<1> DEFINE sent == {e \in Entry : state[e] # "absent"}
           used == [e \in Entry |-> 1..starts[e]]
<1>1. ASSUME NEW e \in Entry, Add(e), UNCHANGED starts
      PROVE  Budget!Send(e)
  <2>1. e \notin sent /\ sent' = sent \cup {e}
    BY <1>1 DEF Add, Fresh, BullInv, TypeOK
  <2>2. QED
    BY <1>1, <2>1 DEF Budget!Send
<1>2. ASSUME NEW e \in Entry, Take(e)
      PROVE  Budget!Deliver(e)
  <2>1. e \in sent /\ sent' = sent
    BY <1>2 DEF Take, BullInv, TypeOK
  <2>2. starts[e] \in Nat /\ starts[e] + 1 \in 1..MaxAttempts + MaxStalls
    BY <1>2 DEF Take, BullInv, TypeOK, StartsAccounted, Live
  <2>3. used' = [used EXCEPT ![e] = @ \cup {starts[e] + 1}]
    <3>1. starts' = [starts EXCEPT ![e] = starts[e] + 1] /\ starts \in [Entry -> Nat]
      BY <1>2 DEF Take, BullInv, TypeOK
    <3>2. 1..starts[e] + 1 = (1..starts[e]) \cup {starts[e] + 1}
      BY <2>2
    <3>3. QED
      BY <3>1, <3>2
  <2>4. \A u \in used[e] : u < starts[e] + 1
    BY <2>2
  <2>5. QED
    BY <2>1, <2>2, <2>3, <2>4 DEF Budget!Deliver, Budget!Token
<1>3. ASSUME UNCHANGED starts,
             \A e \in Entry : state'[e] # "absent" <=> state[e] # "absent"
      PROVE  UNCHANGED Budget!budgetVars
  BY <1>3 DEF Budget!budgetVars
<1>4. ASSUME NEW c \in Call, Python(c)
      PROVE  [Budget!BudgetNext]_(Budget!budgetVars)
  <2>1. CASE ScheduleRetry(c)
    BY <1>1, <2>1 DEF ScheduleRetry, Requeued, Budget!BudgetNext
  <2>2. CASE ~ScheduleRetry(c)
    <3>1. UNCHANGED <<state, starts>>
      BY <1>4, <2>2 DEF Python, RunSucceeds, RunRaises, RunFailsForGood,
         RunFailsForNow, Commits, DispatchNext, ScheduleRetryFails, Requeued, entryVars
    <3>2. QED
      BY <1>3, <3>1
  <2>3. QED
    BY <2>1, <2>2
<1>5. ASSUME NEW e \in Entry, Completes(e) \/ Rejects(e) \/ Disconnect(e) \/ Stall(e)
      PROVE  UNCHANGED Budget!budgetVars
  BY <1>3, <1>5 DEF Completes, Rejects, Disconnect, Stall, Throws, BullInv, TypeOK
<1>6. ASSUME NEW e \in Entry,
             \/ DeadLetter(e) \/ LoseLetter(e) \/ Discard(e)
             \/ ReplayRemove(e) \/ ReplayInterrupted(e)
      PROVE  UNCHANGED Budget!budgetVars
  BY <1>3, <1>6 DEF DeadLetter, LoseLetter, Discard, ReplayRemove,
     ReplayInterrupted, entryVars
<1>7. CASE Enqueue
  <2>1. 1 \in Entry
    BY DEF Entry
  <2>2. QED
    BY <1>1, <1>7, <2>1 DEF Enqueue, Budget!BudgetNext
<1>8. ASSUME NEW e \in Entry, Replay(e)
      PROVE  Budget!BudgetNext
  BY <1>1, <1>8 DEF Replay, Budget!BudgetNext
<1>9. CASE ApiCrash \/ UNCHANGED bullVars
  BY <1>3, <1>9 DEF ApiCrash, bullVars, entryVars
<1>10. ASSUME NEW e \in Entry, Take(e)
       PROVE  Budget!BudgetNext
  BY <1>2, <1>10 DEF Budget!BudgetNext
<1>11. QED
  BY <1>4, <1>5, <1>6, <1>7, <1>8, <1>9, <1>10 DEF Next, Processor, Operator

(***************************************************************************)
(* An entry is handed to the processor at most once per attempt and per    *)
(* tolerated stall, whatever calls break, stall or outlive their entries.  *)
(***************************************************************************)
THEOREM BullImplementsWiderBudget == Spec => ImplementsWiderBudget
<1>1. Init => Budget!BudgetInit
  BY DEF Init, Budget!BudgetInit
<1>2. QED
  BY <1>1, WiderBudgetStep, BullInvariant, PTL
     DEF Spec, ImplementsWiderBudget, Budget!BudgetSpec

-----------------------------------------------------------------------------
(***************************************************************************)
(* The strengthening behind NothingLost: an open decision is carried by an *)
(* entry whose last call has not settled, or by a dead letter that nobody  *)
(* is about to remove.  A call that nobody waits for carries nothing.      *)
(***************************************************************************)
Carries(e) == state[e] = "waiting" \/ (state[e] = "active" /\ call[Current(e)] # "settled")

Excused == job # "open" \/ given_up \/ reopened \/ state[1] = "absent"

Carried ==
    \/ Excused
    \/ \E e \in Entry : Carries(e)
    \/ replaying = {} /\ lettering \cup dlq # {}

(* What is added carries the decision.                                     *)
LEMMA AddedCarries == ASSUME TypeOK, NEW e \in Entry, Add(e) PROVE Carried'
  BY DEF TypeOK, Add, Carried, Carries

(* A step of Python that does not settle a call leaves it with who has it. *)
LEMMA PythonCarries ==
    ASSUME BullInv, Carried, NEW c \in Call, NEW to \in CallState \ {"settled"},
           call' = [call EXCEPT ![c] = to], UNCHANGED <<entryVars, letterVars>>,
           Excused => Excused' \/ Awaited(c)
    PROVE  Carried'
<1>1. ASSUME NEW e \in Entry, Carries(e) PROVE Carries(e)'
  BY <1>1 DEF Carries, Current, entryVars, BullInv, TypeOK
<1>2. CASE Awaited(c)
  <2>1. c[1] \in Entry /\ Current(c[1]) = c
    BY <1>2 DEF Awaited, Current, Call
  <2>2. state'[c[1]] = "active" /\ call'[Current(c[1])'] = to
    BY <1>2, <2>1 DEF Awaited, Current, entryVars, BullInv, TypeOK
  <2> QED
    BY <2>1, <2>2 DEF Carried, Carries
<1>3. CASE ~Awaited(c)
  BY <1>1, <1>3 DEF Carried, letterVars
<1> QED
  BY <1>2, <1>3

LEMMA PythonStepCarries == ASSUME BullInv, Carried, NEW c \in Call, Python(c) PROVE Carried'
<1>1. CASE RunSucceeds(c)
  BY <1>1, PythonCarries DEF RunSucceeds, Commits, CallState, Excused, letterVars, entryVars
<1>2. CASE RunRaises(c)
  BY <1>2, PythonCarries DEF RunRaises, CallState, Excused, letterVars, entryVars
<1>3. CASE RunFailsForGood(c)
  BY <1>3 DEF RunFailsForGood, Carried, Excused
<1>4. CASE RunFailsForNow(c)
  <2>1. Excused => Excused' \/ Awaited(c)
    BY <1>4 DEF RunFailsForNow, Commits, MarkRetrying, Excused, letterVars, entryVars
  <2> QED
    BY <1>4, <2>1, PythonCarries DEF RunFailsForNow, Commits, CallState
<1>5. CASE DispatchNext(c)
  BY <1>5 DEF DispatchNext, Carried, Excused
<1>6. CASE ScheduleRetry(c)
  BY <1>6, AddedCarries DEF ScheduleRetry, BullInv
<1>7. CASE ScheduleRetryFails(c)
  BY <1>7 DEF ScheduleRetryFails, Carried, Excused
<1> QED
  BY <1>1, <1>2, <1>3, <1>4, <1>5, <1>6, <1>7 DEF Python

LEMMA CrashCarries == ASSUME BullInv, Carried, ApiCrash PROVE Carried'
<1>1. ASSUME NEW e \in Entry, Carries(e) PROVE Carries(e)'
  <2>1. CASE state[e] = "waiting"
    BY <2>1 DEF Carries, ApiCrash, entryVars
  <2>2. CASE state[e] = "active" /\ call[Current(e)] # "settled"
    <3>1. Current(e) \in Call /\ Current(e)' = Current(e)
      BY <2>2, CurrentIsCall DEF BullInv, CallCarriesAttempt, ApiCrash, entryVars, Current
    <3>2. call'[Current(e)] # "settled"
      BY <2>2, <3>1 DEF ApiCrash, InPython
    <3> QED
      BY <2>2, <3>1, <3>2 DEF Carries, ApiCrash, entryVars
  <2> QED
    BY <1>1, <2>1, <2>2 DEF Carries
<1> QED
  BY <1>1 DEF Carried, Excused, ApiCrash, entryVars, letterVars

LEMMA TakeCarries == ASSUME BullInv, Carried, NEW e \in Entry, Take(e) PROVE Carried'
<1>1. <<e, starts[e] + 1>> \in Call
  BY BullAssumption DEF Take, BullInv, TypeOK, Call, MaxStarts
<1>2. state'[e] = "active" /\ call'[Current(e)'] = "posted"
  BY <1>1 DEF Take, BullInv, TypeOK, Current
<1> QED
  BY <1>2 DEF Carried, Carries

(* An entry that stops to be delivered has settled, or leaves a letter.    *)
LEMMA OthersCarry ==
    ASSUME BullInv, NEW e \in Entry, NEW d \in Entry, d # e, Carries(d),
           NEW to, state' = [state EXCEPT ![e] = to], UNCHANGED <<starts, call>>
    PROVE  Carries(d)'
  BY DEF Carries, Current, BullInv, TypeOK

LEMMA CompletesCarries == ASSUME BullInv, Carried, NEW e \in Entry, Completes(e) PROVE Carried'
<1>1. ~Carries(e) /\ state' = [state EXCEPT ![e] = "completed"] /\ UNCHANGED <<starts, call>>
  BY DEF Completes, Carries, pythonVars
<1>2. \A d \in Entry : Carries(d) => Carries(d)'
  BY <1>1, OthersCarry
<1>3. Excused => Excused'
  BY DEF Completes, Excused, pythonVars, letterVars, BullInv, TypeOK
<1> QED
  BY <1>2, <1>3 DEF Carried, Completes, letterVars

LEMMA ThrowsCarries ==
    ASSUME BullInv, Carried, NEW e \in Entry, state[e] = "active", Throws(e) PROVE Carried'
<1>1. CASE made[e] + 1 < MaxAttempts
  <2>1. state'[e] = "waiting"
    BY <1>1, BullAssumption DEF Throws, BullInv, TypeOK
  <2> QED
    BY <2>1 DEF Carried, Carries
<1>2. CASE ~(made[e] + 1 < MaxAttempts)
  BY <1>2 DEF Throws, Carried
<1> QED
  BY <1>1, <1>2

LEMMA StallCarries == ASSUME BullInv, Carried, NEW e \in Entry, Stall(e) PROVE Carried'
<1>1. CASE stalls[e] < MaxStalls
  <2>1. state'[e] = "waiting"
    BY <1>1, BullAssumption DEF Stall, BullInv, TypeOK
  <2> QED
    BY <2>1 DEF Carried, Carries
<1>2. CASE ~(stalls[e] < MaxStalls)
  <2>1. PICK n \in {made[e], made[e] + 1} :
           /\ lettering' = IF n >= MaxAttempts THEN lettering \cup {e} ELSE lettering
           /\ given_up' = (given_up \/ n < MaxAttempts)
    BY <1>2 DEF Stall
  <2>2. replaying' = {} /\ dlq' = dlq /\ n \in Nat /\ MaxAttempts \in Nat
    BY <1>2, BullAssumption DEF Stall, BullInv, TypeOK
  <2>3. CASE n >= MaxAttempts
    BY <2>1, <2>2, <2>3 DEF Carried
  <2>4. CASE n < MaxAttempts
    BY <2>1, <2>4 DEF Carried, Excused
  <2> QED
    BY <2>2, <2>3, <2>4
<1> QED
  BY <1>1, <1>2

LEMMA LetterStepCarries ==
    ASSUME BullInv, Carried, NEW e \in Entry,
           \/ DeadLetter(e) \/ LoseLetter(e) \/ Discard(e)
           \/ ReplayRemove(e) \/ ReplayInterrupted(e)
    PROVE  Carried'
<1>1. UNCHANGED <<entryVars, pythonVars>>
  BY DEF DeadLetter, LoseLetter, Discard, ReplayRemove, ReplayInterrupted
<1>2. \A d \in Entry : Carries(d) => Carries(d)'
  BY <1>1 DEF Carries, Current, entryVars, pythonVars
<1>3. CASE LoseLetter(e) \/ Discard(e)
  BY <1>3 DEF LoseLetter, Discard, Carried, Excused
<1>4. CASE DeadLetter(e) \/ ReplayRemove(e) \/ ReplayInterrupted(e)
  <2>1. Excused => Excused'
    BY <1>1, <1>4 DEF Excused, DeadLetter, ReplayRemove, ReplayInterrupted, entryVars, pythonVars
  <2>2. CASE DeadLetter(e)
    BY <1>2, <2>1, <2>2 DEF Carried, DeadLetter
  <2>3. CASE ReplayRemove(e) \/ ReplayInterrupted(e)
    <3>1. replaying # {}
      BY <2>3 DEF ReplayRemove, ReplayInterrupted
    <3> QED
      BY <1>2, <2>1, <3>1 DEF Carried
  <2> QED
    BY <1>4, <2>2, <2>3
<1> QED
  BY <1>3, <1>4

LEMMA NextCarried == BullInv /\ Carried /\ [Next]_bullVars => Carried'
<1> SUFFICES ASSUME BullInv, Carried, [Next]_bullVars PROVE Carried'
  OBVIOUS
<1>1. CASE UNCHANGED bullVars
  BY <1>1 DEF bullVars, entryVars, pythonVars, letterVars, Carried, Excused, Carries, Current
<1>2. CASE Enqueue \/ (\E d \in Entry : Replay(d))
  <2>1. 1 \in Entry
    BY BullAssumption DEF Entry
  <2> QED
    BY <1>2, <2>1, AddedCarries DEF Enqueue, Replay, BullInv
<1>3. ASSUME NEW e \in Entry, Rejects(e) \/ Disconnect(e) PROVE Carried'
  BY <1>3, ThrowsCarries DEF Rejects, Disconnect
<1> QED
  BY <1>1, <1>2, <1>3, PythonStepCarries, CrashCarries, TakeCarries, CompletesCarries, StallCarries,
     LetterStepCarries DEF Next, Processor, Operator

(***************************************************************************)
(* A dispatch decision is never lost without a trace, whatever connections *)
(* break, entries stall and processes die (runner.py, _schedule_retry;     *)
(* queue/src/worker.ts, deadLetter).                                       *)
(***************************************************************************)
THEOREM NothingIsLost == Spec => []NothingLost
<1>1. Init => Carried
  BY BullAssumption DEF Init, Carried, Excused, Entry
<1>2. BullInv /\ Carried => NothingLost
  BY DEF Carried, Carries, Excused, NothingLost, Live
<1> QED
  BY <1>1, <1>2, NextCarried, BullInvariant, PTL DEF Spec

=============================================================================
