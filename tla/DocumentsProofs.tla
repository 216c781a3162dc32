--------------------------- MODULE DocumentsProofs ----------------------------
(***************************************************************************)
(* Proofs about the parts that turn a document into knowledge: a call of a *)
(* model with its retries, what an extraction leaves behind, the vector    *)
(* index, the plan of the calls, the search for clauses, and an extraction;*)
(* and about the uploads that bring the documents and their deletion.      *)
(***************************************************************************)
EXTENDS RetryCall, ContractKnowledge, EmbeddingIndex, BatchPlanner, ClauseDetection,
        ExtractionEngine, Uploads, DataLemmas, SequenceTheorems

(***************************************************************************)
(* Theorems about one model call with its retries, for any number of       *)
(* attempts and any times and limits.                                      *)
(***************************************************************************)

(* What one attempt and the wait before the next may cost at most.         *)
Round == AttemptTimeout + Cap

(* The longest a caller that gave a deadline can be kept.                  *)
Longest == IF Deadline < AttemptTimeout THEN AttemptTimeout ELSE Deadline

RetryTypeOK ==
    /\ phase \in {"calling", "failed", "waiting", "returned", "raised"}
    /\ attempt \in Nat \ {0} /\ clock \in Nat /\ wake \in Nat
    /\ bounded \in BOOLEAN

(* An attempt is begun with its whole time left: the first of a call that  *)
(* has a deadline may be longer than the deadline.                         *)
TimeLeft ==
    bounded =>
        /\ phase = "calling" => clock = 0 \/ clock + AttemptTimeout <= Deadline
        /\ phase = "waiting" => wake + AttemptTimeout <= Deadline
        /\ clock <= Longest

(* Every attempt is behind one wait, except the first.                     *)
RoundsUsed ==
    /\ phase = "calling" => clock <= (attempt - 1) * Round
    /\ phase = "waiting" => wake <= attempt * Round
    /\ clock <= (attempt - 1) * Round + AttemptTimeout

AttemptsLeft ==
    /\ attempt <= MaxAttempts
    /\ phase = "waiting" => attempt < MaxAttempts

RetryInv == RetryTypeOK /\ TimeLeft /\ RoundsUsed /\ AttemptsLeft

-----------------------------------------------------------------------------
(* One more round; and no more rounds than attempts.                       *)
LEMMA OneMoreRound == ASSUME NEW n \in Nat, NEW s \in Nat PROVE (n + 1 - 1) * s = (n - 1) * s + s
  BY Z3

LEMMA RoundsAllowed ==
    ASSUME NEW n \in Nat, NEW k \in Nat, NEW s \in Nat, n <= k
    PROVE  n * s <= k * s
<1>1. k * s = n * s + (k - n) * s
  BY Z3
<1>2. k - n \in Nat
  OBVIOUS
<1>3. (k - n) * s \in Nat
  BY <1>2, Z3
<1> QED
  BY <1>1, <1>3

LEMMA WaitIsCapped == Delay \subseteq 0 .. Cap
  BY DEF Delay

LEMMA RoundIsTime == Round \in Nat /\ AttemptTimeout \in Nat /\ Cap \in Nat /\ Deadline \in Nat
  BY RetryAssumption DEF Round

(* An attempt that ends, however it does, takes its timeout at most.       *)
LEMMA AttemptEnds ==
    ASSUME RetryInv, NEW duration \in 0 .. AttemptTimeout, phase = "calling",
           clock' = clock + duration, phase' \in {"returned", "failed"},
           UNCHANGED <<attempt, wake, bounded>>
    PROVE  RetryInv'
<1> USE RoundIsTime DEF RetryInv
<1>1. clock \in Nat /\ clock' \in Nat /\ clock' <= clock + AttemptTimeout
  BY DEF RetryTypeOK
<1>2. RetryTypeOK'
  BY <1>1 DEF RetryTypeOK
<1>3. TimeLeft'
  BY <1>1 DEF RetryTypeOK, TimeLeft, Longest
<1>4. RoundsUsed'
  <2>1. clock <= (attempt - 1) * Round
    BY DEF RoundsUsed
  <2>2. (attempt - 1) * Round \in Int
    BY DEF RetryTypeOK
  <2> QED
    BY <1>1, <2>1, <2>2 DEF RoundsUsed
<1>5. AttemptsLeft'
  BY DEF AttemptsLeft
<1> QED
  BY <1>2, <1>3, <1>4, <1>5

LEMMA RetryStep == RetryInv /\ [RetryNext]_retryVars => RetryInv'
<1> SUFFICES ASSUME RetryInv, [RetryNext]_retryVars PROVE RetryInv'
  OBVIOUS
<1> USE RoundIsTime DEF RetryInv
<1>1. CASE UNCHANGED retryVars
  BY <1>1 DEF retryVars, RetryTypeOK, TimeLeft, RoundsUsed, AttemptsLeft, Longest
<1>2. ASSUME NEW duration \in 0 .. AttemptTimeout, Succeed(duration) PROVE RetryInv'
  BY <1>2, AttemptEnds DEF Succeed
<1>3. ASSUME NEW duration \in 0 .. AttemptTimeout, NEW reason, Fail(duration, reason) PROVE RetryInv'
  BY <1>3, AttemptEnds DEF Fail
<1>4. CASE TimeOut
  <2>1. AttemptTimeout \in 0 .. AttemptTimeout
    OBVIOUS
  <2> QED
    BY <1>4, <2>1, AttemptEnds DEF TimeOut
<1>5. CASE Raise
  BY <1>5 DEF Raise, RetryTypeOK, TimeLeft, RoundsUsed, AttemptsLeft, Longest
<1>6. ASSUME NEW delay \in Delay, RetryLater(delay) PROVE RetryInv'
  <2>1. delay \in 0 .. Cap
    BY WaitIsCapped
  <2>2. wake' = clock + delay /\ phase' = "waiting" /\ UNCHANGED <<attempt, clock, bounded>>
    BY <1>6 DEF RetryLater
  <2>3. RetryTypeOK'
    BY <2>1, <2>2 DEF RetryTypeOK
  <2>4. TimeLeft'
    BY <1>6, <2>2 DEF RetryLater, Fits, TimeLeft, Longest
  <2>5. RoundsUsed'
    <3>1. attempt * Round = (attempt - 1) * Round + Round
      BY Z3 DEF RetryTypeOK
    <3>2. clock <= (attempt - 1) * Round + AttemptTimeout
      BY DEF RoundsUsed
    <3>3. clock \in Nat /\ (attempt - 1) * Round \in Int
      BY DEF RetryTypeOK
    <3>4. wake' <= attempt * Round
      BY <2>1, <2>2, <3>1, <3>2, <3>3 DEF Round
    <3> QED
      BY <2>2, <3>2, <3>4 DEF RoundsUsed
  <2>6. AttemptsLeft'
    BY <1>6, <2>2, RetryAssumption DEF RetryLater, Hopeless, AttemptsLeft, RetryTypeOK
  <2> QED
    BY <2>3, <2>4, <2>5, <2>6
<1>7. CASE TryAgain
  <2>1. phase = "waiting" /\ clock' = wake /\ attempt' = attempt + 1 /\ phase' = "calling"
        /\ UNCHANGED <<wake, bounded>>
    BY <1>7 DEF TryAgain
  <2>2. RetryTypeOK'
    BY <2>1 DEF RetryTypeOK
  <2>3. TimeLeft'
    BY <2>1 DEF TimeLeft, Longest, RetryTypeOK
  <2>4. RoundsUsed'
    <3>1. attempt' - 1 = attempt
      BY <2>1 DEF RetryTypeOK
    <3>2. clock' <= attempt * Round
      BY <2>1 DEF RoundsUsed
    <3>3. clock' \in Nat /\ attempt * Round \in Int
      BY <2>1 DEF RetryTypeOK
    <3> QED
      BY <2>1, <3>1, <3>2, <3>3 DEF RoundsUsed
  <2>5. AttemptsLeft'
    BY <2>1, RetryAssumption DEF AttemptsLeft, RetryTypeOK
  <2> QED
    BY <2>2, <2>3, <2>4, <2>5
<1> QED
  BY <1>1, <1>2, <1>3, <1>4, <1>5, <1>6, <1>7 DEF RetryNext

\* The inductive invariant of a call: what time each attempt is begun with, and
\* how many rounds of attempt and wait are behind it (call_with_retries).
THEOREM RetryInvariant == RetrySpec => []RetryInv
<1>1. RetryInit => RetryInv
  <2> SUFFICES ASSUME RetryInit PROVE RetryInv
    OBVIOUS
  <2>1. (attempt - 1) * Round = 0
    <3>1. attempt - 1 = 0
      BY DEF RetryInit
    <3> QED
      BY <3>1, RoundIsTime
  <2> QED
    BY <2>1, RetryAssumption, RoundIsTime
    DEF RetryInit, RetryInv, RetryTypeOK, TimeLeft, RoundsUsed, AttemptsLeft, Longest
<1> QED
  BY <1>1, RetryStep, PTL DEF RetrySpec

\* A call is over by its deadline, or by the end of its allowed attempts when it
\* has none, whatever its attempts and waits take (call_with_retries).
THEOREM CallsEnd == RetrySpec => []CallWithinDeadline
<1>1. ASSUME RetryInv PROVE CallWithinDeadline
  <2>1. attempt \in Nat /\ attempt - 1 \in Nat /\ MaxAttempts \in Nat /\ attempt <= MaxAttempts
    BY <1>1, RetryAssumption DEF RetryInv, RetryTypeOK, AttemptsLeft
  <2>2. attempt * Round <= MaxAttempts * Round
    BY <2>1, RoundsAllowed, RoundIsTime
  <2>3. attempt * Round = (attempt - 1) * Round + Round
    BY <2>1, RoundIsTime, Z3
  <2>4. clock \in Nat /\ clock <= (attempt - 1) * Round + AttemptTimeout
    BY <1>1 DEF RetryInv, RetryTypeOK, RoundsUsed
  <2>5. (attempt - 1) * Round \in Int /\ MaxAttempts * Round \in Int /\ attempt * Round \in Int
    BY <2>1, RoundIsTime
  <2>6. AttemptTimeout <= Round
    BY RoundIsTime DEF Round
  <2>7. clock <= MaxAttempts * Round
    BY <2>2, <2>3, <2>4, <2>5, <2>6, RoundIsTime
  <2> QED
    BY <1>1, <2>1, <2>7 DEF CallWithinDeadline, RetryInv, TimeLeft, Longest, Round
<1> QED
  BY <1>1, RetryInvariant, PTL

-----------------------------------------------------------------------------

(***************************************************************************)
(* What a run of the extraction stage leaves behind, for any number of     *)
(* runs beside each other, of tables, and of runs that fail or die.        *)
(***************************************************************************)

Txn == [at : {"queued", "clearing", "waiting", "cleared", "asking", "over"},
        todo : Seq(Table), seen : SUBSET Row, gone : SUBSET Row]

StoreTypeOK ==
    /\ knowledge \in SUBSET Row
    /\ projection \in [Facts -> Extraction \union {Before}]
    /\ txn \in [Extraction -> Txn]
    /\ latest \in [run : Extraction \union {Before}, failed : BOOLEAN, rows : SUBSET Row]
    /\ rivals \in BOOLEAN /\ losses \in Nat

(* A run has rows in the database only when it is over.                    *)
RowsOfEndedRuns == \A row \in knowledge : row.run # Before => txn[row.run].at = "over"

(* How far a run is and which tables it still has to clear.                *)
Progress ==
    \A r \in Extraction :
        /\ txn[r].at = "queued" => txn[r] = Unbegun
        /\ txn[r].at \in {"clearing", "waiting"} => txn[r].todo # <<>>
        /\ txn[r].at \in {"cleared", "asking"} => txn[r].todo = <<>>

(* The unique key of the chunks lets one run at a time past, and that one  *)
(* has deleted all the chunks there are.                                   *)
OneWriter ==
    /\ \A r \in Extraction : txn[r].at = "asking" =>
          /\ \A q \in Extraction \ {r} : txn[q].at # "asking"
          /\ Chunks(knowledge) \subseteq txn[r].gone
    /\ \A a, b \in Chunks(knowledge) : a = b

(* A run that has been alone has deleted all it has got to.                *)
AloneClearsAll ==
    ~rivals =>
        \A r \in Extraction : UnderWay(r) =>
            /\ \A q \in Extraction \ {r} : ~UnderWay(q)
            /\ txn[r].at # "waiting"
            /\ \A row \in knowledge :
                  row \in txn[r].gone \/ \E i \in 1 .. Len(txn[r].todo) : txn[r].todo[i] = row.table

LastIsWhole ==
    latest.run # Before =>
        /\ {row \in knowledge : row.run = latest.run} = latest.rows
        /\ ~latest.failed => Chunks(latest.rows) # {}
        /\ ~rivals => Leftover = {}

KnowledgeInv ==
    /\ StoreTypeOK /\ RowsOfEndedRuns /\ Progress /\ OneWriter /\ AloneClearsAll /\ LastIsWhole

-----------------------------------------------------------------------------
(* The tables, and a run that has not begun.                               *)
LEMMA TableFacts ==
    /\ Tables \in Seq(Table) /\ Tables # <<>>
    /\ \A t \in Table : \E i \in 1 .. Len(Tables) : Tables[i] = t
    /\ "chunks" \in Table
<1>1. Tables \in Seq(STRING) /\ Tables # <<>> /\ Tables[Len(Tables)] = "chunks"
  BY KnowledgeAssumption
<1>2. Len(Tables) \in 1 .. Len(Tables) /\ DOMAIN Tables = 1 .. Len(Tables)
  BY <1>1
<1>3. \A i \in 1 .. Len(Tables) : Tables[i] \in Table
  BY <1>2 DEF Table
<1> QED
  BY <1>1, <1>2, <1>3 DEF Table

LEMMA UnbegunIsTxn == Unbegun \in Txn
  BY TableFacts DEF Unbegun, Txn

(* What a run writes of the chunks is one row.                             *)
LEMMA WrittenFacts ==
    ASSUME NEW r \in Extraction
    PROVE  /\ Written(r) \subseteq Row
           /\ \A row \in Written(r) : row.run = r
           /\ Chunks(Written(r)) # {}
           /\ \A a, b \in Chunks(Written(r)) : a = b
<1>1. \A row \in Written(r) : row \in Row /\ row.run = r
  BY DEF Written, Row
<1>2. [table |-> "chunks", run |-> r] \in Chunks(Written(r))
  BY TableFacts DEF Written, Chunks
<1>3. \A a \in Chunks(Written(r)) : a = [table |-> "chunks", run |-> r]
  BY DEF Written, Chunks
<1> QED
  BY <1>1, <1>2, <1>3

(* A step that changes only the transaction of one run: what it has to keep. *)
LEMMA OwnStep ==
    ASSUME KnowledgeInv, NEW r \in Extraction, NEW t \in Txn, txn' = [txn EXCEPT ![r] = t],
           UNCHANGED <<knowledge, projection, latest>>, rivals' \in BOOLEAN, losses' \in Nat,
           rivals => rivals',
           txn[r].at # "over" \/ t.at = "over",
           t.at = "queued" => t = Unbegun,
           t.at \in {"clearing", "waiting"} => t.todo # <<>>,
           t.at \in {"cleared", "asking"} => t.todo = <<>>,
           t.at = "asking" => /\ \A q \in Extraction \ {r} : txn[q].at # "asking"
                              /\ Chunks(knowledge) \subseteq t.gone,
           ~rivals' /\ t.at \notin {"queued", "over"} =>
               /\ \A q \in Extraction \ {r} : ~UnderWay(q)
               /\ t.at # "waiting"
               /\ \A row \in knowledge :
                     row \in t.gone \/ \E i \in 1 .. Len(t.todo) : t.todo[i] = row.table
    PROVE  KnowledgeInv'
<1> USE DEF KnowledgeInv
<1>1. txn'[r] = t /\ \A q \in Extraction \ {r} : txn'[q] = txn[q]
  BY DEF StoreTypeOK
<1>2. StoreTypeOK'
  BY DEF StoreTypeOK
<1>3. RowsOfEndedRuns'
  BY <1>1 DEF RowsOfEndedRuns, StoreTypeOK, Row
<1>4. Progress'
  BY <1>1 DEF Progress
<1>5. OneWriter'
  BY <1>1 DEF OneWriter, Chunks
<1>6. AloneClearsAll'
  BY <1>1 DEF AloneClearsAll, UnderWay, Txn
<1>7. LastIsWhole'
  BY DEF LastIsWhole, Leftover
<1> QED
  BY <1>2, <1>3, <1>4, <1>5, <1>6, <1>7

LEMMA TailFacts ==
    ASSUME NEW S, NEW s \in Seq(S), s # <<>>
    PROVE  Tail(s) \in Seq(S) /\ (Len(s) = 1 <=> Tail(s) = <<>>)
<1>1. Tail(s) \in Seq(S) /\ Len(Tail(s)) = Len(s) - 1 /\ Len(s) \in Nat
  OBVIOUS
<1>2. Len(Tail(s)) = 0 <=> Tail(s) = <<>>
  BY <1>1, EmptySeq
<1> QED
  BY <1>1, <1>2

(* Clearing the next table leaves one table less to clear.                 *)
LEMMA ClearedFacts ==
    ASSUME KnowledgeInv, NEW r \in Extraction, txn[r].at \in {"clearing", "waiting"},
           NEW rows \in SUBSET Row
    PROVE  /\ Cleared(r, rows) \in Txn
           /\ Cleared(r, rows).at \in {"clearing", "cleared"}
           /\ Cleared(r, rows).at = "clearing" => Cleared(r, rows).todo # <<>>
           /\ Cleared(r, rows).at = "cleared" => Cleared(r, rows).todo = <<>>
           /\ Cleared(r, rows).todo = Tail(txn[r].todo)
           /\ Cleared(r, rows).gone = txn[r].gone \union (rows \cap knowledge)
<1>1. txn[r] \in Txn /\ txn[r].todo \in Seq(Table) /\ txn[r].todo # <<>> /\ txn[r].gone \in SUBSET Row
  BY DEF KnowledgeInv, StoreTypeOK, Progress, Txn
<1>2. Tail(txn[r].todo) \in Seq(Table) /\ (Len(txn[r].todo) = 1 <=> Tail(txn[r].todo) = <<>>)
  BY <1>1, TailFacts
<1> QED
  BY <1>1, <1>2 DEF Cleared, Txn

LEMMA TailHolds ==
    ASSUME NEW s \in Seq(Table), s # <<>>, NEW i \in 1 .. Len(s), s[i] # Head(s)
    PROVE  \E j \in 1 .. Len(Tail(s)) : Tail(s)[j] = s[i]
<1>1. i # 1 /\ i - 1 \in 1 .. Len(Tail(s)) /\ Tail(s)[i - 1] = s[i]
  OBVIOUS
<1> QED
  BY <1>1

LEMMA BeginRunStep == ASSUME KnowledgeInv, NEW r \in Extraction, BeginRun(r) PROVE KnowledgeInv'
<1> DEFINE t == [Unbegun EXCEPT !.at = "clearing"]
<1>1. txn[r] = Unbegun /\ txn' = [txn EXCEPT ![r] = t]
  BY DEF BeginRun, KnowledgeInv, Progress
<1>2. t \in Txn /\ t.at = "clearing" /\ t.todo = Tables
  BY UnbegunIsTxn DEF Unbegun, Txn
<1>3. ~rivals' => \A q \in Extraction \ {r} : ~UnderWay(q)
  BY DEF BeginRun, Others
<1>4. \A row \in knowledge : \E i \in 1 .. Len(t.todo) : t.todo[i] = row.table
  BY <1>2, TableFacts DEF KnowledgeInv, StoreTypeOK, Row
<1>5. rivals' \in BOOLEAN /\ losses' \in Nat /\ (rivals => rivals')
      /\ UNCHANGED <<knowledge, projection, latest>> /\ txn[r].at # "over"
  BY DEF BeginRun, KnowledgeInv, StoreTypeOK
<1> HIDE DEF t
<1> QED
  BY <1>1, <1>2, <1>3, <1>4, <1>5, TableFacts, OwnStep

(* A run that is alone, and clears what it sees of its next table.         *)
LEMMA ClearStep ==
    ASSUME KnowledgeInv, NEW r \in Extraction, txn[r].at \in {"clearing", "waiting"},
           NEW rows \in SUBSET Row, txn' = [txn EXCEPT ![r] = Cleared(r, rows)],
           txn[r].at = "clearing" => \A row \in knowledge : row.table = Head(txn[r].todo) => row \in rows,
           UNCHANGED <<knowledge, projection, latest, rivals, losses>>
    PROVE  KnowledgeInv'
<1>1. /\ Cleared(r, rows) \in Txn /\ Cleared(r, rows).at \in {"clearing", "cleared"}
      /\ Cleared(r, rows).at = "clearing" => Cleared(r, rows).todo # <<>>
      /\ Cleared(r, rows).at = "cleared" => Cleared(r, rows).todo = <<>>
      /\ Cleared(r, rows).todo = Tail(txn[r].todo)
      /\ Cleared(r, rows).gone = txn[r].gone \union (rows \cap knowledge)
  BY ClearedFacts
<1>2. ASSUME ~rivals
      PROVE  /\ \A q \in Extraction \ {r} : ~UnderWay(q)
             /\ \A row \in knowledge :
                   \/ row \in Cleared(r, rows).gone
                   \/ \E i \in 1 .. Len(Cleared(r, rows).todo) : Cleared(r, rows).todo[i] = row.table
  <2>1. /\ \A q \in Extraction \ {r} : ~UnderWay(q)
        /\ txn[r].at = "clearing"
        /\ \A row \in knowledge :
              row \in txn[r].gone \/ \E i \in 1 .. Len(txn[r].todo) : txn[r].todo[i] = row.table
    BY <1>2 DEF KnowledgeInv, AloneClearsAll, UnderWay
  <2>2. txn[r].todo \in Seq(Table) /\ txn[r].todo # <<>>
    BY DEF KnowledgeInv, StoreTypeOK, Progress, Txn
  <2>3. ASSUME NEW row \in knowledge, row \notin Cleared(r, rows).gone
        PROVE  \E i \in 1 .. Len(Cleared(r, rows).todo) : Cleared(r, rows).todo[i] = row.table
    <3>1. row.table # Head(txn[r].todo)
      BY <1>1, <2>1, <2>3
    <3>2. PICK i \in 1 .. Len(txn[r].todo) : txn[r].todo[i] = row.table
      BY <1>1, <2>1, <2>3
    <3> QED
      BY <1>1, <2>2, <3>1, <3>2, TailHolds
  <2> QED
    BY <2>1, <2>3
<1>3. rivals' \in BOOLEAN /\ losses' \in Nat /\ UNCHANGED <<knowledge, projection, latest, rivals>>
  BY DEF KnowledgeInv, StoreTypeOK
<1>4. Cleared(r, rows).at = "clearing" \/ Cleared(r, rows).at = "cleared"
  BY <1>1
<1>5. txn[r].at # "over" /\ Cleared(r, rows).at \notin {"over", "queued", "asking", "waiting"}
  BY <1>4
<1>6. ~rivals' /\ Cleared(r, rows).at \notin {"queued", "over"} =>
         /\ \A q \in Extraction \ {r} : ~UnderWay(q)
         /\ Cleared(r, rows).at # "waiting"
         /\ \A row \in knowledge :
               \/ row \in Cleared(r, rows).gone
               \/ \E i \in 1 .. Len(Cleared(r, rows).todo) : Cleared(r, rows).todo[i] = row.table
  BY <1>2, <1>3, <1>5
<1>7. Cleared(r, rows) \in Txn
      /\ (Cleared(r, rows).at \in {"clearing", "waiting"} => Cleared(r, rows).todo # <<>>)
      /\ (Cleared(r, rows).at \in {"cleared", "asking"} => Cleared(r, rows).todo = <<>>)
  BY <1>1, <1>4
<1>8. (rivals => rivals') /\ (Cleared(r, rows).at = "queued" => Cleared(r, rows) = Unbegun)
      /\ (Cleared(r, rows).at = "asking" => /\ \A q \in Extraction \ {r} : txn[q].at # "asking"
                                            /\ Chunks(knowledge) \subseteq Cleared(r, rows).gone)
      /\ UNCHANGED <<knowledge, projection, latest>>
  BY <1>3, <1>5
<1> QED
  BY <1>3, <1>5, <1>6, <1>7, <1>8, OwnStep

LEMMA ClearTableStep == ASSUME KnowledgeInv, NEW r \in Extraction, ClearTable(r) PROVE KnowledgeInv'
<1> DEFINE rows == {row \in knowledge : row.table = Head(txn[r].todo)}
<1>1. rows \in SUBSET Row /\ txn[r].at = "clearing" /\ txn[r] \in Txn
      /\ UNCHANGED <<knowledge, projection, latest, rivals, losses>>
  BY DEF ClearTable, KnowledgeInv, StoreTypeOK
<1>2. CASE rows \cap BeingDeleted(r) = {}
  <2>1. txn' = [txn EXCEPT ![r] = Cleared(r, rows)]
    BY <1>2 DEF ClearTable
  <2> QED
    BY <1>1, <2>1, ClearStep
<1>3. CASE rows \cap BeingDeleted(r) # {}
  <2> DEFINE t == [txn[r] EXCEPT !.at = "waiting", !.seen = rows]
  <2>1. txn' = [txn EXCEPT ![r] = t]
    BY <1>3 DEF ClearTable
  <2>2. t \in Txn /\ t.at = "waiting" /\ t.todo = txn[r].todo
    BY <1>1 DEF Txn
  <2>3. t.todo # <<>>
    BY <1>1, <2>2 DEF KnowledgeInv, Progress
  <2>4. rivals
    <3>1. PICK q \in Extraction \ {r} : UnderWay(q)
      BY <1>3 DEF BeingDeleted, Others
    <3> QED
      BY <1>1, <3>1 DEF KnowledgeInv, AloneClearsAll, UnderWay
  <2>5. rivals' \in BOOLEAN /\ losses' \in Nat /\ rivals'
    BY <1>1, <2>4 DEF KnowledgeInv, StoreTypeOK
  <2> HIDE DEF t
  <2> QED
    BY <1>1, <2>1, <2>2, <2>3, <2>4, <2>5, OwnStep
<1> QED
  BY <1>2, <1>3

LEMMA ClearAfterWaitStep ==
    ASSUME KnowledgeInv, NEW r \in Extraction, ClearAfterWait(r) PROVE KnowledgeInv'
<1>1. txn[r].seen \in SUBSET Row
  BY DEF KnowledgeInv, StoreTypeOK, Txn
<1> QED
  BY <1>1, ClearStep DEF ClearAfterWait

LEMMA LostStep ==
    ASSUME KnowledgeInv, NEW r \in Extraction, Lost(r), UnderWay(r) PROVE KnowledgeInv'
<1>1. PICK goesTo \in {"queued", "over"} : txn' = [txn EXCEPT ![r] = [Unbegun EXCEPT !.at = goesTo]]
  BY DEF Lost
<1> DEFINE t == [Unbegun EXCEPT !.at = goesTo]
<1>2. t \in Txn /\ t.at = goesTo /\ (goesTo = "queued" => t = Unbegun)
  BY <1>1, UnbegunIsTxn DEF Unbegun, Txn
<1>3. UNCHANGED <<knowledge, projection, latest, rivals>> /\ rivals' \in BOOLEAN /\ losses' \in Nat
  BY DEF Lost, KnowledgeInv, StoreTypeOK
<1>4. txn[r].at # "over"
  BY DEF UnderWay
<1> HIDE DEF t
<1>5. txn' = [txn EXCEPT ![r] = t]
  BY <1>1 DEF t
<1> QED
  BY <1>1, <1>2, <1>3, <1>4, <1>5, OwnStep

LEMMA WriteChunksStep ==
    ASSUME KnowledgeInv, NEW r \in Extraction, WriteChunks(r) PROVE KnowledgeInv'
<1>1. CASE Lost(r)
  BY <1>1, LostStep DEF WriteChunks, UnderWay
<1>2. CASE ~Lost(r)
  <2> DEFINE t == [txn[r] EXCEPT !.at = "asking"]
  <2>1. /\ txn[r].at = "cleared" /\ txn' = [txn EXCEPT ![r] = t]
        /\ Chunks(knowledge) \subseteq txn[r].gone
        /\ \A q \in Extraction \ {r} : txn[q].at # "asking"
        /\ UNCHANGED <<knowledge, projection, latest, rivals, losses>>
    BY <1>2 DEF WriteChunks, Others, UnderWay
  <2>2. txn[r] \in Txn /\ txn[r].todo = <<>> /\ rivals' \in BOOLEAN /\ losses' \in Nat
    BY <2>1 DEF KnowledgeInv, StoreTypeOK, Progress
  <2>3. t \in Txn /\ t.at = "asking" /\ t.todo = txn[r].todo /\ t.gone = txn[r].gone
    BY <2>2 DEF Txn
  <2>4. ~rivals => /\ \A q \in Extraction \ {r} : ~UnderWay(q)
                   /\ \A row \in knowledge :
                         row \in txn[r].gone
                         \/ \E i \in 1 .. Len(txn[r].todo) : txn[r].todo[i] = row.table
    BY <2>1 DEF KnowledgeInv, AloneClearsAll, UnderWay
  <2> HIDE DEF t
  <2> QED
    BY <2>1, <2>2, <2>3, <2>4, OwnStep
<1> QED
  BY <1>1, <1>2

(* A run commits what it wrote in place of what it deleted.                *)
LEMMA RunEnds ==
    ASSUME KnowledgeInv, NEW r \in Extraction, txn[r].at \in {"cleared", "asking"},
           NEW failed \in BOOLEAN, NEW rows \in SUBSET Written(r), Ends(r, failed, rows),
           Chunks(rows) # {} => txn[r].at = "asking",
           ~failed => Chunks(rows) # {},
           projection' \in [Facts -> Extraction \union {Before}], losses' \in Nat
    PROVE  KnowledgeInv'
<1> USE DEF KnowledgeInv
<1> DEFINE t == [Unbegun EXCEPT !.at = "over"]
<1>1. t \in Txn /\ t.at = "over"
  BY UnbegunIsTxn DEF Unbegun, Txn
<1>2. txn' = [txn EXCEPT ![r] = t] /\ UNCHANGED rivals
      /\ knowledge' = (knowledge \ txn[r].gone) \union rows
      /\ latest' = [run |-> r, failed |-> failed, rows |-> rows]
  BY DEF Ends
<1> HIDE DEF t
<1>3. txn'[r] = t /\ \A q \in Extraction \ {r} : txn'[q] = txn[q]
  BY <1>2 DEF StoreTypeOK
<1>4. rows \subseteq Row /\ \A row \in rows : row.run = r
  BY WrittenFacts
<1>5. r # Before /\ \A row \in knowledge : row.run # r
  BY KnowledgeAssumption DEF RowsOfEndedRuns
<1>6. \A a, b \in Chunks(rows) : a = b
  BY WrittenFacts DEF Chunks
<1>7. StoreTypeOK'
  BY <1>1, <1>2, <1>4 DEF StoreTypeOK
<1>8. RowsOfEndedRuns'
  BY <1>1, <1>2, <1>3, <1>4 DEF RowsOfEndedRuns, StoreTypeOK, Row
<1>9. Progress'
  BY <1>1, <1>3 DEF Progress
<1>10. OneWriter'
  <2>1. Chunks(knowledge') \subseteq (Chunks(knowledge) \ txn[r].gone) \union Chunks(rows)
    BY <1>2 DEF Chunks
  <2>2. CASE txn[r].at = "asking"
    <3>1. Chunks(knowledge') \subseteq Chunks(rows)
      BY <2>1, <2>2 DEF OneWriter
    <3>2. \A q \in Extraction : txn'[q].at # "asking"
      BY <1>1, <1>3, <2>2 DEF OneWriter
    <3> QED
      BY <1>6, <3>1, <3>2 DEF OneWriter
  <2>3. CASE txn[r].at = "cleared"
    <3>1. Chunks(knowledge') \subseteq Chunks(knowledge)
      BY <2>1, <2>3
    <3> QED
      BY <1>1, <1>3, <3>1 DEF OneWriter
  <2> QED
    BY <2>2, <2>3
<1>11. AloneClearsAll'
  <2> SUFFICES ASSUME ~rivals', NEW q \in Extraction, UnderWay(q)' PROVE FALSE
    BY DEF AloneClearsAll
  <2>1. q # r /\ UnderWay(q)
    BY <1>1, <1>3 DEF UnderWay
  <2>2. UnderWay(r)
    BY DEF UnderWay
  <2> QED
    BY <1>2, <2>1, <2>2 DEF AloneClearsAll
<1>12. LastIsWhole'
  <2>1. {row \in knowledge' : row.run = r} = rows
    BY <1>2, <1>4, <1>5
  <2>2. ASSUME ~rivals' PROVE {row \in knowledge' : row.run # r} = {}
    <3>1. UnderWay(r) /\ txn[r].todo = <<>>
      BY DEF UnderWay, Progress
    <3>2. Len(txn[r].todo) = 0
      BY <3>1
    <3>3. \A row \in knowledge : row \in txn[r].gone
      BY <1>2, <2>2, <3>1, <3>2 DEF AloneClearsAll
    <3> QED
      BY <1>2, <1>4, <3>3
  <2>3. latest'.run = r /\ latest'.failed = failed /\ latest'.rows = rows
    BY <1>2
  <2>4. ~latest'.failed => Chunks(latest'.rows) # {}
    BY <2>3
  <2>5. Chunks(rows)' = Chunks(rows)
    BY DEF Chunks
  <2> QED
    BY <2>1, <2>2, <2>3, <2>4 DEF LastIsWhole, Leftover, Chunks
<1> QED
  BY <1>7, <1>8, <1>9, <1>10, <1>11, <1>12

LEMMA FinishRunStep == ASSUME KnowledgeInv, NEW r \in Extraction, FinishRun(r) PROVE KnowledgeInv'
<1>1. PICK found \in SUBSET (Written(r) \ Chunks(Written(r))), values \in SUBSET (Facts \ Certain) :
          Ends(r, FALSE, Chunks(Written(r)) \union found) /\ projection' = Projected(r, values)
  BY DEF FinishRun
<1> DEFINE rows == Chunks(Written(r)) \union found
<1>2. rows \in SUBSET Written(r)
  BY DEF Chunks
<1>3. Chunks(rows) # {}
  BY WrittenFacts DEF Chunks
<1>4. txn[r].at = "asking" /\ losses' \in Nat
  BY DEF FinishRun, KnowledgeInv, StoreTypeOK
<1>5. projection' \in [Facts -> Extraction \union {Before}]
  BY <1>1 DEF Projected, KnowledgeInv, StoreTypeOK
<1>6. Ends(r, FALSE, rows)
  BY <1>1
<1> HIDE DEF rows
<1> QED
  BY <1>2, <1>3, <1>4, <1>5, <1>6, RunEnds

LEMMA FailRunStep == ASSUME KnowledgeInv, NEW r \in Extraction, FailRun(r) PROVE KnowledgeInv'
<1> DEFINE rows == IF txn[r].at = "asking" THEN Chunks(Written(r)) ELSE {}
<1>1. rows \in SUBSET Written(r) /\ (Chunks(rows) # {} => txn[r].at = "asking")
  BY DEF Chunks
<1>2. txn[r].at \in {"cleared", "asking"} /\ losses' \in Nat /\ UNCHANGED projection
      /\ projection' \in [Facts -> Extraction \union {Before}]
  BY DEF FailRun, KnowledgeInv, StoreTypeOK
<1>3. Ends(r, TRUE, rows)
  BY DEF FailRun
<1> HIDE DEF rows
<1> QED
  BY <1>1, <1>2, <1>3, RunEnds

LEMMA InitKnowledgeInv == KnowledgeInit => KnowledgeInv
<1> SUFFICES ASSUME KnowledgeInit PROVE KnowledgeInv
  OBVIOUS
<1>1. \A row \in knowledge : row \in Row /\ row.run = Before
  BY DEF KnowledgeInit, Row
<1>2. \A r \in Extraction : txn[r] = Unbegun /\ txn[r].at = "queued"
  BY DEF KnowledgeInit, Unbegun
<1>3. StoreTypeOK
  BY <1>1, UnbegunIsTxn DEF KnowledgeInit, StoreTypeOK
<1>4. \A a, b \in Chunks(knowledge) : a = b
  BY DEF KnowledgeInit, Chunks
<1> QED
  BY <1>1, <1>2, <1>3, <1>4
  DEF KnowledgeInv, RowsOfEndedRuns, Progress, OneWriter, AloneClearsAll, UnderWay, LastIsWhole,
      KnowledgeInit

-----------------------------------------------------------------------------
\* The inductive invariant of the extraction runs of a contract: one writer of the
\* chunks at a time, and what a run alone has cleared (cleanup, _prepare_chunks).
THEOREM KnowledgeInvariant == KnowledgeSpec => []KnowledgeInv
<1>1. ASSUME KnowledgeInv, [KnowledgeNext]_knowledgeVars PROVE KnowledgeInv'
  <2>1. CASE UNCHANGED knowledgeVars
    BY <1>1, <2>1
    DEF knowledgeVars, KnowledgeInv, StoreTypeOK, RowsOfEndedRuns, Progress, OneWriter,
        AloneClearsAll, UnderWay, LastIsWhole, Leftover, Chunks
  <2>2. CASE KnowledgeNext
    BY <1>1, <2>2, BeginRunStep, ClearTableStep, ClearAfterWaitStep, WriteChunksStep,
       FinishRunStep, FailRunStep, LostStep DEF KnowledgeNext, LoseRun
  <2> QED
    BY <1>1, <2>1, <2>2
<1> QED
  BY InitKnowledgeInv, <1>1, PTL DEF KnowledgeSpec

\* The last run of extraction to commit is whole, with the chunks of one run, and
\* nothing else is left when no two runs were open at one time (cleanup, _persist).
THEOREM KnowledgeIsWhole == KnowledgeSpec => []KnowledgeWhole
<1>1. ASSUME KnowledgeInv PROVE KnowledgeWhole
  <2>1. Cardinality(Chunks(knowledge)) <= 1
    <3>1. CASE Chunks(knowledge) = {}
      BY <3>1, FS_EmptySet
    <3>2. CASE Chunks(knowledge) # {}
      <4>1. PICK a \in Chunks(knowledge) : Chunks(knowledge) = {a}
        BY <1>1, <3>2 DEF KnowledgeInv, OneWriter
      <4> QED
        BY <4>1, FS_Singleton
    <3> QED
      BY <3>1, <3>2
  <2>2. knowledge \ Leftover = {row \in knowledge : row.run = latest.run}
    BY DEF Leftover
  <2> QED
    BY <1>1, <2>1, <2>2 DEF KnowledgeWhole, KnowledgeInv, LastIsWhole
<1> QED
  BY <1>1, KnowledgeInvariant, PTL

-----------------------------------------------------------------------------

(***************************************************************************)
(* Theorems about the vector index for any number of workers, contracts,   *)
(* levels and texts of them, of extractions, deployments and setbacks.     *)
(***************************************************************************)

(***************************************************************************)
(* The strengthening.  A worker that has cleared a level owns every row of *)
(* it until it commits, as long as nobody else works on the contract; so   *)
(* what it writes stands beside nothing it did not itself leave.           *)
(***************************************************************************)
(* An open run has these fields.                                           *)
RunShape(rec) ==
    rec = [at |-> rec.at, contract |-> rec.contract, space |-> rec.space, plan |-> rec.plan,
           reuse |-> rec.reuse, todo |-> rec.todo, doomed |-> rec.doomed,
           cleared |-> rec.cleared, failed |-> rec.failed]

(* A run under way: it clears, waits or has embedded levels of its plan.    *)
RunOK(rec) ==
    /\ RunShape(rec)
    /\ rec.at \in {"clearing", "waiting", "embedded"}
    /\ rec.contract \in Contract
    /\ DOMAIN rec.reuse = DOMAIN rec.plan /\ DOMAIN rec.plan \subseteq Level
    /\ rec.todo \subseteq DOMAIN rec.plan
    /\ rec.at = "waiting" => rec.todo # {}
    /\ rec.at = "embedded" => rec.todo = {}
    /\ \A l \in DOMAIN rec.plan : \A v \in rec.reuse[l] : ReuseKey[v.space] = ReuseKey[rec.space]
    /\ \A row \in rec.cleared \union rec.doomed :
         row.contract = rec.contract /\ row.level \in DOMAIN rec.plan

EmbeddingShape ==
    /\ content \in [Contract -> [generation : Nat, text : Texts]]
    /\ DOMAIN run = Worker
    /\ \A w \in Worker : run[w] = AtRest \/ RunOK(run[w])
    /\ \A row \in index : row.contract \in Contract /\ row.level \in Level
    /\ enabled \subseteq Level /\ contested \subseteq Contract

(* The run of a contract that nothing else works on: it plans what is there, *)
(* never waits, and every level it has got to is cleared.                   *)
Alone(c, w) ==
    /\ run[w].at # "waiting"
    /\ \A l \in DOMAIN run[w].plan : run[w].plan[l] = Items(c, l)
    /\ \A l \in DOMAIN run[w].plan \ run[w].todo : RowsAt(c, l) \subseteq run[w].cleared

UncontestedIsAlone ==
    \A c \in Contract \ contested :
        /\ \A v, w \in OpenOn(c) : v = w
        /\ \A w \in OpenOn(c) : Alone(c, w)

(* A level of a contract is one row for each item, of one space.            *)
Whole(rows, items) ==
    rows # {} =>
        /\ {[ref |-> row.ref, text |-> row.text] : row \in rows} = items
        /\ \A r, s \in rows : r.space = s.space /\ (r.ref = s.ref /\ r.text = s.text => r = s)

LevelsWhole ==
    \A c \in Contract \ contested, level \in Level : Whole(RowsAt(c, level), Items(c, level))

EmbeddingInv == EmbeddingShape /\ VectorsMatchText /\ UncontestedIsAlone /\ LevelsWhole

-----------------------------------------------------------------------------

LEMMA NextLevelFacts ==
    ASSUME NEW w \in Worker, EmbeddingShape, run[w] # AtRest, run[w].todo # {}
    PROVE  NextLevel(w) \in run[w].todo
<1> DEFINE I == {i \in DOMAIN Levels : Levels[i] \in run[w].todo}
<1>1. I # {}
  BY DEF EmbeddingShape, RunOK, Level
<1>2. IsFiniteSet(I) /\ \A i \in I : i \in Int
  BY EmbeddingAssumption, FS_Subset
<1>3. Min(I) \in I
  <2> HIDE DEF I
  <2> QED
    BY <1>1, <1>2, MinFacts
<1> QED
  BY <1>3 DEF NextLevel

LEMMA EmbeddingStarts == EmbeddingInit => EmbeddingInv
<1> SUFFICES ASSUME EmbeddingInit PROVE EmbeddingInv
  OBVIOUS
<1>1. PICK text \in Texts : content = [c \in Contract |-> [generation |-> 1, text |-> text]]
  BY DEF EmbeddingInit
<1>2. Level # {} \/ Level = {}
  OBVIOUS
<1>3. EmbeddingShape
  BY <1>1 DEF EmbeddingInit, EmbeddingShape
<1>4. \A c \in Contract : OpenOn(c) = {}
  BY DEF EmbeddingInit, OpenOn, Open, AtRest
<1>5. \A c \in Contract, l \in Level : RowsAt(c, l) = {}
  BY DEF EmbeddingInit, RowsAt
<1>6. index = {}
  BY DEF EmbeddingInit
<1> QED
  BY <1>3, <1>4, <1>5, <1>6
     DEF EmbeddingInv, UncontestedIsAlone, LevelsWhole, Whole, VectorsMatchText

(* What a run that clears a level, waits or has embedded keeps.              *)
LEMMA RunClears ==
    ASSUME NEW rec, RunShape(rec), NEW todo, NEW cleared, NEW new, new = [rec EXCEPT !.at = "clearing", !.todo = todo, !.cleared = cleared, !.doomed = {}]
    PROVE  new = [at |-> "clearing", contract |-> rec.contract, space |-> rec.space,
                  plan |-> rec.plan, reuse |-> rec.reuse, todo |-> todo,
                  doomed |-> {}, cleared |-> cleared, failed |-> rec.failed]
  BY DEF RunShape

LEMMA RunWaits ==
    ASSUME NEW rec, RunShape(rec), NEW doomed, NEW new, new = [rec EXCEPT !.at = "waiting", !.doomed = doomed]
    PROVE  new = [at |-> "waiting", contract |-> rec.contract, space |-> rec.space,
                  plan |-> rec.plan, reuse |-> rec.reuse, todo |-> rec.todo,
                  doomed |-> doomed, cleared |-> rec.cleared, failed |-> rec.failed]
  BY DEF RunShape

LEMMA RunEmbeds ==
    ASSUME NEW rec, RunShape(rec), NEW failed, NEW new, new = [rec EXCEPT !.at = "embedded", !.failed = failed]
    PROVE  new = [at |-> "embedded", contract |-> rec.contract, space |-> rec.space,
                  plan |-> rec.plan, reuse |-> rec.reuse, todo |-> rec.todo,
                  doomed |-> rec.doomed, cleared |-> rec.cleared, failed |-> failed]
  BY DEF RunShape

LEMMA OpenFacts ==
    ASSUME EmbeddingShape, NEW w \in Worker
    PROVE  /\ Open(w) <=> run[w] # AtRest
           /\ Open(w) => RunOK(run[w])
<1>1. AtRest.at = "idle" /\ (RunOK(run[w]) => run[w].at # "idle")
  BY DEF AtRest, RunOK
<1> QED
  BY <1>1 DEF EmbeddingShape, Open

(* A step of w's run that leaves the database alone.                        *)
LEMMA RunStep ==
    ASSUME EmbeddingInv, NEW w \in Worker, Open(w), NEW new, RunOK(new),
           run' = [run EXCEPT ![w] = new], new.contract = run[w].contract,
           new.plan = run[w].plan,
           run[w].contract \notin contested =>
              /\ new.at # "waiting"
              /\ \A l \in DOMAIN new.plan \ new.todo :
                    RowsAt(run[w].contract, l) \subseteq new.cleared,
           UNCHANGED <<content, index, enabled, contested>>
    PROVE  EmbeddingInv'
<1>1. EmbeddingShape /\ DOMAIN run = Worker /\ run[w].contract \in Contract
  BY OpenFacts DEF EmbeddingInv, EmbeddingShape, RunOK
<1>2. run'[w] = new /\ \A v \in Worker : v # w => run'[v] = run[v]
  BY <1>1
<1>3. EmbeddingShape'
  BY <1>1, <1>2 DEF EmbeddingShape
<1>4. \A c \in Contract : OpenOn(c)' = OpenOn(c)
  <2>1. new.at # "idle"
    BY DEF RunOK
  <2> QED
    BY <1>2, <2>1 DEF OpenOn, Open
<1>5. \A c, l : Items(c, l)' = Items(c, l) /\ RowsAt(c, l)' = RowsAt(c, l)
  BY DEF Items, RowsAt
<1>6. ASSUME NEW c \in Contract \ contested, NEW v \in OpenOn(c) PROVE Alone(c, v)'
  <2>1. Alone(c, v)
    BY <1>6 DEF EmbeddingInv, UncontestedIsAlone
  <2>2. CASE v = w
    <3>1. run[w].contract = c
      BY <2>2 DEF OpenOn
    <3> QED
      BY <1>2, <1>5, <2>1, <2>2, <3>1 DEF Alone
  <2>3. CASE v # w
    <3>1. run'[v] = run[v]
      BY <1>2, <2>3 DEF OpenOn
    <3> QED
      BY <1>5, <2>1, <3>1 DEF Alone
  <2> QED
    BY <2>2, <2>3
<1>7. UncontestedIsAlone'
  BY <1>4, <1>6 DEF EmbeddingInv, UncontestedIsAlone
<1>8. LevelsWhole'
  BY <1>5 DEF EmbeddingInv, LevelsWhole
<1>9. VectorsMatchText'
  BY DEF EmbeddingInv, VectorsMatchText
<1> QED
  BY <1>3, <1>7, <1>8, <1>9 DEF EmbeddingInv

LEMMA StepBegins ==
    ASSUME EmbeddingInv, NEW w \in Worker, NEW c \in Contract, BeginEmbedding(w, c)
    PROVE  EmbeddingInv'
<1> DEFINE space == Spaces[deployed[w]]
           new == [at |-> "clearing", contract |-> c, space |-> space,
                   plan |-> [l \in enabled |-> Items(c, l)],
                   reuse |-> [l \in enabled |-> Reusable(l, space)],
                   todo |-> enabled, doomed |-> {}, cleared |-> {}, failed |-> {}]
<1>1. EmbeddingShape /\ DOMAIN run = Worker /\ enabled \subseteq Level
  BY DEF EmbeddingInv, EmbeddingShape
<1>2. run' = [run EXCEPT ![w] = new] /\ UNCHANGED <<content, index, enabled>>
  BY DEF BeginEmbedding
<1>3. run'[w] = new /\ \A v \in Worker : v # w => run'[v] = run[v]
  BY <1>1, <1>2
<1>4. RunOK(new)
  <2>1. RunShape(new)
    BY DEF RunShape
  <2>2. \A l \in enabled : \A v \in Reusable(l, space) : ReuseKey[v.space] = ReuseKey[space]
    BY DEF EmbeddingInv, VectorsMatchText, Reusable
  <2> QED
    BY <1>1, <2>1, <2>2 DEF RunOK
<1>5. new.at = "clearing" /\ new.contract = c /\ new.todo = enabled
      /\ new.plan = [l \in enabled |-> Items(c, l)]
  OBVIOUS
<1> HIDE DEF new
<1>6. EmbeddingShape'
  <2>1. contested' \subseteq Contract
    BY DEF EmbeddingInv, EmbeddingShape, BeginEmbedding
  <2> QED
    BY <1>1, <1>2, <1>3, <1>4, <2>1 DEF EmbeddingShape
<1>7. \A d, l : Items(d, l)' = Items(d, l) /\ RowsAt(d, l)' = RowsAt(d, l)
  BY <1>2 DEF Items, RowsAt
<1>8. contested \subseteq contested' /\ (c \notin contested' => OpenOn(c) = {})
  BY DEF BeginEmbedding
<1>9. ASSUME NEW d \in Contract \ contested'
      PROVE  (\A u, v \in OpenOn(d)' : u = v) /\ \A v \in OpenOn(d)' : Alone(d, v)'
  <2>1. CASE d = c
    <3>1. OpenOn(d)' = {w}
      BY <1>3, <1>5, <1>8, <1>9, <2>1 DEF OpenOn, Open
    <3>2. Alone(d, w)'
      BY <1>3, <1>5, <1>7, <2>1 DEF Alone
    <3> QED
      BY <3>1, <3>2
  <2>2. CASE d # c
    <3>1. ~Open(w)
      BY DEF BeginEmbedding
    <3>2. OpenOn(d)' = OpenOn(d) /\ w \notin OpenOn(d)
      BY <1>3, <1>5, <2>2, <3>1 DEF OpenOn, Open
    <3>3. ASSUME NEW v \in OpenOn(d) PROVE Alone(d, v)'
      <4>1. Alone(d, v) /\ run'[v] = run[v]
        BY <1>3, <1>8, <1>9, <3>2 DEF OpenOn, EmbeddingInv, UncontestedIsAlone
      <4> QED
        BY <1>7, <4>1 DEF Alone
    <3> QED
      BY <1>8, <3>2, <3>3 DEF EmbeddingInv, UncontestedIsAlone
  <2> QED
    BY <2>1, <2>2
<1>10. UncontestedIsAlone'
  BY <1>9 DEF UncontestedIsAlone
<1>11. LevelsWhole'
  BY <1>7, <1>8 DEF EmbeddingInv, LevelsWhole
<1>12. VectorsMatchText'
  BY <1>2 DEF EmbeddingInv, VectorsMatchText
<1> QED
  BY <1>6, <1>10, <1>11, <1>12 DEF EmbeddingInv

(* What a run deletes next belongs to its contract and its plan.            *)
LEMMA DoomedFacts ==
    ASSUME EmbeddingShape, NEW w \in Worker, Open(w), run[w].todo # {}
    PROVE  /\ NextLevel(w) \in run[w].todo
           /\ \A row \in Doomed(w) : row.contract = run[w].contract /\ row.level = NextLevel(w)
  BY OpenFacts, NextLevelFacts DEF Doomed, RowsAt

(* Rows that others have deleted are of the contracts they work on.         *)
LEMMA LockedFacts ==
    ASSUME EmbeddingInv, NEW w \in Worker, Open(w), run[w].contract \notin contested,
           NEW rows, \A row \in rows : row.contract = run[w].contract
    PROVE  rows \cap Locked(w) = {}
<1> SUFFICES ASSUME NEW row \in rows \cap Locked(w) PROVE FALSE
  OBVIOUS
<1>1. PICK v \in Worker \ {w} : Open(v) /\ row \in run[v].cleared
  BY DEF Locked
<1>2. RunOK(run[v]) /\ RunOK(run[w])
  BY <1>1, OpenFacts DEF EmbeddingInv
<1>3. run[v].contract = run[w].contract
  BY <1>1, <1>2 DEF RunOK
<1>4. v \in OpenOn(run[w].contract) /\ w \in OpenOn(run[w].contract) /\ run[w].contract \in Contract
  BY <1>1, <1>2, <1>3 DEF OpenOn, RunOK
<1> QED
  BY <1>1, <1>4 DEF EmbeddingInv, UncontestedIsAlone

LEMMA SpaceClearedFacts ==
    ASSUME EmbeddingInv, NEW w \in Worker, Open(w), run[w].todo # {},
           NEW rows, \A row \in rows : row.contract = run[w].contract /\ row.level \in DOMAIN run[w].plan
    PROVE  LET new == ClearedAfter(w, rows)
           IN  /\ RunOK(new) /\ new.at = "clearing" /\ new.contract = run[w].contract
               /\ new.plan = run[w].plan /\ new.todo = run[w].todo \ {NextLevel(w)}
               /\ new.cleared = run[w].cleared \union (rows \cap index)
<1> DEFINE new == ClearedAfter(w, rows)
<1>1. RunOK(run[w]) /\ NextLevel(w) \in run[w].todo
  BY OpenFacts, DoomedFacts DEF EmbeddingInv
<1>2. new = [at |-> "clearing", contract |-> run[w].contract, space |-> run[w].space,
             plan |-> run[w].plan, reuse |-> run[w].reuse,
             todo |-> run[w].todo \ {NextLevel(w)}, doomed |-> {},
             cleared |-> run[w].cleared \union (rows \cap index), failed |-> run[w].failed]
  <2> DEFINE todo == run[w].todo \ {NextLevel(w)}
             cleared == run[w].cleared \union (rows \cap index)
  <2>1. new = [run[w] EXCEPT !.at = "clearing", !.todo = todo, !.cleared = cleared, !.doomed = {}]
    BY DEF ClearedAfter
  <2>2. RunShape(run[w])
    BY <1>1 DEF RunOK
  <2> HIDE DEF new, todo, cleared
  <2>3. new = [at |-> "clearing", contract |-> run[w].contract, space |-> run[w].space,
               plan |-> run[w].plan, reuse |-> run[w].reuse, todo |-> todo,
               doomed |-> {}, cleared |-> cleared, failed |-> run[w].failed]
    BY <2>1, <2>2, RunClears
  <2> QED
    BY <2>3 DEF todo, cleared
<1> HIDE DEF new
<1>3. /\ RunShape(new) /\ new.at = "clearing" /\ new.contract = run[w].contract
      /\ new.space = run[w].space /\ new.plan = run[w].plan /\ new.reuse = run[w].reuse
      /\ new.todo = run[w].todo \ {NextLevel(w)} /\ new.doomed = {}
      /\ new.cleared = run[w].cleared \union (rows \cap index)
  BY <1>2 DEF RunShape
<1>4. RunOK(new)
  BY <1>1, <1>3 DEF RunOK
<1> QED
  BY <1>3, <1>4 DEF new

LEMMA StepClears ==
    ASSUME EmbeddingInv, NEW w \in Worker, ClearLevel(w)
    PROVE  EmbeddingInv'
<1>1. Open(w) /\ run[w].todo # {} /\ RunOK(run[w]) /\ EmbeddingShape
  BY OpenFacts DEF ClearLevel, Open, EmbeddingInv
<1>2. NextLevel(w) \in run[w].todo
      /\ \A row \in Doomed(w) : row.contract = run[w].contract /\ row.level \in DOMAIN run[w].plan
  BY <1>1, DoomedFacts DEF RunOK
<1>3. CASE Doomed(w) \cap Locked(w) = {}
  <2> DEFINE new == ClearedAfter(w, Doomed(w))
  <2>1. /\ RunOK(new) /\ new.at = "clearing" /\ new.contract = run[w].contract
        /\ new.plan = run[w].plan /\ new.todo = run[w].todo \ {NextLevel(w)}
        /\ new.cleared = run[w].cleared \union (Doomed(w) \cap index)
    BY <1>1, <1>2, SpaceClearedFacts
  <2>2. run' = [run EXCEPT ![w] = new] /\ UNCHANGED <<content, index, enabled, contested>>
    BY <1>3 DEF ClearLevel
  <2>3. ASSUME run[w].contract \notin contested, NEW l \in DOMAIN new.plan \ new.todo
        PROVE  RowsAt(run[w].contract, l) \subseteq new.cleared
    <3>1. CASE l = NextLevel(w)
      BY <2>1, <3>1 DEF Doomed, RowsAt
    <3>2. CASE l # NextLevel(w)
      <4>1. w \in OpenOn(run[w].contract) /\ run[w].contract \in Contract
        BY <1>1 DEF OpenOn, RunOK
      <4>2. Alone(run[w].contract, w)
        BY <2>3, <4>1 DEF EmbeddingInv, UncontestedIsAlone
      <4> QED
        BY <2>1, <2>3, <3>2, <4>2 DEF Alone
    <3> QED
      BY <3>1, <3>2
  <2> HIDE DEF new
  <2> QED
    BY <1>1, <2>1, <2>2, <2>3, RunStep
<1>4. CASE Doomed(w) \cap Locked(w) # {}
  <2> DEFINE new == [run[w] EXCEPT !.at = "waiting", !.doomed = Doomed(w)]
  <2>1. run' = [run EXCEPT ![w] = new] /\ UNCHANGED <<content, index, enabled, contested>>
    BY <1>4 DEF ClearLevel
  <2>2. new = [at |-> "waiting", contract |-> run[w].contract, space |-> run[w].space,
               plan |-> run[w].plan, reuse |-> run[w].reuse, todo |-> run[w].todo,
               doomed |-> Doomed(w), cleared |-> run[w].cleared, failed |-> run[w].failed]
    <3>1. RunShape(run[w]) /\ new = [run[w] EXCEPT !.at = "waiting", !.doomed = Doomed(w)]
      BY <1>1 DEF RunOK
    <3> HIDE DEF new
    <3> QED
      BY <3>1, RunWaits
  <2> HIDE DEF new
  <2>3. /\ RunShape(new) /\ new.at = "waiting" /\ new.contract = run[w].contract
        /\ new.space = run[w].space /\ new.plan = run[w].plan /\ new.reuse = run[w].reuse
        /\ new.todo = run[w].todo /\ new.doomed = Doomed(w) /\ new.cleared = run[w].cleared
    BY <2>2 DEF RunShape
  <2>4. RunOK(new)
    BY <1>1, <1>2, <2>3 DEF RunOK
  <2>5. run[w].contract \in contested
    BY <1>1, <1>2, <1>4, LockedFacts
  <2> QED
    BY <1>1, <2>1, <2>3, <2>4, <2>5, RunStep
<1> QED
  BY <1>3, <1>4

LEMMA StepWaited ==
    ASSUME EmbeddingInv, NEW w \in Worker, WaitIsOver(w)
    PROVE  EmbeddingInv'
<1>1. Open(w) /\ RunOK(run[w]) /\ EmbeddingShape
  BY OpenFacts DEF WaitIsOver, Open, EmbeddingInv
<1>2. run[w].todo # {} /\ run[w].at = "waiting"
  BY <1>1 DEF WaitIsOver, RunOK
<1> DEFINE new == ClearedAfter(w, run[w].doomed)
<1>3. \A row \in run[w].doomed : row.contract = run[w].contract /\ row.level \in DOMAIN run[w].plan
  BY <1>1 DEF RunOK
<1>4. RunOK(new) /\ new.at = "clearing" /\ new.contract = run[w].contract /\ new.plan = run[w].plan
  BY <1>1, <1>2, <1>3, SpaceClearedFacts
<1>5. run' = [run EXCEPT ![w] = new] /\ UNCHANGED <<content, index, enabled, contested>>
  BY DEF WaitIsOver
<1>6. run[w].contract \in contested
  <2>1. w \in OpenOn(run[w].contract) /\ run[w].contract \in Contract
    BY <1>1 DEF OpenOn, RunOK
  <2> QED
    BY <1>2, <2>1 DEF EmbeddingInv, UncontestedIsAlone, Alone
<1> HIDE DEF new
<1> QED
  BY <1>1, <1>4, <1>5, <1>6, RunStep

LEMMA StepEmbeds ==
    ASSUME EmbeddingInv, NEW w \in Worker, NEW failed \in SUBSET Level, Embed(w, failed)
    PROVE  EmbeddingInv'
<1>1. Open(w) /\ RunOK(run[w]) /\ EmbeddingShape /\ run[w].todo = {} /\ RunShape(run[w])
  BY OpenFacts DEF Embed, Open, EmbeddingInv, RunOK
<1> DEFINE new == [at |-> "embedded", contract |-> run[w].contract, space |-> run[w].space,
                   plan |-> run[w].plan, reuse |-> run[w].reuse, todo |-> run[w].todo,
                   doomed |-> run[w].doomed, cleared |-> run[w].cleared, failed |-> failed]
<1>2. run' = [run EXCEPT ![w] = new] /\ UNCHANGED <<content, index, enabled, contested>>
  <2>1. run' = [run EXCEPT ![w] = [run[w] EXCEPT !.at = "embedded", !.failed = failed]]
    BY <1>1 DEF Embed, EmbeddingShape
  <2>2. new = [run[w] EXCEPT !.at = "embedded", !.failed = failed]
    <3> DEFINE embedded == [run[w] EXCEPT !.at = "embedded", !.failed = failed]
    <3>1. embedded = [run[w] EXCEPT !.at = "embedded", !.failed = failed]
      OBVIOUS
    <3> HIDE DEF embedded
    <3>2. embedded = new
      BY <1>1, <3>1, RunEmbeds
    <3> QED
      BY <3>1, <3>2
  <2> HIDE DEF new
  <2> QED
    BY <2>1, <2>2 DEF Embed
<1>3. /\ RunShape(new) /\ new.at = "embedded" /\ new.contract = run[w].contract
      /\ new.space = run[w].space /\ new.plan = run[w].plan /\ new.reuse = run[w].reuse
      /\ new.todo = run[w].todo /\ new.doomed = run[w].doomed /\ new.cleared = run[w].cleared
  BY DEF RunShape
<1> HIDE DEF new
<1>4. RunOK(new)
  BY <1>1, <1>3 DEF RunOK
<1>5. ASSUME run[w].contract \notin contested, NEW l \in DOMAIN new.plan \ new.todo
      PROVE  RowsAt(run[w].contract, l) \subseteq new.cleared
  <2>1. w \in OpenOn(run[w].contract) /\ run[w].contract \in Contract
    BY <1>1 DEF OpenOn, RunOK
  <2>2. Alone(run[w].contract, w)
    BY <1>5, <2>1 DEF EmbeddingInv, UncontestedIsAlone
  <2> QED
    BY <1>3, <1>5, <2>2 DEF Alone
<1> QED
  BY <1>1, <1>2, <1>3, <1>4, <1>5, RunStep

LEMMA StepDies ==
    ASSUME EmbeddingInv, NEW w \in Worker, run' = [run EXCEPT ![w] = AtRest],
           UNCHANGED <<content, index, enabled, contested>>
    PROVE  EmbeddingInv'
<1>1. DOMAIN run = Worker /\ run'[w] = AtRest /\ \A v \in Worker : v # w => run'[v] = run[v]
  BY DEF EmbeddingInv, EmbeddingShape
<1>2. EmbeddingShape'
  BY <1>1 DEF EmbeddingInv, EmbeddingShape
<1>3. \A c, l : Items(c, l)' = Items(c, l) /\ RowsAt(c, l)' = RowsAt(c, l)
  BY DEF Items, RowsAt
<1>4. ASSUME NEW c PROVE OpenOn(c)' \subseteq OpenOn(c) \ {w}
  BY <1>1 DEF OpenOn, Open, AtRest
<1>5. ASSUME NEW c \in Contract \ contested, NEW v \in OpenOn(c)' PROVE Alone(c, v)'
  <2>1. v \in OpenOn(c) /\ run'[v] = run[v]
    BY <1>1, <1>4, <1>5 DEF OpenOn
  <2>2. Alone(c, v)
    BY <1>5, <2>1 DEF EmbeddingInv, UncontestedIsAlone
  <2> QED
    BY <1>3, <2>1, <2>2 DEF Alone
<1>6. UncontestedIsAlone'
  BY <1>4, <1>5 DEF EmbeddingInv, UncontestedIsAlone
<1>7. LevelsWhole'
  BY <1>3 DEF EmbeddingInv, LevelsWhole
<1>8. VectorsMatchText'
  BY DEF EmbeddingInv, VectorsMatchText
<1> QED
  BY <1>2, <1>6, <1>7, <1>8 DEF EmbeddingInv

LEMMA StepExtracts ==
    ASSUME EmbeddingInv, NEW c \in Contract, Extract(c)
    PROVE  EmbeddingInv'
<1>1. PICK text \in Texts : content' = [content EXCEPT ![c] = [generation |-> @.generation + 1, text |-> text]]
  BY DEF Extract
<1>2. UNCHANGED <<run, enabled>> /\ contested \subseteq contested'
      /\ (c \notin contested' => OpenOn(c) = {})
      /\ index' = {row \in index : row.contract # c}
  BY DEF Extract
<1>3. EmbeddingShape'
  <2>1. content' \in [Contract -> [generation : Nat, text : Texts]]
    BY <1>1 DEF EmbeddingInv, EmbeddingShape
  <2>2. contested' \subseteq Contract
    BY DEF EmbeddingInv, EmbeddingShape, Extract
  <2> QED
    BY <1>2, <2>1, <2>2 DEF EmbeddingInv, EmbeddingShape
<1>4. \A d \in Contract \ {c} : \A l : Items(d, l)' = Items(d, l) /\ RowsAt(d, l)' = RowsAt(d, l)
  <2>1. \A d \in Contract \ {c} : content'[d] = content[d]
    BY <1>1 DEF EmbeddingInv, EmbeddingShape
  <2> QED
    BY <1>2, <2>1 DEF Items, RowsAt
<1>5. \A l : RowsAt(c, l)' = {}
  BY <1>2 DEF RowsAt
<1>6. \A d : OpenOn(d)' = OpenOn(d)
  BY <1>2 DEF OpenOn, Open
<1>7. ASSUME NEW d \in Contract \ contested', NEW v \in OpenOn(d) PROVE Alone(d, v)'
  <2>1. d # c /\ Alone(d, v)
    BY <1>2, <1>7 DEF EmbeddingInv, UncontestedIsAlone
  <2> QED
    BY <1>2, <1>4, <2>1 DEF Alone
<1>8. UncontestedIsAlone'
  BY <1>2, <1>6, <1>7 DEF EmbeddingInv, UncontestedIsAlone
<1>9. LevelsWhole'
  <2>1. ASSUME NEW d \in Contract \ contested', NEW l \in Level
        PROVE  Whole(RowsAt(d, l)', Items(d, l)')
    <3>1. CASE d = c
      BY <1>5, <3>1 DEF Whole
    <3>2. CASE d # c
      <4>1. Whole(RowsAt(d, l), Items(d, l))
        BY <1>2, <2>1 DEF EmbeddingInv, LevelsWhole
      <4> QED
        BY <1>4, <3>2, <4>1
    <3> QED
      BY <3>1, <3>2
  <2> QED
    BY <2>1 DEF LevelsWhole, Whole
<1>10. VectorsMatchText'
  BY <1>2 DEF EmbeddingInv, VectorsMatchText
<1> QED
  BY <1>3, <1>8, <1>9, <1>10 DEF EmbeddingInv

LEMMA StepAround ==
    ASSUME EmbeddingInv, UNCHANGED <<content, index, run, contested>>, enabled' \subseteq Level
    PROVE  EmbeddingInv'
<1>1. EmbeddingShape'
  BY DEF EmbeddingInv, EmbeddingShape
<1>2. \A c, l : Items(c, l)' = Items(c, l) /\ RowsAt(c, l)' = RowsAt(c, l) /\ OpenOn(c)' = OpenOn(c)
  BY DEF Items, RowsAt, OpenOn, Open
<1>3. \A c \in Contract, v \in Worker : Alone(c, v)' = Alone(c, v)
  BY <1>2 DEF Alone
<1>4. UncontestedIsAlone'
  <2>1. \A c \in Contract : \A v \in OpenOn(c) : v \in Worker
    BY DEF OpenOn
  <2> QED
    BY <1>2, <1>3, <2>1 DEF EmbeddingInv, UncontestedIsAlone
<1>5. LevelsWhole'
  BY <1>2 DEF EmbeddingInv, LevelsWhole
<1>6. VectorsMatchText'
  BY DEF EmbeddingInv, VectorsMatchText
<1> QED
  BY <1>1, <1>4, <1>5, <1>6 DEF EmbeddingInv

(* The rows a run writes: one for each item of a level it has embedded.     *)
LEMMA NewRowFacts ==
    ASSUME NEW w \in Worker, RunOK(run[w]),
           NEW row \in NewRows(w)
    PROVE  \E l \in DOMAIN run[w].plan \ run[w].failed :
             /\ row.level = l
             /\ \E item \in run[w].plan[l] :
                  row = RowOf(w, l, item, CHOOSE v \in VectorFor(w, l, item.text) : TRUE)
  BY DEF NewRows, RowOf

LEMMA VectorFacts ==
    ASSUME NEW w \in Worker, RunOK(run[w]), NEW l \in DOMAIN run[w].plan, NEW text,
           NEW v, v = CHOOSE u \in VectorFor(w, l, text) : TRUE
    PROVE  v.text = text /\ ReuseKey[v.space] = ReuseKey[run[w].space]
<1>1. v \in VectorFor(w, l, text)
  BY DEF VectorFor
<1>2. CASE {vector \in run[w].reuse[l] : vector.text = text} = {}
  BY <1>1, <1>2 DEF VectorFor
<1>3. CASE {vector \in run[w].reuse[l] : vector.text = text} # {}
  <2>1. v \in run[w].reuse[l] /\ v.text = text
    BY <1>1, <1>3 DEF VectorFor
  <2> QED
    BY <2>1 DEF RunOK
<1> QED
  BY <1>2, <1>3

LEMMA NewRowsMatchText ==
    ASSUME NEW w \in Worker, RunOK(run[w]), NEW row \in NewRows(w)
    PROVE  /\ row.contract = run[w].contract /\ row.level \in Level
           /\ row.vector.text = row.text /\ ReuseKey[row.vector.space] = ReuseKey[row.space]
<1>1. PICK l \in DOMAIN run[w].plan \ run[w].failed :
         \E item \in run[w].plan[l] :
            row = RowOf(w, l, item, CHOOSE v \in VectorFor(w, l, item.text) : TRUE)
  BY NewRowFacts
<1>4. PICK item \in run[w].plan[l] :
         row = RowOf(w, l, item, CHOOSE v \in VectorFor(w, l, item.text) : TRUE)
  BY <1>1
<1> DEFINE v == CHOOSE v \in VectorFor(w, l, item.text) : TRUE
<1>2. v.text = item.text /\ ReuseKey[v.space] = ReuseKey[run[w].space]
  BY VectorFacts
<1>3. row = RowOf(w, l, item, v) /\ l \in Level
  BY <1>4 DEF RunOK
<1> HIDE DEF v
<1> QED
  BY <1>2, <1>3 DEF RowOf

(* What was embedded of a contract that nothing else works on.              *)
LEMMA NewLevelWhole ==
    ASSUME NEW w \in Worker, RunOK(run[w]), NEW c, c = run[w].contract,
           NEW l \in DOMAIN run[w].plan \ run[w].failed, run[w].plan[l] = Items(c, l)
    PROVE  Whole({row \in NewRows(w) : row.contract = c /\ row.level = l}, Items(c, l))
<1> DEFINE rows == {row \in NewRows(w) : row.contract = c /\ row.level = l}
           new(item) == RowOf(w, l, item, CHOOSE v \in VectorFor(w, l, item.text) : TRUE)
<1>1. \A item : /\ new(item).contract = c /\ new(item).level = l /\ new(item).ref = item.ref
                /\ new(item).text = item.text /\ new(item).space = run[w].space
  BY DEF RowOf
<1>2. \A item \in Items(c, l) : item = [ref |-> item.ref, text |-> item.text]
  BY DEF Items
<1>3. \A row \in rows : \E item \in Items(c, l) : row = new(item)
  <2> TAKE row \in rows
  <2>1. PICK k \in DOMAIN run[w].plan \ run[w].failed :
           /\ row.level = k
           /\ \E item \in run[w].plan[k] :
                row = RowOf(w, k, item, CHOOSE v \in VectorFor(w, k, item.text) : TRUE)
    BY NewRowFacts
  <2>2. k = l
    BY <2>1
  <2> QED
    BY <2>1, <2>2
<1>4. \A item \in Items(c, l) : new(item) \in rows
  <2> TAKE item \in Items(c, l)
  <2>1. new(item) \in {RowOf(w, l, it, CHOOSE v \in VectorFor(w, l, it.text) : TRUE) :
                          it \in run[w].plan[l]}
    OBVIOUS
  <2> HIDE DEF new
  <2>2. new(item) \in NewRows(w)
    BY <2>1 DEF NewRows
  <2> QED
    BY <1>1, <2>2
<1> HIDE DEF rows, new
<1>5. {[ref |-> row.ref, text |-> row.text] : row \in rows} = Items(c, l)
  BY <1>1, <1>2, <1>3, <1>4
<1>6. ASSUME NEW r \in rows, NEW s \in rows
      PROVE  r.space = s.space /\ (r.ref = s.ref /\ r.text = s.text => r = s)
  <2>1. PICK i \in Items(c, l) : r = new(i)
    BY <1>3
  <2>2. PICK j \in Items(c, l) : s = new(j)
    BY <1>3
  <2>3. r.space = s.space
    BY <1>1, <2>1, <2>2
  <2>4. ASSUME r.ref = s.ref, r.text = s.text PROVE r = s
    <3>1. i = j
      BY <1>1, <1>2, <2>1, <2>2, <2>4
    <3> QED
      BY <2>1, <2>2, <3>1
  <2> QED
    BY <2>3, <2>4
<1> QED
  BY <1>5, <1>6 DEF Whole, rows

LEMMA StepFinishes ==
    ASSUME EmbeddingInv, NEW w \in Worker, Finish(w)
    PROVE  EmbeddingInv'
<1>1. /\ Open(w) /\ RunOK(run[w]) /\ run[w].at = "embedded" /\ run[w].todo = {}
      /\ run' = [run EXCEPT ![w] = AtRest] /\ UNCHANGED <<content, enabled, contested>>
  BY OpenFacts DEF Finish, Open, EmbeddingInv, RunOK
<1>2. CASE index' = index
  BY <1>1, <1>2, StepDies
<1>3. CASE index' = (index \ run[w].cleared) \union NewRows(w)
  <2>0. PICK c : c = run[w].contract
    OBVIOUS
  <2>1. DOMAIN run = Worker /\ run'[w] = AtRest /\ \A v \in Worker : v # w => run'[v] = run[v]
    BY <1>1 DEF EmbeddingInv, EmbeddingShape
  <2>2. \A row \in NewRows(w) : /\ row.contract = c /\ row.level \in Level
                               /\ row.vector.text = row.text
                               /\ ReuseKey[row.vector.space] = ReuseKey[row.space]
    BY <1>1, <2>0, NewRowsMatchText
  <2>3. c \in Contract /\ \A row \in run[w].cleared : row.contract = c /\ row.level \in DOMAIN run[w].plan
    BY <1>1, <2>0 DEF RunOK
  <2>4. EmbeddingShape'
    <3>1. \A row \in index' : row.contract \in Contract /\ row.level \in Level
      BY <1>3, <2>2, <2>3 DEF EmbeddingInv, EmbeddingShape
    <3> QED
      BY <1>1, <2>1, <3>1 DEF EmbeddingInv, EmbeddingShape
  <2>5. VectorsMatchText'
    BY <1>3, <2>2 DEF EmbeddingInv, VectorsMatchText
  <2>6. \A d, l : Items(d, l)' = Items(d, l)
    BY <1>1 DEF Items
  <2>7. \A d, l : d # c => RowsAt(d, l)' = RowsAt(d, l)
    BY <1>3, <2>2, <2>3 DEF RowsAt
  <2>8. \A d : OpenOn(d)' \subseteq OpenOn(d) \ {w}
    BY <2>1 DEF OpenOn, Open, AtRest
  <2>9. UncontestedIsAlone'
    <3>1. ASSUME NEW d \in Contract \ contested, NEW v \in OpenOn(d)' PROVE Alone(d, v)'
      <4>1. v \in OpenOn(d) /\ v # w /\ v \in Worker /\ run'[v] = run[v]
        BY <2>1, <2>8 DEF OpenOn
      <4>2. Alone(d, v)
        BY <3>1, <4>1 DEF EmbeddingInv, UncontestedIsAlone
      <4>3. d # c
        BY <1>1, <2>0, <3>1, <4>1 DEF EmbeddingInv, UncontestedIsAlone, OpenOn
      <4> QED
        BY <2>6, <2>7, <4>1, <4>2, <4>3 DEF Alone
    <3> QED
      BY <1>1, <2>8, <3>1 DEF EmbeddingInv, UncontestedIsAlone
  <2>10. ASSUME NEW d \in Contract \ contested, NEW l \in Level
         PROVE  Whole(RowsAt(d, l)', Items(d, l))
    <3>1. Whole(RowsAt(d, l), Items(d, l))
      BY <2>10 DEF EmbeddingInv, LevelsWhole
    <3>2. CASE d # c
      BY <2>7, <3>1, <3>2
    <3>3. CASE d = c
      <4>1. Alone(c, w)
        BY <1>1, <2>0, <2>10, <3>3 DEF EmbeddingInv, UncontestedIsAlone, OpenOn
      <4>2. CASE l \notin DOMAIN run[w].plan
        <5>1. RowsAt(c, l)' = RowsAt(c, l)
          <6>1. \A row \in NewRows(w) : row.level \in DOMAIN run[w].plan
            BY <1>1, NewRowFacts
          <6> QED
            BY <1>3, <2>3, <4>2, <6>1 DEF RowsAt
        <5> QED
          BY <3>1, <3>3, <5>1
      <4>3. CASE l \in DOMAIN run[w].plan
        <5>1. RowsAt(c, l) \subseteq run[w].cleared
          BY <1>1, <4>1, <4>3 DEF Alone
        <5>2. RowsAt(c, l)' = {row \in NewRows(w) : row.contract = c /\ row.level = l}
          BY <1>3, <5>1 DEF RowsAt
        <5>3. CASE l \in run[w].failed
          <6>1. RowsAt(c, l)' = {}
            BY <1>1, <5>2, <5>3, NewRowFacts
          <6> QED
            BY <3>3, <6>1 DEF Whole
        <5>4. CASE l \notin run[w].failed
          <6>1. run[w].plan[l] = Items(c, l)
            BY <4>1, <4>3 DEF Alone
          <6>2. Whole({row \in NewRows(w) : row.contract = c /\ row.level = l}, Items(c, l))
            BY <1>1, <2>0, <4>3, <5>4, <6>1, NewLevelWhole
          <6> QED
            BY <3>3, <5>2, <6>2
        <5> QED
          BY <5>3, <5>4
      <4> QED
        BY <4>2, <4>3
    <3> QED
      BY <3>2, <3>3
  <2>11. LevelsWhole'
    BY <1>1, <2>6, <2>10 DEF LevelsWhole
  <2> QED
    BY <2>4, <2>5, <2>9, <2>11 DEF EmbeddingInv
<1> QED
  BY <1>2, <1>3 DEF Finish

LEMMA EmbeddingSteps == EmbeddingInv /\ [EmbeddingNext]_embeddingVars => EmbeddingInv'
<1> SUFFICES ASSUME EmbeddingInv, [EmbeddingNext]_embeddingVars PROVE EmbeddingInv'
  OBVIOUS
<1>1. ASSUME NEW w \in Worker, NEW c \in Contract, BeginEmbedding(w, c) PROVE EmbeddingInv'
  BY <1>1, StepBegins
<1>2. ASSUME NEW w \in Worker, ClearLevel(w) PROVE EmbeddingInv'
  BY <1>2, StepClears
<1>3. ASSUME NEW w \in Worker, WaitIsOver(w) PROVE EmbeddingInv'
  BY <1>3, StepWaited
<1>4. ASSUME NEW w \in Worker, NEW failed \in SUBSET Level, Embed(w, failed) PROVE EmbeddingInv'
  BY <1>4, StepEmbeds
<1>5. ASSUME NEW w \in Worker, Finish(w) PROVE EmbeddingInv'
  BY <1>5, StepFinishes
<1>6. ASSUME NEW w \in Worker, EmbeddingDies(w) PROVE EmbeddingInv'
  BY <1>6, StepDies DEF EmbeddingDies
<1>7. ASSUME NEW c \in Contract, Extract(c) PROVE EmbeddingInv'
  BY <1>7, StepExtracts
<1>8. ASSUME NEW w \in Worker, Deploy(w) PROVE EmbeddingInv'
  <2>1. enabled' \subseteq Level
    BY <1>8 DEF Deploy, EmbeddingInv, EmbeddingShape
  <2> QED
    BY <1>8, <2>1, StepAround DEF Deploy
<1>9. ASSUME NEW levels \in SUBSET Level, EditLevels(levels) PROVE EmbeddingInv'
  BY <1>9, StepAround DEF EditLevels
<1>10. CASE UNCHANGED embeddingVars
  <2>1. UNCHANGED <<content, index, run, contested, enabled>> /\ enabled' \subseteq Level
    BY <1>10 DEF embeddingVars, EmbeddingInv, EmbeddingShape
  <2> QED
    BY <2>1, StepAround
<1> QED
  BY <1>1, <1>2, <1>3, <1>4, <1>5, <1>6, <1>7, <1>8, <1>9, <1>10 DEF EmbeddingNext

(* A vector is one of the text its row names, made by the model and versions *)
(* its row names (EmbeddingStageHandler._load_reusable, _embed_level).      *)
THEOREM VectorsAlwaysMatchText == EmbeddingSpec => []VectorsMatchText
<1>1. EmbeddingInv => VectorsMatchText
  BY DEF EmbeddingInv
<1> QED
  BY EmbeddingStarts, EmbeddingSteps, <1>1, PTL DEF EmbeddingSpec

LEMMA ItemsFinite ==
    ASSUME EmbeddingShape, NEW c \in Contract, NEW l \in Level
    PROVE  IsFiniteSet(Items(c, l))
<1> DEFINE text == content[c].text[l]
           item == [i \in DOMAIN text |-> [ref |-> <<c, IF l = Levels[1] THEN 0 ELSE content[c].generation, i>>,
                                           text |-> text[i]]]
<1>1. text \in Shape[l]
  BY DEF EmbeddingShape, Texts
<1>2. IsFiniteSet(DOMAIN text)
  BY <1>1, EmbeddingAssumption DEF Level
<1>3. /\ item \in [DOMAIN text -> Items(c, l)]
      /\ \A t \in Items(c, l) : \E i \in DOMAIN text : item[i] = t
  BY DEF Items
<1> HIDE DEF item
<1>4. PICK D : D = DOMAIN text
  OBVIOUS
<1> HIDE DEF text
<1> QED
  BY <1>2, <1>3, <1>4, OntoFinite

(* A contract nothing else worked on is indexed at a level as a whole or not *)
(* at all, in one space, and by what was extracted last (cleanup and run of *)
(* the embedding stage, cleanup of the extraction stage).                   *)
THEOREM LevelsAlwaysWhole == EmbeddingSpec => []LevelsWholeAndUnmixed
<1>1. ASSUME EmbeddingInv PROVE LevelsWholeAndUnmixed
  <2> SUFFICES ASSUME NEW c \in Contract \ contested, NEW level \in Level,
                      RowsAt(c, level) # {}
               PROVE  LET rows == RowsAt(c, level) IN
                      /\ {[ref |-> row.ref, text |-> row.text] : row \in rows} = Items(c, level)
                      /\ Cardinality(rows) = Cardinality(Items(c, level))
                      /\ Cardinality({row.space : row \in rows}) = 1
    BY DEF LevelsWholeAndUnmixed
  <2> DEFINE rows == RowsAt(c, level)
             items == Items(c, level)
             told == [row \in rows |-> [ref |-> row.ref, text |-> row.text]]
  <2>1. /\ {[ref |-> row.ref, text |-> row.text] : row \in rows} = items
        /\ \A r, s \in rows : r.space = s.space /\ (r.ref = s.ref /\ r.text = s.text => r = s)
    BY <1>1 DEF EmbeddingInv, LevelsWhole, Whole
  <2>2. IsFiniteSet(items)
    BY <1>1, ItemsFinite DEF EmbeddingInv
  <2> HIDE DEF rows, items
  <2>3. told \in Bijection(rows, items)
    <3>1. told \in [rows -> items] /\ \A t \in items : \E r \in rows : told[r] = t
      BY <2>1
    <3>2. \A r, s \in rows : told[r] = told[s] => r = s
      BY <2>1
    <3> HIDE DEF told
    <3> QED
      BY <3>1, <3>2 DEF Bijection, Injection, Surjection, IsInjective
  <2>4. Cardinality(rows) = Cardinality(items)
    <3>1. ExistsBijection(items, rows)
      BY <2>3, Fun_ExistsBijSymmetric DEF ExistsBijection
    <3> QED
      BY <2>2, <3>1, FS_Bijection
  <2>5. PICK r \in rows : TRUE
    BY DEF rows
  <2>6. {row.space : row \in rows} = {r.space}
    BY <2>1, <2>5
  <2>7. Cardinality({r.space}) = 1
    BY FS_Singleton
  <2> QED
    BY <2>1, <2>4, <2>6, <2>7 DEF rows, items
<1> QED
  BY EmbeddingStarts, EmbeddingSteps, <1>1, PTL DEF EmbeddingSpec

-----------------------------------------------------------------------------
(***************************************************************************)
(* Theorems about the plan of the calls, for every sequence of chunks, every *)
(* budget and every number of parts.                                       *)
(***************************************************************************)

(* The costs of the model, of any chunks and tokens: the sums below are    *)
(* over them.                                                              *)
ShareOf(ch, tk, c) == (tk[c] * Parts) \div Cardinality(ch[c])
PeakOf(ch, tk, S, k) == Max({ShareOf(ch, tk, c) : c \in {d \in S : k \in ch[d]}})
ChunksOf(ch, S) == UNION {ch[c] : c \in S}
CostOf(ch, tk, S) == MapThenSumSet(LAMBDA k : PeakOf(ch, tk, S, k), ChunksOf(ch, S))
Dear(cost) ==
    \/ 2 * cost > 2 * Parts * Budget + Parts
    \/ 2 * cost = 2 * Parts * Budget + Parts /\ Budget % 2 = 1

LEMMA CostIs == \A S : Cost(S) = CostOf(chunks, tokens, S) /\ (TooDear(S) <=> Dear(Cost(S)))
<1> TAKE S
<1>1. Cost(S) = CostOf(chunks, tokens, S)
  BY DEF Cost, CostOf, PeakOf, ShareOf, ChunksOf, Share
<1>2. TooDear(S) <=> Dear(Cost(S))
  BY DEF TooDear, Dear
<1> QED
  BY <1>1, <1>2

LEMMA PeakSum ==
    ASSUME NEW ch, NEW tk, NEW S, IsFiniteSet(ChunksOf(ch, S)), NEW f,
           \A k \in ChunksOf(ch, S) : f[k] = PeakOf(ch, tk, S, k) /\ f[k] \in Int
    PROVE  CostOf(ch, tk, S) = SumOver(f, ChunksOf(ch, S))
<1> DEFINE K == ChunksOf(ch, S)
<1>2. PICK g : Adds(g, f, K) /\ g[K] = SumOver(f, K)
  BY SumValue DEF Value
<1> DEFINE Unfold(h) == [s \in SUBSET K |->
                 IF s = {} THEN 0
                 ELSE PeakOf(ch, tk, S, CHOOSE x \in s : TRUE) + h[s \ {CHOOSE x \in s : TRUE}]]
<1>3. g = Unfold(g)
  <2>1. \A s \in SUBSET K : s # {} => Pick(s) \in K
    BY PickFacts
  <2>2. g = [s \in SUBSET K |-> g[s]]
    BY <1>2 DEF Adds
  <2>3. \A s \in SUBSET K : g[s] = IF s = {} THEN 0 ELSE PeakOf(ch, tk, S, Pick(s)) + g[s \ {Pick(s)}]
    BY <1>2, <2>1 DEF Adds
  <2> QED
    BY <2>2, <2>3 DEF Pick
<1> DEFINE h == CHOOSE h : h = Unfold(h)
<1>4. h = Unfold(h)
  BY <1>3
<1>5. CostOf(ch, tk, S) = h[K]
  BY DEF CostOf, MapThenSumSet, MapThenFoldSet
<1> HIDE DEF h
<1>6. \A s \in SUBSET K : h[s] = IF s = {} THEN 0 ELSE PeakOf(ch, tk, S, Pick(s)) + h[s \ {Pick(s)}]
  BY <1>4 DEF Pick
<1> HIDE DEF Unfold
<1>8. AddsUp(h, f, K)
  BY <1>6, PickFacts DEF AddsUp
<1>9. h[K] = g[K]
  BY <1>2, <1>8, AddsUnique
<1> QED
  BY <1>2, <1>5, <1>9

ClauseData(ch, tk) == ch \in [Clause -> SUBSET Chunk] /\ tk \in [Clause -> Tokens]

LEMMA ShareFacts ==
    ASSUME NEW ch, NEW tk, ClauseData(ch, tk), NEW c \in Clause, NEW k \in ch[c]
    PROVE  ShareOf(ch, tk, c) \in Nat
<1>1. tk[c] \in Nat /\ ch[c] \in SUBSET Chunk
  BY PlannerAssumption DEF ClauseData
<1>2. IsFiniteSet(ch[c]) /\ ch[c] # {}
  BY <1>1, PlannerAssumption, FS_Subset
<1>3. Cardinality(ch[c]) \in Nat \ {0}
  BY <1>2, FS_CardinalityType, FS_EmptySet
<1>4. tk[c] * Parts \in Nat
  BY <1>1, PlannerAssumption
<1>5. \A m \in Nat, n \in Nat \ {0} : m \div n \in Nat
  OBVIOUS
<1> QED
  BY <1>3, <1>4, <1>5 DEF ShareOf

LEMMA PeakFacts ==
    ASSUME NEW ch, NEW tk, ClauseData(ch, tk), NEW S \in SUBSET Clause, NEW k \in ChunksOf(ch, S)
    PROVE  /\ PeakOf(ch, tk, S, k) \in Nat
           /\ \A T \in SUBSET Clause : S \subseteq T => PeakOf(ch, tk, S, k) <= PeakOf(ch, tk, T, k)
<1> DEFINE Of(T) == {ShareOf(ch, tk, c) : c \in {d \in T : k \in ch[d]}}
<1>1. ASSUME NEW T \in SUBSET Clause, S \subseteq T
      PROVE  IsFiniteSet(Of(T)) /\ Of(T) # {} /\ \A n \in Of(T) : n \in Nat
  <2>1. \A n \in Of(T) : n \in Nat
    BY ShareFacts
  <2>2. Of(T) # {}
    BY <1>1 DEF ChunksOf
  <2> DEFINE D == {d \in T : k \in ch[d]}
             f == [c \in D |-> ShareOf(ch, tk, c)]
             R == Of(T)
  <2>3. IsFiniteSet(D)
    <3>1. IsFiniteSet(Clause)
      BY PlannerAssumption, FS_Interval DEF Clause
    <3> QED
      BY <3>1, FS_Subset
  <2>4. f \in [D -> R] /\ \A t \in R : \E x \in D : f[x] = t
    OBVIOUS
  <2> HIDE DEF D, f, R
  <2>5. IsFiniteSet(R)
    BY <2>3, <2>4, OntoFinite
  <2> QED
    BY <2>1, <2>2, <2>5 DEF R
<1>2. \A T : PeakOf(ch, tk, T, k) = Max(Of(T))
  BY DEF PeakOf
<1>3. \A T : S \subseteq T => Of(S) \subseteq Of(T)
  OBVIOUS
<1> HIDE DEF Of
<1>4. ASSUME NEW T \in SUBSET Clause, S \subseteq T
      PROVE  Max(Of(T)) \in Of(T) /\ \A n \in Of(T) : Max(Of(T)) >= n
  <2> DEFINE R == Of(T)
  <2>1. IsFiniteSet(R) /\ R # {} /\ \A n \in R : n \in Int
    BY <1>1, <1>4
  <2> HIDE DEF R
  <2>2. Max(R) \in R /\ \A y \in R : Max(R) >= y
    BY <2>1, MaxFacts
  <2> QED
    BY <2>2 DEF R
<1>5. Max(Of(S)) \in Of(S) /\ Max(Of(S)) \in Nat
  BY <1>1, <1>4
<1>6. ASSUME NEW T \in SUBSET Clause, S \subseteq T PROVE Max(Of(S)) <= Max(Of(T))
  <2>1. Max(Of(S)) \in Of(T)
    BY <1>3, <1>5, <1>6
  <2>2. Max(Of(T)) \in Nat /\ Max(Of(T)) >= Max(Of(S))
    BY <1>1, <1>4, <1>6, <2>1
  <2> QED
    BY <1>5, <2>2
<1> QED
  BY <1>2, <1>5, <1>6

(* More clauses never cost less.                                            *)
LEMMA CostMonotone ==
    ASSUME NEW ch, NEW tk, ClauseData(ch, tk), NEW T \in SUBSET Clause, NEW S \in SUBSET T
    PROVE  /\ CostOf(ch, tk, S) \in Int /\ CostOf(ch, tk, T) \in Int
           /\ CostOf(ch, tk, S) <= CostOf(ch, tk, T)
<1> DEFINE A == ChunksOf(ch, S)
           B == ChunksOf(ch, T)
           f == [k \in A |-> PeakOf(ch, tk, S, k)]
           h == [k \in B |-> PeakOf(ch, tk, T, k)]
<1>1. S \in SUBSET Clause /\ A \in SUBSET B /\ B \subseteq Chunk
  BY DEF ChunksOf, ClauseData
<1>2. IsFiniteSet(A) /\ IsFiniteSet(B)
  BY <1>1, PlannerAssumption, FS_Subset
<1>3. \A k \in A : f[k] = PeakOf(ch, tk, S, k) /\ f[k] \in Int /\ f[k] <= h[k]
  BY <1>1, PeakFacts
<1>4. \A k \in B : h[k] = PeakOf(ch, tk, T, k) /\ h[k] \in Int /\ h[k] >= 0
  BY PeakFacts
<1>5. A = ChunksOf(ch, S) /\ B = ChunksOf(ch, T)
  OBVIOUS
<1> HIDE DEF A, B, f, h
<1>6. CostOf(ch, tk, S) = SumOver(f, A)
  BY <1>2, <1>3, <1>5, PeakSum
<1>7. CostOf(ch, tk, T) = SumOver(h, B)
  BY <1>2, <1>4, <1>5, PeakSum
<1>8. SumOver(f, A) \in Int /\ SumOver(h, B) \in Int
  BY <1>2, <1>3, <1>4, SumIsInt
<1>9. SumOver(f, A) <= SumOver(h, B)
  BY <1>1, <1>2, <1>3, <1>4, SumMonotone
<1> QED
  BY <1>6, <1>7, <1>8, <1>9

LEMMA DearMonotone ==
    ASSUME ClauseData(chunks, tokens), NEW T \in SUBSET Clause, NEW S \in SUBSET T, TooDear(S)
    PROVE  TooDear(T)
<1> PICK m : m = CostOf(chunks, tokens, S)
  OBVIOUS
<1> PICK n : n = CostOf(chunks, tokens, T)
  OBVIOUS
<1>1. m \in Int /\ n \in Int /\ m <= n
  BY CostMonotone
<1>2. Dear(m) /\ (Dear(n) => TooDear(T))
  BY CostIs
<1> PICK half : half = 2 * Parts * Budget + Parts
  OBVIOUS
<1>3. half \in Int
  BY PlannerAssumption
<1>4. Dear(n)
  BY <1>1, <1>2, <1>3 DEF Dear
<1> QED
  BY <1>2, <1>4

LEMMA SeedFacts ==
    ASSUME NEW S \in SUBSET Clause, S # {}
    PROVE  SeedOf(S) \in S /\ \A d \in S : SeedOf(S) <= d
<1>1. IsFiniteSet(S) /\ \A x \in S : x \in Int
  <2>1. IsFiniteSet(Clause)
    BY PlannerAssumption, FS_Interval DEF Clause
  <2>2. IsFiniteSet(S)
    BY <2>1, FS_Subset
  <2> QED
    BY <2>2 DEF Clause
<1>2. Min(S) \in S /\ \A y \in S : Min(S) <= y
  BY <1>1, MinFacts
<1> QED
  BY <1>2 DEF SeedOf

LEMMA ClausesAreInts == \A c \in Clause : c \in Int
  BY PlannerAssumption DEF Clause

LEMMA SeedIs ==
    ASSUME NEW S \in SUBSET Clause, NEW s \in S, \A d \in S : s <= d
    PROVE  SeedOf(S) = s
<1>1. SeedOf(S) \in S /\ SeedOf(S) <= s /\ s <= SeedOf(S)
  BY SeedFacts
<1>2. s \in Int /\ SeedOf(S) \in Int
  BY <1>1, ClausesAreInts
<1> QED
  BY <1>1, <1>2

(***************************************************************************)
(* The inductive invariant.  That clauses are turned away for want of room *)
(* is not one by itself: it needs to be known that seeds come in the order *)
(* of the clauses, what the scan has passed by so far, and why each clause *)
(* that a finished batch refused was refused.                              *)
(***************************************************************************)
PlanShape ==
    /\ ClauseData(chunks, tokens)
    /\ batch \in SUBSET Clause /\ batches \in SUBSET (SUBSET Clause)
    /\ next \in 1 .. ClauseCount + 1

(* No clause is in two batches.                                            *)
Apart ==
    /\ \A b, d \in batches : b # d => b \cap d = {}
    /\ \A b \in batches : b # {} /\ b \cap batch = {}

(* A seed was the least clause without a batch.                            *)
SeedLeast(b) == \A c \in Clause : c < SeedOf(b) => c \in UNION batches

(* What is sent together is like its seed and within the limits.           *)
Fit(b) ==
    /\ \A c \in b : c # SeedOf(b) => Alike(SeedOf(b), c)
    /\ Cardinality(b) <= MaxBatch
    /\ Cardinality(b) > 1 => ~TooDear(b)

(* What the scan has passed by is taken, or too dear for the batch so      *)
(* far.                                                                    *)
Passed ==
    batch # {} => \A c \in Clause :
        c < next /\ Alike(SeedOf(batch), c) =>
            c \in UNION batches \/ c \in batch \/ TooDear(batch \union {c})

(* A clause like the seed that a batch with room does not have is too      *)
(* dear for it, or went into an earlier one.                               *)
Refused(b) ==
    Cardinality(b) < MaxBatch => \A c \in Clause :
        Alike(SeedOf(b), c) => \/ c \in b \/ TooDear(b \union {c})
                               \/ \E e \in batches : c \in e /\ SeedOf(e) < SeedOf(b)

PlanInv ==
    /\ PlanShape /\ Apart /\ Passed
    /\ batch # {} => SeedLeast(batch) /\ Fit(batch)
    /\ \A b \in batches : SeedLeast(b) /\ Fit(b) /\ Refused(b)

LEMMA PlanStart == PlannerInit => PlanInv
<1> SUFFICES ASSUME PlannerInit PROVE PlanInv
  OBVIOUS
<1>1. PlanShape
  BY PlannerAssumption DEF PlannerInit, PlanShape, ClauseData
<1> QED
  BY <1>1 DEF PlannerInit, PlanInv, Apart, Passed

LEMMA DearIs == \A S : TooDear(S) <=> Dear(CostOf(chunks, tokens, S))
  BY CostIs

(* Neither the evidence nor what it costs changes.                          *)
LEMMA EvidenceStands ==
    ASSUME UNCHANGED <<chunks, tokens>>
    PROVE  \A S : /\ TooDear(S)' <=> TooDear(S)
                  /\ \A c, d : Alike(c, d)' <=> Alike(c, d)
<1>1. (\A S : TooDear(S) <=> Dear(CostOf(chunks, tokens, S)))'
  BY DearIs, PTL
<1> TAKE S
<1>2. TooDear(S)' <=> Dear(CostOf(chunks', tokens', S))
  BY <1>1
<1>3. TooDear(S) <=> Dear(CostOf(chunks, tokens, S))
  BY CostIs
<1>4. \A c, d : Alike(c, d)' <=> Alike(c, d)
  BY DEF Alike
<1> QED
  BY <1>2, <1>3, <1>4

LEMMA StepSeeds ==
    ASSUME PlanInv, NEW c \in Clause, SeedBatch(c)
    PROVE  PlanInv'
<1>1. /\ batch = {} /\ c \notin UNION batches /\ (\A d \in Clause \ UNION batches : c <= d)
      /\ batch' = {c} /\ next' = 1 /\ UNCHANGED <<chunks, tokens, batches>>
      /\ PlanShape /\ Apart
  BY DEF SeedBatch, PlanInv, Assigned
<1>2. SeedOf({c}) = c /\ Cardinality({c}) = 1
  <2>1. {c} \in SUBSET Clause /\ c \in {c} /\ \A d \in {c} : c <= d
    BY DEF Clause
  <2> HIDE DEF Clause
  <2>2. SeedOf({c}) = c
    BY <2>1, SeedIs
  <2> QED
    BY <2>2, FS_Singleton
<1>3. \A S : (TooDear(S)' <=> TooDear(S)) /\ \A a, d : Alike(a, d)' <=> Alike(a, d)
  BY <1>1, EvidenceStands
<1>4. PlanShape'
  BY <1>1, PlannerAssumption DEF PlanShape, ClauseData
<1>5. Apart'
  BY <1>1 DEF Apart
<1>6. Passed'
  BY <1>1 DEF Passed, Clause
<1>7. SeedLeast(batch)'
  <2>1. \A d \in Clause : d < c => d \in UNION batches
    BY <1>1 DEF Clause
  <2>2. SeedOf(batch)' = c
    BY <1>1, <1>2 DEF SeedOf
  <2> QED
    BY <1>1, <2>1, <2>2 DEF SeedLeast
<1>8. Fit(batch)'
  <2>1. MaxBatch \in Nat \ {0}
    BY PlannerAssumption
  <2>2. SeedOf(batch') = c /\ Cardinality(batch') = 1 /\ batch' = {c}
    BY <1>1, <1>2
  <2> QED
    BY <2>1, <2>2 DEF Fit
<1>9. ASSUME NEW b \in batches' PROVE (SeedLeast(b) /\ Fit(b) /\ Refused(b))'
  <2>1. SeedLeast(b) /\ Fit(b) /\ Refused(b)
    BY <1>1 DEF PlanInv
  <2>2. SeedLeast(b)'
    BY <1>1, <2>1 DEF SeedLeast
  <2>3. Fit(b)'
    BY <1>3, <2>1 DEF Fit
  <2>4. Refused(b)'
    BY <1>1, <1>3, <2>1 DEF Refused
  <2> QED
    BY <2>2, <2>3, <2>4
<1> QED
  BY <1>4, <1>5, <1>6, <1>7, <1>8, <1>9 DEF PlanInv

LEMMA StepConsiders ==
    ASSUME PlanInv, Consider
    PROVE  PlanInv'
<1>1. /\ batch # {} /\ next \in Clause /\ Cardinality(batch) < MaxBatch
      /\ batch' = IF Joins(next) THEN batch \union {next} ELSE batch
      /\ next' = next + 1 /\ UNCHANGED <<chunks, tokens, batches>>
      /\ PlanShape /\ Apart /\ SeedLeast(batch) /\ Fit(batch) /\ Passed
  BY DEF Consider, Scanning, PlanInv
<1>2. \A S : (TooDear(S)' <=> TooDear(S)) /\ \A a, d : Alike(a, d)' <=> Alike(a, d)
  BY <1>1, EvidenceStands
<1>3. batch \subseteq batch' /\ batch' \in SUBSET Clause
  BY <1>1 DEF PlanShape
<1>4. PlanShape'
  <2>1. next' \in 1 .. ClauseCount + 1
    BY <1>1, PlannerAssumption DEF Clause
  <2> QED
    BY <1>1, <1>3, <2>1 DEF PlanShape, ClauseData
<1>5. Joins(next) => /\ next \notin UNION batches /\ next \notin batch
                     /\ Alike(SeedOf(batch), next) /\ ~TooDear(batch \union {next})
  BY DEF Joins, Assigned
<1>6. Apart'
  BY <1>1, <1>5 DEF Apart
<1>7. SeedOf(batch') = SeedOf(batch)
  <2>1. SeedOf(batch) \in batch /\ \A d \in batch : SeedOf(batch) <= d
    BY <1>1, SeedFacts DEF PlanShape
  <2>2. Joins(next) => SeedOf(batch) <= next
    <3>1. next \in Int /\ SeedOf(batch) \in Int
      BY <1>1, <2>1, ClausesAreInts DEF PlanShape
    <3> QED
      BY <1>1, <1>5, <3>1 DEF SeedLeast
  <2>3. \A d \in batch' : SeedOf(batch) <= d
    BY <1>1, <2>1, <2>2
  <2> QED
    BY <1>3, <2>1, <2>3, SeedIs
<1>8. SeedOf(batch)' = SeedOf(batch)
  BY <1>7 DEF SeedOf
<1>9. SeedLeast(batch)'
  BY <1>1, <1>8 DEF SeedLeast
<1>10. Fit(batch)'
  <2>1. \A c \in batch' : c # SeedOf(batch) => Alike(SeedOf(batch), c)
    BY <1>1, <1>5 DEF Fit
  <2>2. Cardinality(batch') <= MaxBatch
    <3>1. IsFiniteSet(batch)
      <4>1. IsFiniteSet(Clause)
        BY PlannerAssumption, FS_Interval DEF Clause
      <4> QED
        BY <1>1, <4>1, FS_Subset DEF PlanShape
    <3>2. Cardinality(batch) \in Nat
      BY <3>1, FS_CardinalityType
    <3>3. CASE batch' = batch
      BY <1>1, <3>3 DEF Fit
    <3>4. CASE batch' = batch \union {next} /\ next \notin batch
      <4>1. Cardinality(batch \union {next}) = Cardinality(batch) + 1
        BY <3>1, <3>4, FS_AddElement
      <4>2. Cardinality(batch') = Cardinality(batch) + 1
        BY <3>4, <4>1
      <4> QED
        BY <1>1, <3>2, <4>2, PlannerAssumption
    <3> QED
      BY <1>1, <1>5, <3>3, <3>4
  <2>3. Cardinality(batch') > 1 => ~TooDear(batch')
    BY <1>1, <1>5 DEF Fit
  <2>4. Cardinality(batch)' = Cardinality(batch')
    OBVIOUS
  <2>5. TooDear(batch)' <=> TooDear(batch')
    <3>1. PICK S : S = batch'
      OBVIOUS
    <3>2. TooDear(S)' <=> TooDear(S)
      BY <1>2
    <3> QED
      BY <3>1, <3>2
  <2> QED
    BY <1>2, <1>8, <2>1, <2>2, <2>3, <2>5 DEF Fit
<1>11. Passed'
  <2> SUFFICES ASSUME NEW c \in Clause, c < next', Alike(SeedOf(batch), c),
                      c \notin UNION batches, c \notin batch'
               PROVE  TooDear(batch' \union {c})
    BY <1>1, <1>2, <1>8 DEF Passed
  <2>1. CASE c < next
    <3>1. TooDear(batch \union {c})
      BY <1>1, <1>3, <2>1 DEF Passed
    <3>2. batch \union {c} \in SUBSET (batch' \union {c}) /\ batch' \union {c} \in SUBSET Clause
      BY <1>3
    <3> QED
      BY <1>1, <3>1, <3>2, DearMonotone DEF PlanShape
  <2>2. CASE ~(c < next)
    <3>1. c = next
      BY <1>1, <2>2, PlannerAssumption DEF Clause
    <3>2. ~Joins(next) /\ batch' = batch
      BY <1>1, <3>1
    <3> QED
      BY <3>1, <3>2 DEF Joins, Assigned
  <2> QED
    BY <2>1, <2>2
<1>12. ASSUME NEW b \in batches' PROVE (SeedLeast(b) /\ Fit(b) /\ Refused(b))'
  <2>1. SeedLeast(b) /\ Fit(b) /\ Refused(b)
    BY <1>1 DEF PlanInv
  <2>2. SeedLeast(b)'
    BY <1>1, <2>1 DEF SeedLeast
  <2>3. Fit(b)'
    BY <1>2, <2>1 DEF Fit
  <2>4. Refused(b)'
    BY <1>1, <1>2, <2>1 DEF Refused
  <2> QED
    BY <2>2, <2>3, <2>4
<1> QED
  BY <1>4, <1>6, <1>9, <1>10, <1>11, <1>12 DEF PlanInv

LEMMA StepClosesBatch ==
    ASSUME PlanInv, CloseBatch
    PROVE  PlanInv'
<1>1. /\ batch # {} /\ ~Scanning /\ batches' = batches \union {batch} /\ batch' = {} /\ next' = 1
      /\ UNCHANGED <<chunks, tokens>>
      /\ PlanShape /\ Apart /\ SeedLeast(batch) /\ Fit(batch) /\ Passed
  BY DEF CloseBatch, PlanInv
<1>2. \A S : (TooDear(S)' <=> TooDear(S)) /\ \A a, d : Alike(a, d)' <=> Alike(a, d)
  BY <1>1, EvidenceStands
<1>3. PlanShape'
  BY <1>1, PlannerAssumption DEF PlanShape, ClauseData
<1>4. Apart'
  BY <1>1 DEF Apart
<1>5. Passed'
  BY <1>1 DEF Passed
<1>6. \A b : SeedLeast(b) => SeedLeast(b)'
  BY <1>1 DEF SeedLeast
<1>7. \A b : Fit(b) => Fit(b)'
  BY <1>2 DEF Fit
<1>8. \A b : Refused(b) => Refused(b)'
  BY <1>1, <1>2 DEF Refused
<1>9. Refused(batch)
  <2> SUFFICES ASSUME Cardinality(batch) < MaxBatch, NEW c \in Clause, Alike(SeedOf(batch), c),
                      c \notin batch, ~TooDear(batch \union {c})
               PROVE  \E e \in batches : c \in e /\ SeedOf(e) < SeedOf(batch)
    BY DEF Refused
  <2>1. c < next
    <3>1. next \notin Clause /\ next \in 1 .. ClauseCount + 1
      BY <1>1 DEF Scanning, PlanShape
    <3> QED
      BY <3>1, PlannerAssumption DEF Clause
  <2>2. PICK e \in batches : c \in e
    BY <1>1, <2>1 DEF Passed
  <2>3. /\ SeedOf(e) \in e /\ SeedOf(e) \in Clause
        /\ SeedOf(batch) \in batch /\ SeedOf(batch) \in Clause
    BY <1>1, <2>2, SeedFacts DEF PlanShape
  <2>4. SeedOf(batch) \notin UNION batches /\ SeedOf(e) \notin batch
    BY <1>1, <2>2, <2>3 DEF Apart
  <2>5. ~(SeedOf(batch) < SeedOf(e)) /\ SeedOf(e) # SeedOf(batch)
    BY <2>2, <2>3, <2>4 DEF PlanInv, SeedLeast
  <2>6. SeedOf(e) \in Int /\ SeedOf(batch) \in Int
    BY <2>3, ClausesAreInts
  <2> QED
    BY <2>2, <2>5, <2>6
<1>10. \A b \in batches' : (SeedLeast(b) /\ Fit(b) /\ Refused(b))
  BY <1>1, <1>9 DEF PlanInv
<1>11. \A b \in batches' : SeedLeast(b)' /\ Fit(b)' /\ Refused(b)'
  BY <1>6, <1>7, <1>8, <1>10
<1>12. batch' = {}
  BY <1>1
<1> QED
  BY <1>3, <1>4, <1>5, <1>11, <1>12 DEF PlanInv

LEMMA PlanGoesOn == PlanInv /\ [PlannerNext]_plannerVars => PlanInv'
<1> SUFFICES ASSUME PlanInv, [PlannerNext]_plannerVars PROVE PlanInv'
  OBVIOUS
<1>1. ASSUME NEW c \in Clause, SeedBatch(c) PROVE PlanInv'
  BY <1>1, StepSeeds
<1>2. CASE Consider
  BY <1>2, StepConsiders
<1>3. CASE CloseBatch
  BY <1>3, StepClosesBatch
<1>4. CASE UNCHANGED plannerVars
  <2>1. UNCHANGED <<chunks, tokens, batches, batch, next>>
    BY <1>4 DEF plannerVars
  <2>2. \A S : (TooDear(S)' <=> TooDear(S)) /\ \A a, d : Alike(a, d)' <=> Alike(a, d)
    BY <2>1, EvidenceStands
  <2>3. PlanShape' /\ Apart'
    BY <2>1 DEF PlanInv, PlanShape, ClauseData, Apart
  <2>4. SeedOf(batch)' = SeedOf(batch)
    BY <2>1 DEF SeedOf
  <2>5. Passed'
    BY <2>1, <2>2, <2>4 DEF PlanInv, Passed
  <2>6. \A b : /\ SeedLeast(b) => SeedLeast(b)'
               /\ Fit(b) => Fit(b)'
               /\ Refused(b) => Refused(b)'
    BY <2>1, <2>2 DEF SeedLeast, Fit, Refused
  <2>7. batch' # {} => (SeedLeast(batch) /\ Fit(batch))'
    <3> PICK b : b = batch
      OBVIOUS
    <3>1. b # {} => SeedLeast(b)' /\ Fit(b)'
      BY <2>6 DEF PlanInv
    <3>2. SeedLeast(batch)' = SeedLeast(b)' /\ Fit(batch)' = Fit(b)'
      BY <2>1 DEF SeedLeast, Fit, SeedOf
    <3> QED
      BY <2>1, <3>1, <3>2
  <2> QED
    BY <2>1, <2>3, <2>5, <2>6, <2>7 DEF PlanInv
<1> QED
  BY <1>1, <1>2, <1>3, <1>4 DEF PlannerNext

(* The strengthening is an invariant of every plan.                         *)
THEOREM PlansAlwaysInv == PlannerSpec => []PlanInv
  BY PlanStart, PlanGoesOn, PTL DEF PlannerSpec

(* Whatever the clauses, their evidence, the limit and the budget: no       *)
(* clause is asked for twice, what is sent together is like its seed and    *)
(* fits, and a clause is left for a later call only where the earlier one   *)
(* has no room for it (plan_batches).                                       *)
THEOREM PlansAlwaysSound == PlannerSpec => []PlanIsSound
<1>1. PlanInv => PlanIsSound
  <2> SUFFICES ASSUME PlanInv PROVE PlanIsSound
    OBVIOUS
  <2>1. PlanShape /\ Apart
    BY DEF PlanInv
  <2>2. EveryClauseOnce
    BY <2>1 DEF Apart, EveryClauseOnce
  <2>3. BatchesFit
    <3>1. ASSUME batch = {} PROVE Fit(batch)
      <4>1. Cardinality(batch) = 0 /\ MaxBatch \in Nat \ {0}
        BY <3>1, FS_EmptySet, PlannerAssumption
      <4> QED
        BY <3>1, <4>1 DEF Fit
    <3>2. \A b \in batches \union {batch} : Fit(b)
      BY <3>1 DEF PlanInv
    <3> QED
      BY <3>2 DEF BatchesFit, Fit
  <2>4. TurnedAwayForRoom
    <3> SUFFICES ASSUME NEW b \in batches, NEW d \in batches \union {batch}, d # {},
                        Cardinality(b) < MaxBatch, NEW c \in d,
                        SeedOf(b) < SeedOf(d), Alike(SeedOf(b), c)
                 PROVE  TooDear(b \union {c})
      BY DEF TurnedAwayForRoom
    <3>1. SeedOf(b) \in Int /\ SeedOf(d) \in Int /\ c \in Clause
      <4>1. b # {} /\ b \in SUBSET Clause /\ d \in SUBSET Clause
        BY <2>1 DEF Apart, PlanShape
      <4> QED
        BY <4>1, SeedFacts, ClausesAreInts
    <3>2. b # d
      BY <3>1
    <3>3. c \notin b
      BY <2>1, <3>2 DEF Apart
    <3>4. ASSUME NEW e \in batches, c \in e PROVE ~(SeedOf(e) < SeedOf(b))
      <4>1. e = d
        BY <2>1, <3>4 DEF Apart
      <4> QED
        BY <3>1, <4>1
    <3> QED
      BY <3>1, <3>3, <3>4 DEF PlanInv, Refused
  <2> QED
    BY <2>2, <2>3, <2>4 DEF PlanIsSound
<1> QED
  BY <1>1, PlansAlwaysInv, PTL

-----------------------------------------------------------------------------
(***************************************************************************)
(* Theorems about the search for clauses, for every document and profile and *)
(* every size of windows and waves.                                        *)
(***************************************************************************)

Find == [text : SUBSET Int, heading : Int \union {NotFound}, window : Int]

LEMMA ParagraphFacts ==
    /\ IsFiniteSet(Paragraph) /\ \A p \in Paragraph : p \in Int
    /\ Heading \subseteq Paragraph /\ Heading \subseteq Stops
<1>1. Paragraph = 1 .. Len(PageOf) /\ Len(PageOf) \in Nat
  BY SectionsAssumption DEF SectionsAssumption, Paragraph
<1>2. IsFiniteSet(Paragraph) /\ \A p \in Paragraph : p \in Int
  BY <1>1, FS_Interval
<1> QED
  BY <1>2 DEF Heading, Stops

LEMMA ExtentFacts ==
    ASSUME NEW h \in Heading
    PROVE  /\ h \in Extent(h) /\ Extent(h) \subseteq Paragraph
           /\ \A k \in Heading : k # h => Extent(h) \cap Extent(k) = {}
<1>1. h \in Extent(h) /\ Extent(h) \subseteq Paragraph
  BY ParagraphFacts DEF Extent
<1>2. ASSUME NEW a \in Heading, NEW b \in Heading, a < b PROVE Extent(a) \cap Extent(b) = {}
  <2> SUFFICES ASSUME NEW p \in Extent(a), p \in Extent(b) PROVE FALSE
    OBVIOUS
  <2>1. p \in Int /\ a \in Int /\ b \in Int /\ b <= p /\ \A q \in a + 1 .. p : q \notin Stops
    BY ParagraphFacts DEF Extent
  <2>2. b \in a + 1 .. p /\ b \in Stops
    BY <1>2, <2>1, ParagraphFacts
  <2> QED
    BY <2>1, <2>2
<1>3. ASSUME NEW k \in Heading, k # h PROVE Extent(h) \cap Extent(k) = {}
  <2>1. h \in Int /\ k \in Int
    BY ParagraphFacts
  <2>2. h < k \/ k < h
    BY <1>3, <2>1
  <2> QED
    BY <1>2, <2>2
<1> QED
  BY <1>1, <1>3

LEMMA BodyFacts ==
    ASSUME NEW n, NEW a \in Body(n)
    PROVE  a \in Paragraph /\ Max(Body(n)) \in Int /\ a <= Max(Body(n))
<1>1. Body(n) \subseteq Paragraph /\ Body(n) # {}
  BY DEF Body
<1> DEFINE B == Body(n)
<1>2. IsFiniteSet(B) /\ B # {} /\ \A x \in B : x \in Int
  BY <1>1, ParagraphFacts, FS_Subset
<1> HIDE DEF B
<1>3. Max(B) \in B /\ \A y \in B : Max(B) >= y
  BY <1>2, MaxFacts
<1>4. Max(Body(n)) \in Body(n) /\ a <= Max(Body(n)) /\ Max(Body(n)) \in Int
  <2>1. Max(B) \in Int /\ \A y \in B : Max(B) >= y /\ y \in Int
    BY <1>2, <1>3
  <2> QED
    BY <1>3, <2>1 DEF B
<1> QED
  BY <1>1, <1>4

(* What a window's text is continued with is at most MaxRepair paragraphs,  *)
(* none of them a heading or further away than a page.                      *)
LEMMA RepairedFacts ==
    ASSUME NEW n, NEW t \in Spans(n), t.refs # {}
    PROVE  /\ Repaired(t, n) # {} /\ Repaired(t, n) \subseteq Int
           /\ LET beyond == {p \in Repaired(t, n) : p > Max(Body(n))}
              IN  /\ beyond \cap Heading = {} /\ Cardinality(beyond) <= MaxRepair
                  /\ \A p \in beyond : PageOf[p] <= PageOf[Max(Body(n))] + 1
<1>1. PICK a \in Body(n), b \in Body(n) : t = [refs |-> a .. b, last |-> b]
  BY DEF Spans
<1>2. t.refs = a .. b /\ t.last = b
  BY <1>1
<1> PICK top : top = Max(Body(n))
  OBVIOUS
<1>3. a \in Int /\ b \in Int /\ top \in Int /\ b <= top
  BY BodyFacts, ParagraphFacts
<1> DEFINE more == {p \in Paragraph : Goes(t, n, p)}
           beyond == {p \in Repaired(t, n) : p > top}
<1>4. \A p \in more : p \in Int /\ p > b /\ p <= b + MaxRepair /\ p \notin Stops
  <2> SUFFICES ASSUME NEW p \in Paragraph, Goes(t, n, p)
               PROVE  p \in Int /\ p > b /\ p <= b + MaxRepair /\ p \notin Stops
    OBVIOUS
  <2>1. p \in Int /\ p > b /\ p <= b + MaxRepair /\ \A q \in b + 1 .. p : q \notin Stops
    BY <1>2, ParagraphFacts DEF Goes
  <2> QED
    BY <1>3, <2>1
<1>p. \A p \in more : b = top /\ PageOf[p] <= PageOf[b] + 1
  <2> SUFFICES ASSUME NEW p \in Paragraph, Goes(t, n, p)
               PROVE  b = top /\ PageOf[p] <= PageOf[b] + 1
    OBVIOUS
  <2>1. /\ b = top /\ p > b /\ p \in Int
        /\ \A q \in b + 1 .. p : PageOf[q] <= PageOf[b] + 1
    BY <1>2, ParagraphFacts DEF Goes
  <2>2. p \in b + 1 .. p
    BY <1>3, <2>1
  <2> QED
    BY <2>1, <2>2
<1>5. Repaired(t, n) = (a .. b) \union more
  BY <1>2 DEF Repaired
<1> HIDE DEF more
<1>6. Repaired(t, n) # {} /\ Repaired(t, n) \subseteq Int
  BY <1>2, <1>3, <1>4, <1>5
<1>7. beyond \subseteq more
  BY <1>3, <1>5
<1>8. beyond \cap Heading = {} /\ \A p \in beyond : PageOf[p] <= PageOf[top] + 1
  BY <1>4, <1>p, <1>7, ParagraphFacts
<1>9. Cardinality(beyond) <= MaxRepair
  <2>1. beyond \subseteq b + 1 .. b + MaxRepair
    BY <1>3, <1>4, <1>7, DetectionAssumption
  <2>2. IsFiniteSet(b + 1 .. b + MaxRepair) /\ Cardinality(b + 1 .. b + MaxRepair) = MaxRepair
    <3>1. MaxRepair \in Nat
      BY DetectionAssumption DEF DetectionAssumption
    <3> PICK i, j : i = b + 1 /\ j = b + MaxRepair
      OBVIOUS
    <3>2. i \in Int /\ j \in Int /\ (i > j => MaxRepair = 0) /\ j - i + 1 = MaxRepair
      BY <1>3, <3>1
    <3>3. IsFiniteSet(i .. j) /\ Cardinality(i .. j) = IF i > j THEN 0 ELSE j - i + 1
      BY <3>2, FS_Interval
    <3> QED
      BY <3>2, <3>3
  <2> HIDE DEF beyond
  <2>3. Cardinality(beyond) <= Cardinality(b + 1 .. b + MaxRepair)
    BY <2>1, <2>2, FS_Subset
  <2> QED
    BY <2>2, <2>3
<1> QED
  BY <1>6, <1>8, <1>9

(***************************************************************************)
(* The windows                                                             *)
(***************************************************************************)

LEMMA DivBounds ==
    ASSUME NEW x \in Int, NEW s \in Int, s > 0
    PROVE  (x \div s) \in Int /\ (x \div s) * s <= x /\ x < (x \div s) * s + s
<1>1. (x \div s) \in Int
  OBVIOUS
<1>2. (x \div s) * s <= x /\ x < (x \div s) * s + s
  OBVIOUS
<1> QED
  BY <1>1, <1>2

LEMMA TimesMonotone ==
    ASSUME NEW a \in Int, NEW b \in Int, NEW s \in Int, s > 0, a >= b
    PROVE  a * s >= b * s
  OBVIOUS

LEMMA DivMonotone ==
    ASSUME NEW x \in Int, NEW y \in Int, NEW s \in Int, s > 0, x <= y
    PROVE  (x \div s) <= (y \div s)
<1> PICK p, q : p = x \div s /\ q = y \div s
  OBVIOUS
<1>1. p \in Int /\ q \in Int /\ p * s <= x /\ y < q * s + s
  BY DivBounds
<1>2. ASSUME p >= q + 1 PROVE FALSE
  <2>1. p * s >= (q + 1) * s
    BY <1>1, <1>2, TimesMonotone
  <2>2. (q + 1) * s = q * s + s
    BY <1>1
  <2> QED
    BY <1>1, <2>1, <2>2
<1> QED
  BY <1>1, <1>2

LEMMA MaxOfTwo ==
    ASSUME NEW i \in Int, NEW j \in Int
    PROVE  Max({i, j}) = IF i < j THEN j ELSE i
<1> DEFINE S == {i, j}
<1>1. IsFiniteSet({i}) /\ IsFiniteSet(S)
  BY FS_EmptySet, FS_AddElement
<1>2. S # {} /\ \A x \in S : x \in Int
  OBVIOUS
<1> HIDE DEF S
<1>3. Max(S) \in S /\ \A y \in S : Max(S) >= y
  BY <1>1, <1>2, MaxFacts
<1>4. Max({i, j}) \in {i, j} /\ \A y \in {i, j} : Max({i, j}) >= y
  BY <1>3 DEF S
<1> QED
  BY <1>4

LEMMA StepFacts == Step \in Int /\ 0 < Step /\ Step <= ChunkPages
<1>1. ChunkPages \in Nat \ {0} /\ ChunkOverlap \in Nat
  BY DetectionAssumption DEF DetectionAssumption
<1> PICK d : d = ChunkPages - ChunkOverlap
  OBVIOUS
<1>2. d \in Int /\ d <= ChunkPages
  BY <1>1
<1>3. Step = IF 1 < d THEN d ELSE 1
  BY <1>2, MaxOfTwo DEF Step
<1> QED
  BY <1>1, <1>2, <1>3

LEMMA WindowCountFacts ==
    /\ WindowCount \in Nat
    /\ PageCount # 0 =>
         /\ WindowCount >= 1
         /\ PageCount > ChunkPages =>
              WindowCount = 1 + (PageCount - ChunkPages + Step - 1) \div Step
<1>1. PageCount \in Nat /\ ChunkPages \in Nat
  BY DetectionAssumption DEF DetectionAssumption
<1> PICK d, s : d = PageCount - ChunkPages /\ s = Step
  OBVIOUS
<1>2. d \in Int /\ s \in Int /\ s > 0
  BY <1>1, StepFacts
<1> PICK m : m = IF 0 < d THEN d ELSE 0
  OBVIOUS
<1>3. m \in Nat /\ m = Max({0, d})
  <2>1. Max({0, d}) = m
    BY <1>2, MaxOfTwo
  <2> QED
    BY <1>2, <2>1
<1> PICK k : k = (m + s - 1) \div s
  OBVIOUS
<1>4. k \in Int /\ k >= 0
  <2>1. m + s - 1 \in Int /\ m + s - 1 >= 0
    BY <1>2, <1>3
  <2>2. k \in Int /\ m + s - 1 < k * s + s
    BY <1>2, <2>1, DivBounds
  <2>3. ASSUME 0 - 1 >= k PROVE FALSE
    <3>1. (0 - 1) * s >= k * s
      BY <1>2, <2>2, <2>3, TimesMonotone
    <3> QED
      BY <1>2, <2>1, <2>2, <3>1
  <2> QED
    BY <2>2, <2>3
<1>5. WindowCount = IF PageCount = 0 THEN 0 ELSE 1 + k
  BY <1>3 DEF WindowCount
<1>6. PageCount > ChunkPages => m = d /\ k = (PageCount - ChunkPages + Step - 1) \div Step
  BY <1>1, <1>2
<1> QED
  BY <1>4, <1>5, <1>6

(* The windows leave no page out, wherever the last one ends.              *)
LEMMA WindowsCover == UNION {Window(n) : n \in 1 .. WindowCount} = 1 .. PageCount
<1>1. ASSUME NEW g \in 1 .. PageCount PROVE \E n \in 1 .. WindowCount : g \in Window(n)
  <2>1. PageCount \in Nat /\ ChunkPages \in Nat /\ g \in Int /\ 1 <= g /\ g <= PageCount
    BY DetectionAssumption DEF DetectionAssumption
  <2>2. CASE g <= ChunkPages
    <3>1. 1 \in 1 .. WindowCount
      BY <2>1, WindowCountFacts
    <3>2. g \in Window(1)
      BY <2>1, <2>2, StepFacts DEF Window
    <3> QED
      BY <3>1, <3>2
  <2>3. CASE g > ChunkPages
    <3> PICK s, d : s = Step /\ d = g - ChunkPages
      OBVIOUS
    <3> PICK e : e = PageCount - ChunkPages
      OBVIOUS
    <3>1. s \in Int /\ s > 0 /\ s <= ChunkPages /\ d \in Int /\ e \in Int /\ d <= e /\ d > 0
      BY <2>1, <2>3, StepFacts
    <3> PICK q : q = (d + s - 1) \div s
      OBVIOUS
    <3>2. q \in Int /\ q * s <= d + s - 1 /\ d + s - 1 < q * s + s
      BY <3>1, DivBounds
    <3>3. q <= (e + s - 1) \div s
      BY <3>1, DivMonotone
    <3>4. q >= 0
      <4>1. ASSUME 0 - 1 >= q PROVE FALSE
        <5>1. (0 - 1) * s >= q * s
          BY <3>1, <3>2, <4>1, TimesMonotone
        <5> QED
          BY <3>1, <3>2, <5>1
      <4> QED
        BY <3>2, <4>1
    <3>5. WindowCount = 1 + (e + s - 1) \div s /\ (e + s - 1) \div s \in Int
      BY <2>1, <2>3, <3>1, WindowCountFacts, DivBounds
    <3>6. 1 + q \in 1 .. WindowCount
      BY <3>2, <3>3, <3>4, <3>5
    <3>7. (1 + q) - 1 = q /\ q * s \in Int
      BY <3>1, <3>2
    <3>8. q * s < g /\ g <= q * s + ChunkPages
      BY <2>1, <3>1, <3>2, <3>7
    <3>9. g \in Window(1 + q)
      BY <3>7, <3>8 DEF Window
    <3> QED
      BY <3>6, <3>9
  <2> QED
    BY <2>1, <2>2, <2>3
<1>2. ASSUME NEW n \in 1 .. WindowCount PROVE Window(n) \subseteq 1 .. PageCount
  BY DEF Window
<1> QED
  BY <1>1, <1>2

(***************************************************************************)
(* The inductive invariant                                                 *)
(***************************************************************************)

(* The passes are in order: nothing is searched before the last of the     *)
(* headings, and nothing is left unread before the end.                    *)
PassesInOrder ==
    /\ wave \in Nat \ {0}
    /\ pass \in {"headings", "mapping", "extents", "splitting", "searching", "done"}
    /\ pass \in {"headings", "mapping", "extents", "splitting"} =>
         wave = 1 /\ answers = <<>> /\ \A c \in Target : reported[c] = 0
    /\ pass # "done" => neverRead = {}

FoundTexts(n) == {t \in Spans(n) : t.refs # {}}

(* Each answer of the wave in hand is about the clauses that were          *)
(* outstanding when it began, which are still outstanding.                 *)
AnswersAreAsked ==
    /\ IsFiniteSet(DOMAIN answers)
    /\ \A n \in DOMAIN answers :
          /\ n \in Int /\ n > 0
          /\ answers[n] \in [Unlocated -> FoundTexts(n) \union {NotFound}]

(* Until a wave is finished, what a clause is reported in is the first of   *)
(* the answers that have it.                                               *)
FirstReported(c) ==
    /\ Finders(c) = {} => reported[c] = 0
    /\ Finders(c) # {} => reported[c] \in Finders(c) /\ \A n \in Finders(c) : reported[c] <= n

FindsAreKept ==
    /\ reported \in [Target -> Int]
    /\ \A c \in Target :
          /\ located[c] = NotFound => FirstReported(c)
          /\ located[c] # NotFound /\ reported[c] # 0 => located[c].window = reported[c]

UnderHeading(f) ==
    /\ f.window = 0 /\ f.heading \in Heading
    /\ f.text \subseteq Extent(f.heading) /\ f.text # {}

FromWindow(f) ==
    /\ f.window # 0 /\ f.heading = NotFound
    /\ \E t \in FoundTexts(f.window) : f.text = Repaired(t, f.window)

(* A text is a part of the section of its heading, or what one answer says, *)
(* continued.                                                              *)
TextsInPlace ==
    /\ taken \in [Target -> Heading \union {NotFound}]
    /\ DOMAIN located = Target
    /\ \A f \in {located[c] : c \in Target} : f # NotFound => UnderHeading(f) \/ FromWindow(f)

DetectInv == PassesInOrder /\ AnswersAreAsked /\ FindsAreKept /\ TextsInPlace

LEMMA InvGivesFirstFind == DetectInv => FirstFindKept
<1> SUFFICES ASSUME DetectInv, answers = <<>>, NEW c \in Target, reported[c] # 0
             PROVE  located[c] # NotFound /\ located[c].window = reported[c]
  BY DEF FirstFindKept
<1>1. Finders(c) = {}
  BY DEF Finders
<1> QED
  BY <1>1 DEF DetectInv, FindsAreKept, FirstReported

LEMMA FoundTextFacts ==
    ASSUME NEW n, NEW t \in FoundTexts(n)
    PROVE  t \in Spans(n) /\ t.refs # {}
  BY DEF FoundTexts

LEMMA InvGivesApart == DetectInv => SectionsApart
<1> SUFFICES ASSUME TextsInPlace PROVE SectionsApart
  BY DEF DetectInv
<1>1. ASSUME NEW c \in Target, located[c] # NotFound
      PROVE  /\ located[c].text # {}
             /\ located[c].window # 0 =>
                  LET beyond == {p \in located[c].text : p > Max(Body(located[c].window))}
                  IN  /\ beyond \cap Heading = {} /\ Cardinality(beyond) <= MaxRepair
                      /\ \A p \in beyond : PageOf[p] <= PageOf[Max(Body(located[c].window))] + 1
  <2> PICK f : f = located[c]
    OBVIOUS
  <2>1. UnderHeading(f) \/ FromWindow(f)
    BY <1>1 DEF TextsInPlace
  <2>2. CASE UnderHeading(f)
    BY <2>2 DEF UnderHeading
  <2>3. CASE FromWindow(f)
    <3> PICK n : n = f.window
      OBVIOUS
    <3>1. PICK t \in FoundTexts(n) : f.text = Repaired(t, n)
      BY <2>3 DEF FromWindow
    <3>2. t \in Spans(n) /\ t.refs # {}
      BY FoundTextFacts
    <3>3. /\ Repaired(t, n) # {}
          /\ LET beyond == {p \in Repaired(t, n) : p > Max(Body(n))}
             IN  /\ beyond \cap Heading = {} /\ Cardinality(beyond) <= MaxRepair
                 /\ \A p \in beyond : PageOf[p] <= PageOf[Max(Body(n))] + 1
      BY <3>2, RepairedFacts
    <3> QED
      BY <3>1, <3>3
  <2> QED
    BY <2>1, <2>2, <2>3
<1>2. ASSUME NEW c \in Target, NEW d \in Target,
             located[c] # NotFound, located[d] # NotFound,
             NotFound \notin {located[c].heading, located[d].heading},
             located[c].heading # located[d].heading
      PROVE  located[c].text \cap located[d].text = {}
  <2>1. UnderHeading(located[c]) /\ UnderHeading(located[d])
    BY <1>2 DEF TextsInPlace, FromWindow
  <2>2. PICK h, k : h = located[c].heading /\ k = located[d].heading
    OBVIOUS
  <2>3. h \in Heading /\ k \in Heading /\ h # k
    BY <1>2, <2>1, <2>2 DEF UnderHeading
  <2>4. Extent(h) \cap Extent(k) = {}
    BY <2>3, ExtentFacts
  <2>5. located[c].text \subseteq Extent(h) /\ located[d].text \subseteq Extent(k)
    BY <2>1, <2>2 DEF UnderHeading
  <2> QED
    BY <2>4, <2>5
<1> QED
  BY <1>1, <1>2 DEF SectionsApart

LEMMA DetectionStarts == DetectionInit => DetectInv
<1> SUFFICES ASSUME DetectionInit PROVE DetectInv
  OBVIOUS
<1>1. PassesInOrder
  BY DEF DetectionInit, PassesInOrder
<1>2. DOMAIN answers = {} /\ \A c \in Target : Finders(c) = {}
  BY DEF DetectionInit, Finders
<1>3. AnswersAreAsked
  BY <1>2, FS_EmptySet DEF AnswersAreAsked
<1>4. FindsAreKept
  BY <1>2 DEF DetectionInit, FindsAreKept, FirstReported
<1>5. TextsInPlace
  BY DEF DetectionInit, TextsInPlace
<1> QED
  BY <1>1, <1>3, <1>4, <1>5 DEF DetectInv

LEMMA PlacesStay ==
    ASSUME NEW f, UNCHANGED doc
    PROVE  /\ Heading' = Heading
           /\ UnderHeading(f)' <=> UnderHeading(f)
           /\ FromWindow(f)' <=> FromWindow(f)
<1>1. Heading' = Heading /\ Stops' = Stops
  BY DEF Heading, Stops
<1>2. \A h : Extent(h)' = Extent(h)
  BY <1>1 DEF Extent
<1>3. \A t, n : Repaired(t, n)' = Repaired(t, n)
  <2>1. \A t, n, p : Goes(t, n, p)' <=> Goes(t, n, p)
    BY <1>1 DEF Goes
  <2> QED
    BY <2>1 DEF Repaired
<1>4. UnderHeading(f)' <=> UnderHeading(f)
  BY <1>1, <1>2 DEF UnderHeading
<1>5. FromWindow(f)' <=> FromWindow(f)
  BY <1>3 DEF FromWindow
<1> QED
  BY <1>1, <1>4, <1>5

LEMMA InPlaceStays ==
    ASSUME TextsInPlace, UNCHANGED <<doc, taken, located>>
    PROVE  TextsInPlace'
<1>1. Heading' = Heading
  BY PlacesStay
<1>2. \A f : (UnderHeading(f)' <=> UnderHeading(f)) /\ (FromWindow(f)' <=> FromWindow(f))
  BY PlacesStay
<1> QED
  BY <1>1, <1>2 DEF TextsInPlace

LEMMA KeptStays ==
    ASSUME FindsAreKept, UNCHANGED <<located, answers, reported>>
    PROVE  FindsAreKept'
<1>1. \A c : Finders(c)' = Finders(c)
  BY DEF Finders
<1>2. \A c : FirstReported(c)' <=> FirstReported(c)
  BY <1>1 DEF FirstReported
<1> QED
  BY <1>2 DEF FindsAreKept

LEMMA AskedStays ==
    ASSUME AnswersAreAsked, UNCHANGED <<located, answers>>
    PROVE  AnswersAreAsked'
  BY DEF AnswersAreAsked, Unlocated

(* With no answer in hand, there is nothing to say of the answers.         *)
LEMMA NoAnswers == ASSUME (answers = <<>>)' PROVE AnswersAreAsked' /\ \A c : Finders(c)' = {}
<1>1. DOMAIN answers' = {}
  OBVIOUS
<1>2. AnswersAreAsked'
  BY <1>1, FS_EmptySet DEF AnswersAreAsked
<1> QED
  BY <1>1, <1>2 DEF Finders

(* Before the search what was reported is nothing, whatever is located.    *)
LEMMA NothingReported ==
    ASSUME FindsAreKept, UNCHANGED reported, (answers = <<>>)', \A c \in Target : reported[c] = 0
    PROVE  FindsAreKept'
<1>1. \A c : Finders(c)' = {}
  BY NoAnswers
<1>2. \A c \in Target : FirstReported(c)'
  BY <1>1 DEF FirstReported
<1> QED
  BY <1>2 DEF FindsAreKept

(***************************************************************************)
(* The passes over the headings                                            *)
(***************************************************************************)

LEMMA NotFoundIsNoHeading == NotFound \notin Heading
<1>1. NotFound \notin Int
  BY DetectionAssumption DEF DetectionAssumption
<1> QED
  BY <1>1, ParagraphFacts

LEMMA ExactMatchFacts == \A c : ExactMatch(c) \in Heading \union {NotFound}
<1> TAKE c
<1> DEFINE like == {h \in Heading : doc[h].title = c}
<1>1. like \subseteq Heading /\ IsFiniteSet(like) /\ \A x \in like : x \in Int
  <2>1. like \subseteq Paragraph
    BY ParagraphFacts
  <2> QED
    BY <2>1, ParagraphFacts, FS_Subset
<1>2. ExactMatch(c) = IF like = {} THEN NotFound ELSE Min(like)
  BY DEF ExactMatch
<1> HIDE DEF like
<1>3. like # {} => Min(like) \in like
  BY <1>1, MinFacts
<1> QED
  BY <1>1, <1>2, <1>3

(* A step over the headings that leaves what is located alone.             *)
LEMMA HeadingStep ==
    ASSUME DetectInv, pass' \in {"mapping", "extents"},
           UNCHANGED <<doc, located, answers, wave, neverRead, reported>>,
           taken' \in [Target -> Heading \union {NotFound}],
           pass \in {"headings", "mapping"}
    PROVE  DetectInv'
<1>1. PassesInOrder'
  BY DEF DetectInv, PassesInOrder
<1>2. AnswersAreAsked' /\ FindsAreKept'
  BY AskedStays, KeptStays DEF DetectInv
<1>3. TextsInPlace'
  <2>1. Heading' = Heading
    BY PlacesStay
  <2>2. \A f : (UnderHeading(f)' <=> UnderHeading(f)) /\ (FromWindow(f)' <=> FromWindow(f))
    BY PlacesStay
  <2> QED
    BY <2>1, <2>2 DEF DetectInv, TextsInPlace
<1> QED
  BY <1>1, <1>2, <1>3 DEF DetectInv

LEMMA MatchStep == ASSUME DetectInv, MatchHeadings PROVE DetectInv'
<1>1. /\ pass = "headings" /\ pass' = "mapping"
      /\ taken' = [c \in Target |-> ExactMatch(c)]
      /\ UNCHANGED <<doc, located, answers, wave, neverRead, reported>>
  BY DEF MatchHeadings
<1>2. taken' \in [Target -> Heading \union {NotFound}]
  BY <1>1, ExactMatchFacts
<1> QED
  BY <1>1, <1>2, HeadingStep

LEMMA MapStep == ASSUME DetectInv, MapHeadings PROVE DetectInv'
<1>1. /\ pass = "mapping" /\ pass' = "extents"
      /\ UNCHANGED <<doc, located, answers, wave, neverRead, reported>>
  BY DEF MapHeadings
<1>2. PICK first, second \in Samples :
        taken' = [c \in Target |-> IF taken[c] # NotFound THEN taken[c]
                                   ELSE IF first[c] # NotFound THEN first[c] ELSE second[c]]
  BY DEF MapHeadings
<1>3. taken \in [Target -> Heading \union {NotFound}]
  BY DEF DetectInv, TextsInPlace
<1>4. \A c \in Target : taken[c] = NotFound =>
        first[c] \in Heading \union {NotFound} /\ second[c] \in Heading \union {NotFound}
  BY DEF Samples, Unmatched
<1>5. taken' \in [Target -> Heading \union {NotFound}]
  BY <1>2, <1>3, <1>4
<1> QED
  BY <1>1, <1>5, HeadingStep

(* A step over the headings that gives clauses parts of their sections.    *)
LEMMA TextStep ==
    ASSUME DetectInv, pass \in {"extents", "splitting"}, pass' = "splitting",
           UNCHANGED <<doc, taken, answers, wave, neverRead, reported>>,
           DOMAIN located' = Target,
           \A c \in Target : located'[c] # NotFound =>
              \/ located'[c] = located[c]
              \/ UnderHeading(located'[c])
    PROVE  DetectInv'
<1>1. answers = <<>> /\ \A c \in Target : reported[c] = 0
  BY DEF DetectInv, PassesInOrder
<1>2. PassesInOrder'
  BY DEF DetectInv, PassesInOrder
<1>3. AnswersAreAsked' /\ FindsAreKept'
  BY <1>1, NoAnswers, NothingReported DEF DetectInv
<1>4. TextsInPlace'
  <2>1. Heading' = Heading
    BY PlacesStay
  <2>2. \A f : (UnderHeading(f)' <=> UnderHeading(f)) /\ (FromWindow(f)' <=> FromWindow(f))
    BY PlacesStay
  <2>3. ASSUME NEW c \in Target, located'[c] # NotFound
        PROVE  UnderHeading(located'[c]) \/ FromWindow(located'[c])
    BY <2>3 DEF DetectInv, TextsInPlace
  <2>4. \A f \in {located'[c] : c \in Target} : f # NotFound => UnderHeading(f) \/ FromWindow(f)
    BY <2>3
  <2>5. \A f \in {located'[c] : c \in Target} : f # NotFound => UnderHeading(f)' \/ FromWindow(f)'
    BY <2>2, <2>4
  <2> QED
    BY <2>1, <2>5 DEF DetectInv, TextsInPlace
<1> QED
  BY <1>2, <1>3, <1>4 DEF DetectInv

LEMMA ByHeadingFacts ==
    ASSUME NEW h \in Heading, NEW text \in SUBSET Extent(h), text # {}
    PROVE  UnderHeading(ByHeading(h, text))
  BY DEF UnderHeading, ByHeading

LEMMA ExtentsStep == ASSUME DetectInv, TakeExtents PROVE DetectInv'
<1>1. /\ pass = "extents" /\ pass' = "splitting"
      /\ UNCHANGED <<doc, taken, answers, wave, neverRead, reported>>
      /\ located' = [c \in Target |->
                       IF taken[c] # NotFound /\ taken[c] \notin Contested
                       THEN ByHeading(taken[c], Extent(taken[c])) ELSE NotFound]
  BY DEF TakeExtents
<1>2. ASSUME NEW c \in Target, located'[c] # NotFound PROVE UnderHeading(located'[c])
  <2> PICK h : h = taken[c]
    OBVIOUS
  <2>1. located'[c] = ByHeading(h, Extent(h)) /\ h # NotFound
    BY <1>1, <1>2
  <2>2. h \in Heading
    BY <2>1 DEF DetectInv, TextsInPlace
  <2> QED
    BY <2>1, <2>2, ExtentFacts, ByHeadingFacts
<1>3. DOMAIN located' = Target
  BY <1>1
<1> QED
  BY <1>1, <1>2, <1>3, TextStep

LEMMA SplitStep == ASSUME DetectInv, NEW h, SplitSection(h) PROVE DetectInv'
<1>1. /\ pass = "splitting" /\ h \in Contested
      /\ UNCHANGED <<doc, pass, taken, answers, wave, neverRead, reported>>
  BY DEF SplitSection
<1>2. PICK share \in [Claimants(h) -> SUBSET Extent(h)] :
        located' = [c \in Target |->
                      IF c \notin Claimants(h) THEN located[c]
                      ELSE ByHeading(h, IF \E d \in Claimants(h) : share[d] = {}
                                        THEN Extent(h) ELSE share[c])]
  BY DEF SplitSection
<1>3. h \in Heading
  BY <1>1 DEF Contested
<1>4. ASSUME NEW c \in Target, located'[c] # NotFound
      PROVE  located'[c] = located[c] \/ UnderHeading(located'[c])
  <2>1. CASE c \notin Claimants(h)
    BY <1>2, <2>1
  <2>2. CASE c \in Claimants(h)
    <3> PICK text : text = IF \E d \in Claimants(h) : share[d] = {} THEN Extent(h) ELSE share[c]
      OBVIOUS
    <3>1. text \in SUBSET Extent(h) /\ text # {}
      BY <1>3, <2>2, ExtentFacts
    <3>2. located'[c] = ByHeading(h, text)
      BY <1>2, <2>2
    <3> QED
      BY <1>3, <3>1, <3>2, ByHeadingFacts
  <2> QED
    BY <2>1, <2>2
<1>5. DOMAIN located' = Target
  BY <1>2
<1> QED
  BY <1>1, <1>4, <1>5, TextStep

(***************************************************************************)
(* The search                                                              *)
(***************************************************************************)

LEMMA SearchPassInOrder ==
    ASSUME PassesInOrder, pass = "searching", pass' = "searching", UNCHANGED neverRead,
           wave' \in Nat \ {0}
    PROVE  PassesInOrder'
  BY DEF PassesInOrder

LEMMA HeadEnds == ASSUME DetectInv, EndHeadingPass PROVE DetectInv'
<1>1. /\ pass = "splitting" /\ pass' \in {"done", "searching"}
      /\ UNCHANGED <<doc, taken, located, answers, wave, neverRead, reported>>
  BY DEF EndHeadingPass
<1>2. PassesInOrder'
  BY <1>1 DEF DetectInv, PassesInOrder
<1> QED
  BY <1>1, <1>2, AskedStays, KeptStays, InPlaceStays DEF DetectInv

LEMMA SearchEnds == ASSUME DetectInv, StopEarly \/ Exhaust PROVE DetectInv'
<1>1. /\ pass' = "done"
      /\ UNCHANGED <<doc, taken, located, answers, wave, reported>>
  BY DEF StopEarly, Exhaust
<1>2. PassesInOrder'
  BY <1>1 DEF DetectInv, PassesInOrder
<1> QED
  BY <1>1, <1>2, AskedStays, KeptStays, InPlaceStays DEF DetectInv

(* What an answer adds to the answers in hand.                             *)
LEMMA HearFacts ==
    ASSUME AnswersAreAsked, NEW n \in CallsOpen, n \in 1 .. WindowCount,
           NEW answer \in [Unlocated -> FoundTexts(n) \union {NotFound}], Hear(n, answer)
    PROVE  /\ AnswersAreAsked'
           /\ UNCHANGED <<doc, pass, taken, located, wave, neverRead>>
           /\ n \in Int /\ n > 0
           /\ \A c \in Unlocated :
                Finders(c)' = IF answer[c] = NotFound THEN Finders(c) ELSE Finders(c) \union {n}
<1>1. /\ answers' = [m \in DOMAIN answers \union {n} |-> IF m = n THEN answer ELSE answers[m]]
      /\ UNCHANGED <<doc, pass, taken, located, wave, neverRead>>
  BY DEF Hear
<1>2. n \notin DOMAIN answers
  BY DEF CallsOpen
<1>3. n \in Int /\ n > 0
  OBVIOUS
<1>4. Unlocated' = Unlocated
  BY <1>1 DEF Unlocated
<1>5. DOMAIN answers' = DOMAIN answers \union {n}
  BY <1>1
<1>6. IsFiniteSet(DOMAIN answers')
  BY <1>5, FS_AddElement DEF AnswersAreAsked
<1>7. \A m \in DOMAIN answers : answers'[m] = answers[m]
  BY <1>1, <1>2
<1>8. answers'[n] = answer
  BY <1>1
<1>9. \A m : FoundTexts(m)' = FoundTexts(m)
  BY <1>1 DEF FoundTexts, Spans, Body
<1>10. AnswersAreAsked'
  <2> SUFFICES ASSUME NEW m \in DOMAIN answers'
               PROVE  /\ m \in Int /\ m > 0
                      /\ answers'[m] \in [Unlocated -> FoundTexts(m) \union {NotFound}]
    BY <1>4, <1>6, <1>9 DEF AnswersAreAsked
  <2>1. CASE m = n
    BY <1>3, <1>8, <2>1
  <2>2. CASE m # n
    BY <1>5, <1>7, <2>2 DEF AnswersAreAsked
  <2> QED
    BY <2>1, <2>2
<1>11. ASSUME NEW c \in Unlocated
       PROVE  Finders(c)' = IF answer[c] = NotFound THEN Finders(c) ELSE Finders(c) \union {n}
  <2>1. Finders(c)' = {m \in DOMAIN answers' : answers'[m][c] # NotFound}
    BY DEF Finders
  <2> QED
    BY <1>2, <1>5, <1>7, <1>8, <2>1 DEF Finders
<1> QED
  BY <1>1, <1>3, <1>10, <1>11

LEMMA SearchStep ==
    ASSUME DetectInv, NEW n \in 1 .. WindowCount, Search(n)
    PROVE  DetectInv'
<1>1. pass = "searching" /\ n \in CallsOpen
  BY DEF Search
<1>2. PICK answer \in [Unlocated -> FoundTexts(n) \union {NotFound}] :
        /\ Hear(n, answer)
        /\ reported' = [c \in Target |->
                          IF c \in Unlocated /\ answer[c] # NotFound
                             /\ (reported[c] = 0 \/ n < reported[c])
                          THEN n ELSE reported[c]]
  BY DEF Search, FoundTexts
<1>3. /\ AnswersAreAsked'
      /\ UNCHANGED <<doc, pass, taken, located, wave, neverRead>>
      /\ n \in Int /\ n > 0
      /\ \A c \in Unlocated :
           Finders(c)' = IF answer[c] = NotFound THEN Finders(c) ELSE Finders(c) \union {n}
  BY <1>1, <1>2, HearFacts DEF DetectInv
<1>4. PassesInOrder' /\ TextsInPlace'
  BY <1>1, <1>3, SearchPassInOrder, InPlaceStays DEF DetectInv, PassesInOrder
<1>5. ASSUME NEW c \in Target, located[c] = NotFound PROVE FirstReported(c)'
  <2>1. c \in Unlocated
    BY <1>5 DEF Unlocated
  <2> PICK F, G : F = Finders(c) /\ G = Finders(c)'
    OBVIOUS
  <2> PICK r : r = reported[c]
    OBVIOUS
  <2>2. r \in Int /\ (F = {} => r = 0) /\ (F # {} => r \in F /\ \A m \in F : r <= m)
    BY <1>5 DEF DetectInv, FindsAreKept, FirstReported
  <2>3. \A m \in F : m \in Int /\ m > 0
    BY DEF DetectInv, AnswersAreAsked, Finders
  <2>4. CASE answer[c] = NotFound
    <3>1. G = F /\ reported'[c] = r
      BY <1>2, <1>3, <2>1, <2>4
    <3> QED
      BY <2>2, <3>1 DEF FirstReported
  <2>5. CASE answer[c] # NotFound
    <3>1. G = F \union {n} /\ reported'[c] = IF r = 0 \/ n < r THEN n ELSE r
      BY <1>2, <1>3, <2>1, <2>5
    <3>2. reported'[c] \in G /\ \A m \in G : reported'[c] <= m
      BY <1>3, <2>2, <2>3, <3>1
    <3> QED
      BY <3>1, <3>2 DEF FirstReported
  <2> QED
    BY <2>4, <2>5
<1>6. ASSUME NEW c \in Target, located[c] # NotFound PROVE reported'[c] = reported[c]
  BY <1>2, <1>6 DEF Unlocated
<1>7. reported' \in [Target -> Int]
  BY <1>2, <1>3 DEF DetectInv, FindsAreKept
<1>8. FindsAreKept'
  BY <1>3, <1>5, <1>6, <1>7 DEF DetectInv, FindsAreKept
<1> QED
  BY <1>3, <1>4, <1>8 DEF DetectInv

LEMMA FailStep ==
    ASSUME DetectInv, NEW n \in 1 .. WindowCount, SearchFails(n)
    PROVE  DetectInv'
<1> PICK answer : answer = [c \in Unlocated |-> NotFound]
  OBVIOUS
<1>1. pass = "searching" /\ n \in CallsOpen /\ Hear(n, answer) /\ UNCHANGED reported
  BY DEF SearchFails
<1>2. answer \in [Unlocated -> FoundTexts(n) \union {NotFound}]
  OBVIOUS
<1>3. /\ AnswersAreAsked'
      /\ UNCHANGED <<doc, pass, taken, located, wave, neverRead>>
      /\ \A c \in Unlocated : Finders(c)' = Finders(c)
  BY <1>1, <1>2, HearFacts DEF DetectInv
<1>4. PassesInOrder' /\ TextsInPlace'
  BY <1>1, <1>3, SearchPassInOrder, InPlaceStays DEF DetectInv, PassesInOrder
<1>5. FindsAreKept'
  <2>1. \A c \in Target : located[c] = NotFound => (FirstReported(c)' <=> FirstReported(c))
    BY <1>1, <1>3 DEF FirstReported, Unlocated
  <2> QED
    BY <1>1, <1>3, <2>1 DEF DetectInv, FindsAreKept
<1> QED
  BY <1>3, <1>4, <1>5 DEF DetectInv

(* Of the answers that have a clause there is a first.                     *)
LEMMA FinderFacts ==
    ASSUME AnswersAreAsked, NEW c, Finders(c) # {}
    PROVE  /\ Finder(c) \in Finders(c) /\ \A n \in Finders(c) : Finder(c) <= n
           /\ Finder(c) \in DOMAIN answers /\ Finder(c) \in Int /\ Finder(c) > 0
<1> DEFINE F == Finders(c)
<1>1. F \subseteq DOMAIN answers
  BY DEF Finders
<1>2. IsFiniteSet(F) /\ \A n \in F : n \in Int
  BY <1>1, FS_Subset DEF AnswersAreAsked
<1>3. Finder(c) = Min(F) /\ F # {}
  BY DEF Finder
<1> HIDE DEF F
<1>4. Min(F) \in F /\ \A n \in F : Min(F) <= n
  BY <1>2, <1>3, MinFacts
<1>5. Finder(c) \in F /\ \A n \in F : Finder(c) <= n
  BY <1>3, <1>4
<1>6. Finder(c) \in DOMAIN answers
  BY <1>1, <1>5
<1> QED
  BY <1>5, <1>6 DEF F, AnswersAreAsked

(* What a wave has found of a clause is its first answer, continued.       *)
LEMMA FoundInWave ==
    ASSUME AnswersAreAsked, NEW c \in Unlocated, Finders(c) # {},
           NEW f, f = [text |-> Repaired(answers[Finder(c)][c], Finder(c)),
                       heading |-> NotFound, window |-> Finder(c)]
    PROVE  FromWindow(f) /\ f # NotFound /\ f.window = Finder(c)
<1> PICK n : n = Finder(c)
  OBVIOUS
<1> PICK t : t = answers[n][c]
  OBVIOUS
<1>1. n \in Finders(c) /\ n \in DOMAIN answers /\ n \in Int /\ n > 0
  BY FinderFacts
<1>2. t \in FoundTexts(n)
  <2>1. answers[n] \in [Unlocated -> FoundTexts(n) \union {NotFound}]
    BY <1>1 DEF AnswersAreAsked
  <2>2. t # NotFound
    BY <1>1 DEF Finders
  <2> QED
    BY <2>1, <2>2
<1>3. t \in Spans(n) /\ t.refs # {}
  BY <1>2, FoundTextFacts
<1>4. Repaired(t, n) \subseteq Int
  BY <1>3, RepairedFacts
<1>5. f = [text |-> Repaired(t, n), heading |-> NotFound, window |-> n]
  OBVIOUS
<1>6. f \in Find
  BY <1>1, <1>4, <1>5 DEF Find
<1>7. f # NotFound
  BY <1>6, DetectionAssumption DEF DetectionAssumption, Find
<1>8. f.window = n /\ f.heading = NotFound /\ f.text = Repaired(t, n)
  BY <1>5
<1>9. FromWindow(f)
  BY <1>1, <1>2, <1>8 DEF FromWindow
<1> QED
  BY <1>7, <1>8, <1>9

LEMMA FinishStep == ASSUME DetectInv, FinishWave PROVE DetectInv'
<1>1. /\ pass = "searching"
      /\ located' = [c \in Target |->
                       IF c \in Unlocated /\ Finders(c) # {}
                       THEN [text |-> Repaired(answers[Finder(c)][c], Finder(c)),
                             heading |-> NotFound, window |-> Finder(c)]
                       ELSE located[c]]
      /\ wave' = wave + WaveSize /\ answers' = <<>>
      /\ UNCHANGED <<doc, pass, taken, neverRead, reported>>
  BY DEF FinishWave
<1>2. PassesInOrder'
  <2>1. wave' \in Nat \ {0}
    BY <1>1, DetectionAssumption DEF DetectionAssumption, DetectInv, PassesInOrder
  <2> QED
    BY <1>1, <2>1, SearchPassInOrder DEF DetectInv
<1>3. AnswersAreAsked' /\ \A c : Finders(c)' = {}
  BY <1>1, NoAnswers
<1>4. ASSUME NEW c \in Target
      PROVE  \/ located'[c] = located[c] /\ (located[c] = NotFound => Finders(c) = {})
             \/ /\ located[c] = NotFound /\ Finders(c) # {}
                /\ FromWindow(located'[c]) /\ located'[c] # NotFound
                /\ located'[c].window = Finder(c)
  <2>1. CASE c \in Unlocated /\ Finders(c) # {}
    <3> PICK f : f = [text |-> Repaired(answers[Finder(c)][c], Finder(c)),
                      heading |-> NotFound, window |-> Finder(c)]
      OBVIOUS
    <3>1. located'[c] = f
      BY <1>1, <2>1
    <3>2. FromWindow(f) /\ f # NotFound /\ f.window = Finder(c)
      BY <2>1, FoundInWave DEF DetectInv
    <3> QED
      BY <2>1, <3>1, <3>2 DEF Unlocated
  <2>2. CASE ~(c \in Unlocated /\ Finders(c) # {})
    BY <1>1, <2>2 DEF Unlocated
  <2> QED
    BY <2>1, <2>2
<1>5. FindsAreKept'
  <2>1. \A c \in Target : located[c] = NotFound => FirstReported(c)
    BY DEF DetectInv, FindsAreKept
  <2>2. ASSUME NEW c \in Target, located'[c] = NotFound PROVE FirstReported(c)'
    <3>1. reported[c] = 0
      BY <1>4, <2>1, <2>2 DEF FirstReported
    <3> QED
      BY <1>1, <1>3, <3>1 DEF FirstReported
  <2>3. ASSUME NEW c \in Target, located'[c] # NotFound, reported[c] # 0
        PROVE  located'[c].window = reported[c]
    <3>1. CASE located'[c] = located[c]
      BY <2>3, <3>1 DEF DetectInv, FindsAreKept
    <3>2. CASE /\ located[c] = NotFound /\ Finders(c) # {} /\ located'[c].window = Finder(c)
      <4> PICK F, m : F = Finders(c) /\ m = Finder(c)
        OBVIOUS
      <4>1. reported[c] \in F /\ \A n \in F : reported[c] <= n
        BY <2>1, <3>2 DEF FirstReported
      <4>2. m \in F /\ m \in Int /\ \A n \in F : m <= n
        BY <3>2, FinderFacts DEF DetectInv
      <4>3. reported[c] \in Int
        BY DEF DetectInv, FindsAreKept
      <4> QED
        BY <3>2, <4>1, <4>2, <4>3
    <3> QED
      BY <1>4, <3>1, <3>2
  <2> QED
    BY <1>1, <2>2, <2>3 DEF DetectInv, FindsAreKept
<1>6. TextsInPlace'
  <2>1. Heading' = Heading
    BY <1>1, PlacesStay
  <2>2. \A f : (UnderHeading(f)' <=> UnderHeading(f)) /\ (FromWindow(f)' <=> FromWindow(f))
    BY <1>1, PlacesStay
  <2>3. ASSUME NEW c \in Target, located'[c] # NotFound
        PROVE  UnderHeading(located'[c]) \/ FromWindow(located'[c])
    BY <1>4, <2>3 DEF DetectInv, TextsInPlace
  <2>4. \A f \in {located'[c] : c \in Target} : f # NotFound => UnderHeading(f) \/ FromWindow(f)
    BY <2>3
  <2>5. \A f \in {located'[c] : c \in Target} : f # NotFound => UnderHeading(f)' \/ FromWindow(f)'
    BY <2>2, <2>4
  <2>6. DOMAIN located' = Target
    BY <1>1
  <2> QED
    BY <1>1, <2>1, <2>5, <2>6 DEF DetectInv, TextsInPlace
<1> QED
  BY <1>2, <1>3, <1>5, <1>6 DEF DetectInv

LEMMA DetectionKeeps == ASSUME DetectInv, [DetectionNext]_detectionVars PROVE DetectInv'
<1>1. ASSUME UNCHANGED detectionVars PROVE DetectInv'
  <2>1. UNCHANGED <<doc, pass, taken, located, answers, wave, neverRead, reported>>
    BY <1>1 DEF detectionVars
  <2>2. PassesInOrder'
    BY <2>1 DEF DetectInv, PassesInOrder
  <2> QED
    BY <2>1, <2>2, AskedStays, KeptStays, InPlaceStays DEF DetectInv
<1>2. CASE MatchHeadings
  BY <1>2, MatchStep
<1>3. CASE MapHeadings
  BY <1>3, MapStep
<1>4. CASE TakeExtents
  BY <1>4, ExtentsStep
<1>5. CASE \E h \in Paragraph : SplitSection(h)
  BY <1>5, SplitStep
<1>6. CASE EndHeadingPass
  BY <1>6, HeadEnds
<1>7. CASE StopEarly \/ Exhaust
  BY <1>7, SearchEnds
<1>8. CASE \E n \in 1 .. WindowCount : Search(n) \/ SearchFails(n)
  BY <1>8, SearchStep, FailStep
<1>9. CASE FinishWave
  BY <1>9, FinishStep
<1> QED
  BY <1>1, <1>2, <1>3, <1>4, <1>5, <1>6, <1>7, <1>8, <1>9 DEF DetectionNext

(***************************************************************************)
(* Pages                                                                   *)
(***************************************************************************)

LEMMA CoveredFacts ==
    ASSUME wave \in Nat \ {0}
    PROVE  /\ Covered \subseteq 1 .. PageCount
           /\ wave > WindowCount => Covered = 1 .. PageCount
           /\ (UNION {Window(n) : n \in wave .. WindowCount}) \union Covered = 1 .. PageCount
<1>1. \A n : Window(n) \subseteq 1 .. PageCount
  BY DEF Window
<1>2. WindowCount \in Nat
  BY WindowCountFacts
<1>3. ASSUME NEW g \in 1 .. PageCount PROVE \E n \in 1 .. WindowCount : g \in Window(n)
  <2>1. g \in UNION {Window(n) : n \in 1 .. WindowCount}
    BY WindowsCover
  <2> QED
    BY <2>1
<1>4. Covered \subseteq 1 .. PageCount
  BY <1>1 DEF Covered
<1>5. ASSUME wave > WindowCount PROVE Covered = 1 .. PageCount
  <2>1. \A n \in 1 .. WindowCount : n \in 1 .. wave - 1
    BY <1>2, <1>5
  <2> QED
    BY <1>3, <1>4, <2>1 DEF Covered
<1>6. \A n \in 1 .. WindowCount : n \in 1 .. wave - 1 \/ n \in wave .. WindowCount
  BY <1>2
<1> DEFINE rest == UNION {Window(n) : n \in wave .. WindowCount}
<1>7. rest \subseteq 1 .. PageCount
  BY <1>1
<1>8. 1 .. PageCount \subseteq rest \union Covered
  BY <1>3, <1>6 DEF Covered
<1> QED
  BY <1>4, <1>5, <1>7, <1>8

LEMMA ReachKept ==
    ASSUME PassesInOrder, AbsentMeansReached, [DetectionNext]_detectionVars
    PROVE  AbsentMeansReached'
<1>1. CASE UNCHANGED detectionVars
  <2>1. UNCHANGED <<pass, located, wave, neverRead>>
    BY <1>1 DEF detectionVars
  <2>2. Unlocated' = Unlocated /\ Covered' = Covered
    BY <2>1 DEF Unlocated, Covered
  <2> QED
    BY <2>1, <2>2 DEF AbsentMeansReached
<1>2. CASE EndHeadingPass
  <2>1. /\ pass = "splitting" /\ pass' = IF Unlocated = {} THEN "done" ELSE "searching"
        /\ UNCHANGED <<located, wave>>
    BY <1>2 DEF EndHeadingPass
  <2>2. Unlocated' = Unlocated /\ wave' = 1
    BY <2>1 DEF Unlocated, PassesInOrder
  <2> QED
    BY <2>1, <2>2 DEF AbsentMeansReached
<1>3. CASE StopEarly
  <2>1. /\ Unlocated = {} /\ UNCHANGED <<located, wave>>
        /\ neverRead' = (UNION {Window(n) : n \in wave .. WindowCount}) \ Covered
    BY <1>3 DEF StopEarly
  <2>2. Unlocated' = Unlocated /\ Covered' = Covered
    BY <2>1 DEF Unlocated, Covered
  <2>3. wave \in Nat \ {0}
    BY DEF PassesInOrder
  <2>4. neverRead' = (1 .. PageCount) \ Covered
    <3> DEFINE rest == UNION {Window(n) : n \in wave .. WindowCount}
    <3>1. rest \union Covered = 1 .. PageCount
      BY <2>3, CoveredFacts
    <3>2. neverRead' = rest \ Covered
      BY <2>1
    <3> HIDE DEF rest
    <3> QED
      BY <3>1, <3>2
  <2> QED
    BY <2>1, <2>2, <2>4 DEF AbsentMeansReached
<1>4. CASE Exhaust
  <2>1. pass = "searching" /\ Wave = {} /\ UNCHANGED <<located, wave, neverRead>>
    BY <1>4 DEF Exhaust
  <2>2. wave \in Nat \ {0} /\ neverRead = {}
    BY <2>1 DEF PassesInOrder
  <2>3. wave > WindowCount
    <3>1. WindowCount \in Nat /\ WaveSize \in Nat \ {0}
      BY WindowCountFacts, DetectionAssumption DEF DetectionAssumption
    <3>2. wave \in wave .. wave + WaveSize - 1
      BY <2>2, <3>1
    <3>3. ~(wave <= WindowCount)
      BY <2>1, <3>2 DEF Wave
    <3> QED
      BY <2>2, <3>1, <3>3
  <2>4. Covered = 1 .. PageCount
    BY <2>2, <2>3, CoveredFacts
  <2>5. Covered' = Covered
    BY <2>1 DEF Covered
  <2> QED
    BY <2>1, <2>2, <2>4, <2>5 DEF AbsentMeansReached
<1>5. ASSUME MatchHeadings \/ MapHeadings \/ TakeExtents PROVE pass' # "done"
  BY <1>5 DEF MatchHeadings, MapHeadings, TakeExtents
<1>6. ASSUME NEW h, SplitSection(h) PROVE pass' # "done"
  BY <1>6 DEF SplitSection
<1>7. ASSUME NEW n, Search(n) \/ SearchFails(n) PROVE pass' # "done"
  BY <1>7 DEF Search, SearchFails, Hear
<1>8. ASSUME FinishWave PROVE pass' # "done"
  BY <1>8 DEF FinishWave
<1>9. pass' # "done" => AbsentMeansReached'
  BY DEF AbsentMeansReached
<1> QED
  BY <1>1, <1>2, <1>3, <1>4, <1>5, <1>6, <1>7, <1>8, <1>9 DEF DetectionNext

-----------------------------------------------------------------------------

(* Wherever a search stands, its answers are about what was asked, what    *)
(* they have found is kept and every text is in its place, for every       *)
(* document, profile, size of window and wave (clauses.py, detect).        *)
THEOREM DetectionAlwaysInv == DetectionSpec => []DetectInv
<1>1. DetectInv /\ [DetectionNext]_detectionVars => DetectInv'
  BY DetectionKeeps
<1> QED
  BY <1>1, DetectionStarts, PTL DEF DetectionSpec

(* A clause that an answer has is in the result, with the text of the      *)
(* first window that has it (_chunk_pass).                                 *)
THEOREM FirstFindAlwaysKept == DetectionSpec => []FirstFindKept
<1> QED
  BY DetectionAlwaysInv, InvGivesFirstFind, PTL

(* No text is empty, none leaves its section or goes on further than the   *)
(* page after its window, and clauses under different headings share       *)
(* nothing (_extents, _split_section, _repair_boundary).                   *)
THEOREM SectionsAlwaysApart == DetectionSpec => []SectionsApart
<1> QED
  BY DetectionAlwaysInv, InvGivesApart, PTL

(* A clause is absent only from a document whose every page was reached,   *)
(* and the pages reported as never read are the others: the windows leave  *)
(* no page between them and reach the last (_windows, _chunk_pass, detect). *)
THEOREM AbsentAlwaysReached == DetectionSpec => []AbsentMeansReached
<1>1. DetectionInit => AbsentMeansReached
  BY DEF DetectionInit, AbsentMeansReached
<1>2. DetectInv /\ AbsentMeansReached /\ [DetectionNext]_detectionVars => AbsentMeansReached'
  BY ReachKept DEF DetectInv
<1> QED
  BY <1>1, <1>2, DetectionAlwaysInv, PTL DEF DetectionSpec

-----------------------------------------------------------------------------
(***************************************************************************)
(* Theorem about what is read of a document, for any document and any      *)
(* limit of the sections: the chunks are the document, once, in order and  *)
(* under its headings.                                                     *)
(*                                                                         *)
(* Sections and runs alike are sequences of blocks, grown one paragraph at *)
(* a time; that the blocks are a cut of the paragraphs read so far is kept *)
(* by both ways to grow them.                                              *)
(***************************************************************************)

Rises(s)    == \A i, j \in DOMAIN s : i < j => s[i] < s[j]
Below(a, b) == \A x \in a, y \in b : x < y

(* The blocks are a cut of a set of numbers: each number is in a block, and   *)
(* the numbers rise within the blocks and from block to block.                *)
Cut(blocks, ps) ==
    /\ \A k \in DOMAIN blocks : Rises(blocks[k])
    /\ \A k, l \in DOMAIN blocks : k < l => Below(ToSet(blocks[k]), ToSet(blocks[l]))
    /\ \A p : p \in ps <=> \E k \in DOMAIN blocks : p \in ToSet(blocks[k])

Blocks == Seq(Seq(Int) \ {<<>>})

LEMMA RisesSingle == ASSUME NEW p \in Int PROVE <<p>> \in Seq(Int) \ {<<>>} /\ Rises(<<p>>) /\ ToSet(<<p>>) = {p}
<1>1. DOMAIN <<p>> = {1} /\ <<p>>[1] = p
  OBVIOUS
<1> QED
  BY <1>1 DEF Rises, ToSet

LEMMA RisesAppend ==
    ASSUME NEW s \in Seq(Int), Rises(s), NEW p \in Int, \A q \in ToSet(s) : q < p
    PROVE  Append(s, p) \in Seq(Int) \ {<<>>} /\ Rises(Append(s, p)) /\ ToSet(Append(s, p)) = ToSet(s) \union {p}
<1> PICK n \in Nat : n = Len(s) /\ DOMAIN s = 1 .. n
  OBVIOUS
<1> PICK t : t = Append(s, p)
  OBVIOUS
<1>1. t \in Seq(Int) /\ DOMAIN t = 1 .. n + 1 /\ t[n + 1] = p /\ \A i \in 1 .. n : t[i] = s[i]
  OBVIOUS
<1>2. \A i \in 1 .. n : s[i] \in ToSet(s) /\ s[i] < p
  BY DEF ToSet
<1>3. ASSUME NEW i \in DOMAIN t, NEW j \in DOMAIN t, i < j PROVE t[i] < t[j]
  <2>1. i \in 1 .. n
    BY <1>1, <1>3
  <2>2. CASE j = n + 1
    BY <1>1, <1>2, <2>1, <2>2
  <2>3. CASE j # n + 1
    BY <1>1, <1>3, <2>1, <2>3 DEF Rises
  <2> QED
    BY <2>2, <2>3
<1>4. ToSet(t) = ToSet(s) \union {p} /\ t # <<>>
  BY ToSetAppend, <1>1
<1> QED
  BY <1>1, <1>3, <1>4 DEF Rises

LEMMA CutNone == Cut(<<>>, {})
  BY DEF Cut

LEMMA CutOpens ==
    ASSUME NEW blocks \in Blocks, NEW ps, Cut(blocks, ps), NEW p \in Int, \A q \in ps : q < p
    PROVE  Append(blocks, <<p>>) \in Blocks /\ Cut(Append(blocks, <<p>>), ps \union {p})
<1> PICK b : b = <<p>>
  OBVIOUS
<1>0. b \in Seq(Int) \ {<<>>} /\ Rises(b) /\ ToSet(b) = {p}
  BY RisesSingle
<1> PICK n \in Nat : n = Len(blocks) /\ DOMAIN blocks = 1 .. n
  BY DEF Blocks
<1> PICK more : more = Append(blocks, b)
  OBVIOUS
<1>1. /\ more \in Blocks
      /\ DOMAIN more = 1 .. n + 1 /\ more[n + 1] = b
      /\ \A k \in 1 .. n : more[k] = blocks[k]
  BY <1>0 DEF Blocks
<1>2. ASSUME NEW k \in DOMAIN more PROVE Rises(more[k])
  BY <1>0, <1>1 DEF Cut
<1>3. ASSUME NEW k \in DOMAIN more, NEW l \in DOMAIN more, k < l
      PROVE  Below(ToSet(more[k]), ToSet(more[l]))
  <2>1. k \in 1 .. n /\ more[k] = blocks[k]
    BY <1>1, <1>3
  <2>2. ToSet(blocks[k]) \subseteq ps
    BY <2>1 DEF Cut
  <2>3. CASE l = n + 1
    BY <1>0, <1>1, <2>1, <2>2, <2>3 DEF Below
  <2>4. CASE l # n + 1
    BY <1>1, <1>3, <2>1, <2>4 DEF Cut
  <2> QED
    BY <2>3, <2>4
<1>4. ASSUME NEW q PROVE q \in ps \union {p} <=> \E k \in DOMAIN more : q \in ToSet(more[k])
  <2>1. n + 1 \in DOMAIN more
    BY <1>1
  <2> QED
    BY <1>0, <1>1, <2>1 DEF Cut
<1> QED
  BY <1>1, <1>2, <1>3, <1>4 DEF Cut

(* What a block becomes when it is continued.                                 *)
Replaced(X, s, e, more) ==
    /\ Len(s) \in Nat \ {0} /\ DOMAIN s = 1 .. Len(s)
    /\ s[Len(s)] \in X /\ Last(s) = s[Len(s)]
    /\ more \in Seq(X) /\ DOMAIN more = 1 .. Len(s)
    /\ \A k \in 1 .. Len(s) - 1 : more[k] = s[k]
    /\ more[Len(s)] = e

LEMMA ReplaceLast ==
    ASSUME NEW X, NEW s \in Seq(X), s # <<>>, NEW e \in X
    PROVE  Replaced(X, s, e, Append(Front(s), e))
<1> PICK n \in Nat \ {0} : n = Len(s) /\ DOMAIN s = 1 .. n
  OBVIOUS
<1>1. s[n] \in X /\ Last(s) = s[n]
  BY n \in 1 .. n DEF Last
<1> PICK front : front = Front(s)
  OBVIOUS
<1>2. /\ front \in Seq(X) /\ Len(front) = n - 1
      /\ \A k \in 1 .. n - 1 : front[k] = s[k]
  BY DEF Front
<1> PICK more : more = Append(front, e)
  OBVIOUS
<1>3. /\ more \in Seq(X) /\ DOMAIN more = 1 .. n
      /\ \A k \in 1 .. n - 1 : more[k] = s[k]
      /\ more[n] = e
  BY <1>2
<1> QED
  BY <1>1, <1>3 DEF Replaced

LEMMA CutGoesOn ==
    ASSUME NEW blocks \in Blocks, NEW ps, Cut(blocks, ps), blocks # <<>>,
           NEW p \in Int, \A q \in ps : q < p,
           NEW more, more = Append(Front(blocks), Append(Last(blocks), p))
    PROVE  more \in Blocks /\ Cut(more, ps \union {p})
<1> PICK n, X, e : n = Len(blocks) /\ X = Seq(Int) \ {<<>>} /\ e = Append(Last(blocks), p)
  OBVIOUS
<1>a. /\ n \in Nat \ {0} /\ DOMAIN blocks = 1 .. n
      /\ blocks[n] \in Seq(Int) \ {<<>>}
      /\ more \in Blocks /\ DOMAIN more = 1 .. n
      /\ \A k \in 1 .. n - 1 : more[k] = blocks[k]
      /\ more[n] = Append(blocks[n], p)
  <2>1. blocks \in Seq(X)
    BY DEF Blocks
  <2>2. n \in 1 .. n /\ blocks[n] \in X /\ Last(blocks) = blocks[n] /\ blocks[n] \in Seq(Int)
    <3>1. Len(blocks) \in 1 .. Len(blocks) /\ DOMAIN blocks = 1 .. Len(blocks)
      BY <2>1
    <3>2. blocks[n] \in X
      BY <2>1, <3>1
    <3> QED
      BY <3>1, <3>2 DEF Last
  <2>3. e \in X
    BY <2>2
  <2>4. more = Append(Front(blocks), e)
    OBVIOUS
  <2>5. Replaced(X, blocks, e, more)
    BY <2>1, <2>3, <2>4, ReplaceLast, Zenon
  <2> QED
    BY <2>2, <2>5 DEF Blocks, Replaced
<1> SUFFICES Cut(more, ps \union {p})
  BY <1>a
<1>0. \A k \in 1 .. n : ToSet(blocks[k]) \subseteq ps
  BY <1>a DEF Cut
<1>1. Rises(more[n]) /\ ToSet(more[n]) = ToSet(blocks[n]) \union {p}
  <2>1. Rises(blocks[n]) /\ n \in 1 .. n
    BY <1>a DEF Cut
  <2> QED
    BY <1>a, <1>0, <2>1, RisesAppend
<1>b. \A k \in 1 .. n : k # n => k \in 1 .. n - 1
  BY <1>a
<1>2. ASSUME NEW k \in DOMAIN more PROVE Rises(more[k])
  BY <1>a, <1>b, <1>1 DEF Cut
<1>3. ASSUME NEW k \in DOMAIN more, NEW l \in DOMAIN more, k < l
      PROVE  Below(ToSet(more[k]), ToSet(more[l]))
  <2>0. k \in 1 .. n /\ l \in 1 .. n
    BY <1>a
  <2>1. k \in 1 .. n - 1 /\ more[k] = blocks[k] /\ ToSet(blocks[k]) \subseteq ps
    <3>1. k # n
      BY <1>a, <1>3, <2>0
    <3> QED
      BY <1>a, <1>b, <1>0, <2>0, <3>1
  <2>2. Below(ToSet(blocks[k]), ToSet(blocks[l]))
    BY <1>a, <1>3 DEF Cut
  <2>3. CASE l = n
    BY <1>1, <2>1, <2>2, <2>3 DEF Below
  <2>4. CASE l # n
    BY <1>a, <1>b, <2>0, <2>1, <2>2, <2>4
  <2> QED
    BY <2>3, <2>4
<1>4. ASSUME NEW q PROVE q \in ps \union {p} <=> \E k \in DOMAIN more : q \in ToSet(more[k])
  <2>1. n \in DOMAIN more
    BY <1>a
  <2>2. CASE q = p
    BY <1>1, <2>1, <2>2
  <2>3. CASE q # p
    BY <1>a, <1>b, <1>1, <2>1, <2>3 DEF Cut
  <2> QED
    BY <2>2, <2>3
<1> QED
  BY <1>2, <1>3, <1>4 DEF Cut

(* A number is in one block of a cut.                                         *)
LEMMA CutOnce ==
    ASSUME NEW blocks \in Blocks, NEW ps, Cut(blocks, ps),
           NEW k \in DOMAIN blocks, NEW l \in DOMAIN blocks,
           NEW p \in Int, p \in ToSet(blocks[k]), p \in ToSet(blocks[l])
    PROVE  k = l
<1>1. k \in Int /\ l \in Int /\ ~(p < p)
  BY DEF Blocks
<1> QED
  BY <1>1 DEF Cut, Below

LEMMA ParagraphsAreNumbers == Paragraph = 1 .. Len(PageOf) /\ Len(PageOf) \in Nat /\ Paragraph \subseteq Int
  BY SectionsAssumption DEF SectionsAssumption, Paragraph

(* The sizes of the paragraphs of a text, added up one by one.                *)
AddedUp(ps, acc) ==
    /\ acc \in [0 .. Len(ps) -> Nat]
    /\ acc[0] = 0
    /\ \A i \in 1 .. Len(ps) : acc[i] = acc[i - 1] + doc[ps[i]].size
    /\ SizeOf(ps) = acc[Len(ps)]


LEMMA SizeFold ==
    ASSUME IsDocument, NEW ps \in Seq(Paragraph)
    PROVE  \E acc : AddedUp(ps, acc)
<1> DEFINE V == Nat
           base == 0
           grown(a, p) == a + doc[p].size
           step == [a \in V |-> [p \in Paragraph |-> grown(a, p)]]
<1>1. \A a \in V, p \in Paragraph : step[a][p] \in V /\ step[a][p] = grown(a, p)
  BY DEF IsDocument
<1>2. base \in V
  OBVIOUS
<1> HIDE DEF V, step, base
<1>3. PICK g \in [SUBSET DOMAIN ps -> V] : \A t \in SUBSET DOMAIN ps :
         g[t] = IF t = {} THEN base ELSE step[g[t \ {Max(t)}]][ps[Max(t)]]
  <2>1. StaysIn(V, Paragraph, step)
    BY <1>1 DEF StaysIn
  <2>2. HasFold(V, step, base, ps)
    BY <1>2, <2>1, FoldIs, Zenon
  <2> QED
    BY <2>2 DEF HasFold
<1>4. \A t \in SUBSET DOMAIN ps : t # {} => ps[Max(t)] \in Paragraph
  BY MaxUpTo, DOMAIN ps = 1 .. Len(ps), Len(ps) \in Nat
<1>5. g = [t \in SUBSET DOMAIN ps |-> IF t = {} THEN base ELSE
             LET x == Max(t) IN grown(g[t \ {x}], ps[x])]
  <2>1. \A t \in SUBSET DOMAIN ps : t # {} =>
           step[g[t \ {Max(t)}]][ps[Max(t)]] = grown(g[t \ {Max(t)}], ps[Max(t)])
    BY <1>1, <1>3, <1>4
  <2> HIDE DEF grown
  <2> QED
    BY <1>3, <2>1
<1>6. PICK f :
         /\ f = [t \in SUBSET DOMAIN ps |-> IF t = {} THEN base ELSE
                  LET x == Max(t) IN grown(f[t \ {x}], ps[x])]
         /\ SizeOf(ps) = f[DOMAIN ps]
  BY <1>5, Zenon DEF base, SizeOf, FoldLeft, MapThenFoldSet
<1>7. f[{}] = base
  BY <1>6
<1>8. ASSUME NEW t \in SUBSET DOMAIN ps, t # {}, f[t \ {Max(t)}] \in V
      PROVE  f[t] = step[f[t \ {Max(t)}]][ps[Max(t)]]
  <2> HIDE DEF grown
  <2> QED
    BY <1>1, <1>4, <1>6, <1>8
<1>9. PICK acc \in [0 .. Len(ps) -> V] :
         /\ acc[0] = base
         /\ \A i \in 1 .. Len(ps) : acc[i] = step[acc[i - 1]][ps[i]]
         /\ f[DOMAIN ps] = acc[Len(ps)]
  <2>1. StaysIn(V, Paragraph, step)
    BY <1>1 DEF StaysIn
  <2>2. IsFold(f, V, step, base, ps)
    BY <1>7, <1>8 DEF IsFold
  <2>3. GoesThrough(f, V, step, base, ps)
    BY <1>2, <2>1, <2>2, FoldRuns, Zenon
  <2> QED
    BY <2>3 DEF GoesThrough
<1>10. \A i \in 1 .. Len(ps) : acc[i] = grown(acc[i - 1], ps[i])
  <2> TAKE i \in 1 .. Len(ps)
  <2>1. acc[i - 1] \in V /\ ps[i] \in Paragraph
    OBVIOUS
  <2> HIDE DEF grown
  <2> QED
    BY <1>1, <1>9, <2>1
<1> QED
  BY <1>6, <1>9, <1>10 DEF AddedUp, V, base

LEMMA SizeOfNone == ASSUME IsDocument PROVE SizeOf(<<>>) = 0
<1>1. <<>> \in Seq(Paragraph) /\ Len(<<>>) = 0
  OBVIOUS
<1> QED
  BY <1>1, SizeFold DEF AddedUp

LEMMA SizeOfNat == ASSUME IsDocument, NEW ps \in Seq(Paragraph) PROVE SizeOf(ps) \in Nat
<1>1. Len(ps) \in 0 .. Len(ps)
  OBVIOUS
<1> QED
  BY <1>1, SizeFold DEF AddedUp

LEMMA SizeOfLonger ==
    ASSUME IsDocument, NEW ps \in Seq(Paragraph), NEW p \in Paragraph
    PROVE  SizeOf(Append(ps, p)) = SizeOf(ps) + doc[p].size
<1> PICK n \in Nat : n = Len(ps)
  OBVIOUS
<1> PICK qs : qs = Append(ps, p)
  OBVIOUS
<1>0. qs \in Seq(Paragraph) /\ Len(qs) = n + 1 /\ qs[n + 1] = p /\ \A i \in 1 .. n : qs[i] = ps[i]
  OBVIOUS
<1>1. PICK a : AddedUp(ps, a)
  BY SizeFold
<1>2. PICK b : AddedUp(qs, b)
  BY <1>0, SizeFold
<1> DEFINE Same == {i \in Nat : i <= n => a[i] = b[i]}
<1>3. 0 \in Same
  BY <1>1, <1>2 DEF AddedUp
<1>4. ASSUME NEW i \in Nat, i \in Same PROVE i + 1 \in Same
  <2> SUFFICES ASSUME i + 1 <= n PROVE a[i + 1] = b[i + 1]
    OBVIOUS
  <2>1. i + 1 \in 1 .. n /\ i + 1 \in 1 .. n + 1 /\ (i + 1) - 1 = i /\ a[i] = b[i]
    BY <1>4
  <2>2. a[i + 1] = a[i] + doc[ps[i + 1]].size
    BY <1>1, <2>1 DEF AddedUp
  <2>3. b[i + 1] = b[i] + doc[qs[i + 1]].size
    BY <1>0, <1>2, <2>1 DEF AddedUp
  <2> QED
    BY <1>0, <2>1, <2>2, <2>3
<1>5. n \in Same
  <2> HIDE DEF Same
  <2> QED
    BY <1>3, <1>4, NaturalsAreAll
<1>6. b[n + 1] = b[n] + doc[p].size
  BY <1>0, <1>2, n + 1 \in 1 .. n + 1, (n + 1) - 1 = n DEF AddedUp
<1> QED
  BY <1>0, <1>1, <1>2, <1>5, <1>6 DEF AddedUp

LEMMA SizeOfTail ==
    ASSUME IsDocument, NEW ps \in Seq(Paragraph), ps # <<>>
    PROVE  SizeOf(Tail(ps)) <= SizeOf(ps)
<1> PICK n \in Nat : n = Len(ps) - 1
  OBVIOUS
<1> PICK qs : qs = Tail(ps)
  OBVIOUS
<1>0. qs \in Seq(Paragraph) /\ Len(qs) = n /\ Len(ps) = n + 1 /\ \A i \in 1 .. n : qs[i] = ps[i + 1]
  OBVIOUS
<1>1. PICK a : AddedUp(ps, a)
  BY SizeFold
<1>2. PICK b : AddedUp(qs, b)
  BY <1>0, SizeFold
<1>a. \A i \in 1 .. n + 1 : a[i - 1] \in Nat /\ a[i] \in Nat
  <2>1. \A i \in 1 .. n + 1 : i - 1 \in 0 .. n + 1 /\ i \in 0 .. n + 1
    OBVIOUS
  <2>2. a \in [0 .. n + 1 -> Nat]
    BY <1>0, <1>1 DEF AddedUp
  <2> QED
    BY <2>1, <2>2
<1>b. \A i \in 0 .. n : b[i] \in Nat
  BY <1>0, <1>2 DEF AddedUp
<1> DEFINE Less == {i \in Nat : i <= n => b[i] <= a[i + 1]}
<1>3. 0 \in Less
  <2>1. b[0] = 0 /\ 0 + 1 \in 1 .. n + 1
    BY <1>2 DEF AddedUp
  <2> QED
    BY <1>a, <2>1
<1>4. ASSUME NEW i \in Nat, i \in Less PROVE i + 1 \in Less
  <2> SUFFICES ASSUME i + 1 <= n PROVE b[i + 1] <= a[(i + 1) + 1]
    OBVIOUS
  <2>1. /\ i + 1 \in 1 .. n /\ (i + 1) - 1 = i /\ b[i] <= a[i + 1]
        /\ (i + 1) + 1 \in 1 .. n + 1 /\ ((i + 1) + 1) - 1 = i + 1 /\ i \in 0 .. n
    BY <1>4
  <2>2. b[i + 1] = b[i] + doc[qs[i + 1]].size
    BY <1>0, <1>2, <2>1 DEF AddedUp
  <2>3. a[(i + 1) + 1] = a[i + 1] + doc[ps[(i + 1) + 1]].size
    BY <1>0, <1>1, <2>1 DEF AddedUp
  <2>4. qs[i + 1] = ps[(i + 1) + 1] /\ doc[qs[i + 1]].size \in Nat
    <3>1. qs[i + 1] \in Paragraph
      BY <1>0, <2>1
    <3> QED
      BY <1>0, <2>1, <3>1 DEF IsDocument
  <2> PICK x \in Nat, y \in Nat, z \in Nat : x = b[i] /\ y = a[i + 1] /\ z = doc[qs[i + 1]].size
    BY <1>a, <1>b, <2>1, <2>4
  <2> QED
    BY <2>1, <2>2, <2>3, <2>4
<1>5. n \in Less
  <2> HIDE DEF Less
  <2> QED
    BY <1>3, <1>4, NaturalsAreAll
<1> QED
  BY <1>0, <1>1, <1>2, <1>5 DEF AddedUp

(* How the blocks grow by a number.                                           *)
Opened(blocks, p, more) ==
    /\ Len(blocks) \in Nat /\ DOMAIN blocks = 1 .. Len(blocks)
    /\ more \in Blocks /\ DOMAIN more = 1 .. Len(blocks) + 1
    /\ \A k \in 1 .. Len(blocks) : more[k] = blocks[k]
    /\ more[Len(blocks) + 1] = <<p>>

Continued(blocks, p, more) ==
    /\ Len(blocks) \in Nat \ {0} /\ DOMAIN blocks = 1 .. Len(blocks)
    /\ blocks[Len(blocks)] \in Seq(Int) \ {<<>>}
    /\ Last(blocks) = blocks[Len(blocks)]
    /\ more \in Blocks /\ DOMAIN more = 1 .. Len(blocks)
    /\ \A k \in 1 .. Len(blocks) - 1 : more[k] = blocks[k]
    /\ more[Len(blocks)] = Append(blocks[Len(blocks)], p)

LEMMA BlockOpens ==
    ASSUME NEW blocks \in Blocks, NEW p \in Int
    PROVE  Opened(blocks, p, Append(blocks, <<p>>))
<1> PICK b : b = <<p>>
  OBVIOUS
<1>1. b \in Seq(Int) \ {<<>>}
  BY RisesSingle
<1> PICK n \in Nat : n = Len(blocks) /\ DOMAIN blocks = 1 .. n
  BY DEF Blocks
<1>2. /\ Append(blocks, b) \in Blocks
      /\ DOMAIN Append(blocks, b) = 1 .. n + 1
      /\ Append(blocks, b)[n + 1] = b
      /\ \A k \in 1 .. n : Append(blocks, b)[k] = blocks[k]
  BY <1>1 DEF Blocks
<1> QED
  BY <1>2 DEF Opened

LEMMA BlockGoesOn ==
    ASSUME NEW blocks \in Blocks, blocks # <<>>, NEW p \in Int
    PROVE  Continued(blocks, p, Append(Front(blocks), Append(Last(blocks), p)))
<1> PICK X, e : X = Seq(Int) \ {<<>>} /\ e = Append(Last(blocks), p)
  OBVIOUS
<1>1. blocks \in Seq(X)
  BY DEF Blocks
<1>2. Len(blocks) \in 1 .. Len(blocks) /\ DOMAIN blocks = 1 .. Len(blocks)
  BY <1>1
<1>3. blocks[Len(blocks)] \in X /\ Last(blocks) = blocks[Len(blocks)]
  BY <1>1, <1>2 DEF Last
<1>4. e \in X
  BY <1>3
<1> PICK more : more = Append(Front(blocks), e)
  OBVIOUS
<1>5. Replaced(X, blocks, e, more)
  BY <1>1, <1>4, ReplaceLast, Zenon
<1> QED
  BY <1>3, <1>5 DEF Blocks, Replaced, Continued

LEMMA HeadStays ==
    ASSUME NEW b \in Seq(Int) \ {<<>>}, NEW p \in Int
    PROVE  Head(Append(b, p)) = Head(b) /\ Head(b) \in ToSet(b) /\ Head(<<p>>) = p
  BY DEF ToSet

-----------------------------------------------------------------------------
(* The sections.                                                             *)

NextSections(sections, p) ==
    IF p \in Furniture THEN sections
    ELSE IF sections = <<>> \/ p \in Heading THEN Append(sections, <<p>>)
    ELSE Append(Front(sections), Append(Last(sections), p))

Sectioned(acc) ==
    /\ acc \in [0 .. Len(PageOf) -> Blocks]
    /\ acc[0] = <<>>
    /\ \A i \in 1 .. Len(PageOf) : acc[i] = NextSections(acc[i - 1], i)
    /\ SectionsOfDoc = acc[Len(PageOf)]

LEMMA SectionsFold == \E acc : Sectioned(acc)
<1> DEFINE V == Blocks
           step == [a \in V |-> [p \in Paragraph |-> NextSections(a, p)]]
           s == [p \in Paragraph |-> p]
<1>0. s \in Seq(Paragraph) /\ Len(s) = Len(PageOf) /\ \A i \in 1 .. Len(PageOf) : s[i] = i /\ i \in Paragraph
  BY ParagraphsAreNumbers
<1>1. \A a \in V, p \in Paragraph : step[a][p] \in V /\ step[a][p] = NextSections(a, p)
  <2> SUFFICES ASSUME NEW a \in Blocks, NEW p \in Paragraph PROVE NextSections(a, p) \in Blocks
    OBVIOUS
  <2>0. p \in Int
    BY ParagraphsAreNumbers
  <2>1. Append(a, <<p>>) \in Blocks
    BY <2>0, BlockOpens DEF Opened
  <2>2. a # <<>> => Append(Front(a), Append(Last(a), p)) \in Blocks
    BY <2>0, BlockGoesOn DEF Continued
  <2> QED
    BY <2>1, <2>2 DEF NextSections
<1>2. <<>> \in V
  BY DEF Blocks
<1>s. SectionsOfDoc = FoldLeft(LAMBDA a, p : NextSections(a, p), <<>>, s)
  BY Zenon DEF SectionsOfDoc, NextSections
<1> HIDE DEF V, step, s
<1>3. PICK g \in [SUBSET DOMAIN s -> V] : \A t \in SUBSET DOMAIN s :
         g[t] = IF t = {} THEN <<>> ELSE step[g[t \ {Max(t)}]][s[Max(t)]]
  <2>1. StaysIn(V, Paragraph, step)
    BY <1>1 DEF StaysIn
  <2>2. HasFold(V, step, <<>>, s)
    BY <1>0, <1>2, <2>1, FoldIs, Zenon
  <2> QED
    BY <2>2 DEF HasFold
<1>4. \A t \in SUBSET DOMAIN s : t # {} => s[Max(t)] \in Paragraph
  BY <1>0, MaxUpTo, DOMAIN s = 1 .. Len(s), Len(s) \in Nat
<1>5. g = [t \in SUBSET DOMAIN s |-> IF t = {} THEN <<>> ELSE
             LET x == Max(t) IN NextSections(g[t \ {x}], s[x])]
  <2>1. \A t \in SUBSET DOMAIN s : t # {} =>
           step[g[t \ {Max(t)}]][s[Max(t)]] = NextSections(g[t \ {Max(t)}], s[Max(t)])
    BY <1>1, <1>3, <1>4
  <2> QED
    BY <1>3, <2>1
<1>6. PICK f :
         /\ f = [t \in SUBSET DOMAIN s |-> IF t = {} THEN <<>> ELSE
                  LET x == Max(t) IN NextSections(f[t \ {x}], s[x])]
         /\ SectionsOfDoc = f[DOMAIN s]
  BY <1>5, <1>s, Zenon DEF FoldLeft, MapThenFoldSet
<1>7. f[{}] = <<>>
  BY <1>6
<1>8. ASSUME NEW t \in SUBSET DOMAIN s, t # {}, f[t \ {Max(t)}] \in V
      PROVE  f[t] = step[f[t \ {Max(t)}]][s[Max(t)]]
  BY <1>1, <1>4, <1>6, <1>8
<1>9. PICK acc \in [0 .. Len(s) -> V] :
         /\ acc[0] = <<>>
         /\ \A i \in 1 .. Len(s) : acc[i] = step[acc[i - 1]][s[i]]
         /\ f[DOMAIN s] = acc[Len(s)]
  <2>1. StaysIn(V, Paragraph, step)
    BY <1>1 DEF StaysIn
  <2>2. IsFold(f, V, step, <<>>, s)
    BY <1>7, <1>8 DEF IsFold
  <2>3. GoesThrough(f, V, step, <<>>, s)
    BY <1>0, <1>2, <2>1, <2>2, FoldRuns, Zenon
  <2> QED
    BY <2>3 DEF GoesThrough
<1>10. \A i \in 1 .. Len(s) : acc[i] = NextSections(acc[i - 1], s[i])
  <2> TAKE i \in 1 .. Len(s)
  <2>1. acc[i - 1] \in V /\ s[i] \in Paragraph
    BY <1>0
  <2> QED
    BY <1>1, <1>9, <2>1
<1>11. \A i \in 1 .. Len(PageOf) : acc[i] = NextSections(acc[i - 1], i)
  BY <1>0, <1>10
<1>12. acc \in [0 .. Len(PageOf) -> Blocks] /\ SectionsOfDoc = acc[Len(PageOf)]
  BY <1>0, <1>6, <1>9 DEF V
<1>13. Sectioned(acc)
  BY <1>9, <1>11, <1>12 DEF Sectioned
<1> QED
  BY <1>13

(* What the sections of the paragraphs read so far are.                       *)
Headed(b) == \A h \in ToSet(b) \cap Heading : h = Head(b)

AreSections(sections, ps) ==
    /\ sections \in Blocks /\ Cut(sections, ps)
    /\ \A k \in DOMAIN sections : Headed(sections[k]) /\ (k # 1 => Head(sections[k]) \in Heading)

LEMMA SectionsGrow ==
    ASSUME NEW i \in Nat \ {0}, NEW sections, AreSections(sections, (1 .. i - 1) \ Furniture)
    PROVE  AreSections(NextSections(sections, i), (1 .. i) \ Furniture)
<1> PICK ps : ps = (1 .. i - 1) \ Furniture
  OBVIOUS
<1> PICK more : more = NextSections(sections, i)
  OBVIOUS
<1>0. sections \in Blocks /\ Cut(sections, ps) /\ i \in Int /\ \A q \in ps : q < i
  BY DEF AreSections
<1>1. CASE i \in Furniture
  <2>1. (1 .. i) \ Furniture = (1 .. i - 1) \ Furniture
    BY <1>1
  <2>2. NextSections(sections, i) = sections
    BY <1>1 DEF NextSections
  <2> QED
    BY <2>1, <2>2, Zenon
<1>2. ASSUME i \notin Furniture PROVE (1 .. i) \ Furniture = ps \union {i}
  BY <1>2
<1>3. CASE i \notin Furniture /\ (sections = <<>> \/ i \in Heading)
  <2>1. more = Append(sections, <<i>>)
    BY <1>3 DEF NextSections
  <2>2. Cut(more, ps \union {i})
    BY <1>0, <2>1, CutOpens
  <2>3. Opened(sections, i, more)
    BY <1>0, <2>1, BlockOpens
  <2>4. ToSet(<<i>>) = {i} /\ Head(<<i>>) = i
    BY RisesSingle, <1>0
  <2> PICK n \in Nat : n = Len(sections) /\ DOMAIN sections = 1 .. n /\ (sections = <<>> => n = 0)
    BY <2>3 DEF Opened
  <2>5. ASSUME NEW k \in DOMAIN more
        PROVE  Headed(more[k]) /\ (k # 1 => Head(more[k]) \in Heading)
    <3>1. CASE k = n + 1
      BY <1>3, <2>3, <2>4, <3>1 DEF Opened, Headed
    <3>2. CASE k # n + 1
      <4>1. k \in 1 .. n /\ more[k] = sections[k]
        BY <2>3, <3>2 DEF Opened
      <4> QED
        BY <4>1 DEF AreSections
    <3> QED
      BY <3>1, <3>2
  <2> QED
    BY <1>2, <1>3, <2>2, <2>3, <2>5 DEF AreSections, Opened
<1>4. CASE i \notin Furniture /\ sections # <<>> /\ i \notin Heading
  <2>1. more = Append(Front(sections), Append(Last(sections), i))
    BY <1>4 DEF NextSections
  <2>2. Cut(more, ps \union {i})
    BY <1>0, <1>4, <2>1, CutGoesOn
  <2>3. Continued(sections, i, more)
    BY <1>0, <1>4, <2>1, BlockGoesOn
  <2> PICK n \in Nat \ {0} : n = Len(sections) /\ DOMAIN sections = 1 .. n
    BY <2>3 DEF Continued
  <2> PICK b \in Seq(Int) \ {<<>>} : b = sections[n]
    BY <2>3 DEF Continued
  <2>a. ToSet(b) \subseteq ps /\ Rises(b)
    BY <1>0 DEF Cut
  <2>4. /\ Head(Append(b, i)) = Head(b)
        /\ ToSet(Append(b, i)) = ToSet(b) \union {i}
    BY <1>0, <2>a, HeadStays, RisesAppend
  <2>5. ASSUME NEW k \in DOMAIN more
        PROVE  Headed(more[k]) /\ (k # 1 => Head(more[k]) \in Heading)
    <3>1. CASE k = n
      BY <1>4, <2>3, <2>4, <3>1 DEF Continued, Headed, AreSections
    <3>2. CASE k # n
      <4>1. k \in 1 .. n - 1 /\ k \in 1 .. n /\ more[k] = sections[k]
        BY <2>3, <3>2 DEF Continued
      <4> QED
        BY <4>1 DEF AreSections
    <3> QED
      BY <3>1, <3>2
  <2> QED
    BY <1>2, <1>4, <2>2, <2>3, <2>5 DEF AreSections, Continued
<1> QED
  BY <1>1, <1>3, <1>4

LEMMA SectionsHold == AreSections(SectionsOfDoc, Paragraph \ Furniture)
<1> PICK N \in Nat : N = Len(PageOf) /\ Paragraph = 1 .. N
  BY ParagraphsAreNumbers
<1>1. PICK acc : Sectioned(acc)
  BY SectionsFold
<1> DEFINE Good == {i \in Nat : i <= N => AreSections(acc[i], (1 .. i) \ Furniture)}
<1>2. 0 \in Good
  <2>1. acc[0] = <<>> /\ <<>> \in Blocks /\ (1 .. 0) \ Furniture = {}
    BY <1>1 DEF Sectioned, Blocks
  <2> QED
    BY <2>1, CutNone DEF AreSections
<1>3. ASSUME NEW i \in Nat, i \in Good PROVE i + 1 \in Good
  <2> SUFFICES ASSUME i + 1 <= N PROVE AreSections(acc[i + 1], (1 .. i + 1) \ Furniture)
    OBVIOUS
  <2> PICK j \in Nat \ {0} : j = i + 1 /\ j - 1 = i /\ j \in 1 .. N
    OBVIOUS
  <2>1. AreSections(acc[j - 1], (1 .. j - 1) \ Furniture)
    BY <1>3
  <2>2. acc[j] = NextSections(acc[j - 1], j)
    BY <1>1 DEF Sectioned
  <2> QED
    BY <2>1, <2>2, SectionsGrow
<1>4. N \in Good
  <2> HIDE DEF Good
  <2> QED
    BY <1>2, <1>3, NaturalsAreAll
<1> QED
  BY <1>1, <1>4 DEF Sectioned

(* The runs of an oversized section.                                         *)

NextRuns(runs, p) ==
    IF runs = <<>> \/ SizeOf(Last(runs)) + doc[p].size > MaxSection
    THEN Append(runs, <<p>>)
    ELSE Append(Front(runs), Append(Last(runs), p))

RunBy(body, acc) ==
    /\ acc \in [0 .. Len(body) -> Blocks]
    /\ acc[0] = <<>>
    /\ \A i \in 1 .. Len(body) : acc[i] = NextRuns(acc[i - 1], body[i])
    /\ Runs(body) = acc[Len(body)]

LEMMA RunsFold == ASSUME NEW body \in Seq(Paragraph) PROVE \E acc : RunBy(body, acc)
<1> DEFINE V == Blocks
           step == [a \in V |-> [p \in Paragraph |-> NextRuns(a, p)]]
<1>1. \A a \in V, p \in Paragraph : step[a][p] \in V /\ step[a][p] = NextRuns(a, p)
  <2> SUFFICES ASSUME NEW a \in Blocks, NEW p \in Paragraph PROVE NextRuns(a, p) \in Blocks
    OBVIOUS
  <2>0. p \in Int
    BY ParagraphsAreNumbers
  <2>1. Append(a, <<p>>) \in Blocks
    BY <2>0, BlockOpens DEF Opened
  <2>2. a # <<>> => Append(Front(a), Append(Last(a), p)) \in Blocks
    BY <2>0, BlockGoesOn DEF Continued
  <2> QED
    BY <2>1, <2>2 DEF NextRuns
<1>2. <<>> \in V
  BY DEF Blocks
<1>s. Runs(body) = FoldLeft(LAMBDA a, p : NextRuns(a, p), <<>>, body)
  BY Zenon DEF Runs, NextRuns
<1> HIDE DEF V, step
<1>3. PICK g \in [SUBSET DOMAIN body -> V] : \A t \in SUBSET DOMAIN body :
         g[t] = IF t = {} THEN <<>> ELSE step[g[t \ {Max(t)}]][body[Max(t)]]
  <2>1. StaysIn(V, Paragraph, step)
    BY <1>1 DEF StaysIn
  <2>2. HasFold(V, step, <<>>, body)
    BY <1>2, <2>1, FoldIs, Zenon
  <2> QED
    BY <2>2 DEF HasFold
<1>4. \A t \in SUBSET DOMAIN body : t # {} => body[Max(t)] \in Paragraph
  BY MaxUpTo, DOMAIN body = 1 .. Len(body), Len(body) \in Nat
<1>5. g = [t \in SUBSET DOMAIN body |-> IF t = {} THEN <<>> ELSE
             LET x == Max(t) IN NextRuns(g[t \ {x}], body[x])]
  <2>1. \A t \in SUBSET DOMAIN body : t # {} =>
           step[g[t \ {Max(t)}]][body[Max(t)]] = NextRuns(g[t \ {Max(t)}], body[Max(t)])
    BY <1>1, <1>3, <1>4
  <2> QED
    BY <1>3, <2>1
<1>6. PICK f :
         /\ f = [t \in SUBSET DOMAIN body |-> IF t = {} THEN <<>> ELSE
                  LET x == Max(t) IN NextRuns(f[t \ {x}], body[x])]
         /\ Runs(body) = f[DOMAIN body]
  BY <1>5, <1>s, Zenon DEF FoldLeft, MapThenFoldSet
<1>7. f[{}] = <<>>
  BY <1>6
<1>8. ASSUME NEW t \in SUBSET DOMAIN body, t # {}, f[t \ {Max(t)}] \in V
      PROVE  f[t] = step[f[t \ {Max(t)}]][body[Max(t)]]
  BY <1>1, <1>4, <1>6, <1>8
<1>9. PICK acc \in [0 .. Len(body) -> V] :
         /\ acc[0] = <<>>
         /\ \A i \in 1 .. Len(body) : acc[i] = step[acc[i - 1]][body[i]]
         /\ f[DOMAIN body] = acc[Len(body)]
  <2>1. StaysIn(V, Paragraph, step)
    BY <1>1 DEF StaysIn
  <2>2. IsFold(f, V, step, <<>>, body)
    BY <1>7, <1>8 DEF IsFold
  <2>3. GoesThrough(f, V, step, <<>>, body)
    BY <1>2, <2>1, <2>2, FoldRuns, Zenon
  <2> QED
    BY <2>3 DEF GoesThrough
<1>10. \A i \in 1 .. Len(body) : acc[i] = NextRuns(acc[i - 1], body[i])
  <2> TAKE i \in 1 .. Len(body)
  <2>1. acc[i - 1] \in V /\ body[i] \in Paragraph
    OBVIOUS
  <2> QED
    BY <1>1, <1>9, <2>1
<1>11. RunBy(body, acc)
  BY <1>6, <1>9, <1>10 DEF RunBy, V
<1> QED
  BY <1>11

(* A run is within the size of a section, or is one paragraph.                *)
RunFits(piece) == SizeOf(piece) <= MaxSection \/ Len(piece) = 1

AreRuns(runs, ps) ==
    /\ runs \in Blocks /\ Cut(runs, ps)
    /\ \A k \in DOMAIN runs : RunFits(runs[k])

LEMMA OfParagraphs ==
    ASSUME NEW b \in Seq(Int), ToSet(b) \subseteq Paragraph
    PROVE  b \in Seq(Paragraph)
<1>1. b \in [1 .. Len(b) -> Int] /\ Len(b) \in Nat
  OBVIOUS
<1>2. \A i \in 1 .. Len(b) : b[i] \in Paragraph
  BY <1>1 DEF ToSet
<1> QED
  BY <1>1, <1>2

LEMMA RunsGrow ==
    ASSUME IsDocument, NEW ps \in SUBSET Paragraph, NEW runs, AreRuns(runs, ps),
           NEW p \in Paragraph, \A q \in ps : q < p
    PROVE  AreRuns(NextRuns(runs, p), ps \union {p})
<1> PICK more : more = NextRuns(runs, p)
  OBVIOUS
<1>0. runs \in Blocks /\ Cut(runs, ps) /\ p \in Int
  BY ParagraphsAreNumbers DEF AreRuns
<1>1. CASE runs = <<>> \/ SizeOf(Last(runs)) + doc[p].size > MaxSection
  <2>1. more = Append(runs, <<p>>)
    BY <1>1 DEF NextRuns
  <2>2. Cut(more, ps \union {p})
    BY <1>0, <2>1, CutOpens
  <2>3. Opened(runs, p, more)
    BY <1>0, <2>1, BlockOpens
  <2>4. RunFits(<<p>>)
    BY DEF RunFits
  <2> PICK n \in Nat : n = Len(runs) /\ DOMAIN runs = 1 .. n
    BY <2>3 DEF Opened
  <2>5. ASSUME NEW k \in DOMAIN more PROVE RunFits(more[k])
    <3>1. CASE k = n + 1
      BY <2>3, <2>4, <3>1 DEF Opened
    <3>2. CASE k # n + 1
      <4>1. k \in 1 .. n /\ more[k] = runs[k]
        BY <2>3, <3>2 DEF Opened
      <4> QED
        BY <4>1 DEF AreRuns
    <3> QED
      BY <3>1, <3>2
  <2> QED
    BY <2>2, <2>3, <2>5 DEF AreRuns, Opened
<1>2. CASE runs # <<>> /\ ~(SizeOf(Last(runs)) + doc[p].size > MaxSection)
  <2>1. more = Append(Front(runs), Append(Last(runs), p))
    BY <1>2 DEF NextRuns
  <2>2. Cut(more, ps \union {p})
    BY <1>0, <1>2, <2>1, CutGoesOn
  <2>3. Continued(runs, p, more)
    BY <1>0, <1>2, <2>1, BlockGoesOn
  <2> PICK n \in Nat \ {0} : n = Len(runs) /\ DOMAIN runs = 1 .. n
    BY <2>3 DEF Continued
  <2> PICK b \in Seq(Int) \ {<<>>} : b = runs[n] /\ b = Last(runs) /\ more[n] = Append(b, p)
    BY <2>3 DEF Continued
  <2>4. RunFits(Append(b, p))
    <3>0. n \in DOMAIN runs
      OBVIOUS
    <3>1. ToSet(b) \subseteq ps
      BY <1>0, <3>0 DEF Cut
    <3>2. b \in Seq(Paragraph)
      <4> QED
        BY <3>1, OfParagraphs, ToSet(b) \subseteq Paragraph
    <3>3. SizeOf(Append(b, p)) = SizeOf(b) + doc[p].size
      BY <3>2, SizeOfLonger
    <3>4. SizeOf(b) \in Nat /\ doc[p].size \in Nat /\ MaxSection \in Nat
      BY <3>2, SizeOfNat, SectionsAssumption DEF IsDocument
    <3>5. SizeOf(b) + doc[p].size <= MaxSection
      BY <1>2, <3>4
    <3> QED
      BY <3>3, <3>5 DEF RunFits
  <2>5. ASSUME NEW k \in DOMAIN more PROVE RunFits(more[k])
    <3>1. CASE k = n
      BY <2>4, <3>1
    <3>2. CASE k # n
      <4>1. k \in 1 .. n - 1 /\ k \in 1 .. n /\ more[k] = runs[k]
        BY <2>3, <3>2 DEF Continued
      <4> QED
        BY <4>1 DEF AreRuns
    <3> QED
      BY <3>1, <3>2
  <2> QED
    BY <2>2, <2>3, <2>5 DEF AreRuns, Continued
<1> QED
  BY <1>1, <1>2

LEMMA RunsHold ==
    ASSUME IsDocument, NEW body \in Seq(Paragraph), Rises(body)
    PROVE  AreRuns(Runs(body), ToSet(body))
<1> PICK N \in Nat : N = Len(body) /\ DOMAIN body = 1 .. N
  OBVIOUS
<1>1. PICK acc : RunBy(body, acc)
  BY RunsFold
<1> DEFINE Upto(i) == {body[j] : j \in 1 .. i}
           Good == {i \in Nat : i <= N => AreRuns(acc[i], Upto(i))}
<1>2. 0 \in Good
  <2>1. Upto(0) = {}
    OBVIOUS
  <2> HIDE DEF Upto
  <2>2. acc[0] = <<>> /\ <<>> \in Blocks /\ DOMAIN <<>> = {}
    BY <1>1 DEF RunBy, Blocks
  <2> QED
    BY <2>1, <2>2, CutNone DEF AreRuns
<1>3. ASSUME NEW i \in Nat, i \in Good PROVE i + 1 \in Good
  <2> SUFFICES ASSUME i + 1 <= N PROVE AreRuns(acc[i + 1], Upto(i + 1))
    <3> HIDE DEF Upto
    <3>1. i + 1 \in Nat
      OBVIOUS
    <3> QED
      BY <3>1
  <2> PICK j \in Nat \ {0} : j = i + 1 /\ j - 1 = i /\ j \in 1 .. N
    OBVIOUS
  <2>1. AreRuns(acc[j - 1], Upto(i))
    BY <1>3
  <2>2. acc[j] = NextRuns(acc[j - 1], body[j])
    BY <1>1 DEF RunBy
  <2>3. Upto(i) \in SUBSET Paragraph /\ body[j] \in Paragraph /\ Upto(i) \union {body[j]} = Upto(j)
    OBVIOUS
  <2>4. \A q \in Upto(i) : q < body[j]
    BY DEF Rises
  <2> HIDE DEF Upto
  <2>5. AreRuns(NextRuns(acc[j - 1], body[j]), Upto(i) \union {body[j]})
    BY <2>1, <2>3, <2>4, RunsGrow
  <2> QED
    BY <2>2, <2>3, <2>5
<1>4. N \in Good
  <2> HIDE DEF Good
  <2> QED
    BY <1>2, <1>3, NaturalsAreAll
<1>5. Upto(N) = ToSet(body)
  BY DEF ToSet
<1> HIDE DEF Upto
<1> QED
  BY <1>1, <1>4, <1>5 DEF RunBy

(* A sequence with a head put before it, and one taken apart.                 *)

LEMMA HeadPut ==
    ASSUME NEW h \in Int, NEW piece \in Seq(Int), Rises(piece), \A q \in ToSet(piece) : h < q
    PROVE  /\ <<h>> \o piece \in Seq(Int) \ {<<>>}
           /\ Rises(<<h>> \o piece)
           /\ ToSet(<<h>> \o piece) = {h} \union ToSet(piece)
           /\ Head(<<h>> \o piece) = h /\ Tail(<<h>> \o piece) = piece
<1> PICK n \in Nat : n = Len(piece) /\ DOMAIN piece = 1 .. n
  OBVIOUS
<1> PICK t : t = <<h>> \o piece
  OBVIOUS
<1>1. /\ t \in Seq(Int) /\ Len(t) = n + 1 /\ DOMAIN t = 1 .. n + 1 /\ t[1] = h
      /\ \A i \in 2 .. n + 1 : t[i] = piece[i - 1] /\ i - 1 \in 1 .. n
      /\ \A i \in 1 .. n : piece[i] = t[i + 1] /\ i + 1 \in 1 .. n + 1
  OBVIOUS
<1>2. \A i \in 1 .. n : piece[i] \in ToSet(piece)
  BY DEF ToSet
<1>3. ASSUME NEW i \in 1 .. n + 1, NEW j \in 1 .. n + 1, i < j PROVE t[i] < t[j]
  <2>1. j \in 2 .. n + 1
    BY <1>3
  <2>2. CASE i = 1
    BY <1>1, <1>2, <2>1, <2>2
  <2>3. CASE i # 1
    <3>1. i \in 2 .. n + 1 /\ i - 1 < j - 1
      BY <1>3, <2>3
    <3> QED
      BY <1>1, <2>1, <3>1 DEF Rises
  <2> QED
    BY <2>2, <2>3
<1>4. ToSet(t) = {h} \union ToSet(piece)
  <2>1. ASSUME NEW i \in 1 .. n + 1 PROVE t[i] \in {h} \union ToSet(piece)
    <3>1. CASE i = 1
      BY <1>1, <3>1
    <3>2. CASE i # 1
      BY <1>1, <1>2, <3>2, i \in 2 .. n + 1
    <3> QED
      BY <3>1, <3>2
  <2>2. h \in ToSet(t)
    BY <1>1, 1 \in 1 .. n + 1 DEF ToSet
  <2>3. ASSUME NEW i \in 1 .. n PROVE piece[i] \in ToSet(t)
    BY <1>1 DEF ToSet
  <2>4. ToSet(t) = {t[i] : i \in 1 .. n + 1} /\ ToSet(piece) = {piece[i] : i \in 1 .. n}
    BY <1>1 DEF ToSet
  <2>5. ToSet(t) \subseteq {h} \union ToSet(piece)
    BY <2>1, <2>4
  <2>6. ToSet(piece) \subseteq ToSet(t)
    BY <2>3, <2>4
  <2> QED
    BY <2>2, <2>5, <2>6
<1>5. t # <<>> /\ Head(t) = h
  BY <1>1
<1>6. Tail(t) = piece
  <2>1. Tail(t) \in Seq(Int) /\ Len(Tail(t)) = n /\ \A i \in 1 .. n : Tail(t)[i] = piece[i]
    BY <1>1, <1>5
  <2> QED
    BY <2>1
<1> QED
  BY <1>1, <1>3, <1>4, <1>5, <1>6 DEF Rises

LEMMA HeadTaken ==
    ASSUME NEW section \in Seq(Int) \ {<<>>}, Rises(section)
    PROVE  /\ Head(section) \in Int /\ Head(section) \in ToSet(section)
           /\ Tail(section) \in Seq(Int) /\ Rises(Tail(section))
           /\ ToSet(section) = {Head(section)} \union ToSet(Tail(section))
           /\ \A q \in ToSet(Tail(section)) : Head(section) < q
<1> PICK n \in Nat : Len(section) = n + 1 /\ DOMAIN section = 1 .. n + 1
  <2>1. Len(section) \in Nat \ {0} /\ DOMAIN section = 1 .. Len(section)
    OBVIOUS
  <2> PICK m \in Nat \ {0} : m = Len(section)
    BY <2>1
  <2>2. m - 1 \in Nat /\ m = (m - 1) + 1
    OBVIOUS
  <2> QED
    BY <2>1, <2>2
<1> PICK h, t : h = Head(section) /\ t = Tail(section)
  OBVIOUS
<1>1. /\ h = section[1] /\ h \in Int /\ t \in Seq(Int) /\ Len(t) = n /\ DOMAIN t = 1 .. n
      /\ \A i \in 1 .. n : t[i] = section[i + 1] /\ i + 1 \in 1 .. n + 1 /\ 1 < i + 1
  OBVIOUS
<1>2. \A i \in 2 .. n + 1 : section[i] = t[i - 1] /\ i - 1 \in 1 .. n
  BY <1>1
<1>3. Rises(t)
  <2> SUFFICES ASSUME NEW i \in 1 .. n, NEW j \in 1 .. n, i < j PROVE t[i] < t[j]
    BY <1>1 DEF Rises
  <2> QED
    BY <1>1, i + 1 < j + 1 DEF Rises
<1>4. \A q \in ToSet(t) : h < q /\ q \in ToSet(section)
  <2> SUFFICES ASSUME NEW i \in 1 .. n PROVE h < t[i] /\ t[i] \in ToSet(section)
    BY <1>1 DEF ToSet
  <2>1. 1 \in 1 .. n + 1 /\ i + 1 \in 1 .. n + 1 /\ 1 < i + 1
    BY <1>1
  <2>2. section[1] < section[i + 1]
    BY <2>1 DEF Rises
  <2>3. section[i + 1] \in ToSet(section)
    BY <2>1 DEF ToSet
  <2> QED
    BY <1>1, <2>2, <2>3
<1>5. \A q \in ToSet(section) : q = h \/ q \in ToSet(t)
  <2> SUFFICES ASSUME NEW i \in 1 .. n + 1 PROVE section[i] = h \/ section[i] \in ToSet(t)
    BY DEF ToSet
  <2>1. CASE i = 1
    BY <1>1, <2>1
  <2>2. CASE i # 1
    BY <1>1, <1>2, <2>2, i \in 2 .. n + 1 DEF ToSet
  <2> QED
    BY <2>1, <2>2
<1>6. h \in ToSet(section)
  BY <1>1, 1 \in 1 .. n + 1 DEF ToSet
<1> QED
  BY <1>1, <1>3, <1>4, <1>5, <1>6

-----------------------------------------------------------------------------
(* The parts of a section.                                                   *)

PartOf(section, part) ==
    /\ Rises(part) /\ ToSet(part) \subseteq ToSet(section)
    /\ ToSet(section) \cap Heading \subseteq ToSet(part)
    /\ Headed(part)
    /\ RunFits(BodyOf(part))

PartsOf(section, parts) ==
    /\ parts \in Blocks /\ parts # <<>>
    /\ \A i \in DOMAIN parts : PartOf(section, parts[i])
    /\ \A p \in ToSet(section) \ Heading : \E i \in DOMAIN parts : p \in ToSet(parts[i])
    /\ \A i, j \in DOMAIN parts : \A p \in ToSet(section) \ Heading :
          p \in ToSet(parts[i]) /\ p \in ToSet(parts[j]) => i = j

IsSection(section) ==
    /\ section \in Seq(Int) \ {<<>>} /\ Rises(section) /\ Headed(section)
    /\ ToSet(section) \subseteq Paragraph

LEMMA WholeSection ==
    ASSUME IsDocument, NEW section, IsSection(section),
           SizeOf(section) <= MaxSection \/ BodyOf(section) = <<>>
    PROVE  PartsOf(section, <<section>>)
<1>1. section \in Seq(Paragraph) /\ section # <<>> /\ MaxSection \in Nat
  BY OfParagraphs, SectionsAssumption DEF IsSection
<1>2. RunFits(BodyOf(section))
  <2>1. CASE BodyOf(section) = <<>>
    BY <1>1, <2>1, SizeOfNone DEF RunFits
  <2>2. CASE SizeOf(section) <= MaxSection
    <3>1. SizeOf(Tail(section)) <= SizeOf(section)
      BY <1>1, SizeOfTail
    <3>2. Tail(section) \in Seq(Paragraph)
      BY <1>1
    <3>3. SizeOf(section) \in Nat /\ SizeOf(Tail(section)) \in Nat
      BY <1>1, <3>2, SizeOfNat
    <3>4. SizeOf(Tail(section)) <= MaxSection
      BY <1>1, <2>2, <3>1, <3>3
    <3> QED
      BY <2>2, <3>4 DEF RunFits, BodyOf
  <2> QED
    BY <2>1, <2>2
<1>3. PartOf(section, section)
  BY <1>2 DEF PartOf, IsSection
<1> PICK parts : parts = <<section>>
  OBVIOUS
<1>4. parts \in Blocks /\ parts # <<>> /\ DOMAIN parts = {1} /\ parts[1] = section
  BY DEF Blocks, IsSection
<1> QED
  BY <1>3, <1>4 DEF PartsOf

\* What the part with a run is.
LEMMA PartWithRun ==
    ASSUME NEW section, IsSection(section),
           NEW piece \in Seq(Int) \ {<<>>}, Rises(piece), RunFits(piece),
           ToSet(piece) \subseteq ToSet(BodyOf(section))
    PROVE  /\ TitleOf(section) \o piece \in Seq(Int) \ {<<>>}
           /\ PartOf(section, TitleOf(section) \o piece)
           /\ ToSet(piece) \subseteq ToSet(TitleOf(section) \o piece)
           /\ ToSet(TitleOf(section) \o piece) \subseteq Heading \union ToSet(piece)
<1> PICK h, t : h = Head(section) /\ t = Tail(section)
  OBVIOUS
<1> PICK part : part = TitleOf(section) \o piece
  OBVIOUS
<1>1. /\ h \in Int /\ h \in ToSet(section) /\ ToSet(section) = {h} \union ToSet(t)
      /\ \A q \in ToSet(t) : h < q
  BY HeadTaken DEF IsSection
<1>2. CASE h \in Heading
  <2>1. ToSet(piece) \subseteq ToSet(t) /\ part = <<h>> \o piece
    BY <1>2 DEF BodyOf, TitleOf
  <2>2. /\ part \in Seq(Int) \ {<<>>} /\ Rises(part)
        /\ ToSet(part) = {h} \union ToSet(piece)
        /\ Head(part) = h /\ Tail(part) = piece
    <3>1. \A q \in ToSet(piece) : h < q
      BY <1>1, <2>1
    <3>2. h \in Int /\ piece \in Seq(Int)
      BY <1>1
    <3> QED
      BY <2>1, <3>1, <3>2, HeadPut
  <2>3. RunFits(BodyOf(part))
    BY <1>2, <2>2 DEF BodyOf
  <2>4. \A g \in ToSet(section) \cap Heading : g = h
    BY DEF IsSection, Headed
  <2>5. Headed(part)
    BY <1>1, <2>1, <2>2, <2>4 DEF Headed
  <2> QED
    BY <1>1, <1>2, <2>1, <2>2, <2>3, <2>4, <2>5 DEF PartOf
<1>3. CASE h \notin Heading
  <2>1. ToSet(piece) \subseteq ToSet(section) /\ part = piece
    BY <1>3 DEF BodyOf, TitleOf
  <2>2. ToSet(section) \cap Heading = {}
    BY <1>3 DEF IsSection, Headed
  <2>3. Head(piece) \in ToSet(piece)
    BY HeadTaken
  <2>4. BodyOf(piece) = piece
    BY <2>1, <2>2, <2>3 DEF BodyOf
  <2> QED
    BY <2>1, <2>2, <2>4 DEF PartOf, Headed
<1> QED
  BY <1>2, <1>3

LEMMA SplitSections ==
    ASSUME IsDocument, NEW section, IsSection(section)
    PROVE  PartsOf(section, SplitOversized(section))
<1>1. CASE SizeOf(section) <= MaxSection \/ BodyOf(section) = <<>>
  BY <1>1, WholeSection DEF SplitOversized
<1>2. CASE ~(SizeOf(section) <= MaxSection \/ BodyOf(section) = <<>>)
  <2> PICK body, runs : body = BodyOf(section) /\ runs = Runs(body)
    OBVIOUS
  <2> PICK parts : parts = [i \in DOMAIN runs |-> TitleOf(section) \o runs[i]]
    OBVIOUS
  <2>1. SplitOversized(section) = parts
    BY <1>2 DEF SplitOversized
  <2>2. /\ body \in Seq(Int) /\ Rises(body) /\ body # <<>>
        /\ ToSet(body) \subseteq ToSet(section)
        /\ ToSet(section) \ Heading \subseteq ToSet(body)
    <3>1. Head(section) \in ToSet(section) /\ Tail(section) \in Seq(Int) /\ Rises(Tail(section))
          /\ ToSet(section) = {Head(section)} \union ToSet(Tail(section))
      BY HeadTaken DEF IsSection
    <3> QED
      BY <1>2, <3>1 DEF BodyOf, IsSection
  <2>3. body \in Seq(Paragraph)
    BY <2>2, OfParagraphs, ToSet(body) \subseteq Paragraph DEF IsSection
  <2>4. runs \in Blocks /\ Cut(runs, ToSet(body)) /\ \A k \in DOMAIN runs : RunFits(runs[k])
    BY <2>2, <2>3, RunsHold DEF AreRuns
  <2>5. PICK n \in Nat : n = Len(runs) /\ DOMAIN runs = 1 .. n /\ \A k \in 1 .. n : runs[k] \in Seq(Int) \ {<<>>}
    BY <2>4 DEF Blocks
  <2>6. DOMAIN parts = 1 .. n /\ \A k \in 1 .. n : parts[k] = TitleOf(section) \o runs[k]
    BY <2>5
  <2>7. ASSUME NEW k \in 1 .. n
        PROVE  /\ parts[k] \in Seq(Int) \ {<<>>} /\ PartOf(section, parts[k])
               /\ ToSet(runs[k]) \subseteq ToSet(parts[k])
               /\ ToSet(parts[k]) \subseteq Heading \union ToSet(runs[k])
    <3> PICK piece \in Seq(Int) \ {<<>>} : piece = runs[k]
      BY <2>5
    <3>1. Rises(piece) /\ RunFits(piece) /\ ToSet(piece) \subseteq ToSet(body)
      BY <2>4, <2>5 DEF Cut
    <3> QED
      BY <2>6, <3>1, PartWithRun
  <2>8. parts \in Blocks
    <3> PICK X : X = Seq(Int) \ {<<>>}
      OBVIOUS
    <3>1. parts \in [1 .. n -> X]
      BY <2>5, <2>7
    <3> QED
      BY <3>1 DEF Blocks
  <2>9. ASSUME NEW p \in ToSet(section) \ Heading PROVE \E i \in 1 .. n : p \in ToSet(parts[i])
    <3>1. PICK k \in 1 .. n : p \in ToSet(runs[k])
      BY <2>2, <2>4, <2>5 DEF Cut
    <3> QED
      BY <2>7, <3>1
  <2>10. ASSUME NEW i \in 1 .. n, NEW j \in 1 .. n, NEW p \in ToSet(section) \ Heading,
                p \in ToSet(parts[i]), p \in ToSet(parts[j])
         PROVE  i = j
    <3>1. p \in ToSet(runs[i]) /\ p \in ToSet(runs[j])
      BY <2>7, <2>10
    <3>2. p \in Int
      BY ParagraphsAreNumbers DEF IsSection
    <3> QED
      BY <2>4, <2>5, <3>1, <3>2, CutOnce
  <2>11. parts # <<>>
    <3>1. Head(body) \in ToSet(body)
      BY <2>2, HeadTaken
    <3>2. n # 0
      BY <2>4, <2>5, <3>1 DEF Cut
    <3> QED
      BY <2>6, <3>2, 1 \in 1 .. n
  <2> QED
    BY <2>1, <2>6, <2>7, <2>8, <2>9, <2>10, <2>11 DEF PartsOf
<1> QED
  BY <1>1, <1>2

(* Sequences put one after the other: every place of the result is a place of *)
(* one of them, and the other way about.                                      *)

Flat(c, parts, n, blk, pos) ==
    /\ Len(c) \in Nat /\ DOMAIN c = 1 .. Len(c)
    /\ \A i \in DOMAIN c : blk[i] \in 1 .. n /\ pos[i] \in DOMAIN parts[blk[i]]
                              /\ c[i] = parts[blk[i]][pos[i]]
    /\ \A k \in 1 .. n : \A j \in DOMAIN parts[k] :
          \E i \in DOMAIN c : blk[i] = k /\ pos[i] = j
    /\ \A i, l \in DOMAIN c : blk[i] = blk[l] /\ pos[i] = pos[l] => i = l

IsFlat(c, parts, n) == \E blk, pos : Flat(c, parts, n, blk, pos)

PutTogether(X, n, parts, acc) ==
    /\ n \in Nat
    /\ acc \in [0 .. n -> Seq(X)] /\ acc[0] = <<>>
    /\ \A k \in 1 .. n : parts[k] \in Seq(X) /\ acc[k] = acc[k - 1] \o parts[k]

LEMMA FlatNone == ASSUME NEW parts PROVE IsFlat(<<>>, parts, 0)
<1>1. Flat(<<>>, parts, 0, <<>>, <<>>)
  BY DEF Flat
<1> QED
  BY <1>1 DEF IsFlat

LEMMA FlatGrows ==
    ASSUME NEW X, NEW n \in Nat \ {0}, NEW parts, NEW c \in Seq(X), parts[n] \in Seq(X),
           IsFlat(c, parts, n - 1)
    PROVE  IsFlat(c \o parts[n], parts, n)
<1>1. PICK blk, pos : Flat(c, parts, n - 1, blk, pos)
  BY DEF IsFlat
<1> PICK p \in Seq(X) : p = parts[n]
  OBVIOUS
<1> PICK m \in Nat : m = Len(p) /\ DOMAIN p = 1 .. m
  OBVIOUS
<1> PICK L \in Nat : L = Len(c) /\ DOMAIN c = 1 .. L
  OBVIOUS
<1> PICK d : d = c \o p
  OBVIOUS
<1>2. /\ Len(d) = L + m /\ DOMAIN d = 1 .. L + m
      /\ \A i \in 1 .. L : d[i] = c[i]
      /\ \A i \in 1 .. L + m : i \notin 1 .. L => i - L \in 1 .. m /\ d[i] = p[i - L]
      /\ \A j \in 1 .. m : j + L \in 1 .. L + m /\ j + L \notin 1 .. L /\ (j + L) - L = j
  OBVIOUS
<1> DEFINE blk2 == [i \in 1 .. L + m |-> IF i \in 1 .. L THEN blk[i] ELSE n]
           pos2 == [i \in 1 .. L + m |-> IF i \in 1 .. L THEN pos[i] ELSE i - L]
<1>3. /\ \A i \in 1 .. L : i \in 1 .. L + m /\ blk2[i] = blk[i] /\ pos2[i] = pos[i]
      /\ \A i \in 1 .. L + m : i \notin 1 .. L => blk2[i] = n /\ pos2[i] = i - L
  OBVIOUS
<1>4. /\ \A i \in 1 .. L : blk[i] \in 1 .. n - 1 /\ pos[i] \in DOMAIN parts[blk[i]]
                              /\ c[i] = parts[blk[i]][pos[i]]
      /\ \A k \in 1 .. n - 1 : \A j \in DOMAIN parts[k] :
          \E i \in 1 .. L : blk[i] = k /\ pos[i] = j
      /\ \A i, l \in 1 .. L : blk[i] = blk[l] /\ pos[i] = pos[l] => i = l
  <2>1. 1 .. L = DOMAIN c
    OBVIOUS
  <2>2. \A i \in DOMAIN c : blk[i] \in 1 .. n - 1 /\ pos[i] \in DOMAIN parts[blk[i]]
                              /\ c[i] = parts[blk[i]][pos[i]]
    BY <1>1 DEF Flat
  <2>3. \A k \in 1 .. n - 1 : \A j \in DOMAIN parts[k] : \E i \in DOMAIN c : blk[i] = k /\ pos[i] = j
    BY <1>1 DEF Flat
  <2>4. \A i, l \in DOMAIN c : blk[i] = blk[l] /\ pos[i] = pos[l] => i = l
    BY <1>1 DEF Flat
  <2>5. ASSUME NEW k \in 1 .. n - 1, NEW j \in DOMAIN parts[k]
        PROVE  \E i \in 1 .. L : blk[i] = k /\ pos[i] = j
    <3>1. PICK i \in DOMAIN c : blk[i] = k /\ pos[i] = j
      BY <2>3
    <3> QED
      BY <2>1, <3>1
  <2> QED
    BY <2>1, <2>2, <2>4, <2>5
<1> HIDE DEF blk2, pos2
<1>5. ASSUME NEW i \in 1 .. L + m
      PROVE  blk2[i] \in 1 .. n /\ pos2[i] \in DOMAIN parts[blk2[i]] /\ d[i] = parts[blk2[i]][pos2[i]]
  <2>1. CASE i \in 1 .. L
    <3> PICK b, q : b = blk[i] /\ q = pos[i]
      OBVIOUS
    <3>1. b \in 1 .. n - 1 /\ q \in DOMAIN parts[b] /\ c[i] = parts[b][q]
      BY <1>4, <2>1
    <3>2. b \in 1 .. n
      BY <3>1
    <3>3. blk2[i] = b /\ pos2[i] = q /\ d[i] = c[i]
      BY <1>2, <1>3, <2>1
    <3> QED
      BY <3>1, <3>2, <3>3
  <2>2. CASE i \notin 1 .. L
    BY <1>2, <1>3, <2>2, n \in 1 .. n
  <2> QED
    BY <2>1, <2>2
<1>6. ASSUME NEW k \in 1 .. n, NEW j \in DOMAIN parts[k]
      PROVE  \E i \in 1 .. L + m : blk2[i] = k /\ pos2[i] = j
  <2>1. CASE k = n
    <3>1. j \in 1 .. m
      BY <2>1
    <3>2. j + L \in 1 .. L + m /\ j + L \notin 1 .. L /\ (j + L) - L = j
      BY <1>2, <3>1
    <3>3. blk2[j + L] = n /\ pos2[j + L] = j
      BY <1>3, <3>2
    <3> QED
      BY <2>1, <3>2, <3>3
  <2>2. CASE k # n
    <3>1. k \in 1 .. n - 1
      BY <2>2
    <3>2. PICK i \in 1 .. L : blk[i] = k /\ pos[i] = j
      BY <1>4, <3>1
    <3> QED
      BY <1>3, <3>2
  <2> QED
    BY <2>1, <2>2
<1>7. ASSUME NEW i \in 1 .. L + m, NEW l \in 1 .. L + m, blk2[i] = blk2[l], pos2[i] = pos2[l]
      PROVE  i = l
  <2>0. \A q \in 1 .. L : blk2[q] # n
    <3> TAKE q \in 1 .. L
    <3>1. blk2[q] \in 1 .. n - 1
      BY <1>3, <1>4
    <3> QED
      BY <3>1
  <2>1. CASE i \in 1 .. L /\ l \in 1 .. L
    BY <1>3, <1>4, <1>7, <2>1
  <2>2. CASE i \notin 1 .. L /\ l \notin 1 .. L
    <3>1. i - L = l - L
      BY <1>3, <1>7, <2>2
    <3> QED
      BY <3>1
  <2>3. CASE i \in 1 .. L /\ l \notin 1 .. L
    BY <1>3, <1>7, <2>0, <2>3
  <2>4. CASE i \notin 1 .. L /\ l \in 1 .. L
    BY <1>3, <1>7, <2>0, <2>4
  <2> QED
    BY <2>1, <2>2, <2>3, <2>4
<1>8. Flat(d, parts, n, blk2, pos2)
  <2>1. DOMAIN d = 1 .. L + m /\ Len(d) \in Nat /\ DOMAIN d = 1 .. Len(d)
    BY <1>2
  <2>2. \A i \in DOMAIN d : blk2[i] \in 1 .. n /\ pos2[i] \in DOMAIN parts[blk2[i]]
                              /\ d[i] = parts[blk2[i]][pos2[i]]
    BY <1>5, <2>1
  <2>3. ASSUME NEW k \in 1 .. n, NEW j \in DOMAIN parts[k]
        PROVE  \E i \in DOMAIN d : blk2[i] = k /\ pos2[i] = j
    <3>1. PICK i \in 1 .. L + m : blk2[i] = k /\ pos2[i] = j
      BY <1>6
    <3> QED
      BY <2>1, <3>1
  <2>4. \A i, l \in DOMAIN d : blk2[i] = blk2[l] /\ pos2[i] = pos2[l] => i = l
    BY <1>7, <2>1
  <2> QED
    BY <2>1, <2>2, <2>3, <2>4, Zenon DEF Flat
<1> QED
  BY <1>8 DEF IsFlat

LEMMA PutTogetherIsFlat ==
    ASSUME NEW X, NEW n, NEW parts, NEW acc, PutTogether(X, n, parts, acc)
    PROVE  IsFlat(acc[n], parts, n)
<1> DEFINE Good == {i \in Nat : i <= n => IsFlat(acc[i], parts, i)}
<1>0. n \in Nat
  BY DEF PutTogether
<1>1. 0 \in Good
  BY FlatNone DEF PutTogether
<1>2. ASSUME NEW i \in Nat, i \in Good PROVE i + 1 \in Good
  <2> SUFFICES ASSUME i + 1 <= n PROVE IsFlat(acc[i + 1], parts, i + 1)
    OBVIOUS
  <2> PICK j \in Nat \ {0} : j = i + 1 /\ j - 1 = i /\ j \in 1 .. n /\ i \in 0 .. n
    BY <1>0
  <2>1. acc[i] \in Seq(X) /\ parts[j] \in Seq(X) /\ acc[j] = acc[i] \o parts[j]
    BY DEF PutTogether
  <2>2. IsFlat(acc[i], parts, j - 1)
    BY <1>0, <1>2
  <2>3. IsFlat(acc[i] \o parts[j], parts, j)
    BY <2>1, <2>2, FlatGrows
  <2> QED
    BY <2>1, <2>3
<1>3. n \in Good
  <2> HIDE DEF Good
  <2> QED
    BY <1>0, <1>1, <1>2, NaturalsAreAll
<1> QED
  BY <1>0, <1>3

(* The chunks and their references, section after section.                   *)

LEMMA SectionsAreSections ==
    ASSUME NEW k \in DOMAIN SectionsOfDoc PROVE IsSection(SectionsOfDoc[k])
<1> PICK S : S = SectionsOfDoc
  OBVIOUS
<1>1. AreSections(S, Paragraph \ Furniture)
  BY SectionsHold
<1>2. S \in Blocks /\ Cut(S, Paragraph \ Furniture) /\ Headed(S[k])
  BY <1>1 DEF AreSections
<1>3. S[k] \in Seq(Int) \ {<<>>}
  <2> PICK X : X = Seq(Int) \ {<<>>}
    OBVIOUS
  <2>1. S \in Seq(X)
    BY <1>2 DEF Blocks
  <2>2. S[k] \in X
    BY <2>1
  <2> QED
    BY <2>2
<1>4. Rises(S[k]) /\ ToSet(S[k]) \subseteq Paragraph
  BY <1>2 DEF Cut
<1> QED
  BY <1>2, <1>3, <1>4 DEF IsSection

Pieces == [k \in DOMAIN SectionsOfDoc |-> SplitOversized(SectionsOfDoc[k])]

IdsOf(section) ==
    [i \in DOMAIN SplitOversized(section) |->
       <<Head(SplitOversized(section)[i]),
         IF Len(SplitOversized(section)) > 1 THEN i ELSE 0>>]

Names == [k \in DOMAIN SectionsOfDoc |-> IdsOf(SectionsOfDoc[k])]

Ids == {<<p, i>> : p \in Int, i \in Nat}

LEMMA PiecesAre ==
    ASSUME IsDocument, NEW k \in DOMAIN SectionsOfDoc
    PROVE  /\ Pieces[k] \in Blocks /\ Pieces[k] = SplitOversized(SectionsOfDoc[k])
           /\ PartsOf(SectionsOfDoc[k], Pieces[k])
<1>1. PartsOf(SectionsOfDoc[k], SplitOversized(SectionsOfDoc[k]))
  BY SectionsAreSections, SplitSections
<1> QED
  BY <1>1 DEF Pieces, PartsOf

LEMMA BlockIsBlock ==
    ASSUME NEW blocks \in Blocks, NEW i \in DOMAIN blocks
    PROVE  /\ blocks[i] \in Seq(Int) \ {<<>>} /\ Len(blocks) \in Nat /\ DOMAIN blocks = 1 .. Len(blocks)
           /\ i \in Nat
<1> PICK X : X = Seq(Int) \ {<<>>}
  OBVIOUS
<1>1. blocks \in Seq(X)
  BY DEF Blocks
<1>2. blocks[i] \in X /\ i \in Nat
  BY <1>1
<1> QED
  BY <1>1, <1>2

LEMMA NamesAre ==
    ASSUME IsDocument, NEW k \in DOMAIN SectionsOfDoc
    PROVE  /\ Names[k] \in Seq(Ids) /\ Names[k] = IdsOf(SectionsOfDoc[k])
           /\ DOMAIN Names[k] = DOMAIN Pieces[k]
           /\ \A i \in DOMAIN Pieces[k] :
                 Names[k][i] = <<Head(Pieces[k][i]), IF Len(Pieces[k]) > 1 THEN i ELSE 0>>
<1> PICK parts : parts = Pieces[k]
  OBVIOUS
<1>1. parts \in Blocks /\ parts = SplitOversized(SectionsOfDoc[k])
  BY PiecesAre
<1> PICK names : names = Names[k]
  OBVIOUS
<1>2. names = [i \in DOMAIN parts |-> <<Head(parts[i]), IF Len(parts) > 1 THEN i ELSE 0>>]
  BY <1>1 DEF Names, IdsOf
<1>3. Len(parts) \in Nat /\ DOMAIN parts = 1 .. Len(parts)
  BY <1>1 DEF Blocks
<1>4. \A i \in DOMAIN parts : names[i] \in Ids
  <2> SUFFICES ASSUME NEW i \in DOMAIN parts PROVE names[i] \in Ids
    OBVIOUS
  <2>1. parts[i] \in Seq(Int) \ {<<>>} /\ i \in Nat
    BY <1>1, BlockIsBlock
  <2> PICK b \in Seq(Int) \ {<<>>} : b = parts[i]
    BY <2>1
  <2>2. Head(b) \in Int
    OBVIOUS
  <2> PICK j \in Nat : j = IF Len(parts) > 1 THEN i ELSE 0
    BY <2>1
  <2>3. names[i] = <<Head(b), j>>
    BY <1>2
  <2> QED
    BY <2>2, <2>3 DEF Ids
<1>5. names \in Seq(Ids)
  <2> PICK n \in Nat : n = Len(parts) /\ DOMAIN parts = 1 .. n
    BY <1>3
  <2> PICK X : X = Ids
    OBVIOUS
  <2>1. DOMAIN names = 1 .. n /\ \A i \in 1 .. n : names[i] \in X
    BY <1>2, <1>4
  <2>2. names \in [1 .. n -> X]
    BY <1>2, <2>1
  <2> QED
    BY <2>2
<1> QED
  BY <1>1, <1>2, <1>5 DEF Names

LEMMA SectionsCount ==
    /\ Len(SectionsOfDoc) \in Nat /\ DOMAIN SectionsOfDoc = 1 .. Len(SectionsOfDoc)
    /\ SectionsOfDoc \in Seq(ToSet(SectionsOfDoc))
<1> PICK S : S = SectionsOfDoc
  OBVIOUS
<1>1. S \in Blocks
  BY SectionsHold DEF AreSections
<1>2. Len(S) \in Nat /\ DOMAIN S = 1 .. Len(S) /\ S = [i \in 1 .. Len(S) |-> S[i]]
  BY <1>1 DEF Blocks
<1> PICK U : U = ToSet(S)
  OBVIOUS
<1>3. \A i \in 1 .. Len(S) : S[i] \in U
  BY <1>2 DEF ToSet
<1>4. S \in Seq(U)
  BY <1>2, <1>3
<1> QED
  BY <1>2, <1>4

LEMMA ChunksFold ==
    ASSUME IsDocument
    PROVE  \E acc : /\ PutTogether(Seq(Int) \ {<<>>}, Len(SectionsOfDoc), Pieces, acc)
                    /\ SectionChunks = acc[Len(SectionsOfDoc)]
<1> PICK s, U, X : s = SectionsOfDoc /\ U = ToSet(s) /\ X = Seq(Int) \ {<<>>}
  OBVIOUS
<1> DEFINE V == Seq(X)
           grown(a, p) == a \o SplitOversized(p)
           step == [a \in V |-> [p \in U |-> grown(a, p)]]
<1>0. s \in Seq(U) /\ Len(s) \in Nat /\ DOMAIN s = 1 .. Len(s)
  BY SectionsCount
<1>p. \A k \in DOMAIN s : Pieces[k] \in Seq(X) /\ Pieces[k] = SplitOversized(s[k])
  BY PiecesAre DEF Blocks
<1>1. \A a \in V, p \in U : step[a][p] \in V /\ step[a][p] = grown(a, p)
  <2> SUFFICES ASSUME NEW a \in V, NEW p \in U PROVE grown(a, p) \in V
    OBVIOUS
  <2>1. PICK k \in DOMAIN s : p = s[k]
    BY DEF ToSet
  <2>2. SplitOversized(p) \in Seq(X)
    BY <1>p, <2>1
  <2> QED
    BY <2>2
<1>2. <<>> \in V
  OBVIOUS
<1>s. SectionChunks = FoldLeft(LAMBDA a, p : grown(a, p), <<>>, s)
  BY Zenon DEF SectionChunks
<1> HIDE DEF V, step
<1>3. PICK g \in [SUBSET DOMAIN s -> V] : \A t \in SUBSET DOMAIN s :
         g[t] = IF t = {} THEN <<>> ELSE step[g[t \ {Max(t)}]][s[Max(t)]]
  <2>1. StaysIn(V, U, step)
    BY <1>1 DEF StaysIn
  <2>2. HasFold(V, step, <<>>, s)
    BY <1>0, <1>2, <2>1, FoldIs, Zenon
  <2> QED
    BY <2>2 DEF HasFold
<1>4. \A t \in SUBSET DOMAIN s : t # {} => s[Max(t)] \in U
  BY <1>0, MaxUpTo
<1>5. g = [t \in SUBSET DOMAIN s |-> IF t = {} THEN <<>> ELSE
             LET x == Max(t) IN grown(g[t \ {x}], s[x])]
  <2>1. \A t \in SUBSET DOMAIN s : t # {} =>
           step[g[t \ {Max(t)}]][s[Max(t)]] = grown(g[t \ {Max(t)}], s[Max(t)])
    BY <1>1, <1>3, <1>4
  <2> HIDE DEF grown
  <2> QED
    BY <1>3, <2>1
<1>6. PICK f :
         /\ f = [t \in SUBSET DOMAIN s |-> IF t = {} THEN <<>> ELSE
                  LET x == Max(t) IN grown(f[t \ {x}], s[x])]
         /\ SectionChunks = f[DOMAIN s]
  BY <1>5, <1>s, Zenon DEF FoldLeft, MapThenFoldSet
<1>7. f[{}] = <<>>
  BY <1>6
<1>8. ASSUME NEW t \in SUBSET DOMAIN s, t # {}, f[t \ {Max(t)}] \in V
      PROVE  f[t] = step[f[t \ {Max(t)}]][s[Max(t)]]
  <2> HIDE DEF grown
  <2> QED
    BY <1>1, <1>4, <1>6, <1>8
<1>9. PICK acc \in [0 .. Len(s) -> V] :
         /\ acc[0] = <<>>
         /\ \A i \in 1 .. Len(s) : acc[i] = step[acc[i - 1]][s[i]]
         /\ f[DOMAIN s] = acc[Len(s)]
  <2>1. StaysIn(V, U, step)
    BY <1>1 DEF StaysIn
  <2>2. IsFold(f, V, step, <<>>, s)
    BY <1>7, <1>8 DEF IsFold
  <2>3. GoesThrough(f, V, step, <<>>, s)
    BY <1>0, <1>2, <2>1, <2>2, FoldRuns, Zenon
  <2> QED
    BY <2>3 DEF GoesThrough
<1>10. \A i \in 1 .. Len(s) : acc[i] = acc[i - 1] \o Pieces[i]
  <2> TAKE i \in 1 .. Len(s)
  <2>1. acc[i - 1] \in V /\ s[i] \in U
    BY <1>0
  <2>2. acc[i] = grown(acc[i - 1], s[i])
    <3> HIDE DEF grown
    <3> QED
      BY <1>1, <1>9, <2>1
  <2> QED
    BY <1>0, <1>p, <2>2
<1>11. PutTogether(X, Len(s), Pieces, acc)
  BY <1>0, <1>p, <1>9, <1>10 DEF PutTogether, V
<1> QED
  BY <1>6, <1>9, <1>11

LEMMA IdsFold ==
    ASSUME IsDocument
    PROVE  \E acc : /\ PutTogether(Ids, Len(SectionsOfDoc), Names, acc)
                    /\ ChunkIds = acc[Len(SectionsOfDoc)]
<1> PICK s, U, X : s = SectionsOfDoc /\ U = ToSet(s) /\ X = Ids
  OBVIOUS
<1> DEFINE V == Seq(X)
           grown(a, p) == a \o IdsOf(p)
           step == [a \in V |-> [p \in U |-> grown(a, p)]]
<1>0. s \in Seq(U) /\ Len(s) \in Nat /\ DOMAIN s = 1 .. Len(s)
  BY SectionsCount
<1>p. \A k \in DOMAIN s : Names[k] \in Seq(X) /\ Names[k] = IdsOf(s[k])
  BY NamesAre
<1>1. \A a \in V, p \in U : step[a][p] \in V /\ step[a][p] = grown(a, p)
  <2> SUFFICES ASSUME NEW a \in V, NEW p \in U PROVE grown(a, p) \in V
    OBVIOUS
  <2>1. PICK k \in DOMAIN s : p = s[k]
    BY DEF ToSet
  <2>2. IdsOf(p) \in Seq(X)
    BY <1>p, <2>1
  <2> QED
    BY <2>2
<1>2. <<>> \in V
  OBVIOUS
<1>s. ChunkIds = FoldLeft(LAMBDA a, p : grown(a, p), <<>>, s)
  BY Zenon DEF ChunkIds, IdsOf
<1> HIDE DEF V, step
<1>3. PICK g \in [SUBSET DOMAIN s -> V] : \A t \in SUBSET DOMAIN s :
         g[t] = IF t = {} THEN <<>> ELSE step[g[t \ {Max(t)}]][s[Max(t)]]
  <2>1. StaysIn(V, U, step)
    BY <1>1 DEF StaysIn
  <2>2. HasFold(V, step, <<>>, s)
    BY <1>0, <1>2, <2>1, FoldIs, Zenon
  <2> QED
    BY <2>2 DEF HasFold
<1>4. \A t \in SUBSET DOMAIN s : t # {} => s[Max(t)] \in U
  BY <1>0, MaxUpTo
<1>5. g = [t \in SUBSET DOMAIN s |-> IF t = {} THEN <<>> ELSE
             LET x == Max(t) IN grown(g[t \ {x}], s[x])]
  <2>1. \A t \in SUBSET DOMAIN s : t # {} =>
           step[g[t \ {Max(t)}]][s[Max(t)]] = grown(g[t \ {Max(t)}], s[Max(t)])
    BY <1>1, <1>3, <1>4
  <2> HIDE DEF grown
  <2> QED
    BY <1>3, <2>1
<1>6. PICK f :
         /\ f = [t \in SUBSET DOMAIN s |-> IF t = {} THEN <<>> ELSE
                  LET x == Max(t) IN grown(f[t \ {x}], s[x])]
         /\ ChunkIds = f[DOMAIN s]
  BY <1>5, <1>s, Zenon DEF FoldLeft, MapThenFoldSet
<1>7. f[{}] = <<>>
  BY <1>6
<1>8. ASSUME NEW t \in SUBSET DOMAIN s, t # {}, f[t \ {Max(t)}] \in V
      PROVE  f[t] = step[f[t \ {Max(t)}]][s[Max(t)]]
  <2> HIDE DEF grown
  <2> QED
    BY <1>1, <1>4, <1>6, <1>8
<1>9. PICK acc \in [0 .. Len(s) -> V] :
         /\ acc[0] = <<>>
         /\ \A i \in 1 .. Len(s) : acc[i] = step[acc[i - 1]][s[i]]
         /\ f[DOMAIN s] = acc[Len(s)]
  <2>1. StaysIn(V, U, step)
    BY <1>1 DEF StaysIn
  <2>2. IsFold(f, V, step, <<>>, s)
    BY <1>7, <1>8 DEF IsFold
  <2>3. GoesThrough(f, V, step, <<>>, s)
    BY <1>0, <1>2, <2>1, <2>2, FoldRuns, Zenon
  <2> QED
    BY <2>3 DEF GoesThrough
<1>10. \A i \in 1 .. Len(s) : acc[i] = acc[i - 1] \o Names[i]
  <2> TAKE i \in 1 .. Len(s)
  <2>1. acc[i - 1] \in V /\ s[i] \in U
    BY <1>0
  <2>2. acc[i] = grown(acc[i - 1], s[i])
    <3> HIDE DEF grown
    <3> QED
      BY <1>1, <1>9, <2>1
  <2> QED
    BY <1>0, <1>p, <2>2
<1>11. PutTogether(X, Len(s), Names, acc)
  BY <1>0, <1>p, <1>9, <1>10 DEF PutTogether, V
<1> QED
  BY <1>6, <1>9, <1>11

LEMMA ChunksAreFlat == ASSUME IsDocument PROVE IsFlat(SectionChunks, Pieces, Len(SectionsOfDoc))
  BY ChunksFold, PutTogetherIsFlat

LEMMA IdsAreFlat == ASSUME IsDocument PROVE IsFlat(ChunkIds, Names, Len(SectionsOfDoc))
  BY IdsFold, PutTogetherIsFlat

(* The sections of a document, and the chunks made of them.                   *)

LEMMA SectionsAreCut ==
    /\ SectionsOfDoc \in Blocks /\ Cut(SectionsOfDoc, Paragraph \ Furniture)
    /\ Len(SectionsOfDoc) \in Nat /\ DOMAIN SectionsOfDoc = 1 .. Len(SectionsOfDoc)
    /\ \A k \in DOMAIN SectionsOfDoc : k # 1 => Head(SectionsOfDoc[k]) \in Heading
<1>1. AreSections(SectionsOfDoc, Paragraph \ Furniture)
  BY SectionsHold
<1> QED
  BY <1>1, SectionsCount DEF AreSections

LEMMA HeadingsAreRead == Heading \subseteq Paragraph \ Furniture /\ Paragraph \subseteq Int
  BY ParagraphsAreNumbers DEF Heading, Furniture

LEMMA PieceIs ==
    ASSUME IsDocument, NEW k \in DOMAIN SectionsOfDoc, NEW j \in DOMAIN Pieces[k]
    PROVE  /\ IsSection(SectionsOfDoc[k]) /\ PartOf(SectionsOfDoc[k], Pieces[k][j])
           /\ Pieces[k][j] \in Seq(Int) \ {<<>>}
           /\ Head(Pieces[k][j]) \in ToSet(SectionsOfDoc[k])
<1> PICK parts, part, section : parts = Pieces[k] /\ part = parts[j] /\ section = SectionsOfDoc[k]
  OBVIOUS
<1>1. parts \in Blocks /\ PartsOf(section, parts) /\ IsSection(section)
  BY PiecesAre, SectionsAreSections
<1>2. part \in Seq(Int) \ {<<>>}
  BY <1>1, BlockIsBlock
<1>3. PartOf(section, part)
  BY <1>1 DEF PartsOf
<1>4. Head(part) \in ToSet(part)
  BY <1>2, <1>3, HeadTaken DEF PartOf
<1> QED
  BY <1>1, <1>2, <1>3, <1>4 DEF PartOf

\* A section that a paragraph is in.
LEMMA SectionOnce ==
    ASSUME NEW k \in DOMAIN SectionsOfDoc, NEW l \in DOMAIN SectionsOfDoc,
           NEW p, p \in ToSet(SectionsOfDoc[k]), p \in ToSet(SectionsOfDoc[l])
    PROVE  k = l
<1>1. p \in Int
  BY SectionsAreSections, HeadingsAreRead DEF IsSection
<1> QED
  BY <1>1, SectionsAreCut, CutOnce

LEMMA HeadingInPlace ==
    ASSUME NEW k \in DOMAIN SectionsOfDoc, NEW p \in ToSet(SectionsOfDoc[k]),
           NEW h \in Heading, h <= p, \A g \in Heading : g <= p => g <= h
    PROVE  h \in ToSet(SectionsOfDoc[k])
<1> PICK S : S = SectionsOfDoc
  OBVIOUS
<1>0. Cut(S, Paragraph \ Furniture) /\ DOMAIN S = 1 .. Len(S) /\ Len(S) \in Nat
  BY SectionsAreCut
<1>1. PICK l \in DOMAIN S : h \in ToSet(S[l])
  BY <1>0, HeadingsAreRead DEF Cut
<1>2. IsSection(S[k]) /\ IsSection(S[l])
  BY SectionsAreSections
<1>3. p \in Int /\ h \in Int
  BY <1>2, HeadingsAreRead DEF IsSection
<1>4. CASE l = k
  BY <1>1, <1>4
<1>5. CASE k < l
  <2>1. p < h
    BY <1>0, <1>1, <1>5 DEF Cut, Below
  <2> QED
    BY <1>3, <2>1
<1>6. CASE l < k
  <2> PICK g : g = Head(S[k])
    OBVIOUS
  <2>1. /\ g \in Int /\ g \in ToSet(S[k])
        /\ g = p \/ g < p
    BY <1>2, HeadTaken DEF IsSection
  <2>2. g \in Heading
    BY <1>0, <1>6, SectionsAreCut
  <2>3. g <= p
    BY <1>3, <2>1
  <2>4. g <= h
    BY <2>2, <2>3
  <2>5. h < g
    BY <1>0, <1>1, <1>6, <2>1 DEF Cut, Below
  <2> QED
    BY <1>3, <2>1, <2>4, <2>5
<1> QED
  BY <1>0, <1>4, <1>5, <1>6

-----------------------------------------------------------------------------

LEMMA PairsAgree ==
    ASSUME NEW a, NEW b, NEW c, NEW d, <<a, b>> = <<c, d>> PROVE a = c /\ b = d
  OBVIOUS

LEMMA ParagraphsOnce ==
    ASSUME IsDocument, NEW p \in Paragraph \ (Furniture \union Heading)
    PROVE  Cardinality({i \in DOMAIN SectionChunks : p \in ToSet(SectionChunks[i])}) = 1
<1> PICK C, S, n : C = SectionChunks /\ S = SectionsOfDoc /\ n = Len(S)
  OBVIOUS
<1>1. PICK blk, pos : Flat(C, Pieces, n, blk, pos)
  BY ChunksAreFlat DEF IsFlat
<1>f. /\ \A i \in DOMAIN C : blk[i] \in 1 .. n /\ pos[i] \in DOMAIN Pieces[blk[i]]
                             /\ C[i] = Pieces[blk[i]][pos[i]]
      /\ \A k \in 1 .. n : \A j \in DOMAIN Pieces[k] : \E i \in DOMAIN C : blk[i] = k /\ pos[i] = j
      /\ \A i, l \in DOMAIN C : blk[i] = blk[l] /\ pos[i] = pos[l] => i = l
  BY <1>1 DEF Flat
<1>2. DOMAIN S = 1 .. n /\ DOMAIN C = 1 .. Len(C)
  BY <1>1, SectionsAreCut DEF Flat
<1>3. PICK k \in 1 .. n : p \in ToSet(S[k])
  BY <1>2, SectionsAreCut DEF Cut
<1>4. PartsOf(S[k], Pieces[k])
  BY <1>2, PiecesAre
<1>5. PICK j \in DOMAIN Pieces[k] : p \in ToSet(Pieces[k][j])
  BY <1>3, <1>4 DEF PartsOf
<1>6. PICK i \in DOMAIN C : blk[i] = k /\ pos[i] = j
  BY <1>1, <1>2 DEF Flat
<1>7. p \in ToSet(C[i])
  BY <1>1, <1>2, <1>5, <1>6 DEF Flat
<1>8. ASSUME NEW l \in DOMAIN C, p \in ToSet(C[l]) PROVE l = i
  <2> PICK b, q : b = blk[l] /\ q = pos[l]
    OBVIOUS
  <2>1. b \in 1 .. n /\ q \in DOMAIN Pieces[b] /\ C[l] = Pieces[b][q]
    BY <1>1, <1>2 DEF Flat
  <2>2. p \in ToSet(S[b])
    BY <1>2, <1>8, <2>1, PieceIs DEF PartOf
  <2>3. b = k
    BY <1>2, <1>3, <2>1, <2>2, SectionOnce
  <2>4. q = j
    BY <1>3, <1>4, <1>5, <1>8, <2>1, <2>3 DEF PartsOf
  <2> QED
    BY <1>6, <1>f, <2>3, <2>4
<1>9. {l \in DOMAIN C : p \in ToSet(C[l])} = {i}
  BY <1>7, <1>8
<1> QED
  BY <1>9, FS_Singleton

LEMMA HeadingsThere ==
    ASSUME IsDocument, NEW h \in Heading
    PROVE  \E i \in DOMAIN SectionChunks : h \in ToSet(SectionChunks[i])
<1> PICK C, S, n : C = SectionChunks /\ S = SectionsOfDoc /\ n = Len(S)
  OBVIOUS
<1>1. PICK blk, pos : Flat(C, Pieces, n, blk, pos)
  BY ChunksAreFlat DEF IsFlat
<1>f. /\ \A i \in DOMAIN C : blk[i] \in 1 .. n /\ pos[i] \in DOMAIN Pieces[blk[i]]
                             /\ C[i] = Pieces[blk[i]][pos[i]]
      /\ \A k \in 1 .. n : \A j \in DOMAIN Pieces[k] : \E i \in DOMAIN C : blk[i] = k /\ pos[i] = j
      /\ \A i, l \in DOMAIN C : blk[i] = blk[l] /\ pos[i] = pos[l] => i = l
  BY <1>1 DEF Flat
<1>2. DOMAIN S = 1 .. n /\ DOMAIN C = 1 .. Len(C)
  BY <1>1, SectionsAreCut DEF Flat
<1>3. PICK k \in 1 .. n : h \in ToSet(S[k])
  BY <1>2, SectionsAreCut, HeadingsAreRead DEF Cut
<1>4. Pieces[k] \in Blocks /\ Pieces[k] # <<>>
  BY <1>2, PiecesAre DEF PartsOf
<1>5. 1 \in DOMAIN Pieces[k]
  BY <1>4 DEF Blocks
<1>6. h \in ToSet(Pieces[k][1])
  BY <1>2, <1>3, <1>5, PieceIs DEF PartOf
<1>7. PICK i \in DOMAIN C : blk[i] = k /\ pos[i] = 1
  BY <1>f, <1>5
<1>8. h \in ToSet(C[i])
  <2>1. C[i] = Pieces[k][1]
    BY <1>f, <1>7
  <2> QED
    BY <1>6, <2>1
<1> QED
  BY <1>8

LEMMA ChunkIsRight ==
    ASSUME IsDocument, NEW i \in DOMAIN SectionChunks
    PROVE  /\ Rises(SectionChunks[i]) /\ RunFits(BodyOf(SectionChunks[i]))
           /\ \A p \in ToSet(SectionChunks[i]) :
                 {h \in Heading : h <= p /\ \A g \in Heading : g <= p => g <= h}
                   \subseteq ToSet(TitleOf(SectionChunks[i]))
<1> PICK C, S, n : C = SectionChunks /\ S = SectionsOfDoc /\ n = Len(S)
  OBVIOUS
<1>1. PICK blk, pos : Flat(C, Pieces, n, blk, pos)
  BY ChunksAreFlat DEF IsFlat
<1>2. DOMAIN S = 1 .. n /\ DOMAIN C = 1 .. Len(C)
  BY <1>1, SectionsAreCut DEF Flat
<1> PICK k, j, chunk : k = blk[i] /\ j = pos[i] /\ chunk = C[i]
  OBVIOUS
<1>3. k \in DOMAIN S /\ j \in DOMAIN Pieces[k] /\ chunk = Pieces[k][j]
  BY <1>1, <1>2 DEF Flat
<1>4. PartOf(S[k], chunk)
  BY <1>3, PieceIs
<1>5. ASSUME NEW p \in ToSet(chunk),
             NEW h \in Heading, h <= p, \A g \in Heading : g <= p => g <= h
      PROVE  h \in ToSet(TitleOf(chunk))
  <2>1. p \in ToSet(S[k])
    BY <1>4 DEF PartOf
  <2>2. h \in ToSet(S[k])
    BY <1>3, <1>5, <2>1, HeadingInPlace
  <2>3. h \in ToSet(chunk) /\ h = Head(chunk)
    BY <1>4, <2>2 DEF PartOf, Headed
  <2>4. TitleOf(chunk) = <<h>>
    BY <2>3 DEF TitleOf
  <2> QED
    BY <2>4 DEF ToSet
<1> QED
  BY <1>4, <1>5 DEF PartOf

LEMMA IdsAreUnique == ASSUME IsDocument PROVE IsInjective(ChunkIds)
<1> PICK C, S, n : C = ChunkIds /\ S = SectionsOfDoc /\ n = Len(S)
  OBVIOUS
<1>1. PICK blk, pos : Flat(C, Names, n, blk, pos)
  BY IdsAreFlat DEF IsFlat
<1>f. /\ \A i \in DOMAIN C : blk[i] \in 1 .. n /\ pos[i] \in DOMAIN Names[blk[i]]
                             /\ C[i] = Names[blk[i]][pos[i]]
      /\ \A k \in 1 .. n : \A j \in DOMAIN Names[k] : \E i \in DOMAIN C : blk[i] = k /\ pos[i] = j
      /\ \A i, l \in DOMAIN C : blk[i] = blk[l] /\ pos[i] = pos[l] => i = l
  BY <1>1 DEF Flat
<1>2. DOMAIN S = 1 .. n /\ DOMAIN C = 1 .. Len(C)
  BY <1>1, SectionsAreCut DEF Flat
<1>3. ASSUME NEW a \in DOMAIN C, NEW b \in DOMAIN C, C[a] = C[b] PROVE a = b
  <2> PICK k, j, l, q : k = blk[a] /\ j = pos[a] /\ l = blk[b] /\ q = pos[b]
    OBVIOUS
  <2>1. /\ k \in DOMAIN S /\ j \in DOMAIN Names[k] /\ C[a] = Names[k][j]
        /\ l \in DOMAIN S /\ q \in DOMAIN Names[l] /\ C[b] = Names[l][q]
    BY <1>1, <1>2 DEF Flat
  <2>2. /\ j \in DOMAIN Pieces[k]
        /\ C[a] = <<Head(Pieces[k][j]), IF Len(Pieces[k]) > 1 THEN j ELSE 0>>
    BY <2>1, NamesAre
  <2>3. /\ q \in DOMAIN Pieces[l]
        /\ C[b] = <<Head(Pieces[l][q]), IF Len(Pieces[l]) > 1 THEN q ELSE 0>>
    BY <2>1, NamesAre
  <2>4. /\ Head(Pieces[k][j]) = Head(Pieces[l][q])
        /\ (IF Len(Pieces[k]) > 1 THEN j ELSE 0) = (IF Len(Pieces[l]) > 1 THEN q ELSE 0)
    <3> PICK x, y, z, w :
           /\ x = Head(Pieces[k][j]) /\ y = Head(Pieces[l][q])
           /\ z = (IF Len(Pieces[k]) > 1 THEN j ELSE 0) /\ w = (IF Len(Pieces[l]) > 1 THEN q ELSE 0)
      OBVIOUS
    <3>1. <<x, z>> = <<y, w>>
      BY <1>3, <2>2, <2>3
    <3> QED
      BY <3>1, PairsAgree
  <2>5. k = l
    <3>1. Head(Pieces[k][j]) \in ToSet(S[k]) /\ Head(Pieces[l][q]) \in ToSet(S[l])
      BY <2>1, <2>2, <2>3, PieceIs
    <3> QED
      BY <2>1, <2>4, <3>1, SectionOnce
  <2>6. j = q
    <3> PICK parts : parts = Pieces[k]
      OBVIOUS
    <3>1. Len(parts) \in Nat /\ DOMAIN parts = 1 .. Len(parts)
      BY <2>1, PiecesAre DEF Blocks
    <3>2. CASE Len(parts) > 1
      BY <2>4, <2>5, <3>2
    <3>3. CASE ~(Len(parts) > 1)
      BY <2>2, <2>3, <2>5, <3>1, <3>3
    <3> QED
      BY <3>2, <3>3
  <2> QED
    BY <1>f, <2>5, <2>6
<1> QED
  BY <1>3 DEF IsInjective

LEMMA DocumentCovered == ASSUME IsDocument PROVE ChunksCoverDocument
<1>1. \A p \in Paragraph \ (Furniture \union Heading) :
        Cardinality({i \in DOMAIN SectionChunks : p \in ToSet(SectionChunks[i])}) = 1
  BY ParagraphsOnce
<1>2. \A h \in Heading : \E i \in DOMAIN SectionChunks : h \in ToSet(SectionChunks[i])
  BY HeadingsThere
<1>3. ASSUME NEW i \in DOMAIN SectionChunks
      PROVE  /\ \A j, k \in DOMAIN SectionChunks[i] : j < k => SectionChunks[i][j] < SectionChunks[i][k]
             /\ \A p \in ToSet(SectionChunks[i]) :
                   {h \in Heading : h <= p /\ \A g \in Heading : g <= p => g <= h}
                     \subseteq ToSet(TitleOf(SectionChunks[i]))
             /\ \/ SizeOf(BodyOf(SectionChunks[i])) <= MaxSection
                \/ Len(BodyOf(SectionChunks[i])) = 1
  BY ChunkIsRight DEF Rises, RunFits
<1>4. IsInjective(ChunkIds)
  BY IdsAreUnique
<1> QED
  BY <1>1, <1>2, <1>3, <1>4, Zenon DEF ChunksCoverDocument

LEMMA DocumentStays == IsDocument /\ [DetectionNext]_detectionVars => IsDocument'
<1> SUFFICES ASSUME IsDocument, [DetectionNext]_detectionVars PROVE IsDocument'
  OBVIOUS
<1>1. UNCHANGED doc
  BY DEF detectionVars, DetectionNext, MatchHeadings, MapHeadings, TakeExtents, SplitSection,
         EndHeadingPass, StopEarly, Search, SearchFails, Hear, FinishWave, Exhaust
<1> QED
  BY <1>1 DEF IsDocument

(* What extraction and search read is the whole document, in order, under its *)
(* headings, and chunks have references of their own (_section_chunks,        *)
(* _split_oversized, _prepare_chunks).                                        *)
THEOREM AlwaysReadInFull == DetectionSpec => []ReadInFull
<1>1. DetectionInit => IsDocument
  BY DEF DetectionInit
<1>2. IsDocument => ReadInFull
  BY DocumentCovered DEF ReadInFull
<1> QED
  BY <1>1, <1>2, DocumentStays, PTL DEF DetectionSpec


-----------------------------------------------------------------------------
(***************************************************************************)
(* Theorems about one extraction, for any Clause Master, any categories    *)
(* derived from it, any number of calls at a time and any of them failing. *)
(***************************************************************************)

(***************************************************************************)
(* Some of a list, in its order: what the recursion of Among comes to, for *)
(* lists of any length.                                                    *)
(***************************************************************************)

Sifts(upTo, list, some) ==
    upTo = [i \in 0 .. Len(list) |->
              IF i = 0 THEN <<>>
              ELSE IF list[i] \in some THEN Append(upTo[i - 1], list[i]) ELSE upTo[i - 1]]

LEMMA SiftUnique ==
    ASSUME NEW T, NEW list \in Seq(T), NEW some, NEW f, NEW g,
           Sifts(f, list, some), Sifts(g, list, some)
    PROVE  f = g
<1> DEFINE Same == {i \in Nat : i <= Len(list) => f[i] = g[i]}
<1>1. Len(list) \in Nat
  OBVIOUS
<1>2. f[0] = <<>> /\ g[0] = <<>>
  BY <1>1 DEF Sifts
<1>3. ASSUME NEW i \in Nat, i \in Same PROVE i + 1 \in Same
  <2> SUFFICES ASSUME i + 1 <= Len(list) PROVE f[i + 1] = g[i + 1]
    OBVIOUS
  <2>1. i + 1 \in 0 .. Len(list) /\ i + 1 # 0 /\ (i + 1) - 1 = i
    BY <1>1
  <2>2. f[i] = g[i]
    BY <1>1, <1>3
  <2>3. f[i + 1] = IF list[i + 1] \in some THEN Append(f[i], list[i + 1]) ELSE f[i]
    BY <2>1 DEF Sifts
  <2>4. g[i + 1] = IF list[i + 1] \in some THEN Append(g[i], list[i + 1]) ELSE g[i]
    BY <2>1 DEF Sifts
  <2> QED
    BY <2>2, <2>3, <2>4
<1>4. \A i \in Nat : i \in Same
  <2>1. 0 \in Same
    BY <1>2
  <2> HIDE DEF Same
  <2> QED
    BY <1>3, <2>1, NaturalsAreAll
<1>5. \A i \in 0 .. Len(list) : f[i] = g[i]
  BY <1>1, <1>4
<1>6. f = [i \in 0 .. Len(list) |-> f[i]] /\ g = [i \in 0 .. Len(list) |-> g[i]]
  BY DEF Sifts
<1> QED
  BY <1>5, <1>6

LEMMA SiftExtends ==
    ASSUME NEW T, NEW list \in Seq(T), NEW x \in T, NEW some, NEW f, Sifts(f, list, some)
    PROVE  \E g : /\ Sifts(g, Append(list, x), some)
                  /\ g[Len(list) + 1] = IF x \in some THEN Append(f[Len(list)], x) ELSE f[Len(list)]
<1> PICK n : n = Len(list)
  OBVIOUS
<1> DEFINE last == IF x \in some THEN Append(f[n], x) ELSE f[n]
           g == [i \in 0 .. n + 1 |-> IF i = n + 1 THEN last ELSE f[i]]
           long == Append(list, x)
<1>1. n \in Nat /\ Len(long) = n + 1 /\ long[n + 1] = x /\ \A i \in 1 .. n : long[i] = list[i]
  OBVIOUS
<1>2. f[0] = <<>> /\ \A i \in 1 .. n :
        f[i] = IF list[i] \in some THEN Append(f[i - 1], list[i]) ELSE f[i - 1]
  <2>1. f = [i \in 0 .. n |->
               IF i = 0 THEN <<>>
               ELSE IF list[i] \in some THEN Append(f[i - 1], list[i]) ELSE f[i - 1]]
    BY DEF Sifts
  <2>2. 0 \in 0 .. n /\ \A i \in 1 .. n : i \in 0 .. n /\ i # 0
    BY <1>1
  <2> QED
    BY <2>1, <2>2
<1>3. \A i \in 0 .. n : g[i] = f[i]
  BY <1>1
<1>4. g[n + 1] = last /\ DOMAIN g = 0 .. n + 1
  BY <1>1
<1>5. ASSUME NEW i \in 0 .. n + 1
      PROVE  g[i] = IF i = 0 THEN <<>>
                    ELSE IF long[i] \in some THEN Append(g[i - 1], long[i]) ELSE g[i - 1]
  <2>1. CASE i = 0
    BY <1>1, <1>2, <1>3, <2>1
  <2>2. CASE i \in 1 .. n
    <3>1. i - 1 \in 0 .. n /\ i \in 0 .. n /\ i # 0
      BY <1>1, <2>2
    <3>2. g[i] = f[i] /\ g[i - 1] = f[i - 1] /\ long[i] = list[i]
      BY <1>1, <1>3, <2>2, <3>1
    <3> HIDE DEF g, long
    <3> QED
      BY <1>2, <2>2, <3>1, <3>2
  <2>3. CASE i = n + 1
    <3>1. n \in 0 .. n /\ (n + 1) - 1 = n /\ n + 1 # 0
      BY <1>1
    <3>2. g[n] = f[n]
      BY <1>3, <3>1
    <3> HIDE DEF g, long
    <3> QED
      BY <1>1, <1>4, <2>3, <3>1, <3>2
  <2> QED
    BY <1>1, <2>1, <2>2, <2>3
<1>6. Sifts(g, long, some)
  <2>1. g = [i \in 0 .. n + 1 |-> g[i]]
    OBVIOUS
  <2> HIDE DEF g, long
  <2> QED
    BY <1>1, <1>5, <2>1 DEF Sifts
<1> QED
  BY <1>4, <1>6

LEMMA SiftExists ==
    ASSUME NEW T, NEW some
    PROVE  \A list \in Seq(T) : \E f : Sifts(f, list, some)
<1> DEFINE Good == {list \in Seq(T) : \E f : Sifts(f, list, some)}
<1>1. <<>> \in Good
  <2>1. Sifts([i \in 0 .. 0 |-> <<>>], <<>>, some)
    BY DEF Sifts
  <2> QED
    BY <2>1
<1>2. ASSUME NEW list \in Seq(T), NEW x \in T, list \in Good PROVE Append(list, x) \in Good
  BY <1>2, SiftExtends
<1>3. \A list \in Seq(T) : list \in Good
  <2> HIDE DEF Good
  <2> QED
    BY <1>1, <1>2, SequencesAreAll
<1> QED
  BY <1>3

LEMMA AmongIs ==
    ASSUME NEW T, NEW list \in Seq(T), NEW some
    PROVE  \E f : Sifts(f, list, some) /\ Among(list, some) = f[Len(list)]
<1> DEFINE f == CHOOSE f : Sifts(f, list, some)
<1>1. Sifts(f, list, some)
  BY SiftExists
<1>2. Among(list, some) = f[Len(list)]
  BY DEF Among, Sifts
<1> QED
  BY <1>1, <1>2

LEMMA AmongSteps ==
    ASSUME NEW T, NEW some
    PROVE  /\ Among(<<>>, some) = <<>>
           /\ \A list \in Seq(T), x \in T :
                Among(Append(list, x), some) =
                   IF x \in some THEN Append(Among(list, some), x) ELSE Among(list, some)
<1>1. Among(<<>>, some) = <<>>
  <2> PICK list : list = <<>>
    OBVIOUS
  <2>1. list \in Seq(T) /\ Len(list) = 0
    OBVIOUS
  <2>2. PICK f : Sifts(f, list, some) /\ Among(list, some) = f[Len(list)]
    BY <2>1, AmongIs
  <2>3. f = [i \in 0 .. 0 |->
               IF i = 0 THEN <<>>
               ELSE IF list[i] \in some THEN Append(f[i - 1], list[i]) ELSE f[i - 1]]
    BY <2>1, <2>2 DEF Sifts
  <2>4. f[0] = <<>>
    BY <2>3
  <2>5. Among(list, some) = <<>>
    BY <2>1, <2>2, <2>4
  <2> QED
    BY <2>5
<1>2. ASSUME NEW list \in Seq(T), NEW x \in T
      PROVE  Among(Append(list, x), some) =
               IF x \in some THEN Append(Among(list, some), x) ELSE Among(list, some)
  <2>1. PICK f : Sifts(f, list, some) /\ Among(list, some) = f[Len(list)]
    BY AmongIs
  <2>2. PICK g : /\ Sifts(g, Append(list, x), some)
                 /\ g[Len(list) + 1] = IF x \in some THEN Append(f[Len(list)], x) ELSE f[Len(list)]
    BY <2>1, SiftExtends
  <2>3. Append(list, x) \in Seq(T) /\ Len(Append(list, x)) = Len(list) + 1
    OBVIOUS
  <2>4. PICK h : Sifts(h, Append(list, x), some) /\ Among(Append(list, x), some) = h[Len(list) + 1]
    BY <2>3, AmongIs
  <2>5. h = g
    BY <2>2, <2>3, <2>4, SiftUnique
  <2> QED
    BY <2>1, <2>2, <2>4, <2>5
<1> QED
  BY <1>1, <1>2

LEMMA AmongStep ==
    ASSUME NEW T, NEW list \in Seq(T), NEW x \in T, NEW some, NEW t, t = Among(list, some)
    PROVE  Among(Append(list, x), some) = IF x \in some THEN Append(t, x) ELSE t
<1>1. \A l \in Seq(T), y \in T :
        Among(Append(l, y), some) = IF y \in some THEN Append(Among(l, some), y) ELSE Among(l, some)
  BY AmongSteps
<1> QED
  BY <1>1

LEMMA AppendRange ==
    ASSUME NEW T, NEW s \in Seq(T), NEW x \in T
    PROVE  /\ Append(s, x) \in Seq(T)
           /\ Range(Append(s, x)) = Range(s) \union {x}
           /\ IsInjective(Append(s, x)) <=> IsInjective(s) /\ x \notin Range(s)
<1> DEFINE r == Append(s, x)
           n == Len(s)
<1>1. /\ n \in Nat /\ DOMAIN s = 1 .. n /\ DOMAIN r = 1 .. n + 1
      /\ r[n + 1] = x /\ \A i \in 1 .. n : r[i] = s[i]
  OBVIOUS
<1>2. r \in Seq(T)
  OBVIOUS
<1> HIDE DEF r, n
<1>3. Range(r) = Range(s) \union {x}
  <2>1. ASSUME NEW i \in DOMAIN r PROVE r[i] \in Range(s) \union {x}
    <3>1. i \in 1 .. n \/ i = n + 1
      BY <1>1
    <3> QED
      BY <1>1, <3>1 DEF Range
  <2>2. ASSUME NEW i \in DOMAIN s PROVE s[i] \in Range(r)
    <3>1. i \in 1 .. n /\ i \in DOMAIN r
      BY <1>1
    <3> QED
      BY <1>1, <3>1 DEF Range
  <2>3. x \in Range(r)
    <3>1. n + 1 \in DOMAIN r
      BY <1>1
    <3> QED
      BY <1>1, <3>1 DEF Range
  <2> QED
    BY <2>1, <2>2, <2>3 DEF Range
<1>4. ASSUME IsInjective(r) PROVE IsInjective(s) /\ x \notin Range(s)
  <2>1. \A i \in 1 .. n : i \in DOMAIN r /\ n + 1 \in DOMAIN r /\ i # n + 1
    BY <1>1
  <2>2. IsInjective(s)
    BY <1>1, <1>4, <2>1 DEF IsInjective
  <2>3. x \notin Range(s)
    BY <1>1, <1>4, <2>1 DEF IsInjective, Range
  <2> QED
    BY <2>2, <2>3
<1>5. ASSUME IsInjective(s), x \notin Range(s) PROVE IsInjective(r)
  <2> SUFFICES ASSUME NEW i \in DOMAIN r, NEW j \in DOMAIN r, r[i] = r[j] PROVE i = j
    BY DEF IsInjective
  <2>1. (i \in 1 .. n \/ i = n + 1) /\ (j \in 1 .. n \/ j = n + 1)
    BY <1>1
  <2>2. \A k \in 1 .. n : r[k] = s[k] /\ s[k] # x
    BY <1>1, <1>5 DEF Range
  <2>3. CASE i \in 1 .. n /\ j \in 1 .. n
    BY <1>1, <1>5, <2>2, <2>3 DEF IsInjective
  <2> QED
    BY <1>1, <2>1, <2>2, <2>3
<1> QED
  BY <1>2, <1>3, <1>4, <1>5 DEF r

LEMMA EmptyRange == Range(<<>>) = {} /\ IsInjective(<<>>)
  BY DEF Range, IsInjective

LEMMA AmongFacts ==
    ASSUME NEW T, NEW some
    PROVE  \A list \in Seq(T) :
             /\ Among(list, some) \in Seq(T)
             /\ Range(Among(list, some)) = Range(list) \cap some
             /\ IsInjective(list) => IsInjective(Among(list, some))
<1> DEFINE Good == {list \in Seq(T) :
                      /\ Among(list, some) \in Seq(T)
                      /\ Range(Among(list, some)) = Range(list) \cap some
                      /\ IsInjective(list) => IsInjective(Among(list, some))}
<1>1. <<>> \in Good
  <2>1. Among(<<>>, some) = <<>>
    BY AmongSteps
  <2> PICK e : e = <<>>
    OBVIOUS
  <2>2. e \in Seq(T) /\ Among(e, some) = e /\ Range(e) = {} /\ IsInjective(e)
    BY <2>1, EmptyRange
  <2> QED
    BY <2>2
<1>2. ASSUME NEW list \in Seq(T), NEW x \in T, list \in Good PROVE Append(list, x) \in Good
  <2> PICK r, t : r = Append(list, x) /\ t = Among(list, some)
    OBVIOUS
  <2>1. t \in Seq(T) /\ Range(t) = Range(list) \cap some /\ (IsInjective(list) => IsInjective(t))
    BY <1>2
  <2>2. Among(r, some) = IF x \in some THEN Append(t, x) ELSE t
    BY AmongStep
  <2>3. /\ r \in Seq(T) /\ Range(r) = Range(list) \union {x}
        /\ IsInjective(r) <=> IsInjective(list) /\ x \notin Range(list)
    BY AppendRange
  <2>4. /\ Append(t, x) \in Seq(T) /\ Range(Append(t, x)) = Range(t) \union {x}
        /\ IsInjective(Append(t, x)) <=> IsInjective(t) /\ x \notin Range(t)
    BY <2>1, AppendRange
  <2>5. /\ Among(r, some) \in Seq(T) /\ Range(Among(r, some)) = Range(r) \cap some
        /\ IsInjective(r) => IsInjective(Among(r, some))
    BY <2>1, <2>2, <2>3, <2>4
  <2> QED
    BY <2>3, <2>5
<1>3. \A list \in Seq(T) : list \in Good
  <2> HIDE DEF Good
  <2> QED
    BY <1>1, <1>2, SequencesAreAll
<1> QED
  BY <1>3

LEMMA AmongAmong ==
    ASSUME NEW T, NEW some, NEW others
    PROVE  \A list \in Seq(T) : Among(Among(list, some), others) = Among(list, some \cap others)
<1> DEFINE Good == {list \in Seq(T) : Among(Among(list, some), others) = Among(list, some \cap others)}
<1>1. <<>> \in Good
  <2>1. Among(<<>>, some) = <<>> /\ Among(<<>>, others) = <<>> /\ Among(<<>>, some \cap others) = <<>>
    BY AmongSteps
  <2> QED
    BY <2>1
<1>2. ASSUME NEW list \in Seq(T), NEW x \in T, list \in Good PROVE Append(list, x) \in Good
  <2> PICK both : both = some \cap others
    OBVIOUS
  <2> PICK t, u : t = Among(list, some) /\ u = Among(list, both)
    OBVIOUS
  <2>1. t \in Seq(T)
    BY AmongFacts
  <2> PICK v : v = Among(t, others)
    OBVIOUS
  <2>6. u = v
    BY <1>2
  <2>2. Among(Append(list, x), some) = IF x \in some THEN Append(t, x) ELSE t
    BY AmongStep
  <2>3. Among(Append(list, x), both) = IF x \in both THEN Append(u, x) ELSE u
    BY AmongStep
  <2>4. Among(Append(t, x), others) = IF x \in others THEN Append(v, x) ELSE v
    BY <2>1, AmongStep
  <2>5. Append(list, x) \in Seq(T)
    OBVIOUS
  <2> QED
    BY <2>1, <2>2, <2>3, <2>4, <2>5, <2>6
<1>3. \A list \in Seq(T) : list \in Good
  <2> HIDE DEF Good
  <2> QED
    BY <1>1, <1>2, SequencesAreAll
<1> QED
  BY <1>3

LEMMA AmongSame ==
    ASSUME NEW T, NEW some, NEW others
    PROVE  \A list \in Seq(T) :
             (Range(list) \cap some = Range(list) \cap others) => Among(list, some) = Among(list, others)
<1> DEFINE Good == {list \in Seq(T) :
                      (Range(list) \cap some = Range(list) \cap others)
                        => Among(list, some) = Among(list, others)}
<1>1. <<>> \in Good
  BY AmongSteps
<1>2. ASSUME NEW list \in Seq(T), NEW x \in T, list \in Good PROVE Append(list, x) \in Good
  <2> PICK r : r = Append(list, x)
    OBVIOUS
  <2>1. r \in Seq(T) /\ Range(r) = Range(list) \union {x}
    BY AppendRange
  <2> SUFFICES ASSUME Range(r) \cap some = Range(r) \cap others
               PROVE  Among(r, some) = Among(r, others)
    BY <2>1
  <2>2. (Range(list) \cap some = Range(list) \cap others) /\ (x \in some <=> x \in others)
    BY <2>1
  <2>3. Among(list, some) = Among(list, others)
    BY <1>2, <2>2
  <2>4. /\ Among(r, some) = IF x \in some THEN Append(Among(list, some), x) ELSE Among(list, some)
        /\ Among(r, others) = IF x \in others THEN Append(Among(list, others), x) ELSE Among(list, others)
    BY AmongStep
  <2> QED
    BY <2>2, <2>3, <2>4
<1>3. \A list \in Seq(T) : list \in Good
  <2> HIDE DEF Good
  <2> QED
    BY <1>1, <1>2, SequencesAreAll
<1> QED
  BY <1>3

(***************************************************************************)
(* The inductive invariant.  What the end accounts for was recorded by     *)
(* calls that overlapped: at every moment what the outcomes say of a       *)
(* category is what its call has said, each category is either waiting, or *)
(* out, or has said, and what was lost has an error by the time the        *)
(* clauses are gathered.                                                   *)
(***************************************************************************)

Category == Range(Priority) \union Derived \union {"parties", "metadata", "summary"}
Planned  == Range(ClausePlan(only))
Hows     == Finds \union Mishaps \union {"absent", "unasked", "rejected"}
Late     == {"derived", "summary", "over"}
Result   == [parties : BOOLEAN, facts : [Fact -> {"none", "metadata"} \union Derived],
             clauses : Seq(Range(Priority)),
             outcomes : SUBSET [category : Category, issues : BOOLEAN,
                                status : {"ok", "not_found", "invalid", "error"}],
             missing : SUBSET Mandatory,
             reasons : SUBSET {"low_confidence", "missing_mandatory_clause", "validation_failure"},
             digest : Seq(Range(Priority))]

EngineShape ==
    /\ doing \in {"parties", "metadata", "clauses", "raised"} \union Late
    /\ extract \in Result
    /\ stated \subseteq Fact
    /\ DOMAIN said \subseteq Category /\ \A c \in DOMAIN said : said[c] \in Hows

(* Who has said, who is asked, who waits.                                  *)
EveryoneIsSomewhere ==
    /\ "parties" \in DOMAIN said <=> doing # "parties"
    /\ "metadata" \in DOMAIN said <=> doing \notin {"parties", "metadata"}
    /\ "summary" \in DOMAIN said <=> doing = "over"
    /\ doing \in {"parties", "metadata"} => DOMAIN said \subseteq {"parties"} /\ open = {}
    /\ doing = "clauses" =>
         /\ starting \in Seq(Range(Priority)) /\ IsInjective(starting)
         /\ Range(starting) \cap open = {}
         /\ (Range(starting) \union open) \cap DOMAIN said = {}
         /\ Planned = Range(starting) \union open \union (DOMAIN said \cap Range(Priority))
         /\ DOMAIN said \cap Derived = {}
    /\ doing \in Late =>
         /\ open \subseteq Derived /\ open \cap DOMAIN said = {}
         /\ Derived = open \union (DOMAIN said \cap Derived)
         /\ DOMAIN said \cap Range(Priority) = Planned
    /\ doing \in {"summary", "over"} => open = {}

(* What the outcomes of a category say, by how its call ended.             *)
Tells(how, statuses) ==
    /\ how \in Finds => statuses = {"ok"}
    /\ how \in {"absent", "unasked", "rejected"} => statuses = {"not_found"}
    /\ how = "failed" => statuses = {}
    /\ how = "invalid" => statuses = {"invalid"}

OutcomesTell ==
    \A c \in Category :
        /\ c \notin DOMAIN said => StatusesOf(c) = {}
        /\ c \in DOMAIN said => Tells(said[c], StatusesOf(c))

(* The errors of what was rejected are there, and no others.               *)
IssuesKept ==
    \A c \in Category :
        Rejected(c) \in extract.outcomes <=> c \in DOMAIN said /\ said[c] = "rejected"

(* What raised has an error once the clauses are gathered; a category that *)
(* is not a clause ends it all.                                            *)
LossesSeen ==
    \A c \in DOMAIN said : said[c] \in {"raised", "unreported"} =>
        /\ doing \in Late => "error" \in StatusesOf(c)
        /\ c \notin Range(Priority) => doing = "raised"

FoundClauses == {c \in Range(Priority) : c \in DOMAIN said /\ said[c] \in Finds}

ClausesGathered == doing \in Late => extract.clauses = Among(Priority, FoundClauses)

FactsFounded ==
    /\ doing \in {"parties", "metadata"} => stated = {} /\ \A f \in Fact : extract.facts[f] = "none"
    /\ \A f \in Fact :
         /\ f \in stated => extract.facts[f] = "metadata"
         /\ extract.facts[f] # "none" => "ok" \in StatusesOf(extract.facts[f])

ReviewAsked ==
    doing \in {"summary", "over"} =>
        /\ (\E o \in extract.outcomes : o.status \in Failed) => "validation_failure" \in extract.reasons
        /\ Mandatory \ Range(extract.clauses) # {} => "missing_mandatory_clause" \in extract.reasons

DigestOfClauses == doing = "over" => Range(extract.digest) \subseteq Range(extract.clauses)

EngineInv ==
    /\ EngineShape /\ EveryoneIsSomewhere /\ OutcomesTell /\ IssuesKept /\ LossesSeen
    /\ ClausesGathered /\ FactsFounded /\ ReviewAsked /\ DigestOfClauses

LEMMA PriorityFacts ==
    /\ Priority \in Seq(Range(Priority)) /\ IsInjective(Priority)
    /\ {"parties", "metadata", "summary"} \cap (Range(Priority) \union Derived) = {}
    /\ Range(Priority) \cap Derived = {}
  BY EngineAssumption DEF EngineAssumption

LEMMA PlanFacts ==
    /\ ClausePlan(only) \in Seq(Range(Priority)) /\ IsInjective(ClausePlan(only))
    /\ Planned \subseteq Range(Priority)
<1>1. CASE only = {}
  BY <1>1, PriorityFacts DEF ClausePlan, Planned
<1>2. CASE only # {}
  <2> PICK plan : plan = Among(Priority, only)
    OBVIOUS
  <2>1. plan \in Seq(Range(Priority))
    BY PriorityFacts, AmongFacts
  <2>2. Range(plan) = Range(Priority) \cap only
    BY PriorityFacts, AmongFacts
  <2>3. IsInjective(plan)
    BY PriorityFacts, AmongFacts
  <2> QED
    BY <1>2, <2>1, <2>2, <2>3 DEF ClausePlan, Planned
<1> QED
  BY <1>1, <1>2

(* The clauses of the plan that were found are the clauses of all that were. *)
LEMMA GatheredFacts ==
    ASSUME DOMAIN said \cap Range(Priority) = Planned
    PROVE  Gathered = Among(Priority, FoundClauses)
<1> DEFINE S == {c \in DOMAIN said : said[c] \in Finds}
<1>1. Gathered = Among(ClausePlan(only), S)
  BY DEF Gathered
<1>2. Range(Priority) \cap S = FoundClauses /\ FoundClauses \subseteq Planned
  BY DEF FoundClauses
<1>3. CASE only = {}
  <2>1. Range(Priority) \cap S = Range(Priority) \cap FoundClauses
    BY <1>2 DEF FoundClauses
  <2>2. ClausePlan(only) = Priority
    BY <1>3 DEF ClausePlan
  <2> HIDE DEF S
  <2>3. Among(Priority, S) = Among(Priority, FoundClauses)
    BY <2>1, PriorityFacts, AmongSame
  <2> QED
    BY <1>1, <2>2, <2>3
<1>4. CASE only # {}
  <2> PICK both : both = only \cap S
    OBVIOUS
  <2>1. ClausePlan(only) = Among(Priority, only)
    BY <1>4 DEF ClausePlan
  <2>2. Planned = Range(Priority) \cap only
    BY <2>1, PriorityFacts, AmongFacts DEF Planned
  <2>3. Range(Priority) \cap both = Range(Priority) \cap FoundClauses
    BY <1>2, <2>2 DEF FoundClauses
  <2> HIDE DEF S
  <2>4. Among(Among(Priority, only), S) = Among(Priority, both)
    BY PriorityFacts, AmongAmong
  <2>5. Among(Priority, both) = Among(Priority, FoundClauses)
    BY <2>3, PriorityFacts, AmongSame
  <2> QED
    BY <1>1, <2>1, <2>4, <2>5
<1> QED
  BY <1>3, <1>4

LEMMA InvGivesAccounted == EngineInv => AccountedFor
<1> SUFFICES ASSUME EngineInv, doing = "over" PROVE AccountedFor
  BY DEF AccountedFor
<1>1. /\ doing \in Late /\ open = {}
      /\ DOMAIN said \subseteq Category /\ \A c \in DOMAIN said : said[c] \in Hows
      /\ {"parties", "metadata"} \subseteq DOMAIN said
      /\ Derived \subseteq DOMAIN said /\ DOMAIN said \cap Range(Priority) = Planned
  BY DEF EngineInv, EngineShape, EveryoneIsSomewhere, Late
<1>2. \A c \in DOMAIN said : Tells(said[c], StatusesOf(c))
  BY <1>1 DEF EngineInv, OutcomesTell
<1>3. \A c \in DOMAIN said : said[c] \in {"raised", "unreported"} => "error" \in StatusesOf(c)
  BY <1>1 DEF EngineInv, LossesSeen
<1>4. Asked \subseteq DOMAIN said /\ Asked \cap Range(Priority) \subseteq Planned
  <2>1. Asked = Planned \union Derived \union {"parties", "metadata"}
    BY DEF Asked, Planned
  <2>2. Planned \subseteq DOMAIN said
    BY <1>1
  <2> QED
    BY <1>1, <2>1, <2>2, PriorityFacts
<1>5. extract.clauses = Among(Priority, {c \in Range(Priority) : StatusesOf(c) = {"ok"}})
  <2>1. ASSUME NEW c \in Range(Priority) PROVE StatusesOf(c) = {"ok"} <=> c \in FoundClauses
    <3>1. CASE c \in DOMAIN said
      <4>1. Tells(said[c], StatusesOf(c)) /\ said[c] \in Hows
        BY <1>1, <1>2, <3>1
      <4>2. said[c] \in {"raised", "unreported"} => "error" \in StatusesOf(c)
        BY <1>3, <3>1
      <4> QED
        BY <3>1, <4>1, <4>2 DEF Tells, FoundClauses, Hows, Finds, Mishaps
    <3>2. CASE c \notin DOMAIN said
      <4>1. StatusesOf(c) = {}
        BY <3>2 DEF EngineInv, OutcomesTell, Category
      <4> QED
        BY <3>2, <4>1 DEF FoundClauses
    <3> QED
      BY <3>1, <3>2
  <2>2. FoundClauses = {c \in Range(Priority) : StatusesOf(c) = {"ok"}}
    BY <2>1 DEF FoundClauses
  <2> QED
    BY <1>1, <2>2 DEF EngineInv, ClausesGathered
<1>6. ASSUME NEW c \in Asked
      PROVE  /\ StatusesOf(c) = {} => said[c] = "failed"
             /\ StatusesOf(c) = {"not_found"} => said[c] \in {"absent", "unasked", "rejected"}
             /\ Rejected(c) \in extract.outcomes <=> said[c] = "rejected"
  <2>1. Tells(said[c], StatusesOf(c)) /\ said[c] \in Hows
    BY <1>1, <1>2, <1>4
  <2>2. said[c] \in {"raised", "unreported"} => "error" \in StatusesOf(c)
    BY <1>3, <1>4
  <2>3. Rejected(c) \in extract.outcomes <=> said[c] = "rejected"
    BY <1>1, <1>4 DEF EngineInv, IssuesKept
  <2> QED
    BY <2>1, <2>2, <2>3 DEF Tells, Hows, Finds, Mishaps
<1>7. ASSUME NEW c \in Range(Priority) \cap Asked, said[c] \in Mishaps \ {"failed"}
      PROVE  "validation_failure" \in extract.reasons
  <2>1. Tells(said[c], StatusesOf(c)) /\ c \in DOMAIN said
    BY <1>2, <1>4
  <2>2. said[c] \in {"raised", "unreported"} => "error" \in StatusesOf(c)
    BY <1>3, <1>4
  <2>3. \E s \in Failed : s \in StatusesOf(c)
    BY <1>7, <2>1, <2>2 DEF Tells, Mishaps, Failed
  <2>4. \E o \in extract.outcomes : o.status \in Failed
    BY <2>3 DEF StatusesOf
  <2> QED
    BY <2>4 DEF EngineInv, ReviewAsked
<1>8. Mandatory \ Range(extract.clauses) # {} => "missing_mandatory_clause" \in extract.reasons
  BY DEF EngineInv, ReviewAsked
<1>9. \A f \in Fact : /\ f \in stated => extract.facts[f] = "metadata"
                      /\ extract.facts[f] # "none" => "ok" \in StatusesOf(extract.facts[f])
  BY DEF EngineInv, FactsFounded
<1>10. Range(extract.digest) \subseteq Range(extract.clauses)
  BY DEF EngineInv, DigestOfClauses
<1> QED
  BY <1>5, <1>6, <1>7, <1>8, <1>9, <1>10 DEF AccountedFor

(***************************************************************************)
(* Steps                                                                   *)
(***************************************************************************)

Heard(how) ==
    IF how \in Finds \union {"unreported"} THEN {"ok"}
    ELSE IF how \in {"absent", "rejected"} THEN {"not_found"}
    ELSE IF how = "invalid" THEN {"invalid"}
    ELSE {}

About(outcomes, c) == {o.status : o \in {x \in outcomes : x.category = c}}

LEMMA StatusesGrow ==
    ASSUME NEW X, extract'.outcomes = extract.outcomes \union X
    PROVE  \A d : StatusesOf(d)' = StatusesOf(d) \union About(X, d)
  BY DEF StatusesOf, About

LEMMA OutcomesTyped ==
    /\ \A c \in Category, s \in {"ok", "not_found", "invalid", "error"} :
          Outcome(c, s) \in [category : Category, issues : BOOLEAN,
                             status : {"ok", "not_found", "invalid", "error"}]
    /\ \A c \in Category :
          Rejected(c) \in [category : Category, issues : BOOLEAN,
                           status : {"ok", "not_found", "invalid", "error"}]
  BY DEF Outcome, Rejected

LEMMA RecordedIsHeard ==
    ASSUME NEW c, NEW how
    PROVE  /\ \A d : About(Recorded(c, how), d) = IF d = c THEN Heard(how) ELSE {}
           /\ c \in Category =>
                Recorded(c, how) \subseteq [category : Category, issues : BOOLEAN,
                                            status : {"ok", "not_found", "invalid", "error"}]
<1>1. \A s : About({Outcome(c, s)}, c) = {s} /\ \A d : d # c => About({Outcome(c, s)}, d) = {}
  <2> TAKE s
  <2> PICK o : o = Outcome(c, s)
    OBVIOUS
  <2>1. o.category = c /\ o.status = s
    BY DEF Outcome
  <2>2. {x \in {o} : x.category = c} = {o} /\ \A d : d # c => {x \in {o} : x.category = d} = {}
    BY <2>1
  <2>3. About({o}, c) = {s} /\ \A d : d # c => About({o}, d) = {}
    BY <2>1, <2>2 DEF About
  <2> QED
    BY <2>3
<1>2. \A d : About({}, d) = {}
  BY DEF About
<1>5. \A d : About({Rejected(c)}, d) = IF d = c THEN {"not_found"} ELSE {}
  <2> TAKE d
  <2> PICK o : o = Rejected(c)
    OBVIOUS
  <2>1. o.category = c /\ o.status = "not_found"
    BY DEF Rejected
  <2>2. {x \in {o} : x.category = d} = IF d = c THEN {o} ELSE {}
    BY <2>1
  <2> QED
    BY <2>1, <2>2 DEF About
<1>3. \A d : About(Recorded(c, how), d) = IF d = c THEN Heard(how) ELSE {}
  BY <1>1, <1>2, <1>5 DEF Recorded, Heard, Finds
<1>4. c \in Category =>
        Recorded(c, how) \subseteq [category : Category, issues : BOOLEAN,
                                    status : {"ok", "not_found", "invalid", "error"}]
  <2> SUFFICES ASSUME c \in Category
               PROVE  Recorded(c, how) \subseteq [category : Category, issues : BOOLEAN,
                                    status : {"ok", "not_found", "invalid", "error"}]
    OBVIOUS
  <2> QED
    BY OutcomesTyped DEF Recorded
<1> QED
  BY <1>3, <1>4

(* Only what is rejected leaves errors, and they are its own.              *)
LEMMA RecordedIssues ==
    ASSUME NEW c, NEW how
    PROVE  \A d : Rejected(d) \in Recorded(c, how) <=> d = c /\ how = "rejected"
<1> TAKE d
<1> PICK o : o = Rejected(d)
  OBVIOUS
<1>1. o.category = d /\ o.issues = TRUE
  BY DEF Rejected
<1>2. \A s : o # Outcome(c, s)
  BY <1>1 DEF Outcome
<1>3. o = Rejected(c) <=> d = c
  BY <1>1 DEF Rejected
<1> QED
  BY <1>2, <1>3 DEF Recorded, Finds

LEMMA HeardTells == ASSUME NEW how \in Hows \ {"unasked"} PROVE Tells(how, Heard(how))
  BY DEF Hows, Tells, Heard, Finds, Mishaps

(* A call that ends is recorded by what it said, and nothing else is.      *)
LEMMA Answering ==
    ASSUME EngineInv, NEW c \in Category, c \notin DOMAIN said, NEW how \in Hows \ {"unasked"},
           said' = Said(c, how), extract'.outcomes = extract.outcomes \union Recorded(c, how),
           doing # "raised", doing' \in Late => doing \in Late,
           how \in {"raised", "unreported"} =>
              doing' \notin Late /\ (c \notin Range(Priority) => doing' = "raised")
    PROVE  /\ OutcomesTell' /\ IssuesKept' /\ LossesSeen'
           /\ DOMAIN said' = DOMAIN said \union {c} /\ said'[c] = how
           /\ \A d \in DOMAIN said : said'[d] = said[d]
           /\ DOMAIN said' \subseteq Category /\ \A d \in DOMAIN said' : said'[d] \in Hows
           /\ \A d : StatusesOf(d)' = StatusesOf(d) \union (IF d = c THEN Heard(how) ELSE {})
<1>1. DOMAIN said' = DOMAIN said \union {c} /\ said'[c] = how
  BY DEF Said
<1>2. \A d \in DOMAIN said : said'[d] = said[d]
  BY DEF Said
<1>3. DOMAIN said \subseteq Category /\ \A d \in DOMAIN said : said[d] \in Hows
  BY DEF EngineInv, EngineShape
<1>4. \A d : StatusesOf(d)' = StatusesOf(d) \union (IF d = c THEN Heard(how) ELSE {})
  <2> PICK X : X = Recorded(c, how)
    OBVIOUS
  <2>1. \A d : StatusesOf(d)' = StatusesOf(d) \union About(X, d)
    BY StatusesGrow
  <2>2. \A d : About(X, d) = IF d = c THEN Heard(how) ELSE {}
    BY RecordedIsHeard
  <2> QED
    BY <2>1, <2>2
<1>5. StatusesOf(c)' = Heard(how)
  BY <1>4 DEF EngineInv, OutcomesTell
<1>6. OutcomesTell'
  <2> SUFFICES ASSUME NEW d \in Category
               PROVE  /\ d \notin DOMAIN said' => StatusesOf(d)' = {}
                      /\ d \in DOMAIN said' => Tells(said'[d], StatusesOf(d)')
    BY DEF OutcomesTell, Tells, Category
  <2>1. CASE d = c
    BY <1>1, <1>5, <2>1, HeardTells
  <2>2. CASE d # c
    <3>1. StatusesOf(d)' = StatusesOf(d) /\ (d \in DOMAIN said' <=> d \in DOMAIN said)
      BY <1>1, <1>4, <2>2
    <3> QED
      BY <1>2, <3>1 DEF EngineInv, OutcomesTell
  <2> QED
    BY <2>1, <2>2
<1>7. LossesSeen'
  <2> SUFFICES ASSUME NEW d \in DOMAIN said', said'[d] \in {"raised", "unreported"}
               PROVE  /\ doing' \in Late => "error" \in StatusesOf(d)'
                      /\ d \notin Range(Priority) => doing' = "raised"
    BY DEF LossesSeen
  <2>1. CASE d = c
    BY <1>1, <2>1
  <2>2. CASE d # c
    <3>1. d \in DOMAIN said /\ said[d] \in {"raised", "unreported"}
      BY <1>1, <1>2, <2>2
    <3>2. d \in Range(Priority) /\ (doing \in Late => "error" \in StatusesOf(d))
      BY <3>1 DEF EngineInv, LossesSeen
    <3>3. StatusesOf(d) \subseteq StatusesOf(d)'
      BY <1>4
    <3> QED
      BY <3>2, <3>3
  <2> QED
    BY <2>1, <2>2
<1>8. IssuesKept'
  <2> SUFFICES ASSUME NEW d \in Category
               PROVE  Rejected(d) \in extract'.outcomes
                         <=> d \in DOMAIN said' /\ said'[d] = "rejected"
    BY DEF IssuesKept, Category, Rejected
  <2>1. /\ Rejected(d) \in extract.outcomes <=> d \in DOMAIN said /\ said[d] = "rejected"
        /\ Rejected(d) \in Recorded(c, how) <=> d = c /\ how = "rejected"
    BY RecordedIssues DEF EngineInv, IssuesKept
  <2>2. Rejected(d) \in extract'.outcomes
           <=> Rejected(d) \in extract.outcomes \/ Rejected(d) \in Recorded(c, how)
    OBVIOUS
  <2> QED
    BY <1>1, <1>2, <2>1, <2>2
<1> QED
  BY <1>1, <1>2, <1>3, <1>4, <1>6, <1>7, <1>8

LEMMA EngineStarts == EngineInit => EngineInv
<1> SUFFICES ASSUME EngineInit PROVE EngineInv
  OBVIOUS
<1>1. /\ doing = "parties" /\ stated = {} /\ DOMAIN said = {}
      /\ extract.outcomes = {} /\ \A f \in Fact : extract.facts[f] = "none"
  BY DEF EngineInit, Empty
<1>7. open = {}
  BY DEF EngineInit
<1>2. extract \in Result
  <2>1. <<>> \in Seq(Range(Priority))
    OBVIOUS
  <2>2. [f \in Fact |-> "none"] \in [Fact -> {"none", "metadata"} \union Derived]
    OBVIOUS
  <2>3. Empty \in Result
    BY <2>1, <2>2 DEF Empty, Result
  <2> QED
    BY <2>3 DEF EngineInit
<1>3. EngineShape
  BY <1>1, <1>2 DEF EngineShape
<1>4. EveryoneIsSomewhere
  BY <1>1, <1>7 DEF EveryoneIsSomewhere, Late
<1>5. OutcomesTell /\ IssuesKept /\ LossesSeen
  BY <1>1 DEF OutcomesTell, IssuesKept, LossesSeen, StatusesOf
<1>6. ClausesGathered /\ FactsFounded /\ ReviewAsked /\ DigestOfClauses
  BY <1>1 DEF ClausesGathered, FactsFounded, ReviewAsked, DigestOfClauses, Late
<1> QED
  BY <1>3, <1>4, <1>5, <1>6 DEF EngineInv

(* Steps before the clauses are gathered need not look at what follows.    *)
LEMMA NotLate ==
    ASSUME doing' \notin Late
    PROVE  ClausesGathered' /\ ReviewAsked' /\ DigestOfClauses'
  BY DEF ClausesGathered, ReviewAsked, DigestOfClauses, Late

LEMMA PartiesStep == ASSUME EngineInv, Parties PROVE EngineInv'
<1>1. doing = "parties" /\ doing' = "metadata" /\ UNCHANGED <<only, evidenced, starting, open, stated>>
  BY DEF Parties
<1>2. PICK how \in {"found", "absent", "rejected", "failed"} :
        /\ said' = Said("parties", how)
        /\ extract' = [extract EXCEPT !.parties = (how = "found"),
                                      !.outcomes = @ \union Recorded("parties", how)]
  BY DEF Parties, Ending
<1> PICK c : c = "parties"
  OBVIOUS
<1>3. /\ c \in Category /\ c \notin DOMAIN said /\ doing # "raised" /\ doing' \notin Late
      /\ how \in Hows \ {"unasked"} /\ how \notin {"raised", "unreported"}
  BY <1>1, <1>2 DEF EngineInv, EveryoneIsSomewhere, Category, Late, Hows, Mishaps, Finds
<1>4. /\ extract'.outcomes = extract.outcomes \union Recorded(c, how)
      /\ extract'.facts = extract.facts /\ extract' \in Result
  <2>1. extract \in Result /\ (how = "found") \in BOOLEAN
    BY DEF EngineInv, EngineShape
  <2>2. Recorded(c, how) \subseteq [category : Category, issues : BOOLEAN,
                                    status : {"ok", "not_found", "invalid", "error"}]
    BY <1>3, RecordedIsHeard
  <2> PICK b : b = (how = "found")
    OBVIOUS
  <2>3. b \in BOOLEAN
    BY <2>1
  <2>4. extract' = [extract EXCEPT !.parties = b, !.outcomes = extract.outcomes \union Recorded(c, how)]
    BY <1>2, <2>1
  <2> QED
    BY <2>1, <2>2, <2>3, <2>4 DEF Result
<1>5. /\ OutcomesTell' /\ IssuesKept' /\ LossesSeen'
      /\ DOMAIN said' = DOMAIN said \union {c}
      /\ DOMAIN said' \subseteq Category /\ \A d \in DOMAIN said' : said'[d] \in Hows
  BY <1>2, <1>3, <1>4, Answering
<1>6. EngineShape'
  BY <1>1, <1>4, <1>5 DEF EngineInv, EngineShape
<1>7. EveryoneIsSomewhere'
  BY <1>1, <1>5 DEF EngineInv, EveryoneIsSomewhere, Late
<1>8. FactsFounded'
  BY <1>1, <1>4 DEF EngineInv, FactsFounded
<1> QED
  BY <1>3, <1>5, <1>6, <1>7, <1>8, NotLate DEF EngineInv

LEMMA MetadataStep == ASSUME EngineInv, Metadata PROVE EngineInv'
<1>1. /\ doing = "metadata" /\ doing' = "clauses" /\ starting' = ClausePlan(only)
      /\ UNCHANGED <<only, evidenced, open>>
  BY DEF Metadata
<1>2. PICK how \in {"found", "failed"}, facts \in SUBSET Fact :
        /\ how = "failed" => facts = {}
        /\ said' = Said("metadata", how) /\ stated' = facts
        /\ extract' = [extract EXCEPT
              !.facts = [f \in Fact |-> IF f \in facts THEN "metadata" ELSE @[f]],
              !.outcomes = @ \union Recorded("metadata", how)]
  BY DEF Metadata, Ending
<1> PICK c : c = "metadata"
  OBVIOUS
<1> PICK new : new = [f \in Fact |-> IF f \in facts THEN "metadata" ELSE extract.facts[f]]
  OBVIOUS
<1>3. /\ c \in Category /\ c \notin DOMAIN said /\ doing # "raised" /\ doing' \notin Late
      /\ how \in Hows \ {"unasked"} /\ how \notin {"raised", "unreported"}
  BY <1>1, <1>2 DEF EngineInv, EveryoneIsSomewhere, Category, Late, Hows, Mishaps, Finds
<1>4. extract \in Result
  BY DEF EngineInv, EngineShape
<1>5. /\ extract'.outcomes = extract.outcomes \union Recorded(c, how)
      /\ extract'.facts = new /\ extract' \in Result
  <2>1. Recorded(c, how) \subseteq [category : Category, issues : BOOLEAN,
                                    status : {"ok", "not_found", "invalid", "error"}]
    BY <1>3, RecordedIsHeard
  <2>2. new \in [Fact -> {"none", "metadata"} \union Derived]
    BY <1>4 DEF Result
  <2>3. extract' = [extract EXCEPT !.facts = new, !.outcomes = extract.outcomes \union Recorded(c, how)]
    BY <1>2, <1>4
  <2> QED
    BY <1>4, <2>1, <2>2, <2>3 DEF Result
<1>6. /\ OutcomesTell' /\ IssuesKept' /\ LossesSeen'
      /\ DOMAIN said' = DOMAIN said \union {c}
      /\ DOMAIN said' \subseteq Category /\ \A d \in DOMAIN said' : said'[d] \in Hows
      /\ \A d : StatusesOf(d)' = StatusesOf(d) \union (IF d = c THEN Heard(how) ELSE {})
  BY <1>2, <1>3, <1>5, Answering
<1>7. EngineShape'
  BY <1>1, <1>2, <1>5, <1>6 DEF EngineInv, EngineShape
<1>8. EveryoneIsSomewhere'
  <2>1. starting' \in Seq(Range(Priority)) /\ IsInjective(starting') /\ Planned' = Range(starting')
    BY <1>1, PlanFacts DEF Planned
  <2>2. DOMAIN said \subseteq {"parties"} /\ "parties" \in DOMAIN said
    BY <1>1 DEF EngineInv, EveryoneIsSomewhere
  <2>3. DOMAIN said' = {"parties", "metadata"}
    BY <1>6, <2>2
  <2>4. {"parties", "metadata"} \cap (Range(Priority) \union Derived) = {}
    BY PriorityFacts
  <2>5. Range(starting') \subseteq Range(Priority)
    BY <1>1, PlanFacts DEF Planned
  <2>6. open' = {}
    BY <1>1 DEF EngineInv, EveryoneIsSomewhere
  <2> QED
    BY <1>1, <2>1, <2>3, <2>4, <2>5, <2>6 DEF EveryoneIsSomewhere, Late
<1>9. FactsFounded'
  <2>1. \A f \in Fact : extract.facts[f] = "none"
    BY <1>1 DEF EngineInv, FactsFounded
  <2>2. \A f \in Fact : new[f] = IF f \in facts THEN "metadata" ELSE "none"
    BY <2>1
  <2>3. \A f \in Fact : f \in facts => "ok" \in StatusesOf(c)'
    BY <1>2, <1>6 DEF Heard, Finds
  <2>4. \A f \in Fact : (new[f] # "none" => "ok" \in StatusesOf(new[f])')
    BY <2>2, <2>3
  <2> QED
    BY <1>1, <1>2, <1>5, <2>2, <2>4 DEF FactsFounded
<1> QED
  BY <1>3, <1>6, <1>7, <1>8, <1>9, NotLate DEF EngineInv

LEMMA HeadAndTail ==
    ASSUME NEW T, NEW s \in Seq(T), s # <<>>, IsInjective(s)
    PROVE  /\ Tail(s) \in Seq(T) /\ IsInjective(Tail(s)) /\ Head(s) \in T
           /\ Range(s) = Range(Tail(s)) \union {Head(s)} /\ Head(s) \notin Range(Tail(s))
<1> PICK n, t : n = Len(s) /\ t = Tail(s)
  OBVIOUS
<1>1. /\ n \in Nat \ {0} /\ DOMAIN s = 1 .. n /\ DOMAIN t = 1 .. n - 1
      /\ Head(s) = s[1] /\ \A i \in 1 .. n - 1 : t[i] = s[i + 1]
      /\ t \in Seq(T) /\ Head(s) \in T
  OBVIOUS
<1>2. \A i \in 1 .. n - 1 : i + 1 \in 1 .. n /\ i + 1 # 1
  BY <1>1
<1>3. \A i \in 1 .. n : i = 1 \/ (i - 1 \in 1 .. n - 1 /\ (i - 1) + 1 = i)
  BY <1>1
<1>4. 1 \in 1 .. n
  BY <1>1
<1>5. IsInjective(t)
  <2> SUFFICES ASSUME NEW i \in 1 .. n - 1, NEW j \in 1 .. n - 1, t[i] = t[j] PROVE i = j
    BY <1>1 DEF IsInjective
  <2>1. i + 1 = j + 1
    BY <1>1, <1>2 DEF IsInjective
  <2> QED
    BY <1>1, <2>1
<1>6. Range(s) = Range(t) \union {Head(s)}
  <2>1. \A i \in 1 .. n - 1 : t[i] \in Range(s)
    BY <1>1, <1>2 DEF Range
  <2>2. s[1] \in Range(s)
    BY <1>1, <1>4 DEF Range
  <2>3. \A i \in 1 .. n : s[i] = s[1] \/ s[i] = t[i - 1]
    BY <1>1, <1>3
  <2>4. \A i \in 1 .. n : s[i] = s[1] \/ s[i] \in Range(t)
    BY <1>1, <1>3, <2>3 DEF Range
  <2>5. Range(s) \subseteq Range(t) \union {Head(s)}
    BY <1>1, <2>4 DEF Range
  <2>6. Range(t) \subseteq Range(s)
    BY <1>1, <2>1 DEF Range
  <2> QED
    BY <1>1, <2>2, <2>5, <2>6
<1>7. Head(s) \notin Range(t)
  <2>1. \A i \in 1 .. n - 1 : t[i] # s[1]
    BY <1>1, <1>2, <1>4 DEF IsInjective
  <2> QED
    BY <1>1, <2>1 DEF Range
<1> QED
  BY <1>1, <1>5, <1>6, <1>7

LEMMA StartClauseStep == ASSUME EngineInv, StartClause PROVE EngineInv'
<1> PICK c : c = Head(starting)
  OBVIOUS
<1>1. /\ doing = "clauses" /\ doing' = doing /\ starting # <<>> /\ starting' = Tail(starting)
      /\ only' = only /\ stated' = stated
  BY DEF StartClause
<1>2. /\ starting \in Seq(Range(Priority)) /\ IsInjective(starting)
      /\ Range(starting) \cap open = {} /\ (Range(starting) \union open) \cap DOMAIN said = {}
      /\ Planned = Range(starting) \union open \union (DOMAIN said \cap Range(Priority))
      /\ DOMAIN said \cap Derived = {}
      /\ "parties" \in DOMAIN said /\ "metadata" \in DOMAIN said /\ "summary" \notin DOMAIN said
  BY <1>1 DEF EngineInv, EveryoneIsSomewhere
<1>3. /\ starting' \in Seq(Range(Priority)) /\ IsInjective(starting') /\ c \in Range(Priority)
      /\ Range(starting) = Range(starting') \union {c} /\ c \notin Range(starting')
  BY <1>1, <1>2, HeadAndTail
<1>4. c \notin DOMAIN said /\ c \in Category /\ c \notin open /\ c # "summary" /\ c \notin Derived
  BY <1>2, <1>3, PriorityFacts DEF Category
<1>5. Planned' = Planned
  BY <1>1 DEF Planned
<1>6. doing' \notin Late /\ doing \notin {"summary", "over", "parties", "metadata", "raised"}
  BY <1>1 DEF Late
<1>7. CASE c \in evidenced
  <2>1. open' = open \union {c} /\ extract' = extract /\ said' = said
    BY <1>7 DEF StartClause
  <2>2. EveryoneIsSomewhere'
    BY <1>1, <1>2, <1>3, <1>4, <1>5, <1>6, <2>1 DEF EveryoneIsSomewhere
  <2>3. EngineShape'
    BY <1>1, <2>1 DEF EngineInv, EngineShape
  <2>4. OutcomesTell' /\ IssuesKept' /\ LossesSeen' /\ FactsFounded'
    BY <1>1, <2>1 DEF EngineInv, OutcomesTell, IssuesKept, LossesSeen, FactsFounded, StatusesOf
  <2> QED
    BY <1>6, <2>2, <2>3, <2>4, NotLate DEF EngineInv
<1>8. CASE c \notin evidenced
  <2>1. PICK how \in {"unasked", "raised"} : said' = Said(c, how)
    BY <1>8 DEF StartClause, Ending
  <2>2. open' = open /\ extract' = [extract EXCEPT !.outcomes = @ \union {Outcome(c, "not_found")}]
    BY <1>8 DEF StartClause
  <2>3. extract \in Result
    BY DEF EngineInv, EngineShape
  <2> PICK X : X = Recorded(c, "absent")
    OBVIOUS
  <2>4. X = {Outcome(c, "not_found")}
    BY DEF Recorded, Finds
  <2>5. /\ extract'.outcomes = extract.outcomes \union X /\ extract'.facts = extract.facts
        /\ extract' \in Result
    <3>1. X \subseteq [category : Category, issues : BOOLEAN,
                        status : {"ok", "not_found", "invalid", "error"}]
      BY <1>4, RecordedIsHeard
    <3> QED
      BY <2>2, <2>3, <2>4, <3>1 DEF Result
  <2>6. \A d : StatusesOf(d)' = StatusesOf(d) \union (IF d = c THEN {"not_found"} ELSE {})
    <3>1. \A d : StatusesOf(d)' = StatusesOf(d) \union About(X, d)
      BY <2>5, StatusesGrow
    <3>2. \A d : About(X, d) = IF d = c THEN Heard("absent") ELSE {}
      BY RecordedIsHeard
    <3>3. Heard("absent") = {"not_found"}
      BY DEF Heard, Finds
    <3> QED
      BY <3>1, <3>2, <3>3
  <2>7. /\ DOMAIN said' = DOMAIN said \union {c} /\ said'[c] = how
        /\ \A d \in DOMAIN said : said'[d] = said[d]
    BY <2>1, <1>4 DEF Said
  <2>8. EngineShape'
    BY <1>1, <1>4, <2>1, <2>5, <2>7 DEF EngineInv, EngineShape, Hows, Mishaps
  <2>9. EveryoneIsSomewhere'
    BY <1>1, <1>2, <1>3, <1>4, <1>5, <1>6, <2>2, <2>7 DEF EveryoneIsSomewhere
  <2>10. OutcomesTell'
    <3> SUFFICES ASSUME NEW d \in Category
                 PROVE  /\ d \notin DOMAIN said' => StatusesOf(d)' = {}
                        /\ d \in DOMAIN said' => Tells(said'[d], StatusesOf(d)')
      BY DEF OutcomesTell, Tells, Category
    <3>1. CASE d = c
      <4>1. StatusesOf(c)' = {"not_found"}
        BY <1>4, <2>6 DEF EngineInv, OutcomesTell
      <4> QED
        BY <2>1, <2>7, <3>1, <4>1 DEF Tells, Finds
    <3>2. CASE d # c
      BY <2>6, <2>7, <3>2 DEF EngineInv, OutcomesTell
    <3> QED
      BY <3>1, <3>2
  <2>11. LossesSeen'
    BY <1>1, <1>3, <1>6, <2>7 DEF EngineInv, LossesSeen
  <2>12. FactsFounded'
    BY <1>1, <1>6, <2>5, <2>6 DEF EngineInv, FactsFounded
  <2>13. IssuesKept'
    <3> SUFFICES ASSUME NEW d \in Category
                 PROVE  Rejected(d) \in extract'.outcomes
                           <=> d \in DOMAIN said' /\ said'[d] = "rejected"
      BY DEF IssuesKept, Category, Rejected
    <3>1. /\ Rejected(d) \in extract.outcomes <=> d \in DOMAIN said /\ said[d] = "rejected"
          /\ Rejected(d) \notin X
      BY RecordedIssues DEF EngineInv, IssuesKept
    <3>2. Rejected(d) \in extract'.outcomes <=> Rejected(d) \in extract.outcomes
      BY <2>5, <3>1
    <3> QED
      BY <1>4, <2>1, <2>7, <3>1, <3>2
  <2> QED
    BY <1>6, <2>8, <2>9, <2>10, <2>11, <2>12, <2>13, NotLate DEF EngineInv
<1> QED
  BY <1>7, <1>8

LEMMA AnswerClauseStep == ASSUME EngineInv, NEW c, AnswerClause(c) PROVE EngineInv'
<1>1. /\ doing = "clauses" /\ doing' = doing /\ c \in open /\ open' = open \ {c}
      /\ only' = only /\ stated' = stated /\ starting' = starting
  BY DEF AnswerClause
<1>2. PICK how \in Finds \union Mishaps \union {"absent", "rejected"} :
        /\ said' = Said(c, how)
        /\ extract' = [extract EXCEPT !.outcomes = @ \union Recorded(c, how)]
  BY DEF AnswerClause, Ending
<1>3. /\ starting \in Seq(Range(Priority)) /\ IsInjective(starting)
      /\ Range(starting) \cap open = {} /\ (Range(starting) \union open) \cap DOMAIN said = {}
      /\ Planned = Range(starting) \union open \union (DOMAIN said \cap Range(Priority))
      /\ DOMAIN said \cap Derived = {}
      /\ "parties" \in DOMAIN said /\ "metadata" \in DOMAIN said /\ "summary" \notin DOMAIN said
  BY <1>1 DEF EngineInv, EveryoneIsSomewhere
<1>4. /\ c \in Range(Priority) /\ c \notin DOMAIN said /\ c \in Category /\ c # "summary"
      /\ c \notin Derived /\ c \notin Range(starting)
  BY <1>1, <1>3, PlanFacts, PriorityFacts DEF Category
<1>5. Planned' = Planned
  BY <1>1 DEF Planned
<1>6. /\ doing' \notin Late /\ doing \notin {"summary", "over", "parties", "metadata", "raised"}
      /\ how \in Hows \ {"unasked"}
  BY <1>1, <1>2 DEF Late, Hows, Finds, Mishaps
<1>7. extract \in Result
  BY DEF EngineInv, EngineShape
<1>8. /\ extract'.outcomes = extract.outcomes \union Recorded(c, how)
      /\ extract'.facts = extract.facts /\ extract' \in Result
  <2>1. Recorded(c, how) \subseteq [category : Category, issues : BOOLEAN,
                                    status : {"ok", "not_found", "invalid", "error"}]
    BY <1>4, RecordedIsHeard
  <2> QED
    BY <1>2, <1>7, <2>1 DEF Result
<1>9. /\ OutcomesTell' /\ IssuesKept' /\ LossesSeen'
      /\ DOMAIN said' = DOMAIN said \union {c}
      /\ DOMAIN said' \subseteq Category /\ \A d \in DOMAIN said' : said'[d] \in Hows
      /\ \A d : StatusesOf(d)' = StatusesOf(d) \union (IF d = c THEN Heard(how) ELSE {})
  BY <1>1, <1>2, <1>4, <1>6, <1>8, Answering
<1>10. EngineShape'
  BY <1>1, <1>8, <1>9 DEF EngineInv, EngineShape
<1>11. EveryoneIsSomewhere'
  BY <1>1, <1>3, <1>4, <1>5, <1>6, <1>9 DEF EveryoneIsSomewhere
<1>12. FactsFounded'
  BY <1>1, <1>6, <1>8, <1>9 DEF EngineInv, FactsFounded
<1> QED
  BY <1>6, <1>9, <1>10, <1>11, <1>12, NotLate DEF EngineInv

(* What the clauses gave is settled once they are gathered.                *)
LEMMA ClausesKept ==
    ASSUME EngineInv, doing \in Late, extract'.clauses = extract.clauses,
           \A c \in Range(Priority) : /\ c \in DOMAIN said' <=> c \in DOMAIN said
                                      /\ c \in DOMAIN said => said'[c] = said[c]
    PROVE  ClausesGathered'
<1>1. FoundClauses' = FoundClauses
  BY DEF FoundClauses
<1>2. extract.clauses = Among(Priority, FoundClauses)
  BY DEF EngineInv, ClausesGathered
<1> PICK found : found = FoundClauses
  OBVIOUS
<1>3. extract'.clauses = Among(Priority, found) /\ FoundClauses' = found
  BY <1>1, <1>2
<1> QED
  BY <1>3 DEF ClausesGathered

LEMMA BeginDerivedStep == ASSUME EngineInv, BeginDerived PROVE EngineInv'
<1> PICK without : without = Derived \ evidenced
  OBVIOUS
<1> PICK lost : lost = {k \in Range(ClausePlan(only)) : said[k] \in {"raised", "unreported"}}
  OBVIOUS
<1> PICK X : X = {Outcome(c, "error") : c \in lost} \union {Outcome(d, "not_found") : d \in without}
  OBVIOUS
<1>1. /\ doing = "clauses" /\ doing' = "derived" /\ starting = <<>> /\ open = {}
      /\ open' = Derived \cap evidenced /\ only' = only /\ stated' = stated
      /\ said' = [x \in DOMAIN said \union without |-> IF x \in without THEN "unasked" ELSE said[x]]
  BY DEF BeginDerived
<1>2. extract \in Result /\ DOMAIN said \subseteq Category /\ \A c \in DOMAIN said : said[c] \in Hows
  BY DEF EngineInv, EngineShape
<1>3. /\ extract'.outcomes = extract.outcomes \union X /\ extract'.facts = extract.facts
      /\ extract'.clauses = Gathered /\ extract'.parties = extract.parties
      /\ extract' = [extract EXCEPT !.clauses = Gathered, !.outcomes = extract.outcomes \union X]
  <2>1. extract' = [extract EXCEPT !.clauses = Gathered, !.outcomes = extract.outcomes \union X]
    BY <1>2 DEF BeginDerived
  <2> QED
    BY <1>2, <2>1 DEF Result
<1>4. /\ Range(starting) = {} /\ Planned = DOMAIN said \cap Range(Priority)
      /\ DOMAIN said \cap Derived = {}
      /\ "parties" \in DOMAIN said /\ "metadata" \in DOMAIN said /\ "summary" \notin DOMAIN said
  <2>1. Range(starting) = {}
    BY <1>1, EmptyRange
  <2> QED
    BY <1>1, <2>1 DEF EngineInv, EveryoneIsSomewhere
<1>5. /\ lost = {k \in DOMAIN said \cap Range(Priority) : said[k] \in {"raised", "unreported"}}
      /\ Planned' = Planned
  BY <1>1, <1>4 DEF Planned
<1>6. /\ lost \subseteq DOMAIN said \cap Range(Priority) /\ without \subseteq Derived
      /\ lost \cap without = {} /\ without \cap DOMAIN said = {}
  BY <1>4, <1>5
<1>7. /\ \A x \in lost : About(X, x) = {"error"}
      /\ \A x \in without : About(X, x) = {"not_found"}
      /\ \A x : x \notin lost \union without => About(X, x) = {}
  <2>1. \A c, s : Outcome(c, s).category = c /\ Outcome(c, s).status = s
    BY DEF Outcome
  <2>2. \A o \in X : (o.category \in lost /\ o.status = "error")
                     \/ (o.category \in without /\ o.status = "not_found")
    BY <2>1
  <2>3. (\A x \in lost : Outcome(x, "error") \in X) /\ (\A x \in without : Outcome(x, "not_found") \in X)
    OBVIOUS
  <2>4. ASSUME NEW x \in lost PROVE About(X, x) = {"error"}
    <3>1. About(X, x) \subseteq {"error"}
      BY <1>6, <2>2 DEF About
    <3>2. "error" \in About(X, x)
      BY <2>1, <2>3 DEF About
    <3> QED
      BY <3>1, <3>2
  <2>5. ASSUME NEW x \in without PROVE About(X, x) = {"not_found"}
    <3>1. About(X, x) \subseteq {"not_found"}
      BY <1>6, <2>2 DEF About
    <3>2. "not_found" \in About(X, x)
      BY <2>1, <2>3 DEF About
    <3> QED
      BY <3>1, <3>2
  <2>6. ASSUME NEW x, x \notin lost \union without PROVE About(X, x) = {}
    BY <2>2, <2>6 DEF About
  <2> QED
    BY <2>4, <2>5, <2>6
<1>8. \A d : StatusesOf(d)' = StatusesOf(d) \union About(X, d)
  BY <1>3, StatusesGrow
<1>9. /\ DOMAIN said' = DOMAIN said \union without
      /\ \A x \in without : said'[x] = "unasked"
      /\ \A x \in DOMAIN said : said'[x] = said[x]
  BY <1>1, <1>6
<1>10. Gathered = Among(Priority, FoundClauses) /\ FoundClauses' = FoundClauses
  <2>1. FoundClauses' = FoundClauses
    BY <1>6, <1>9, PriorityFacts DEF FoundClauses
  <2> QED
    BY <1>4, <2>1, GatheredFacts
<1>11. EngineShape'
  <2>1. X \subseteq [category : Category, issues : BOOLEAN,
                      status : {"ok", "not_found", "invalid", "error"}]
    <3>1. lost \union without \subseteq Category
      BY <1>6 DEF Category
    <3> QED
      BY <1>6, <3>1, OutcomesTyped
  <2>2. Gathered \in Seq(Range(Priority))
    <3> PICK found : found = FoundClauses
      OBVIOUS
    <3>1. Among(Priority, found) \in Seq(Range(Priority))
      BY PriorityFacts, AmongFacts
    <3> QED
      BY <1>10, <3>1
  <2>3. extract' \in Result
    BY <1>2, <1>3, <2>1, <2>2 DEF Result
  <2>4. DOMAIN said' \subseteq Category /\ \A c \in DOMAIN said' : said'[c] \in Hows
    BY <1>2, <1>6, <1>9 DEF Category, Hows
  <2>5. stated' \subseteq Fact
    BY <1>1 DEF EngineInv, EngineShape
  <2> QED
    BY <1>1, <2>3, <2>4, <2>5 DEF EngineShape, Late
<1>12. EveryoneIsSomewhere'
  <2>1. without \cap {"parties", "metadata", "summary"} = {} /\ without \cap Range(Priority) = {}
    BY <1>6, PriorityFacts
  <2>2. open' \subseteq Derived /\ open' \cap DOMAIN said' = {} /\ Derived = open' \union (DOMAIN said' \cap Derived)
    BY <1>1, <1>4, <1>9
  <2>3. DOMAIN said' \cap Range(Priority) = Planned'
    BY <1>4, <1>5, <1>9, <2>1
  <2> QED
    BY <1>1, <1>4, <1>9, <2>1, <2>2, <2>3 DEF EveryoneIsSomewhere
<1>13. OutcomesTell'
  <2> SUFFICES ASSUME NEW d \in Category
               PROVE  /\ d \notin DOMAIN said' => StatusesOf(d)' = {}
                      /\ d \in DOMAIN said' => Tells(said'[d], StatusesOf(d)')
    BY DEF OutcomesTell, Tells, Category
  <2>1. CASE d \in lost
    <3>1. d \in DOMAIN said' /\ said'[d] \in {"raised", "unreported"}
      BY <1>5, <1>6, <1>9, <2>1
    <3> QED
      BY <3>1 DEF Tells, Finds
  <2>2. CASE d \in without
    <3>1. StatusesOf(d)' = {"not_found"}
      BY <1>6, <1>7, <1>8, <2>2 DEF EngineInv, OutcomesTell
    <3> QED
      BY <1>9, <2>2, <3>1 DEF Tells, Finds
  <2>3. CASE d \notin lost \union without
    <3>1. StatusesOf(d)' = StatusesOf(d) /\ (d \in DOMAIN said' <=> d \in DOMAIN said)
      BY <1>7, <1>8, <1>9, <2>3
    <3> QED
      BY <1>9, <3>1 DEF EngineInv, OutcomesTell
  <2> QED
    BY <2>1, <2>2, <2>3
<1>14. LossesSeen'
  <2> SUFFICES ASSUME NEW c \in DOMAIN said', said'[c] \in {"raised", "unreported"}
               PROVE  "error" \in StatusesOf(c)' /\ c \in Range(Priority)
    BY DEF LossesSeen
  <2>1. c \in DOMAIN said /\ said[c] \in {"raised", "unreported"}
    BY <1>9
  <2>2. c \in Range(Priority)
    BY <1>1, <2>1 DEF EngineInv, LossesSeen
  <2>3. c \in lost
    BY <1>5, <2>1, <2>2
  <2> QED
    BY <1>7, <1>8, <2>2, <2>3
<1>15. FactsFounded'
  BY <1>1, <1>3, <1>8 DEF EngineInv, FactsFounded
<1>16. ClausesGathered'
  <2> PICK found : found = FoundClauses
    OBVIOUS
  <2>1. extract'.clauses = Among(Priority, found) /\ FoundClauses' = found
    BY <1>3, <1>10
  <2> QED
    BY <2>1 DEF ClausesGathered
<1>17. ReviewAsked' /\ DigestOfClauses'
  BY <1>1 DEF ReviewAsked, DigestOfClauses
<1>18. IssuesKept'
  <2> SUFFICES ASSUME NEW d \in Category
               PROVE  Rejected(d) \in extract'.outcomes
                         <=> d \in DOMAIN said' /\ said'[d] = "rejected"
    BY DEF IssuesKept, Category, Rejected
  <2>1. Rejected(d) \notin X
    <3>1. \A o \in X : o.issues = FALSE
      BY DEF Outcome
    <3>2. Rejected(d).issues = TRUE
      BY DEF Rejected
    <3> QED
      BY <3>1, <3>2
  <2>2. Rejected(d) \in extract'.outcomes <=> Rejected(d) \in extract.outcomes
    BY <1>3, <2>1
  <2>3. Rejected(d) \in extract.outcomes <=> d \in DOMAIN said /\ said[d] = "rejected"
    BY DEF EngineInv, IssuesKept
  <2> QED
    BY <1>6, <1>9, <2>2, <2>3
<1> QED
  BY <1>11, <1>12, <1>13, <1>14, <1>15, <1>16, <1>17, <1>18 DEF EngineInv

(* A derived category answers; what it fills, metadata had left open.      *)
LEMMA AnsweredStep ==
    ASSUME EngineInv, NEW d, NEW how \in {"found", "absent", "rejected", "failed", "raised"},
           NEW facts \in [Fact -> {"none", "metadata"} \union Derived], Answered(d, how, facts),
           \A f \in Fact : \/ facts[f] = extract.facts[f]
                           \/ facts[f] = d /\ how = "found" /\ extract.facts[f] = "none"
    PROVE  EngineInv'
<1>1. /\ doing = "derived" /\ d \in open /\ open' = open \ {d} /\ said' = Said(d, how)
      /\ doing' = IF how = "raised" THEN "raised" ELSE "derived"
      /\ extract' = [extract EXCEPT !.facts = facts, !.outcomes = @ \union Recorded(d, how)]
      /\ only' = only /\ stated' = stated
  BY DEF Answered
<1>2. extract \in Result
  BY DEF EngineInv, EngineShape
<1>3. /\ open \subseteq Derived /\ open \cap DOMAIN said = {}
      /\ Derived = open \union (DOMAIN said \cap Derived)
      /\ DOMAIN said \cap Range(Priority) = Planned
      /\ "parties" \in DOMAIN said /\ "metadata" \in DOMAIN said /\ "summary" \notin DOMAIN said
  BY <1>1 DEF EngineInv, EveryoneIsSomewhere, Late
<1>4. /\ d \in Derived /\ d \notin DOMAIN said /\ d \in Category /\ d \notin Range(Priority)
      /\ d \notin {"parties", "metadata", "summary"} /\ Planned' = Planned
  BY <1>1, <1>3, PriorityFacts DEF Category, Planned
<1>5. /\ doing \in Late /\ doing # "raised" /\ how \in Hows \ {"unasked"} /\ how # "unreported"
      /\ how = "raised" => doing' = "raised" /\ doing' \notin Late
  BY <1>1 DEF Late, Hows, Finds, Mishaps
<1>6. /\ extract'.outcomes = extract.outcomes \union Recorded(d, how) /\ extract'.facts = facts
      /\ extract'.clauses = extract.clauses /\ extract' \in Result
  <2>1. Recorded(d, how) \subseteq [category : Category, issues : BOOLEAN,
                                    status : {"ok", "not_found", "invalid", "error"}]
    BY <1>4, RecordedIsHeard
  <2> QED
    BY <1>1, <1>2, <2>1 DEF Result
<1>7. /\ OutcomesTell' /\ IssuesKept' /\ LossesSeen' /\ DOMAIN said' = DOMAIN said \union {d}
      /\ \A c \in DOMAIN said : said'[c] = said[c]
      /\ DOMAIN said' \subseteq Category /\ \A c \in DOMAIN said' : said'[c] \in Hows
      /\ \A c : StatusesOf(c)' = StatusesOf(c) \union (IF c = d THEN Heard(how) ELSE {})
  BY <1>1, <1>4, <1>5, <1>6, Answering
<1>8. EngineShape'
  BY <1>1, <1>6, <1>7 DEF EngineInv, EngineShape, Late
<1>9. EveryoneIsSomewhere'
  <2>1. CASE how = "raised"
    BY <1>1, <1>3, <1>4, <1>7, <2>1 DEF EveryoneIsSomewhere, Late
  <2>2. CASE how # "raised"
    <3>1. /\ open' \subseteq Derived /\ open' \cap DOMAIN said' = {}
          /\ Derived = open' \union (DOMAIN said' \cap Derived)
      BY <1>1, <1>3, <1>4, <1>7
    <3>2. DOMAIN said' \cap Range(Priority) = Planned'
      BY <1>3, <1>4, <1>7
    <3> QED
      BY <1>1, <1>3, <1>4, <1>7, <2>2, <3>1, <3>2 DEF EveryoneIsSomewhere
  <2> QED
    BY <2>1, <2>2
<1>10. FactsFounded'
  <2>1. doing' \notin {"parties", "metadata"}
    BY <1>1
  <2>2. ASSUME NEW f \in Fact
        PROVE  /\ f \in stated => facts[f] = "metadata"
               /\ facts[f] # "none" => "ok" \in StatusesOf(facts[f])'
    <3>1. /\ f \in stated => extract.facts[f] = "metadata"
          /\ extract.facts[f] # "none" => "ok" \in StatusesOf(extract.facts[f])
      BY DEF EngineInv, FactsFounded
    <3>2. CASE facts[f] = extract.facts[f]
      BY <1>7, <3>1, <3>2
    <3>3. CASE facts[f] = d /\ how = "found" /\ extract.facts[f] = "none"
      <4>1. "ok" \in StatusesOf(d)'
        BY <1>7, <3>3 DEF Heard, Finds
      <4> QED
        BY <3>1, <3>3, <4>1
    <3> QED
      BY <3>2, <3>3
  <2> QED
    BY <1>1, <1>6, <2>1, <2>2 DEF FactsFounded
<1>11. ClausesGathered'
  BY <1>4, <1>5, <1>6, <1>7, ClausesKept
<1>12. ReviewAsked' /\ DigestOfClauses'
  BY <1>1 DEF ReviewAsked, DigestOfClauses
<1> QED
  BY <1>7, <1>8, <1>9, <1>10, <1>11, <1>12 DEF EngineInv

LEMMA FilledFacts ==
    ASSUME EngineInv, NEW f \in Fact, NEW d \in Derived, NEW found \in BOOLEAN
    PROVE  /\ Filled(f, d, found) \in [Fact -> {"none", "metadata"} \union Derived]
           /\ \A g \in Fact : \/ Filled(f, d, found)[g] = extract.facts[g]
                              \/ Filled(f, d, found)[g] = d /\ found /\ extract.facts[g] = "none"
<1>1. extract.facts \in [Fact -> {"none", "metadata"} \union Derived]
  BY DEF EngineInv, EngineShape, Result
<1>2. CASE found /\ extract.facts[f] = "none"
  BY <1>1, <1>2 DEF Filled
<1>3. CASE ~(found /\ extract.facts[f] = "none")
  BY <1>1, <1>3 DEF Filled
<1> QED
  BY <1>2, <1>3

LEMMA OpenIsDerived == ASSUME EngineInv, doing = "derived", NEW d \in open PROVE d \in Derived
  BY DEF EngineInv, EveryoneIsSomewhere, Late

LEMMA FillingStep ==
    ASSUME EngineInv, NEW f \in Fact, NEW d, NEW how \in {"found", "absent", "rejected", "failed", "raised"},
           NEW found \in BOOLEAN, how # "found" => ~found, Answered(d, how, Filled(f, d, found))
    PROVE  EngineInv'
<1> PICK facts : facts = Filled(f, d, found)
  OBVIOUS
<1>1. d \in Derived
  BY OpenIsDerived DEF Answered
<1>2. /\ facts \in [Fact -> {"none", "metadata"} \union Derived]
      /\ \A g \in Fact : \/ facts[g] = extract.facts[g]
                         \/ facts[g] = d /\ found /\ extract.facts[g] = "none"
  BY <1>1, FilledFacts
<1>3. \A g \in Fact : \/ facts[g] = extract.facts[g]
                      \/ facts[g] = d /\ how = "found" /\ extract.facts[g] = "none"
  BY <1>2
<1>4. Answered(d, how, facts)
  OBVIOUS
<1> QED
  BY <1>2, <1>3, <1>4, AnsweredStep

LEMMA DerivedSteps ==
    ASSUME EngineInv, RunFinancial \/ RunDates \/ \E d \in open : RunItems(d)
    PROVE  EngineInv'
<1>1. CASE RunFinancial
  <2>1. PICK how \in {"found", "failed", "raised"}, value \in BOOLEAN :
          (how # "found" => ~value) /\ Answered("financial", how, Filled("value", "financial", value))
    BY <1>1 DEF RunFinancial, Ending
  <2> PICK f, d : f = "value" /\ d = "financial"
    OBVIOUS
  <2>2. f \in Fact /\ Answered(d, how, Filled(f, d, value))
    BY <2>1 DEF Fact
  <2> QED
    BY <2>1, <2>2, FillingStep
<1>2. CASE RunDates
  <2>1. PICK how \in {"found", "absent", "rejected", "failed", "raised"}, expiry \in BOOLEAN :
          (how # "found" => ~expiry) /\ Answered("dates", how, Filled("expiry", "dates", expiry))
    BY <1>2 DEF RunDates, Ending
  <2> PICK f, d : f = "expiry" /\ d = "dates"
    OBVIOUS
  <2>2. f \in Fact /\ Answered(d, how, Filled(f, d, expiry))
    BY <2>1 DEF Fact
  <2> QED
    BY <2>1, <2>2, FillingStep
<1>3. CASE \E d \in open : RunItems(d)
  <2>1. PICK d \in open, how \in {"found", "absent", "rejected", "failed", "raised"} :
          Answered(d, how, extract.facts)
    BY <1>3 DEF RunItems, Ending
  <2> PICK facts : facts = extract.facts
    OBVIOUS
  <2>2. facts \in [Fact -> {"none", "metadata"} \union Derived] /\ Answered(d, how, facts)
    BY <2>1 DEF EngineInv, EngineShape, Result
  <2> QED
    BY <2>2, AnsweredStep
<1> QED
  BY <1>1, <1>2, <1>3

LEMMA AssessStep == ASSUME EngineInv, Assess PROVE EngineInv'
<1> PICK missing : missing = Missing(extract.clauses)
  OBVIOUS
<1> PICK why : why = Reasons(missing, extract.outcomes)
  OBVIOUS
<1>1. /\ doing = "derived" /\ open = {} /\ doing' = "summary"
      /\ extract' = [extract EXCEPT !.missing = missing, !.reasons = why]
      /\ only' = only /\ open' = open /\ said' = said /\ stated' = stated
  BY DEF Assess
<1>2. extract \in Result /\ doing \in Late /\ doing' \in Late
  BY <1>1 DEF EngineInv, EngineShape, Late
<1>3. /\ missing = Mandatory \ Range(extract.clauses)
      /\ why \subseteq {"low_confidence", "missing_mandatory_clause", "validation_failure"}
      /\ missing # {} => "missing_mandatory_clause" \in why
      /\ (\E o \in extract.outcomes : o.status \in Failed) => "validation_failure" \in why
  BY DEF Missing, Reasons
<1>4. /\ extract' \in Result /\ extract'.outcomes = extract.outcomes
      /\ extract'.clauses = extract.clauses /\ extract'.facts = extract.facts /\ extract'.reasons = why
  BY <1>1, <1>2, <1>3 DEF Result
<1>5. EngineShape'
  BY <1>1, <1>4 DEF EngineInv, EngineShape, Late
<1>6. EveryoneIsSomewhere'
  <2>1. Planned' = Planned
    BY <1>1 DEF Planned
  <2> QED
    BY <1>1, <1>2, <2>1 DEF EngineInv, EveryoneIsSomewhere
<1>7. OutcomesTell' /\ IssuesKept' /\ LossesSeen' /\ FactsFounded'
  <2>1. \A c : StatusesOf(c)' = StatusesOf(c)
    BY <1>4 DEF StatusesOf
  <2>2. OutcomesTell'
    BY <1>1, <2>1 DEF EngineInv, OutcomesTell
  <2>3. LossesSeen'
    BY <1>1, <1>2, <2>1 DEF EngineInv, LossesSeen
  <2>4. FactsFounded'
    BY <1>1, <1>4, <2>1 DEF EngineInv, FactsFounded
  <2>5. IssuesKept'
    BY <1>1, <1>4 DEF EngineInv, IssuesKept
  <2> QED
    BY <2>2, <2>3, <2>4, <2>5
<1>8. ClausesGathered'
  BY <1>1, <1>2, <1>4, ClausesKept
<1>9. ReviewAsked' /\ DigestOfClauses'
  BY <1>1, <1>3, <1>4 DEF ReviewAsked, DigestOfClauses
<1> QED
  BY <1>5, <1>6, <1>7, <1>8, <1>9 DEF EngineInv

LEMMA SummariseStep == ASSUME EngineInv, Summarise PROVE EngineInv'
<1>1. /\ doing = "summary" /\ doing' = "over" /\ only' = only /\ open' = open /\ stated' = stated
  BY DEF Summarise
<1>2. PICK how \in {"found", "failed"}, rows \in SUBSET Range(Priority) :
        /\ said' = Said("summary", how)
        /\ extract' = [extract EXCEPT !.digest = Digest(rows),
                                      !.outcomes = @ \union Recorded("summary", how)]
  BY DEF Summarise, Ending
<1> PICK c, digest : c = "summary" /\ digest = Digest(rows)
  OBVIOUS
<1>3. extract \in Result /\ doing \in Late /\ doing' \in Late
  BY <1>1 DEF EngineInv, EngineShape, Late
<1>4. /\ c \in Category /\ c \notin DOMAIN said /\ doing # "raised"
      /\ how \in Hows \ {"unasked"} /\ how \notin {"raised", "unreported"}
      /\ c \notin Range(Priority) \union Derived
  <2>1. c \notin DOMAIN said
    BY <1>1 DEF EngineInv, EveryoneIsSomewhere
  <2> QED
    BY <1>1, <1>2, <2>1, PriorityFacts DEF Category, Hows, Mishaps, Finds
<1>5. digest \in Seq(Range(Priority)) /\ Range(digest) \subseteq Range(extract.clauses)
  <2> PICK clauses : clauses = extract.clauses
    OBVIOUS
  <2>1. clauses \in Seq(Range(Priority))
    BY <1>3 DEF Result
  <2>2. digest = Among(clauses, rows)
    BY DEF Digest
  <2>3. Among(clauses, rows) \in Seq(Range(Priority)) /\ Range(Among(clauses, rows)) = Range(clauses) \cap rows
    BY <2>1, AmongFacts
  <2> QED
    BY <2>2, <2>3
<1>6. /\ extract'.outcomes = extract.outcomes \union Recorded(c, how) /\ extract'.digest = digest
      /\ extract'.facts = extract.facts /\ extract'.clauses = extract.clauses
      /\ extract'.reasons = extract.reasons /\ extract' \in Result
  <2>1. Recorded(c, how) \subseteq [category : Category, issues : BOOLEAN,
                                    status : {"ok", "not_found", "invalid", "error"}]
    BY <1>4, RecordedIsHeard
  <2>2. extract' = [extract EXCEPT !.digest = digest, !.outcomes = extract.outcomes \union Recorded(c, how)]
    BY <1>2, <1>3
  <2> QED
    BY <1>3, <1>5, <2>1, <2>2 DEF Result
<1>7. /\ OutcomesTell' /\ IssuesKept' /\ LossesSeen' /\ DOMAIN said' = DOMAIN said \union {c}
      /\ \A d \in DOMAIN said : said'[d] = said[d]
      /\ DOMAIN said' \subseteq Category /\ \A d \in DOMAIN said' : said'[d] \in Hows
      /\ \A d : StatusesOf(d)' = StatusesOf(d) \union (IF d = c THEN Heard(how) ELSE {})
  BY <1>2, <1>3, <1>4, <1>6, Answering
<1>8. EngineShape'
  BY <1>1, <1>3, <1>6, <1>7 DEF EngineInv, EngineShape
<1>9. EveryoneIsSomewhere'
  <2>1. Planned' = Planned
    BY <1>1 DEF Planned
  <2>2. /\ open = {} /\ Derived = DOMAIN said \cap Derived /\ DOMAIN said \cap Range(Priority) = Planned
        /\ "parties" \in DOMAIN said /\ "metadata" \in DOMAIN said
    BY <1>1, <1>3 DEF EngineInv, EveryoneIsSomewhere
  <2> QED
    BY <1>1, <1>4, <1>7, <2>1, <2>2 DEF EveryoneIsSomewhere
<1>10. FactsFounded'
  BY <1>1, <1>6, <1>7 DEF EngineInv, FactsFounded
<1>11. ClausesGathered'
  BY <1>3, <1>4, <1>6, <1>7, ClausesKept
<1>12. ReviewAsked'
  <2>1. \A o \in Recorded(c, how) : o.status = "ok"
    BY <1>2 DEF Recorded, Finds, Outcome
  <2>2. (\E o \in extract'.outcomes : o.status \in Failed) => \E o \in extract.outcomes : o.status \in Failed
    BY <1>6, <2>1 DEF Failed
  <2> QED
    BY <1>1, <1>6, <2>2 DEF EngineInv, ReviewAsked
<1>13. DigestOfClauses'
  BY <1>5, <1>6 DEF DigestOfClauses
<1> QED
  BY <1>7, <1>8, <1>9, <1>10, <1>11, <1>12, <1>13 DEF EngineInv

LEMMA EngineStands == ASSUME EngineInv, UNCHANGED engineVars PROVE EngineInv'
<1>1. /\ doing' = doing /\ only' = only /\ starting' = starting /\ open' = open
      /\ extract' = extract /\ said' = said /\ stated' = stated
  BY DEF engineVars
<1>2. EngineShape' /\ EveryoneIsSomewhere'
  BY <1>1 DEF EngineInv, EngineShape, EveryoneIsSomewhere, Planned
<1>3. OutcomesTell' /\ IssuesKept' /\ LossesSeen' /\ FactsFounded'
  BY <1>1 DEF EngineInv, OutcomesTell, IssuesKept, LossesSeen, FactsFounded, StatusesOf
<1>4. ClausesGathered' /\ ReviewAsked' /\ DigestOfClauses'
  BY <1>1 DEF EngineInv, ClausesGathered, FoundClauses, ReviewAsked, DigestOfClauses
<1> QED
  BY <1>2, <1>3, <1>4 DEF EngineInv

\* In every reachable state of an extraction each category that is asked for waits,
\* has its call out or has said, and what the outcomes say of it is what its call
\* said; what raised among the clauses has an error once they are gathered, and what
\* raised after them ends the extraction (extract, _run_clauses, _call, _record).
THEOREM EngineAlwaysInv == EngineSpec => []EngineInv
<1>1. EngineInit => EngineInv
  BY EngineStarts
<1>2. EngineInv /\ [EngineNext]_engineVars => EngineInv'
  <2> SUFFICES ASSUME EngineInv, [EngineNext]_engineVars PROVE EngineInv'
    OBVIOUS
  <2>1. CASE Parties
    BY <2>1, PartiesStep
  <2>2. CASE Metadata
    BY <2>2, MetadataStep
  <2>3. CASE StartClause
    BY <2>3, StartClauseStep
  <2>4. CASE \E c \in open : AnswerClause(c)
    BY <2>4, AnswerClauseStep
  <2>5. CASE BeginDerived
    BY <2>5, BeginDerivedStep
  <2>6. CASE RunFinancial \/ RunDates \/ \E d \in open : RunItems(d)
    BY <2>6, DerivedSteps
  <2>7. CASE Assess
    BY <2>7, AssessStep
  <2>8. CASE Summarise
    BY <2>8, SummariseStep
  <2>9. CASE UNCHANGED engineVars
    BY <2>9, EngineStands
  <2> QED
    BY <2>1, <2>2, <2>3, <2>4, <2>5, <2>6, <2>7, <2>8, <2>9 DEF EngineNext
<1> QED
  BY <1>1, <1>2, PTL DEF EngineSpec

\* Every extraction that ends accounts for what it was asked, in whatever order its
\* calls came back and whichever of them failed: the clauses kept are those that
\* succeeded, by priority, nothing is silently missing, what was lost asks for a
\* review, and no fact is without a category behind it (_extract_clauses,
\* _run_financial, _run_dates, _apply_review_triggers, _digest).
THEOREM AlwaysAccountedFor == EngineSpec => []AccountedFor
  BY EngineAlwaysInv, InvGivesAccounted, PTL

(***************************************************************************)
(* Theorems about uploads and deletions for any number of requests, of     *)
(* batches of any documents, of deletions, faults and workers.             *)
(***************************************************************************)


(***************************************************************************)
(* The strengthening.  A request acts upon what it found earlier: a row to *)
(* replace, a number for its version, bytes it stored.  What it found is   *)
(* still there when it commits because rows are never removed, ids carry   *)
(* the number of the upload that made them, and only a purge takes bytes,  *)
(* which marks what it meets (overlapped) at both of the checks.           *)
(***************************************************************************)
ContractIds == Nat \X Nat
Path == ContractIds \X Nat \X Kind
Contracts ==
    [id : ContractIds, hash : Document, deleted : BOOLEAN, version : Nat,
     storagePath : Path, processingPath : Path]
Replacement == [id : ContractIds, version : Nat]

UploadRequest ==
    [at : {"check", "store", "insert", "enqueue", "commit"}, upload : Nat, batch : Batches,
     replace : BOOLEAN, next : Nat \ {0}, seen : SUBSET Document, target : ContractIds,
     version : Nat, created : Seq(Contracts), replaced : Seq(Replacement),
     queue : SUBSET (ContractIds \X Nat), state : {"queued", "failed"}, clash : {{}}]
DeleteRequest == [at : {"delete", "deleted"}, id : ContractIds, purge : BOOLEAN]
RestingRequest == [at : {"done", "aborted"}, clash : SUBSET Document]

UploadsShape ==
    /\ contract \in Seq(Contracts)
    /\ job \in [DOMAIN job -> {"queued", "done", "failed"}]
    /\ \A r \in Request : req[r] \in {Idle} \union UploadRequest \union DeleteRequest \union RestingRequest
    /\ DOMAIN req = Request
    /\ uploads \in Nat

(* Ids are of uploads that were begun, and no two contracts have one.       *)
IdsApart(rows) == \A i, k \in DOMAIN rows : rows[i].id = rows[k].id => i = k

OwnPaths(c) == c.storagePath[1] = c.id /\ c.processingPath[1] = c.id

ContractsOK ==
    /\ IdsApart(contract)
    /\ \A c \in ToSet(contract) : c.id[1] <= uploads /\ c.id[2] >= 1 /\ OwnPaths(c)

Committed(id) == \E c \in ToSet(contract) : c.id = id

Excepted(id) == id \in torn \union overlapped

(* What an upload has put together so far.                                  *)
NumbersOK(r) ==
    /\ req[r].at \in {"check", "store", "insert"} => req[r].next <= Len(req[r].batch)
    /\ req[r].upload <= uploads
    /\ \A c \in ToSet(contract) : c.id[1] # req[r].upload
    /\ \A s \in Request \ {r} : Uploading(s) => req[s].upload # req[r].upload

CreatedOK(r) ==
    /\ IdsApart(req[r].created)
    /\ \A c \in ToSet(req[r].created) :
         /\ c.hash \in req[r].seen
         /\ c.id[1] = req[r].upload /\ c.id[2] >= 1 /\ c.id[2] < req[r].next
         /\ OwnPaths(c) /\ ~c.deleted /\ {c.storagePath, c.processingPath} \subseteq file

TargetOK(r) ==
    /\ req[r].at \in {"store", "insert"} => Doc(r) \notin req[r].seen
    /\ req[r].target # Nobody =>
         /\ req[r].at \in {"store", "insert"}
         /\ \E c \in ToSet(contract) : c.id = req[r].target /\ c.hash = Doc(r)
    /\ req[r].at = "insert" =>
         /\ req[r].target # Nobody
         /\ Key(req[r].target, req[r].version, "original") \in file \/ Excepted(req[r].target)

ReplacedOK(r) ==
    \A u \in ToSet(req[r].replaced) :
        Committed(u.id) /\ (Key(u.id, u.version, "original") \in file \/ Excepted(u.id))

QueueOK(r) ==
    \A j \in req[r].queue :
        \/ \E c \in ToSet(req[r].created) : c.id = j[1]
        \/ \E u \in ToSet(req[r].replaced) : u.id = j[1]

UploadsOK ==
    \A r \in Request : Uploading(r) =>
        NumbersOK(r) /\ CreatedOK(r) /\ TargetOK(r) /\ ReplacedOK(r) /\ QueueOK(r)

DeletesOK ==
    \A s \in Request : Deleting(s) =>
        Committed(req[s].id) /\ (~Active(req[s].id) \/ req[s].id \in overlapped)

(* What is replaced while it is deleted, or was, is on record.              *)
OverlapsSeen ==
    /\ \A r, s \in Request : Deletes(s) \cap Replaces(r) \subseteq overlapped
    /\ \A r \in Request, c \in ToSet(contract) : c.deleted /\ c.id \in Replaces(r) => c.id \in overlapped

(* Bytes are missing only of what a purge has taken that goes on.           *)
FilesThere ==
    \A c \in ToSet(contract) :
        Live(c) => \/ {c.storagePath, c.processingPath} \subseteq file
                   \/ Excepted(c.id)
                   \/ \E r \in Request : req[r].at = "deleted" /\ req[r].purge /\ req[r].id = c.id

UploadsInv ==
    /\ UploadsShape /\ ContractsOK /\ UploadsOK /\ DeletesOK /\ OverlapsSeen /\ FilesThere
    /\ BatchLostOnlyToOthers /\ NoStrandedJob /\ DeletedIsIdle

-----------------------------------------------------------------------------

LEMMA RequestTypes ==
    ASSUME UploadsShape, NEW r \in Request
    PROVE  /\ Uploading(r) => req[r] \in UploadRequest /\ ~Deleting(r)
           /\ Deleting(r) => req[r] \in DeleteRequest /\ ~Uploading(r)
<1>1. Idle.at = "idle"
  BY DEF Idle
<1>2. \A rec \in UploadRequest : rec.at \in {"check", "store", "insert", "enqueue", "commit"}
  BY DEF UploadRequest
<1>3. \A rec \in DeleteRequest : rec.at \in {"delete", "deleted"}
  BY DEF DeleteRequest
<1>4. \A rec \in RestingRequest : rec.at \in {"done", "aborted"}
  BY DEF RestingRequest
<1> QED
  BY <1>1, <1>2, <1>3, <1>4 DEF UploadsShape, Uploading, Deleting

LEMMA ContractTypes ==
    ASSUME UploadsShape, NEW c \in ToSet(contract)
    PROVE  c \in Contracts
  BY DEF UploadsShape, ToSet

LEMMA CreatedTypes ==
    ASSUME UploadsShape, NEW r \in Request, Uploading(r), NEW c \in ToSet(req[r].created)
    PROVE  c \in Contracts
<1>1. req[r].created \in Seq(Contracts)
  BY RequestTypes DEF UploadRequest
<1> QED
  BY <1>1 DEF ToSet

LEMMA ReplacedTypes ==
    ASSUME UploadsShape, NEW r \in Request, Uploading(r), NEW u \in ToSet(req[r].replaced)
    PROVE  u \in Replacement
<1>1. req[r].replaced \in Seq(Replacement)
  BY RequestTypes DEF UploadRequest
<1> QED
  BY <1>1 DEF ToSet

LEMMA NobodyIsId == Nobody \in ContractIds /\ Nobody[2] = 0
  BY DEF Nobody, ContractIds

(* One file further.                                                        *)
LEMMA NextFileFacts ==
    ASSUME NEW rec \in UploadRequest, rec.at \in {"check", "store", "insert"},
           rec.next <= Len(rec.batch), NEW new, new = NextFile(rec)
    PROVE  /\ new \in UploadRequest /\ new.at \in {"check", "enqueue"} /\ new.target = Nobody
           /\ new.at = "check" => new.next <= Len(new.batch)
           /\ new.next = rec.next + 1 /\ new.upload = rec.upload /\ new.seen = rec.seen
           /\ new.created = rec.created /\ new.replaced = rec.replaced /\ new.queue = rec.queue
<1>1. rec.batch \in Batches /\ Len(rec.batch) \in Nat
  BY UploadsAssumption DEF UploadRequest
<1>2. new = [rec EXCEPT !.next = rec.next + 1, !.target = Nobody,
                        !.at = IF rec.next = Len(rec.batch) THEN "enqueue" ELSE "check"]
  BY DEF NextFile, UploadRequest
<1>3. rec.next + 1 \in Nat \ {0}
  BY DEF UploadRequest
<1>4. /\ new.at = IF rec.next = Len(rec.batch) THEN "enqueue" ELSE "check"
      /\ new.target = Nobody /\ new.next = rec.next + 1 /\ new.upload = rec.upload
      /\ new.seen = rec.seen /\ new.created = rec.created /\ new.replaced = rec.replaced
      /\ new.queue = rec.queue /\ new.batch = rec.batch
  BY <1>2 DEF UploadRequest
<1>5. new \in UploadRequest
  BY <1>2, <1>3, NobodyIsId DEF UploadRequest
<1>6. rec.next \in Nat /\ (new.at = "check" => rec.next # Len(rec.batch))
  BY <1>4 DEF UploadRequest
<1>7. new.at = "check" => new.next <= Len(new.batch)
  BY <1>1, <1>4, <1>6
<1> QED
  BY <1>4, <1>5, <1>7

(* What an upload that does not move keeps while others do: rows stay, files *)
(* are taken only by purges, and those are seen.                            *)
LEMMA OthersKeep ==
    ASSUME UploadsInv, NEW s \in Request, Uploading(s), req'[s] = req[s],
           \A c \in ToSet(contract) : \E d \in ToSet(contract)' : d.id = c.id /\ d.hash = c.hash,
           \A id : Excepted(id) => Excepted(id)',
           \A k \in file : k \in file' \/ (Committed(k[1]) /\ (k[1] \in Replaces(s) => Excepted(k[1])'))
    PROVE  CreatedOK(s)' /\ TargetOK(s)' /\ ReplacedOK(s)' /\ QueueOK(s)'
<1>1. NumbersOK(s) /\ CreatedOK(s) /\ TargetOK(s) /\ ReplacedOK(s) /\ QueueOK(s)
  BY DEF UploadsInv, UploadsOK
<1>2. CreatedOK(s)'
  <2>1. ASSUME NEW c \in ToSet(req[s].created), NEW k \in {c.storagePath, c.processingPath}
        PROVE  k \in file'
    <3>1. k \in file /\ k[1] = c.id /\ c.id[1] = req[s].upload
      BY <1>1, <2>1 DEF CreatedOK, OwnPaths
    <3>2. ~Committed(k[1])
      BY <1>1, <3>1 DEF NumbersOK, Committed
    <3> QED
      BY <3>1, <3>2
  <2> QED
    BY <1>1, <2>1 DEF CreatedOK
<1>3. TargetOK(s)'
  <2>1. Doc(s)' = Doc(s)
    BY DEF Doc
  <2>2. ASSUME req[s].at = "insert"
        PROVE  Key(req[s].target, req[s].version, "original") \in file' \/ Excepted(req[s].target)'
    <3> DEFINE k == Key(req[s].target, req[s].version, "original")
    <3>1. k \in file \/ Excepted(req[s].target)
      BY <1>1, <2>2 DEF TargetOK
    <3>2. k[1] = req[s].target /\ req[s].target \in Replaces(s)
      BY DEF Key, Replaces
    <3> HIDE DEF k
    <3>3. k \in file' \/ Excepted(req[s].target)'
      BY <3>1, <3>2
    <3> QED
      BY <3>3 DEF k
  <2>3. req[s].target # Nobody =>
           req[s].at \in {"store", "insert"}
           /\ \E d \in ToSet(contract)' : d.id = req[s].target /\ d.hash = Doc(s)
    BY <1>1 DEF TargetOK
  <2> QED
    BY <1>1, <2>1, <2>2, <2>3 DEF TargetOK
<1>4. ReplacedOK(s)'
  <2>1. ASSUME NEW u \in ToSet(req[s].replaced)
        PROVE  Committed(u.id)' /\ (Key(u.id, u.version, "original") \in file' \/ Excepted(u.id)')
    <3> DEFINE k == Key(u.id, u.version, "original")
    <3>1. Committed(u.id) /\ (k \in file \/ Excepted(u.id))
      BY <1>1 DEF ReplacedOK
    <3>2. k[1] = u.id /\ u.id \in Replaces(s)
      BY DEF Key, Replaces
    <3>3. Committed(u.id)'
      BY <3>1 DEF Committed
    <3> HIDE DEF k
    <3>4. k \in file' \/ Excepted(u.id)'
      BY <3>1, <3>2
    <3> QED
      BY <3>3, <3>4 DEF k
  <2> QED
    BY <2>1 DEF ReplacedOK
<1>5. QueueOK(s)'
  BY <1>1 DEF QueueOK
<1> QED
  BY <1>2, <1>3, <1>4, <1>5

(* A step of an upload, up to its commit: the new record is as it should be, *)
(* and what it newly replaces is there, live, and on record if it is being   *)
(* deleted.                                                                 *)
LEMMA UploadGoesOn ==
    ASSUME UploadsInv, NEW r \in Request, Uploading(r), NEW new \in UploadRequest,
           req' = [req EXCEPT ![r] = new], new.upload = req[r].upload,
           new.at \in {"check", "store", "insert"} => new.next <= Len(new.batch),
           CreatedOK(r)', TargetOK(r)', ReplacedOK(r)', QueueOK(r)',
           UNCHANGED <<contract, job, uploads, torn, driver>>,
           file \subseteq file', message \subseteq message', overlapped \subseteq overlapped',
           \A id \in Replaces(r)' :
              \/ id \in Replaces(r) \union {Nobody}
              \/ /\ \E c \in ToSet(contract) : c.id = id /\ Live(c)
                 /\ \A s \in Request : id \in Deletes(s) => id \in overlapped'
    PROVE  UploadsInv'
<1>1. UploadsShape /\ DOMAIN req = Request /\ new.at # "aborted"
  BY DEF UploadsInv, UploadsShape, UploadRequest
<1>2. req'[r] = new /\ \A s \in Request : s # r => req'[s] = req[s]
  BY <1>1
<1>3. UploadsShape'
  BY <1>1, <1>2 DEF UploadsShape
<1>4. Uploading(r)' /\ ~Deleting(r)' /\ ~Deleting(r)
  BY <1>1, <1>2, RequestTypes DEF Uploading, Deleting, UploadRequest
<1>5. \A s \in Request : /\ Uploading(s)' = Uploading(s) /\ Deleting(s)' = Deleting(s)
                         /\ Deletes(s)' = Deletes(s)
                         /\ s # r => Replaces(s)' = Replaces(s)
  <2>1. \A s \in Request : s # r => /\ Uploading(s)' = Uploading(s) /\ Deleting(s)' = Deleting(s)
                                    /\ Deletes(s)' = Deletes(s) /\ Replaces(s)' = Replaces(s)
    BY <1>2 DEF Uploading, Deleting, Deletes, Replaces
  <2>2. Uploading(r)' = Uploading(r) /\ Deleting(r)' = Deleting(r) /\ Deletes(r)' = Deletes(r)
    BY <1>4 DEF Deletes, Uploading, Deleting
  <2> QED
    BY <2>1, <2>2
<1>6. ContractsOK'
  BY DEF UploadsInv, ContractsOK
<1>7. \A id : Excepted(id) => Excepted(id)'
  BY DEF Excepted
<1>8. UploadsOK'
  <2>1. ASSUME NEW s \in Request, Uploading(s)' PROVE NumbersOK(s)'
    <3>1. \A q \in Request : Uploading(q) => NumbersOK(q)
      BY DEF UploadsInv, UploadsOK
    <3>2. \A q \in Request : Uploading(q) => req'[q].upload = req[q].upload
      BY <1>2
    <3>3. req'[s].at \in {"check", "store", "insert"} => req'[s].next <= Len(req'[s].batch)
      BY <1>2, <1>5, <2>1, <3>1 DEF NumbersOK
    <3> QED
      BY <1>5, <2>1, <3>1, <3>2, <3>3 DEF NumbersOK
  <2>2. ASSUME NEW s \in Request, Uploading(s)'
        PROVE  CreatedOK(s)' /\ TargetOK(s)' /\ ReplacedOK(s)' /\ QueueOK(s)'
    <3>1. CASE s # r
      <4>1. Uploading(s) /\ req'[s] = req[s]
        BY <1>2, <1>5, <2>2, <3>1
      <4>2. \A c \in ToSet(contract) : \E d \in ToSet(contract)' : d.id = c.id /\ d.hash = c.hash
        OBVIOUS
      <4> QED
        BY <1>7, <4>1, <4>2, OthersKeep
    <3> QED
      BY <3>1
  <2> QED
    BY <2>1, <2>2 DEF UploadsOK
<1>9. DeletesOK'
  <2>1. \A s \in Request : Deleting(s)' => req'[s] = req[s]
    BY <1>2, <1>4
  <2> QED
    BY <1>5, <2>1 DEF UploadsInv, DeletesOK, Committed, Active
<1>10. OverlapsSeen'
  <2>1. \A s \in Request : Nobody \notin Deletes(s)
    <3> SUFFICES ASSUME NEW s \in Request, Nobody \in Deletes(s) PROVE FALSE
      OBVIOUS
    <3>1. PICK c \in ToSet(contract) : c.id = Nobody
      BY DEF Deletes, UploadsInv, DeletesOK, Committed
    <3> QED
      BY <3>1, NobodyIsId DEF UploadsInv, ContractsOK
  <2>2. \A c \in ToSet(contract) : c.id # Nobody
    BY NobodyIsId DEF UploadsInv, ContractsOK
  <2>3. ASSUME NEW q \in Request, NEW s \in Request, NEW id \in Deletes(s) \cap Replaces(q)'
        PROVE  id \in overlapped'
    <3>1. CASE q = r
      BY <2>1, <2>3, <3>1 DEF UploadsInv, OverlapsSeen
    <3>2. CASE q # r
      BY <1>5, <2>3, <3>2 DEF UploadsInv, OverlapsSeen
    <3> QED
      BY <3>1, <3>2
  <2>4. ASSUME NEW q \in Request, NEW c \in ToSet(contract), c.deleted, c.id \in Replaces(q)'
        PROVE  c.id \in overlapped'
    <3>1. CASE q = r
      <4>1. CASE c.id \in Replaces(r)
        BY <2>4, <4>1 DEF UploadsInv, OverlapsSeen
      <4>2. CASE c.id \notin Replaces(r)
        <5>1. PICK d \in ToSet(contract) : d.id = c.id /\ Live(d)
          BY <2>2, <2>4, <3>1, <4>2
        <5>2. c = d
          BY <5>1 DEF UploadsInv, ContractsOK, IdsApart, ToSet
        <5> QED
          BY <2>4, <5>1, <5>2 DEF Live
      <4> QED
        BY <4>1, <4>2
    <3>2. CASE q # r
      BY <1>5, <2>4, <3>2 DEF UploadsInv, OverlapsSeen
    <3> QED
      BY <3>1, <3>2
  <2> QED
    BY <1>5, <2>3, <2>4 DEF OverlapsSeen
<1>11. FilesThere'
  <2>1. ASSUME NEW c \in ToSet(contract), NEW s \in Request,
               req[s].at = "deleted" /\ req[s].purge /\ req[s].id = c.id
        PROVE  req'[s] = req[s]
    <3>1. s # r
      BY <1>1, <2>1, RequestTypes DEF Deleting
    <3> QED
      BY <1>2, <3>1
  <2> QED
    BY <1>7, <2>1 DEF UploadsInv, FilesThere, Live
<1>12. BatchLostOnlyToOthers'
  BY <1>1, <1>2 DEF UploadsInv, BatchLostOnlyToOthers
<1>13. NoStrandedJob' /\ DeletedIsIdle'
  BY DEF UploadsInv, NoStrandedJob, DeletedIsIdle, Live, Active
<1> QED
  BY <1>3, <1>6, <1>8, <1>9, <1>10, <1>11, <1>12, <1>13 DEF UploadsInv

(* A request that ends without a commit.                                    *)
LEMMA RequestEnds ==
    ASSUME UploadsInv, NEW r \in Request, Uploading(r) \/ Deleting(r),
           NEW new \in {Idle} \union RestingRequest, req' = [req EXCEPT ![r] = new],
           new # Idle => new.clash \subseteq {c.hash : c \in ToSet(contract)},
           UNCHANGED <<contract, job, message, uploads, overlapped, driver>>,
           file \subseteq file', torn \subseteq torn',
           req[r].at = "deleted" /\ req[r].purge => req[r].id \in torn'
    PROVE  UploadsInv'
<1>1. UploadsShape /\ DOMAIN req = Request
  BY DEF UploadsInv, UploadsShape
<1>2. req'[r] = new /\ \A s \in Request : s # r => req'[s] = req[s]
  BY <1>1
<1>3. UploadsShape'
  BY <1>1, <1>2 DEF UploadsShape
<1>4. new.at \in {"idle", "done", "aborted"} /\ (new.at = "aborted" => new # Idle)
  BY DEF Idle, RestingRequest
<1>5. ~Uploading(r)' /\ ~Deleting(r)'
  BY <1>2, <1>4 DEF Uploading, Deleting
<1>6. \A s \in Request : s # r => /\ Uploading(s)' = Uploading(s) /\ Deleting(s)' = Deleting(s)
                                  /\ Deletes(s)' = Deletes(s) /\ Replaces(s)' = Replaces(s)
  BY <1>2 DEF Uploading, Deleting, Deletes, Replaces
<1>7. Replaces(r)' = {} /\ Deletes(r)' = {}
  BY <1>5 DEF Replaces, Deletes
<1>8. ContractsOK'
  BY DEF UploadsInv, ContractsOK
<1>9. \A id : Excepted(id) => Excepted(id)'
  BY DEF Excepted
<1>10. UploadsOK'
  <2>1. ASSUME NEW s \in Request, Uploading(s)'
        PROVE  NumbersOK(s)' /\ CreatedOK(s)' /\ TargetOK(s)' /\ ReplacedOK(s)' /\ QueueOK(s)'
    <3>1. s # r /\ Uploading(s) /\ req'[s] = req[s]
      BY <1>2, <1>5, <1>6, <2>1
    <3>2. \A c \in ToSet(contract) : \E d \in ToSet(contract)' : d.id = c.id /\ d.hash = c.hash
      OBVIOUS
    <3>3. CreatedOK(s)' /\ TargetOK(s)' /\ ReplacedOK(s)' /\ QueueOK(s)'
      BY <1>9, <3>1, <3>2, OthersKeep
    <3>4. NumbersOK(s)
      BY <3>1 DEF UploadsInv, UploadsOK
    <3>5. \A q \in Request : Uploading(q)' => Uploading(q) /\ req'[q] = req[q]
      BY <1>2, <1>5, <1>6
    <3>6. NumbersOK(s)'
      BY <3>1, <3>4, <3>5 DEF NumbersOK
    <3> QED
      BY <3>3, <3>6
  <2> QED
    BY <2>1 DEF UploadsOK
<1>11. DeletesOK'
  <2>1. \A s \in Request : Deleting(s)' => Deleting(s) /\ req'[s] = req[s]
    BY <1>2, <1>5, <1>6
  <2> QED
    BY <2>1 DEF UploadsInv, DeletesOK, Committed, Active
<1>12. OverlapsSeen'
  BY <1>6, <1>7 DEF UploadsInv, OverlapsSeen
<1>13. FilesThere'
  <2>1. ASSUME NEW c \in ToSet(contract), NEW s \in Request,
               req[s].at = "deleted" /\ req[s].purge /\ req[s].id = c.id
        PROVE  req'[s] = req[s] \/ Excepted(c.id)'
    BY <1>2, <2>1 DEF Excepted
  <2> QED
    BY <1>9, <2>1 DEF UploadsInv, FilesThere, Live
<1>14. BatchLostOnlyToOthers'
  BY <1>2, <1>4 DEF UploadsInv, BatchLostOnlyToOthers
<1>15. NoStrandedJob' /\ DeletedIsIdle'
  BY DEF UploadsInv, NoStrandedJob, DeletedIsIdle, Live, Active
<1> QED
  BY <1>3, <1>8, <1>10, <1>11, <1>12, <1>13, <1>14, <1>15 DEF UploadsInv

-----------------------------------------------------------------------------
(* The steps of an upload.                                                  *)

LEMMA UploadOf ==
    ASSUME UploadsInv, NEW r \in Request, Uploading(r)
    PROVE  /\ req[r] \in UploadRequest /\ NumbersOK(r) /\ CreatedOK(r) /\ TargetOK(r)
           /\ ReplacedOK(r) /\ QueueOK(r)
  BY RequestTypes DEF UploadsInv, UploadsOK

LEMMA DocIsDocument ==
    ASSUME UploadsInv, NEW r \in Request, req[r].at \in {"check", "store", "insert"}
    PROVE  Doc(r) \in Document
<1>1. Uploading(r)
  BY DEF Uploading
<1>2. req[r] \in UploadRequest /\ req[r].next <= Len(req[r].batch)
  BY <1>1, UploadOf DEF NumbersOK
<1>3. req[r].batch \in Batches /\ req[r].next \in Nat \ {0}
  BY <1>2 DEF UploadRequest
<1>4. req[r].next \in DOMAIN req[r].batch
  BY <1>2, <1>3, UploadsAssumption
<1>5. Doc(r) \in ToSet(req[r].batch)
  BY <1>4 DEF Doc, ToSet
<1> QED
  BY <1>3, <1>5 DEF Document

LEMMA StepChecks ==
    ASSUME UploadsInv, NEW r \in Request, CheckFile(r)
    PROVE  UploadsInv'
<1>1. req[r].at = "check" /\ Uploading(r) /\ DOMAIN req = Request
  BY DEF CheckFile, Uploading, UploadsInv, UploadsShape
<1>2. /\ req[r] \in UploadRequest /\ NumbersOK(r) /\ CreatedOK(r) /\ TargetOK(r)
      /\ ReplacedOK(r) /\ QueueOK(r)
  BY <1>1, UploadOf
<1>3. req[r].next <= Len(req[r].batch) /\ req[r].target = Nobody
  BY <1>1, <1>2 DEF NumbersOK, TargetOK
<1>4. UNCHANGED <<contract, file, job, message, uploads, torn, driver>>
  BY DEF CheckFile, bounds
<1>5. CASE IsDuplicate(r)
  <2> DEFINE new == NextFile(req[r])
  <2>1. req' = [req EXCEPT ![r] = new] /\ overlapped' = overlapped
    BY <1>5 DEF CheckFile
  <2>2. /\ new \in UploadRequest /\ new.at \in {"check", "enqueue"} /\ new.target = Nobody
        /\ new.at = "check" => new.next <= Len(new.batch)
        /\ new.next = req[r].next + 1 /\ new.upload = req[r].upload /\ new.seen = req[r].seen
        /\ new.created = req[r].created /\ new.replaced = req[r].replaced /\ new.queue = req[r].queue
    BY <1>1, <1>2, <1>3, NextFileFacts
  <2> HIDE DEF new
  <2>3. req'[r] = new
    BY <1>1, <2>1
  <2>4. req[r].next \in Nat
    BY <1>2 DEF UploadRequest
  <2>5. CreatedOK(r)'
    <3>1. \A c \in ToSet(req[r].created) : c.id[2] < req[r].next + 1
      <4> TAKE c \in ToSet(req[r].created)
      <4>1. c \in Contracts /\ c.id[2] < req[r].next
        BY <1>1, <1>2, CreatedTypes DEF CreatedOK, UploadsInv
      <4>2. c.id[2] \in Nat
        BY <4>1 DEF Contracts, ContractIds
      <4> QED
        BY <2>4, <4>1, <4>2
    <3> QED
      BY <1>2, <1>4, <2>2, <2>3, <3>1 DEF CreatedOK
  <2>6. TargetOK(r)'
    BY <2>2, <2>3 DEF TargetOK
  <2>7. ReplacedOK(r)'
    BY <1>2, <1>4, <2>1, <2>2, <2>3 DEF ReplacedOK, Committed, Excepted
  <2>8. QueueOK(r)'
    BY <1>2, <2>2, <2>3 DEF QueueOK
  <2>9. \A id \in Replaces(r)' : id \in Replaces(r) \union {Nobody}
    <3>1. Replaces(r)' \subseteq {Nobody} \union {u.id : u \in ToSet(req[r].replaced)}
      BY <2>2, <2>3 DEF Replaces
    <3> QED
      BY <1>1, <3>1 DEF Replaces
  <2> QED
    BY <1>1, <1>4, <2>1, <2>2, <2>5, <2>6, <2>7, <2>8, <2>9, UploadGoesOn
<1>6. CASE ~IsDuplicate(r)
  <2> DEFINE found == IF req[r].replace THEN {c.id : c \in Existing(Doc(r))} ELSE {}
             target == IF found = {} THEN Nobody ELSE CHOOSE id \in found : TRUE
             new == [req[r] EXCEPT !.at = "store", !.target = target]
  <2>1. /\ req' = [req EXCEPT ![r] = new]
        /\ overlapped' = overlapped \union (found \intersect UNION {Deletes(s) : s \in Request})
    BY <1>1, <1>6 DEF CheckFile
  <2>2. target \in found \/ target = Nobody
    OBVIOUS
  <2>3. \A id \in found : \E c \in ToSet(contract) : c.id = id /\ Live(c) /\ c.hash = Doc(r)
    BY DEF Existing
  <2>4. target \in ContractIds
    <3>1. \A id \in found : id \in ContractIds
      BY <2>3, ContractTypes DEF UploadsInv, Contracts
    <3> QED
      BY <2>2, <3>1, NobodyIsId
  <2>5. \A s \in Request : target \in found /\ target \in Deletes(s) => target \in overlapped'
    BY <2>1
  <2> HIDE DEF target
  <2>6. /\ new \in UploadRequest /\ new.at = "store" /\ new.target = target /\ new.next = req[r].next
        /\ new.batch = req[r].batch /\ new.upload = req[r].upload /\ new.seen = req[r].seen
        /\ new.created = req[r].created /\ new.replaced = req[r].replaced /\ new.queue = req[r].queue
    BY <1>2, <2>4 DEF UploadRequest
  <2> HIDE DEF new, found
  <2>7. req'[r] = new
    BY <1>1, <2>1
  <2>8. CreatedOK(r)'
    BY <1>2, <1>4, <2>6, <2>7 DEF CreatedOK
  <2>9. TargetOK(r)'
    <3>1. Doc(r)' = Doc(r)
      BY <2>6, <2>7 DEF Doc
    <3>2. Doc(r) \notin req[r].seen
      BY <1>6 DEF IsDuplicate
    <3> QED
      BY <1>4, <2>2, <2>3, <2>6, <2>7, <3>1, <3>2 DEF TargetOK
  <2>10. ReplacedOK(r)'
    BY <1>2, <1>4, <2>1, <2>6, <2>7 DEF ReplacedOK, Committed, Excepted
  <2>11. QueueOK(r)'
    BY <1>2, <2>6, <2>7 DEF QueueOK
  <2>12. Replaces(r)' \subseteq {target} \union Replaces(r)
    BY <1>1, <2>6, <2>7 DEF Replaces
  <2>13. \A id \in Replaces(r)' :
              \/ id \in Replaces(r) \union {Nobody}
              \/ /\ \E c \in ToSet(contract) : c.id = id /\ Live(c)
                 /\ \A s \in Request : id \in Deletes(s) => id \in overlapped'
    BY <2>2, <2>3, <2>5, <2>12
  <2>14. overlapped \subseteq overlapped'
    BY <2>1
  <2>15. new.at \in {"check", "store", "insert"} => new.next <= Len(new.batch)
    BY <1>3, <2>6
  <2> QED
    BY <1>1, <1>4, <2>1, <2>6, <2>8, <2>9, <2>10, <2>11, <2>13, <2>14, <2>15, UploadGoesOn
<1> QED
  BY <1>5, <1>6

(* A document is in.                                                        *)
LEMMA AcceptedFacts ==
    ASSUME NEW rec \in UploadRequest, rec.at \in {"store", "insert"},
           rec.next <= Len(rec.batch), NEW document \in Document, NEW id \in ContractIds,
           NEW new, new = Accepted(rec, document, id)
    PROVE  /\ new \in UploadRequest /\ new.at \in {"check", "enqueue"} /\ new.target = Nobody
           /\ new.at = "check" => new.next <= Len(new.batch)
           /\ new.next = rec.next + 1 /\ new.upload = rec.upload
           /\ new.seen = rec.seen \union {document}
           /\ new.created = rec.created /\ new.replaced = rec.replaced
           /\ new.queue = rec.queue \union {<<id, rec.upload>>}
<1> DEFINE mid == [rec EXCEPT !.seen = rec.seen \union {document},
                              !.queue = rec.queue \union {<<id, rec.upload>>}]
<1>1. new = NextFile(mid)
  BY DEF Accepted, UploadRequest
<1>2. <<id, rec.upload>> \in ContractIds \X Nat
  BY DEF UploadRequest
<1>3. /\ mid \in UploadRequest /\ mid.at = rec.at /\ mid.next = rec.next /\ mid.batch = rec.batch
      /\ mid.upload = rec.upload /\ mid.created = rec.created /\ mid.replaced = rec.replaced
      /\ mid.seen = rec.seen \union {document} /\ mid.queue = rec.queue \union {<<id, rec.upload>>}
  BY <1>2 DEF UploadRequest
<1> HIDE DEF mid
<1> QED
  BY <1>1, <1>3, NextFileFacts

LEMMA StepCreates ==
    ASSUME UploadsInv, NEW r \in Request, CreateContract(r)
    PROVE  UploadsInv'
<1> DEFINE id == <<req[r].upload, req[r].next>>
           document == Doc(r)
           row == NewContract(id, document)
<1>1. req[r].at = "store" /\ req[r].target = Nobody /\ Uploading(r) /\ DOMAIN req = Request
  BY DEF CreateContract, Uploading, UploadsInv, UploadsShape
<1>2. /\ req[r] \in UploadRequest /\ NumbersOK(r) /\ CreatedOK(r) /\ TargetOK(r)
      /\ ReplacedOK(r) /\ QueueOK(r)
  BY <1>1, UploadOf
<1>3. req[r].next <= Len(req[r].batch) /\ document \notin req[r].seen /\ document \in Document
  BY <1>1, <1>2, DocIsDocument DEF NumbersOK, TargetOK
<1>4. UNCHANGED <<contract, job, message, uploads, torn, driver, overlapped>>
      /\ file' = file \union FilesOf(id, document)
  BY DEF CreateContract, bounds
<1>5. req[r].upload \in Nat /\ req[r].next \in Nat \ {0} /\ id \in ContractIds
      /\ id[1] = req[r].upload /\ id[2] = req[r].next
  BY <1>2 DEF UploadRequest, ContractIds
<1>6. req[r].created \in Seq(Contracts)
  BY <1>2 DEF UploadRequest
<1>7. CASE \E c \in ToSet(contract) \union ToSet(req[r].created) : c.hash = document
  <2> DEFINE new == [at |-> "aborted", clash |-> {document}]
  <2>1. req' = [req EXCEPT ![r] = new]
    BY <1>7 DEF CreateContract
  <2>2. new \in RestingRequest
    BY <1>3 DEF RestingRequest
  <2>3. document \in {c.hash : c \in ToSet(contract)}
    BY <1>2, <1>3, <1>7 DEF CreatedOK
  <2> HIDE DEF id, document
  <2>4. new.clash \subseteq {c.hash : c \in ToSet(contract)}
    BY <2>3
  <2> HIDE DEF new
  <2>5. file \subseteq file' /\ torn \subseteq torn' /\ req[r].at # "deleted"
    BY <1>1, <1>4
  <2> QED
    BY <1>1, <1>4, <2>1, <2>2, <2>4, <2>5, RequestEnds
<1>8. CASE ~\E c \in ToSet(contract) \union ToSet(req[r].created) : c.hash = document
  <2> DEFINE mid == [req[r] EXCEPT !.created = Append(req[r].created, row)]
             new == Accepted(mid, document, id)
  <2>1. req' = [req EXCEPT ![r] = new]
    <3>1. req' = [req EXCEPT ![r] =
             IF \E c \in ToSet(contract) \union ToSet(req[r].created) : c.hash = document
             THEN [at |-> "aborted", clash |-> {document}] ELSE new]
      BY DEF CreateContract
    <3> HIDE DEF new, document
    <3> QED
      BY <1>8, <3>1
  <2>2. /\ row \in Contracts /\ row.id = id /\ row.hash = document /\ ~row.deleted
        /\ OwnPaths(row) /\ {row.storagePath, row.processingPath} \subseteq FilesOf(id, document)
    <3>1. ProcessedKind(document) \in Kind
      BY DEF ProcessedKind, Kind
    <3>2. Key(id, 1, ProcessedKind(document)) \in Path /\ Key(id, 1, ProcessedKind(document))[1] = id
          /\ Key(id, 1, ProcessedKind(document)) \in FilesOf(id, document)
      BY <1>5, <3>1 DEF Path, Key, FilesOf
    <3>3. row = [id |-> id, hash |-> document, deleted |-> FALSE, version |-> 1,
                 storagePath |-> Key(id, 1, ProcessedKind(document)),
                 processingPath |-> Key(id, 1, ProcessedKind(document))]
      BY DEF NewContract
    <3> HIDE DEF row, id, document
    <3> QED
      BY <1>3, <1>5, <3>2, <3>3 DEF Contracts, OwnPaths
  <2> HIDE DEF row, id, document
  <2>3. Append(req[r].created, row) \in Seq(Contracts)
        /\ ToSet(Append(req[r].created, row)) = ToSet(req[r].created) \union {row}
    BY <1>6, <2>2, ToSetAppend
  <2>4. /\ mid \in UploadRequest /\ mid.at = "store" /\ mid.next = req[r].next
        /\ mid.batch = req[r].batch /\ mid.upload = req[r].upload /\ mid.seen = req[r].seen
        /\ mid.created = Append(req[r].created, row) /\ mid.replaced = req[r].replaced
        /\ mid.queue = req[r].queue
    BY <1>1, <1>2, <2>3 DEF UploadRequest
  <2> HIDE DEF mid
  <2>5. /\ new \in UploadRequest /\ new.at \in {"check", "enqueue"} /\ new.target = Nobody
        /\ new.at = "check" => new.next <= Len(new.batch)
        /\ new.next = req[r].next + 1 /\ new.upload = req[r].upload
        /\ new.seen = req[r].seen \union {document}
        /\ new.created = Append(req[r].created, row) /\ new.replaced = req[r].replaced
        /\ new.queue = req[r].queue \union {<<id, req[r].upload>>}
    BY <1>3, <1>5, <2>4, AcceptedFacts
  <2> HIDE DEF new
  <2>6. req'[r] = new
    BY <1>1, <2>1
  <2>7. \A c \in ToSet(req[r].created) : c.id[2] < req[r].next /\ c.id[2] < req[r].next + 1
    <3> TAKE c \in ToSet(req[r].created)
    <3>1. c \in Contracts /\ c.id[2] < req[r].next
      BY <1>1, <1>2, CreatedTypes DEF CreatedOK, UploadsInv
    <3>2. c.id[2] \in Nat
      BY <3>1 DEF Contracts, ContractIds
    <3> QED
      BY <1>5, <3>1, <3>2
  <2>8. CreatedOK(r)'
    <3>1. IdsApart(Append(req[r].created, row))
      <4>1. \A k \in DOMAIN req[r].created : req[r].created[k].id # row.id
        <5> TAKE k \in DOMAIN req[r].created
        <5>1. req[r].created[k] \in ToSet(req[r].created)
          BY DEF ToSet
        <5>2. req[r].created[k].id[2] < req[r].next /\ req[r].next \in Nat
          BY <1>5, <2>7, <5>1
        <5> QED
          BY <1>5, <2>2, <5>2
      <4>2. IdsApart(req[r].created)
        BY <1>2 DEF CreatedOK
      <4>3. DOMAIN Append(req[r].created, row) = DOMAIN req[r].created \union {Len(req[r].created) + 1}
            /\ Append(req[r].created, row)[Len(req[r].created) + 1] = row
            /\ \A k \in DOMAIN req[r].created : Append(req[r].created, row)[k] = req[r].created[k]
        <5>1. DOMAIN req[r].created = 1 .. Len(req[r].created) /\ Len(req[r].created) \in Nat
              /\ DOMAIN Append(req[r].created, row) = 1 .. (Len(req[r].created) + 1)
          BY <1>6
        <5> QED
          BY <1>6, <2>2, <5>1
      <4> QED
        BY <4>1, <4>2, <4>3 DEF IdsApart
    <3>2. row.id[2] >= 1 /\ row.id[2] < req[r].next + 1 /\ row.id[1] = req[r].upload
      BY <1>5, <2>2
    <3>3. \A c \in ToSet(req[r].created) :
             /\ c.hash \in req[r].seen
             /\ c.id[1] = req[r].upload /\ c.id[2] >= 1
             /\ OwnPaths(c) /\ ~c.deleted /\ {c.storagePath, c.processingPath} \subseteq file
      BY <1>2 DEF CreatedOK
    <3>4. \A c \in ToSet(req[r].created) \union {row} :
             /\ c.hash \in req[r].seen \union {document}
             /\ c.id[1] = req[r].upload /\ c.id[2] >= 1 /\ c.id[2] < req[r].next + 1
             /\ OwnPaths(c) /\ ~c.deleted /\ {c.storagePath, c.processingPath} \subseteq file'
      BY <1>4, <2>2, <2>7, <3>2, <3>3
    <3> QED
      BY <2>3, <2>5, <2>6, <3>1, <3>4 DEF CreatedOK
  <2>9. TargetOK(r)'
    BY <2>5, <2>6 DEF TargetOK
  <2>10. ReplacedOK(r)'
    BY <1>2, <1>4, <2>5, <2>6 DEF ReplacedOK, Committed, Excepted
  <2>11. QueueOK(r)'
    <3>1. <<id, req[r].upload>>[1] = row.id
      BY <2>2
    <3> QED
      BY <1>2, <2>3, <2>5, <2>6, <3>1 DEF QueueOK
  <2>12. \A i \in Replaces(r)' : i \in Replaces(r) \union {Nobody}
    <3>1. Replaces(r)' \subseteq {Nobody} \union {u.id : u \in ToSet(req[r].replaced)}
      BY <2>5, <2>6 DEF Replaces
    <3> QED
      BY <1>1, <3>1 DEF Replaces
  <2>13. file \subseteq file' /\ message \subseteq message' /\ overlapped \subseteq overlapped'
    BY <1>4
  <2> QED
    BY <1>1, <1>4, <2>1, <2>5, <2>8, <2>9, <2>10, <2>11, <2>12, <2>13, UploadGoesOn
<1> QED
  BY <1>7, <1>8

LEMMA StepStores ==
    ASSUME UploadsInv, NEW r \in Request, StoreVersion(r)
    PROVE  UploadsInv'
<1> DEFINE mine == {c.version : c \in {d \in ToSet(contract) : d.id = req[r].target}}
           version == 1 + Max(mine)
           new == [req[r] EXCEPT !.at = "insert", !.version = version]
<1>1. req[r].at = "store" /\ req[r].target # Nobody /\ Uploading(r) /\ DOMAIN req = Request
  BY DEF StoreVersion, Uploading, UploadsInv, UploadsShape
<1>2. /\ req[r] \in UploadRequest /\ NumbersOK(r) /\ CreatedOK(r) /\ TargetOK(r)
      /\ ReplacedOK(r) /\ QueueOK(r)
  BY <1>1, UploadOf
<1>3. UNCHANGED <<contract, job, message, uploads, torn, driver, overlapped>>
      /\ file' = file \union {Key(req[r].target, version, "original")}
      /\ req' = [req EXCEPT ![r] = new]
  BY <1>1 DEF StoreVersion, bounds
<1>4. version \in Nat
  <2>1. \A v \in mine : v \in Nat
    BY ContractTypes DEF UploadsInv, Contracts
  <2>2. mine # {}
    BY <1>1, <1>2 DEF TargetOK
  <2>3. IsFiniteSet(mine)
    <3> DEFINE rows == {d \in ToSet(contract) : d.id = req[r].target}
               f == [c \in rows |-> c.version]
    <3>1. IsFiniteSet(rows)
      <4>1. IsFiniteSet(ToSet(contract))
        BY ToSetFinite DEF UploadsInv, UploadsShape
      <4> QED
        BY <4>1, FS_Subset
    <3>2. f \in [rows -> mine] /\ \A v \in mine : \E c \in rows : f[c] = v
      OBVIOUS
    <3> HIDE DEF f, rows, mine
    <3> QED
      BY <3>1, <3>2, OntoFinite
  <2> HIDE DEF mine
  <2>4. Max(mine) \in mine
    BY <2>1, <2>2, <2>3, MaxFacts
  <2> QED
    BY <2>1, <2>4
<1> HIDE DEF version
<1>5. /\ new \in UploadRequest /\ new.at = "insert" /\ new.target = req[r].target /\ new.next = req[r].next
      /\ new.batch = req[r].batch /\ new.upload = req[r].upload /\ new.seen = req[r].seen
      /\ new.created = req[r].created /\ new.replaced = req[r].replaced /\ new.queue = req[r].queue
      /\ new.version = version
  BY <1>2, <1>4 DEF UploadRequest
<1> HIDE DEF new
<1>6. req'[r] = new
  BY <1>1, <1>3
<1>7. CreatedOK(r)'
  BY <1>2, <1>3, <1>5, <1>6 DEF CreatedOK
<1>8. TargetOK(r)'
  <2>1. Doc(r)' = Doc(r)
    BY <1>5, <1>6 DEF Doc
  <2> QED
    BY <1>1, <1>2, <1>3, <1>5, <1>6, <2>1 DEF TargetOK
<1>9. ReplacedOK(r)'
  BY <1>2, <1>3, <1>5, <1>6 DEF ReplacedOK, Committed, Excepted
<1>10. QueueOK(r)'
  BY <1>2, <1>5, <1>6 DEF QueueOK
<1>11. \A i \in Replaces(r)' : i \in Replaces(r) \union {Nobody}
  BY <1>1, <1>5, <1>6 DEF Replaces
<1>12. file \subseteq file' /\ message \subseteq message' /\ overlapped \subseteq overlapped'
       /\ (new.at \in {"check", "store", "insert"} => new.next <= Len(new.batch))
  BY <1>1, <1>2, <1>3, <1>5 DEF NumbersOK
<1> QED
  BY <1>1, <1>3, <1>5, <1>7, <1>8, <1>9, <1>10, <1>11, <1>12, UploadGoesOn

LEMMA StepInserts ==
    ASSUME UploadsInv, NEW r \in Request, InsertVersion(r)
    PROVE  UploadsInv'
<1> DEFINE target == req[r].target
           version == req[r].version
           document == Doc(r)
           u == [id |-> target, version |-> version]
<1>1. req[r].at = "insert" /\ Uploading(r) /\ DOMAIN req = Request
  BY DEF InsertVersion, Uploading, UploadsInv, UploadsShape
<1>2. /\ req[r] \in UploadRequest /\ NumbersOK(r) /\ CreatedOK(r) /\ TargetOK(r)
      /\ ReplacedOK(r) /\ QueueOK(r)
  BY <1>1, UploadOf
<1>3. req[r].next <= Len(req[r].batch) /\ document \notin req[r].seen /\ document \in Document
  BY <1>1, <1>2, DocIsDocument DEF NumbersOK, TargetOK
<1>4. UNCHANGED <<contract, file, job, message, uploads, torn, driver, overlapped>>
  BY DEF InsertVersion, bounds
<1>5. PICK row \in ToSet(contract) : row.id = target /\ row.hash = document
  BY <1>1, <1>2 DEF TargetOK
<1>6. target \in ContractIds /\ version \in Nat /\ req[r].replaced \in Seq(Replacement)
  BY <1>2 DEF UploadRequest
<1> DEFINE clashes == \E c \in ToSet(contract) : c.id = target /\ c.version >= version
           mid == [req[r] EXCEPT !.replaced = Append(req[r].replaced, u)]
           new == IF clashes THEN [at |-> "aborted", clash |-> {document}] ELSE Accepted(mid, document, target)
<1>7. req' = [req EXCEPT ![r] = new]
  BY DEF InsertVersion
<1>8. CASE clashes
  <2>1. new = [at |-> "aborted", clash |-> {document}]
    BY <1>8
  <2> HIDE DEF new, document, target, version
  <2>2. new \in RestingRequest /\ new.clash = {document}
    BY <1>3, <2>1 DEF RestingRequest
  <2>3. document \in {c.hash : c \in ToSet(contract)}
    BY <1>5
  <2>4. file \subseteq file' /\ torn \subseteq torn' /\ req[r].at # "deleted"
    BY <1>1, <1>4
  <2>5. new.clash \subseteq {c.hash : c \in ToSet(contract)}
    BY <2>2, <2>3
  <2> QED
    BY <1>1, <1>4, <1>7, <2>2, <2>4, <2>5, RequestEnds
<1>9. CASE ~clashes
  <2>1. new = Accepted(mid, document, target)
    BY <1>9
  <2> HIDE DEF new, clashes
  <2>2. u \in Replacement
    BY <1>6 DEF Replacement
  <2>3. Append(req[r].replaced, u) \in Seq(Replacement)
        /\ ToSet(Append(req[r].replaced, u)) = ToSet(req[r].replaced) \union {u}
    <3> HIDE DEF u
    <3> QED
      BY <1>6, <2>2, ToSetAppend
  <2>4. u.id = target /\ u.version = version
    OBVIOUS
  <2> HIDE DEF u
  <2>5. /\ mid \in UploadRequest /\ mid.at = "insert" /\ mid.next = req[r].next
        /\ mid.batch = req[r].batch /\ mid.upload = req[r].upload /\ mid.seen = req[r].seen
        /\ mid.created = req[r].created /\ mid.replaced = Append(req[r].replaced, u)
        /\ mid.queue = req[r].queue
    BY <1>1, <1>2, <2>3 DEF UploadRequest
  <2> HIDE DEF mid, document
  <2>6. PICK id : id = target
    OBVIOUS
  <2>7. /\ new \in UploadRequest /\ new.at \in {"check", "enqueue"} /\ new.target = Nobody
        /\ new.at = "check" => new.next <= Len(new.batch)
        /\ new.next = req[r].next + 1 /\ new.upload = req[r].upload
        /\ new.seen = req[r].seen \union {document}
        /\ new.created = req[r].created /\ new.replaced = Append(req[r].replaced, u)
        /\ new.queue = req[r].queue \union {<<id, req[r].upload>>}
    <3> HIDE DEF target
    <3>1. mid.at \in {"store", "insert"} /\ mid.next <= Len(mid.batch) /\ id \in ContractIds
          /\ new = Accepted(mid, document, id)
      BY <1>3, <1>6, <2>1, <2>5, <2>6
    <3> QED
      BY <1>3, <2>5, <3>1, AcceptedFacts
  <2>8. req'[r] = new
    BY <1>1, <1>7
  <2>9. CreatedOK(r)'
    <3>1. \A c \in ToSet(req[r].created) : c.id[2] < req[r].next + 1
      <4> TAKE c \in ToSet(req[r].created)
      <4>1. c \in Contracts /\ c.id[2] < req[r].next
        BY <1>1, <1>2, CreatedTypes DEF CreatedOK, UploadsInv
      <4>2. c.id[2] \in Nat /\ req[r].next \in Nat
        BY <1>2, <4>1 DEF Contracts, ContractIds, UploadRequest
      <4> QED
        BY <4>1, <4>2
    <3> QED
      BY <1>2, <1>4, <2>7, <2>8, <3>1 DEF CreatedOK
  <2>10. TargetOK(r)'
    BY <2>7, <2>8 DEF TargetOK
  <2>11. ReplacedOK(r)'
    <3>1. Committed(id)'
      BY <1>4, <1>5, <2>6 DEF Committed
    <3>2. Key(id, version, "original") \in file \/ Excepted(id)
      BY <1>1, <1>2, <2>6 DEF TargetOK
    <3>3. PICK v : v = version
      OBVIOUS
    <3>4. Key(id, v, "original") \in file' \/ Excepted(id)'
      BY <1>4, <3>2, <3>3 DEF Excepted
    <3>5. \A w \in ToSet(req[r].replaced) :
            Committed(w.id)' /\ (Key(w.id, w.version, "original") \in file' \/ Excepted(w.id)')
      BY <1>2, <1>4 DEF ReplacedOK, Committed, Excepted
    <3>6. ToSet(req'[r].replaced) = ToSet(req[r].replaced) \union {u} /\ u.id = id /\ u.version = v
      BY <2>3, <2>4, <2>6, <2>7, <2>8, <3>3
    <3> HIDE DEF target, version
    <3> QED
      BY <3>1, <3>4, <3>5, <3>6 DEF ReplacedOK
  <2>12. QueueOK(r)'
    <3>1. <<id, req[r].upload>>[1] = u.id
      BY <2>4, <2>6
    <3> QED
      BY <1>2, <2>3, <2>7, <2>8, <3>1 DEF QueueOK
  <2>13. \A i \in Replaces(r)' : i \in Replaces(r) \union {Nobody}
    <3>1. Replaces(r)' \subseteq {Nobody} \union {w.id : w \in ToSet(req[r].replaced) \union {u}}
      BY <2>3, <2>7, <2>8 DEF Replaces
    <3> QED
      BY <1>1, <2>4, <3>1 DEF Replaces
  <2>14. file \subseteq file' /\ message \subseteq message' /\ overlapped \subseteq overlapped'
    BY <1>4
  <2> HIDE DEF target, version
  <2> QED
    BY <1>1, <1>4, <1>7, <2>7, <2>9, <2>10, <2>11, <2>12, <2>13, <2>14, UploadGoesOn
<1> QED
  BY <1>8, <1>9

LEMMA StepEnqueues ==
    ASSUME UploadsInv, NEW r \in Request, Enqueue(r) \/ EnqueueFails(r)
    PROVE  UploadsInv'
<1>1. req[r].at = "enqueue" /\ Uploading(r) /\ DOMAIN req = Request
  BY DEF Enqueue, EnqueueFails, Uploading, UploadsInv, UploadsShape
<1>2. /\ req[r] \in UploadRequest /\ NumbersOK(r) /\ CreatedOK(r) /\ TargetOK(r)
      /\ ReplacedOK(r) /\ QueueOK(r)
  BY <1>1, UploadOf
<1>3. UNCHANGED <<contract, file, job, uploads, torn, driver, overlapped>> /\ message \subseteq message'
  BY DEF Enqueue, EnqueueFails, bounds
<1>4. PICK state \in {"queued", "failed"} :
         req' = [req EXCEPT ![r] = [req[r] EXCEPT !.at = "commit", !.state = state]]
  <2>1. CASE Enqueue(r)
    <3>1. req' = [req EXCEPT ![r] = [req[r] EXCEPT !.at = "commit"]]
      BY <1>1, <2>1 DEF Enqueue
    <3>2. [req[r] EXCEPT !.at = "commit"] = [req[r] EXCEPT !.at = "commit", !.state = req[r].state]
          /\ req[r].state \in {"queued", "failed"}
      BY <1>2 DEF UploadRequest
    <3> QED
      BY <3>1, <3>2
  <2>2. CASE EnqueueFails(r)
    BY <1>1, <2>2 DEF EnqueueFails
  <2> QED
    BY <2>1, <2>2
<1> DEFINE new == [req[r] EXCEPT !.at = "commit", !.state = state]
<1>5. /\ new \in UploadRequest /\ new.at = "commit" /\ new.target = req[r].target /\ new.next = req[r].next
      /\ new.batch = req[r].batch /\ new.upload = req[r].upload /\ new.seen = req[r].seen
      /\ new.created = req[r].created /\ new.replaced = req[r].replaced /\ new.queue = req[r].queue
  BY <1>2 DEF UploadRequest
<1>6. req' = [req EXCEPT ![r] = new]
  BY <1>4
<1> HIDE DEF new
<1>7. req'[r] = new
  BY <1>1, <1>6
<1>8. CreatedOK(r)'
  BY <1>2, <1>3, <1>5, <1>7 DEF CreatedOK
<1>9. TargetOK(r)'
  BY <1>1, <1>2, <1>5, <1>7 DEF TargetOK
<1>10. ReplacedOK(r)'
  BY <1>2, <1>3, <1>5, <1>7 DEF ReplacedOK, Committed, Excepted
<1>11. QueueOK(r)'
  BY <1>2, <1>5, <1>7 DEF QueueOK
<1>12. \A i \in Replaces(r)' : i \in Replaces(r) \union {Nobody}
  BY <1>1, <1>5, <1>7 DEF Replaces
<1>13. file \subseteq file' /\ overlapped \subseteq overlapped'
  BY <1>3
<1> QED
  BY <1>1, <1>3, <1>5, <1>6, <1>8, <1>9, <1>10, <1>11, <1>12, <1>13, UploadGoesOn

LEMMA StepDeadlocks ==
    ASSUME UploadsInv, NEW r \in Request, DeadlockVictim(r)
    PROVE  UploadsInv'
<1> DEFINE new == [at |-> "aborted", clash |-> {}]
<1>1. req[r].at \in {"store", "insert", "delete"}
  BY DEF DeadlockVictim, WaitsFor
<1>2. (Uploading(r) \/ Deleting(r)) /\ req[r].at # "deleted"
  BY <1>1 DEF Uploading, Deleting
<1>3. new \in RestingRequest /\ new.clash = {}
  BY DEF RestingRequest
<1>4. req' = [req EXCEPT ![r] = new]
      /\ UNCHANGED <<contract, job, message, uploads, overlapped, driver, file, torn>>
  BY DEF DeadlockVictim, bounds
<1> HIDE DEF new
<1> QED
  BY <1>2, <1>3, <1>4, RequestEnds

LEMMA RequestDies ==
    ASSUME UploadsInv, NEW r \in Request, Die(r)
    PROVE  UploadsInv'
<1>1. (Uploading(r) \/ Deleting(r)) /\ req' = [req EXCEPT ![r] = Idle]
      /\ UNCHANGED <<contract, job, message, uploads, overlapped, driver, file>>
      /\ torn \subseteq torn' /\ (req[r].at = "deleted" /\ req[r].purge => req[r].id \in torn')
  BY DEF Die
<1> QED
  BY <1>1, RequestEnds

(* The steps after which no upload is different but for a request that was  *)
(* at rest.                                                                 *)
LEMMA RequestBegins ==
    ASSUME UploadsInv, NEW r \in Request, NEW docs \in Batches, NEW replace \in BOOLEAN,
           BeginUpload(r, docs, replace)
    PROVE  UploadsInv'
<1> DEFINE new == [at |-> "check", upload |-> uploads + 1, batch |-> docs,
                   replace |-> replace, next |-> 1, seen |-> {}, target |-> Nobody,
                   version |-> 0, created |-> <<>>, replaced |-> <<>>,
                   queue |-> {}, state |-> "queued", clash |-> {}]
<1>1. UploadsShape /\ DOMAIN req = Request /\ uploads \in Nat /\ ~Uploading(r) /\ ~Deleting(r)
  BY DEF UploadsInv, UploadsShape, BeginUpload, Uploading, Deleting
<1>2. req' = [req EXCEPT ![r] = new] /\ uploads' = uploads + 1
      /\ UNCHANGED <<contract, file, job, message, driver, torn, overlapped>>
  BY DEF BeginUpload
<1>3. new \in UploadRequest
  BY <1>1, NobodyIsId DEF UploadRequest
<1>4. /\ new.at = "check" /\ new.upload = uploads + 1 /\ new.batch = docs /\ new.next = 1
      /\ new.target = Nobody /\ new.created = <<>> /\ new.replaced = <<>> /\ new.queue = {}
  OBVIOUS
<1> HIDE DEF new
<1>5. req'[r] = new /\ \A s \in Request : s # r => req'[s] = req[s]
  BY <1>1, <1>2
<1>6. UploadsShape'
  BY <1>1, <1>2, <1>3, <1>5 DEF UploadsShape
<1>7. Uploading(r)' /\ ~Deleting(r)'
  BY <1>4, <1>5 DEF Uploading, Deleting
<1>8. ToSet(<<>>) = {}
  BY DEF ToSet
<1>9. \A s \in Request : s # r => /\ Uploading(s)' = Uploading(s) /\ Deleting(s)' = Deleting(s)
                                  /\ Deletes(s)' = Deletes(s) /\ Replaces(s)' = Replaces(s)
  BY <1>5 DEF Uploading, Deleting, Deletes, Replaces
<1>10. Deletes(r)' = {} /\ Replaces(r)' = {Nobody}
  BY <1>4, <1>5, <1>7, <1>8 DEF Deletes, Replaces
<1>11. \A c \in ToSet(contract) : c.id[1] \in Nat /\ c.id[1] <= uploads
  BY <1>1, ContractTypes DEF Contracts, ContractIds, UploadsInv, ContractsOK
<1>12. ContractsOK'
  BY <1>1, <1>2, <1>11 DEF UploadsInv, ContractsOK
<1>13. UploadsOK'
  <2>1. ASSUME NEW s \in Request, Uploading(s)', s # r
        PROVE  NumbersOK(s)' /\ CreatedOK(s)' /\ TargetOK(s)' /\ ReplacedOK(s)' /\ QueueOK(s)'
    <3>1. Uploading(s) /\ req'[s] = req[s]
      BY <1>5, <1>9, <2>1
    <3>2. \A c \in ToSet(contract) : \E d \in ToSet(contract)' : d.id = c.id /\ d.hash = c.hash
      BY <1>2
    <3>3. CreatedOK(s)' /\ TargetOK(s)' /\ ReplacedOK(s)' /\ QueueOK(s)'
      BY <1>2, <3>1, <3>2, OthersKeep DEF Excepted
    <3>4. NumbersOK(s)
      BY <3>1 DEF UploadsInv, UploadsOK
    <3>5. req[s].upload \in Nat /\ req[s].upload <= uploads
      BY <1>1, <3>1, <3>4, RequestTypes DEF UploadRequest, NumbersOK
    <3>6. \A q \in Request \ {s} : Uploading(q)' => req'[q].upload # req'[s].upload
      <4> TAKE q \in Request \ {s}
      <4>1. CASE q = r
        BY <1>1, <1>4, <1>5, <3>1, <3>5, <4>1
      <4>2. CASE q # r
        BY <1>5, <1>9, <3>1, <3>4, <4>2 DEF NumbersOK
      <4> QED
        BY <4>1, <4>2
    <3>7. NumbersOK(s)'
      BY <1>1, <1>2, <3>1, <3>4, <3>5, <3>6 DEF NumbersOK
    <3> QED
      BY <3>3, <3>7
  <2>2. NumbersOK(r)'
    <3>1. new.next <= Len(new.batch)
      BY <1>4, UploadsAssumption
    <3>2. \A q \in Request \ {r} : Uploading(q) => req[q].upload # uploads + 1
      <4> SUFFICES ASSUME NEW q \in Request \ {r}, Uploading(q) PROVE req[q].upload # uploads + 1
        OBVIOUS
      <4>1. req[q].upload \in Nat /\ req[q].upload <= uploads
        BY <1>1, UploadOf DEF UploadRequest, NumbersOK
      <4> QED
        BY <1>1, <4>1
    <3>3. \A q \in Request \ {r} : Uploading(q)' => req'[q].upload # new.upload
      BY <1>4, <1>5, <1>9, <3>2
    <3>4. \A c \in ToSet(contract)' : c.id[1] # new.upload
      BY <1>1, <1>2, <1>4, <1>11
    <3> QED
      BY <1>1, <1>2, <1>4, <1>5, <3>1, <3>3, <3>4 DEF NumbersOK
  <2>3. CreatedOK(r)' /\ TargetOK(r)' /\ ReplacedOK(r)' /\ QueueOK(r)'
    <3>1. IdsApart(<<>>)
      BY DEF IdsApart
    <3> QED
      BY <1>4, <1>5, <1>8, <3>1 DEF CreatedOK, TargetOK, ReplacedOK, QueueOK
  <2> QED
    BY <2>1, <2>2, <2>3 DEF UploadsOK
<1>14. DeletesOK'
  <2>1. \A s \in Request : Deleting(s)' => Deleting(s) /\ req'[s] = req[s]
    BY <1>5, <1>7, <1>9
  <2> QED
    BY <1>2, <2>1 DEF UploadsInv, DeletesOK, Committed, Active
<1>15. OverlapsSeen'
  <2>1. \A c \in ToSet(contract) : c.id # Nobody
    BY NobodyIsId DEF UploadsInv, ContractsOK
  <2>2. \A s \in Request : Nobody \notin Deletes(s)
    BY <2>1 DEF Deletes, UploadsInv, DeletesOK, Committed
  <2> QED
    BY <1>2, <1>9, <1>10, <2>1, <2>2 DEF UploadsInv, OverlapsSeen
<1>16. FilesThere'
  <2>1. ASSUME NEW c \in ToSet(contract), NEW s \in Request,
               req[s].at = "deleted" /\ req[s].purge /\ req[s].id = c.id
        PROVE  req'[s] = req[s]
    BY <1>1, <1>5, <2>1 DEF Deleting
  <2> QED
    BY <1>2, <2>1 DEF UploadsInv, FilesThere, Live, Excepted
<1>17. BatchLostOnlyToOthers'
  BY <1>2, <1>4, <1>5 DEF UploadsInv, BatchLostOnlyToOthers
<1>18. NoStrandedJob' /\ DeletedIsIdle'
  BY <1>2 DEF UploadsInv, NoStrandedJob, DeletedIsIdle, Live, Active
<1> QED
  BY <1>6, <1>12, <1>13, <1>14, <1>15, <1>16, <1>17, <1>18 DEF UploadsInv

LEMMA StepWorks ==
    ASSUME UploadsInv, NEW j \in message, Work(j)
    PROVE  UploadsInv'
<1>1. UNCHANGED <<contract, file, req, uploads, driver, torn, overlapped>> /\ message' = message \ {j}
  BY DEF Work, bounds
<1>2. /\ DOMAIN job' = DOMAIN job /\ job' \in [DOMAIN job' -> {"queued", "done", "failed"}]
      /\ \A k \in DOMAIN job : job'[k] = "queued" => job[k] = "queued" /\ k # j
  BY DEF Work, UploadsInv, UploadsShape
<1>3. \A id : Active(id)' => Active(id)
  BY <1>2 DEF Active
<1>4. UploadsShape'
  BY <1>1, <1>2 DEF UploadsInv, UploadsShape
<1>5. ContractsOK' /\ UploadsOK'
  BY <1>1 DEF UploadsInv, ContractsOK, UploadsOK, NumbersOK, CreatedOK, TargetOK, ReplacedOK,
              QueueOK, Uploading, Committed, Excepted, Doc
<1>6. DeletesOK'
  BY <1>1, <1>3 DEF UploadsInv, DeletesOK, Deleting, Committed
<1>7. OverlapsSeen' /\ FilesThere' /\ BatchLostOnlyToOthers'
  BY <1>1 DEF UploadsInv, OverlapsSeen, Deletes, Replaces, Uploading, Deleting, FilesThere,
              Live, Excepted, BatchLostOnlyToOthers
<1>8. NoStrandedJob'
  BY <1>1, <1>2 DEF UploadsInv, NoStrandedJob
<1>9. DeletedIsIdle'
  BY <1>1, <1>3 DEF UploadsInv, DeletedIsIdle, Live
<1> QED
  BY <1>4, <1>5, <1>6, <1>7, <1>8, <1>9 DEF UploadsInv

-----------------------------------------------------------------------------
(* The steps of a deletion.                                                *)

LEMMA StepDeletes ==
    ASSUME UploadsInv, NEW r \in Request, NEW c \in ToSet(contract), NEW purge \in BOOLEAN,
           BeginDelete(r, c, purge)
    PROVE  UploadsInv'
<1> DEFINE new == [at |-> "delete", id |-> c.id, purge |-> purge]
<1>1. UploadsShape /\ DOMAIN req = Request /\ ~Uploading(r) /\ ~Deleting(r)
  BY DEF UploadsInv, UploadsShape, BeginDelete, Uploading, Deleting
<1>2. /\ req' = [req EXCEPT ![r] = new] /\ Live(c) /\ ~Active(c.id)
      /\ overlapped' = overlapped \union ({c.id} \intersect UNION {Replaces(s) : s \in Request})
      /\ UNCHANGED <<contract, file, job, message, driver, uploads, torn>>
  BY DEF BeginDelete
<1>3. new \in DeleteRequest
  BY <1>1, ContractTypes DEF DeleteRequest, Contracts
<1>4. new.at = "delete" /\ new.id = c.id
  OBVIOUS
<1> HIDE DEF new
<1>5. req'[r] = new /\ \A s \in Request : s # r => req'[s] = req[s]
  BY <1>1, <1>2
<1>6. UploadsShape'
  BY <1>1, <1>2, <1>3, <1>5 DEF UploadsShape
<1>7. ~Uploading(r)' /\ Deleting(r)'
  BY <1>4, <1>5 DEF Uploading, Deleting
<1>8. \A s \in Request : s # r => /\ Uploading(s)' = Uploading(s) /\ Deleting(s)' = Deleting(s)
                                  /\ Deletes(s)' = Deletes(s) /\ Replaces(s)' = Replaces(s)
  BY <1>5 DEF Uploading, Deleting, Deletes, Replaces
<1>9. Deletes(r)' = {c.id} /\ Replaces(r)' = {} /\ Replaces(r) = {}
  BY <1>1, <1>4, <1>5, <1>7 DEF Deletes, Replaces
<1>10. ContractsOK'
  BY <1>2 DEF UploadsInv, ContractsOK
<1>11. \A id : Excepted(id) => Excepted(id)'
  BY <1>2 DEF Excepted
<1>12. UploadsOK'
  <2>1. ASSUME NEW s \in Request, Uploading(s)'
        PROVE  NumbersOK(s)' /\ CreatedOK(s)' /\ TargetOK(s)' /\ ReplacedOK(s)' /\ QueueOK(s)'
    <3>1. Uploading(s) /\ req'[s] = req[s]
      BY <1>5, <1>7, <1>8, <2>1
    <3>2. \A d \in ToSet(contract) : \E e \in ToSet(contract)' : e.id = d.id /\ e.hash = d.hash
      BY <1>2
    <3>3. CreatedOK(s)' /\ TargetOK(s)' /\ ReplacedOK(s)' /\ QueueOK(s)'
      BY <1>2, <1>11, <3>1, <3>2, OthersKeep
    <3>4. NumbersOK(s)
      BY <3>1 DEF UploadsInv, UploadsOK
    <3>5. \A q \in Request : Uploading(q)' => Uploading(q) /\ req'[q] = req[q]
      BY <1>5, <1>7, <1>8
    <3>6. NumbersOK(s)'
      BY <1>2, <3>1, <3>4, <3>5 DEF NumbersOK
    <3> QED
      BY <3>3, <3>6
  <2> QED
    BY <2>1 DEF UploadsOK
<1>13. DeletesOK'
  <2>1. \A id : Committed(id)' = Committed(id) /\ Active(id)' = Active(id)
    BY <1>2 DEF Committed, Active
  <2>2. Committed(c.id)
    BY DEF Committed
  <2>3. ASSUME NEW s \in Request, Deleting(s)'
        PROVE  Committed(req'[s].id) /\ (~Active(req'[s].id) \/ req'[s].id \in overlapped')
    <3>1. CASE s = r
      BY <1>2, <1>4, <1>5, <2>2, <3>1
    <3>2. CASE s # r
      <4>1. Deleting(s) /\ req'[s] = req[s] /\ overlapped \subseteq overlapped'
        BY <1>2, <1>5, <1>8, <2>3, <3>2
      <4> QED
        BY <4>1 DEF UploadsInv, DeletesOK
    <3> QED
      BY <3>1, <3>2
  <2>4. ASSUME NEW s \in Request, Deleting(s)'
        PROVE  Committed(req[s].id)' /\ (~Active(req[s].id)' \/ req'[s].id \in overlapped')
    <3>1. PICK id : id = req'[s].id
      OBVIOUS
    <3>2. Committed(id)' /\ (~Active(id)' \/ id \in overlapped')
      BY <2>1, <2>3, <2>4, <3>1
    <3> QED
      BY <3>1, <3>2 DEF Committed, Active
  <2> QED
    BY <2>4 DEF DeletesOK
<1>14. OverlapsSeen'
  <2>1. ASSUME NEW q \in Request, NEW s \in Request, NEW id \in Deletes(s)' \cap Replaces(q)'
        PROVE  id \in overlapped'
    <3>1. q # r /\ id \in Replaces(q)
      BY <1>8, <1>9, <2>1
    <3>2. CASE s = r
      BY <1>2, <1>9, <2>1, <3>1, <3>2
    <3>3. CASE s # r
      BY <1>2, <1>8, <2>1, <3>1, <3>3 DEF UploadsInv, OverlapsSeen
    <3> QED
      BY <3>2, <3>3
  <2>2. ASSUME NEW q \in Request, NEW d \in ToSet(contract), d.deleted, d.id \in Replaces(q)'
        PROVE  d.id \in overlapped'
    BY <1>2, <1>8, <1>9, <2>2 DEF UploadsInv, OverlapsSeen
  <2> QED
    BY <1>2, <2>1, <2>2 DEF OverlapsSeen
<1>15. FilesThere'
  <2>1. ASSUME NEW d \in ToSet(contract), NEW s \in Request,
               req[s].at = "deleted" /\ req[s].purge /\ req[s].id = d.id
        PROVE  req'[s] = req[s]
    BY <1>1, <1>5, <2>1 DEF Deleting
  <2> QED
    BY <1>2, <1>11, <2>1 DEF UploadsInv, FilesThere, Live
<1>16. BatchLostOnlyToOthers'
  BY <1>2, <1>4, <1>5 DEF UploadsInv, BatchLostOnlyToOthers
<1>17. NoStrandedJob' /\ DeletedIsIdle'
  BY <1>2 DEF UploadsInv, NoStrandedJob, DeletedIsIdle, Live, Active
<1> QED
  BY <1>6, <1>10, <1>12, <1>13, <1>14, <1>15, <1>16, <1>17 DEF UploadsInv

LEMMA StepPurges ==
    ASSUME UploadsInv, NEW r \in Request, PurgeFiles(r)
    PROVE  UploadsInv'
<1> DEFINE new == [req[r] EXCEPT !.at = "deleted"]
<1>1. UploadsShape /\ DOMAIN req = Request /\ Deleting(r) /\ ~Uploading(r) /\ req[r].at = "delete"
      /\ req[r] \in DeleteRequest
  BY RequestTypes DEF UploadsInv, UploadsShape, PurgeFiles, Deleting
<1>2. /\ req' = [req EXCEPT ![r] = new]
      /\ file' = IF req[r].purge THEN {k \in file : k[1] # req[r].id} ELSE file
      /\ UNCHANGED <<contract, job, message, driver, uploads, torn, overlapped>>
  BY <1>1 DEF PurgeFiles, bounds
<1>3. new \in DeleteRequest /\ new.at = "deleted" /\ new.id = req[r].id /\ new.purge = req[r].purge
  BY <1>1 DEF DeleteRequest
<1> HIDE DEF new
<1>4. req'[r] = new /\ \A s \in Request : s # r => req'[s] = req[s]
  BY <1>1, <1>2
<1>5. UploadsShape'
  BY <1>1, <1>2, <1>3, <1>4 DEF UploadsShape
<1>6. ~Uploading(r)' /\ Deleting(r)'
  BY <1>3, <1>4 DEF Uploading, Deleting
<1>7. \A s \in Request : s # r => /\ Uploading(s)' = Uploading(s) /\ Deleting(s)' = Deleting(s)
                                  /\ Deletes(s)' = Deletes(s) /\ Replaces(s)' = Replaces(s)
  BY <1>4 DEF Uploading, Deleting, Deletes, Replaces
<1>8. Deletes(r)' = Deletes(r) /\ Replaces(r)' = {} /\ Replaces(r) = {} /\ Deletes(r) = {req[r].id}
  BY <1>1, <1>3, <1>4, <1>6 DEF Deletes, Replaces
<1>9. ContractsOK'
  BY <1>2 DEF UploadsInv, ContractsOK
<1>10. \A id : Excepted(id)' = Excepted(id)
  BY <1>2 DEF Excepted
<1>11. Committed(req[r].id)
  BY <1>1 DEF UploadsInv, DeletesOK
<1>12. UploadsOK'
  <2>1. ASSUME NEW s \in Request, Uploading(s)'
        PROVE  NumbersOK(s)' /\ CreatedOK(s)' /\ TargetOK(s)' /\ ReplacedOK(s)' /\ QueueOK(s)'
    <3>1. Uploading(s) /\ req'[s] = req[s]
      BY <1>4, <1>6, <1>7, <2>1
    <3>2. \A d \in ToSet(contract) : \E e \in ToSet(contract)' : e.id = d.id /\ e.hash = d.hash
      BY <1>2
    <3>3. req[r].id \in Replaces(s) => Excepted(req[r].id)
      BY <1>8 DEF UploadsInv, OverlapsSeen, Excepted
    <3>4. \A k \in file : k \in file' \/ (Committed(k[1]) /\ (k[1] \in Replaces(s) => Excepted(k[1])'))
      <4>1. \A k \in file : k \in file' \/ k[1] = req[r].id
        BY <1>2
      <4> QED
        BY <1>10, <1>11, <3>3, <4>1
    <3>5. \A id : Excepted(id) => Excepted(id)'
      BY <1>10
    <3>6. CreatedOK(s)' /\ TargetOK(s)' /\ ReplacedOK(s)' /\ QueueOK(s)'
      BY <3>1, <3>2, <3>4, <3>5, OthersKeep
    <3>7. NumbersOK(s)
      BY <3>1 DEF UploadsInv, UploadsOK
    <3>8. \A q \in Request : Uploading(q)' => Uploading(q) /\ req'[q] = req[q]
      BY <1>4, <1>6, <1>7
    <3>9. NumbersOK(s)'
      BY <1>2, <3>1, <3>7, <3>8 DEF NumbersOK
    <3> QED
      BY <3>6, <3>9
  <2> QED
    BY <2>1 DEF UploadsOK
<1>13. DeletesOK'
  <2>1. \A s \in Request : Deleting(s)' => Deleting(s) /\ req'[s].id = req[s].id
    BY <1>1, <1>3, <1>4, <1>7
  <2> QED
    BY <1>2, <2>1 DEF UploadsInv, DeletesOK, Committed, Active
<1>14. OverlapsSeen'
  BY <1>2, <1>7, <1>8 DEF UploadsInv, OverlapsSeen
<1>15. FilesThere'
  <2>1. ASSUME NEW c \in ToSet(contract), Live(c), ~Excepted(c.id)
        PROVE  \/ {c.storagePath, c.processingPath} \subseteq file'
               \/ \E s \in Request : req'[s].at = "deleted" /\ req'[s].purge /\ req'[s].id = c.id
    <3>1. CASE req[r].purge /\ c.id = req[r].id
      BY <1>3, <1>4, <3>1
    <3>2. CASE ~(req[r].purge /\ c.id = req[r].id)
      <4>1. CASE {c.storagePath, c.processingPath} \subseteq file
        <5>1. c.storagePath[1] = c.id /\ c.processingPath[1] = c.id
          BY DEF UploadsInv, ContractsOK, OwnPaths
        <5> QED
          BY <1>2, <3>2, <4>1, <5>1
      <4>2. CASE \E s \in Request : req[s].at = "deleted" /\ req[s].purge /\ req[s].id = c.id
        BY <1>1, <1>4, <4>2
      <4> QED
        BY <2>1, <4>1, <4>2 DEF UploadsInv, FilesThere
    <3> QED
      BY <3>1, <3>2
  <2> QED
    BY <1>2, <1>10, <2>1 DEF FilesThere, Live
<1>16. BatchLostOnlyToOthers'
  BY <1>2, <1>3, <1>4 DEF UploadsInv, BatchLostOnlyToOthers
<1>17. NoStrandedJob' /\ DeletedIsIdle'
  BY <1>2 DEF UploadsInv, NoStrandedJob, DeletedIsIdle, Live, Active
<1> QED
  BY <1>5, <1>9, <1>12, <1>13, <1>14, <1>15, <1>16, <1>17 DEF UploadsInv

LEMMA StepCommitsDelete ==
    ASSUME UploadsInv, NEW r \in Request, CommitDelete(r)
    PROVE  UploadsInv'
<1> DEFINE n == ById(contract, req[r].id)
           new == [at |-> "done", clash |-> {}]
<1>1. UploadsShape /\ DOMAIN req = Request /\ Deleting(r) /\ ~Uploading(r) /\ contract \in Seq(Contracts)
  BY RequestTypes DEF UploadsInv, UploadsShape, CommitDelete, Deleting
<1>2. /\ req' = [req EXCEPT ![r] = new] /\ contract' = [contract EXCEPT ![n].deleted = TRUE]
      /\ UNCHANGED <<file, job, message, driver, uploads, torn, overlapped>>
  BY DEF CommitDelete, bounds
<1>3. n \in DOMAIN contract /\ contract[n].id = req[r].id
  <2>1. \E i \in DOMAIN contract : contract[i].id = req[r].id
    BY <1>1 DEF UploadsInv, DeletesOK, Committed, ToSet
  <2> QED
    BY <2>1 DEF ById
<1> HIDE DEF n
<1>4. new \in RestingRequest /\ new.at = "done" /\ new # Idle
  BY DEF RestingRequest, Idle
<1> HIDE DEF new
<1>5. req'[r] = new /\ \A s \in Request : s # r => req'[s] = req[s]
  BY <1>1, <1>2
<1>6. /\ contract' \in Seq(Contracts) /\ DOMAIN contract' = DOMAIN contract
      /\ \A i \in DOMAIN contract : i # n => contract'[i] = contract[i]
      /\ contract'[n] = [contract[n] EXCEPT !.deleted = TRUE] /\ contract[n] \in Contracts
  <2>1. contract[n] \in Contracts
    BY <1>1, <1>3
  <2>2. [contract[n] EXCEPT !.deleted = TRUE] \in Contracts
    BY <2>1 DEF Contracts
  <2> DEFINE row == [contract[n] EXCEPT !.deleted = TRUE]
  <2>3. contract' = [contract EXCEPT ![n] = row]
    BY <1>2
  <2> HIDE DEF row
  <2>4. /\ contract' \in Seq(Contracts) /\ DOMAIN contract' = DOMAIN contract /\ contract'[n] = row
        /\ \A i \in DOMAIN contract : i # n => contract'[i] = contract[i]
    <3>1. row \in Contracts
      BY <2>2 DEF row
    <3> QED
      BY <1>1, <1>3, <2>3, <3>1
  <2> QED
    BY <2>1, <2>4 DEF row
<1>7. /\ contract'[n].id = contract[n].id /\ contract'[n].hash = contract[n].hash
      /\ contract'[n].storagePath = contract[n].storagePath
      /\ contract'[n].processingPath = contract[n].processingPath /\ contract'[n].deleted
  BY <1>6 DEF Contracts
<1>8. \A i \in DOMAIN contract : /\ contract'[i].id = contract[i].id /\ contract'[i].hash = contract[i].hash
                                /\ contract'[i].storagePath = contract[i].storagePath
                                /\ contract'[i].processingPath = contract[i].processingPath
  BY <1>6, <1>7
<1>9. \A d \in ToSet(contract)' :
         \E c \in ToSet(contract) :
            /\ d.id = c.id /\ d.hash = c.hash /\ d.storagePath = c.storagePath
            /\ d.processingPath = c.processingPath
            /\ d = c \/ (d.deleted /\ c.id = req[r].id)
  <2> TAKE d \in ToSet(contract)'
  <2>1. PICK i \in DOMAIN contract : d = contract'[i]
    BY <1>6 DEF ToSet
  <2>2. contract[i] \in ToSet(contract)
    BY DEF ToSet
  <2> QED
    BY <1>3, <1>6, <1>7, <1>8, <2>1, <2>2
<1>10. \A c \in ToSet(contract) : \E d \in ToSet(contract)' : d.id = c.id /\ d.hash = c.hash
  <2> TAKE c \in ToSet(contract)
  <2>1. PICK i \in DOMAIN contract : c = contract[i]
    BY DEF ToSet
  <2>2. contract'[i] \in ToSet(contract)'
    BY <1>6 DEF ToSet
  <2> QED
    BY <1>8, <2>1, <2>2
<1>11. UploadsShape'
  BY <1>1, <1>2, <1>4, <1>5, <1>6 DEF UploadsShape
<1>12. ~Uploading(r)' /\ ~Deleting(r)'
  BY <1>4, <1>5 DEF Uploading, Deleting
<1>13. \A s \in Request : s # r => /\ Uploading(s)' = Uploading(s) /\ Deleting(s)' = Deleting(s)
                                   /\ Deletes(s)' = Deletes(s) /\ Replaces(s)' = Replaces(s)
  BY <1>5 DEF Uploading, Deleting, Deletes, Replaces
<1>14. Deletes(r)' = {} /\ Replaces(r)' = {} /\ Deletes(r) = {req[r].id}
  BY <1>1, <1>12 DEF Deletes, Replaces
<1>15. ContractsOK'
  <2>1. IdsApart(contract')
    BY <1>6, <1>8 DEF UploadsInv, ContractsOK, IdsApart
  <2>2. ASSUME NEW d \in ToSet(contract)'
        PROVE  d.id[1] <= uploads /\ d.id[2] >= 1 /\ OwnPaths(d)
    <3>1. PICK c \in ToSet(contract) : /\ d.id = c.id /\ d.storagePath = c.storagePath
                                       /\ d.processingPath = c.processingPath
      BY <1>9
    <3>2. c.id[1] <= uploads /\ c.id[2] >= 1 /\ OwnPaths(c)
      BY DEF UploadsInv, ContractsOK
    <3> QED
      BY <3>1, <3>2 DEF OwnPaths
  <2> QED
    BY <1>2, <2>1, <2>2 DEF ContractsOK
<1>16. \A id : Excepted(id)' = Excepted(id)
  BY <1>2 DEF Excepted
<1>17. UploadsOK'
  <2>1. ASSUME NEW s \in Request, Uploading(s)'
        PROVE  NumbersOK(s)' /\ CreatedOK(s)' /\ TargetOK(s)' /\ ReplacedOK(s)' /\ QueueOK(s)'
    <3>1. Uploading(s) /\ req'[s] = req[s]
      BY <1>5, <1>12, <1>13, <2>1
    <3>2. CreatedOK(s)' /\ TargetOK(s)' /\ ReplacedOK(s)' /\ QueueOK(s)'
      BY <1>2, <1>10, <1>16, <3>1, OthersKeep
    <3>3. NumbersOK(s)
      BY <3>1 DEF UploadsInv, UploadsOK
    <3>4. \A q \in Request : Uploading(q)' => Uploading(q) /\ req'[q] = req[q]
      BY <1>5, <1>12, <1>13
    <3>5. \A d \in ToSet(contract)' : d.id[1] # req[s].upload
      BY <1>9, <3>3 DEF NumbersOK
    <3>6. \A q \in Request \ {s} : Uploading(q)' => req'[q].upload # req[s].upload
      BY <3>3, <3>4 DEF NumbersOK
    <3>7. NumbersOK(s)'
      BY <1>2, <3>1, <3>3, <3>5, <3>6 DEF NumbersOK
    <3> QED
      BY <3>2, <3>7
  <2> QED
    BY <2>1 DEF UploadsOK
<1>18. DeletesOK'
  <2>1. ASSUME NEW s \in Request, Deleting(s)'
        PROVE  Committed(req[s].id)' /\ (~Active(req[s].id)' \/ req'[s].id \in overlapped')
    <3>1. Deleting(s) /\ req'[s] = req[s]
      BY <1>5, <1>12, <1>13, <2>1
    <3>2. Committed(req[s].id) /\ (~Active(req[s].id) \/ req[s].id \in overlapped)
      BY <3>1 DEF UploadsInv, DeletesOK
    <3>3. Committed(req[s].id)'
      BY <1>10, <3>1, <3>2 DEF Committed
    <3> QED
      BY <1>2, <3>1, <3>2, <3>3 DEF Active
  <2> QED
    BY <2>1 DEF DeletesOK
<1>19. OverlapsSeen'
  <2>1. ASSUME NEW q \in Request, NEW d \in ToSet(contract)', d.deleted, d.id \in Replaces(q)'
        PROVE  d.id \in overlapped'
    <3>1. q # r /\ d.id \in Replaces(q)
      BY <1>13, <1>14, <2>1
    <3>2. PICK c \in ToSet(contract) : d.id = c.id /\ (d = c \/ c.id = req[r].id)
      BY <1>9
    <3> QED
      BY <1>2, <1>14, <2>1, <3>1, <3>2 DEF UploadsInv, OverlapsSeen
  <2>2. \A q, s \in Request : Deletes(s)' \cap Replaces(q)' \subseteq overlapped'
    BY <1>2, <1>13, <1>14 DEF UploadsInv, OverlapsSeen
  <2> QED
    BY <2>1, <2>2 DEF OverlapsSeen
<1>20. FilesThere'
  <2>1. ASSUME NEW d \in ToSet(contract)', ~d.deleted, ~Excepted(d.id)
        PROVE  \/ {d.storagePath, d.processingPath} \subseteq file
               \/ \E s \in Request : req'[s].at = "deleted" /\ req'[s].purge /\ req'[s].id = d.id
    <3>1. d \in ToSet(contract)
      BY <1>9, <2>1
    <3>2. d.id # req[r].id
      <4>1. PICK i \in DOMAIN contract : d = contract'[i]
        BY <1>6 DEF ToSet
      <4>2. i # n
        BY <1>7, <2>1, <4>1
      <4> QED
        BY <1>3, <1>6, <4>1, <4>2 DEF UploadsInv, ContractsOK, IdsApart
    <3> QED
      BY <1>5, <2>1, <3>1, <3>2 DEF UploadsInv, FilesThere, Live
  <2> QED
    BY <1>2, <1>16, <2>1 DEF FilesThere, Live
<1>21. BatchLostOnlyToOthers'
  <2>1. {c.hash : c \in ToSet(contract)} \subseteq {d.hash : d \in ToSet(contract)'}
    BY <1>10
  <2> QED
    BY <1>4, <1>5, <2>1 DEF UploadsInv, BatchLostOnlyToOthers
<1>22. NoStrandedJob'
  BY <1>2 DEF UploadsInv, NoStrandedJob
<1>23. DeletedIsIdle'
  <2>1. ASSUME NEW d \in ToSet(contract)', d.deleted PROVE ~Active(d.id)' \/ d.id \in overlapped'
    <3>1. \A id : Active(id)' = Active(id)
      BY <1>2 DEF Active
    <3>2. PICK c \in ToSet(contract) : d.id = c.id /\ (d = c \/ c.id = req[r].id)
      BY <1>9
    <3>3. CASE d = c
      BY <1>2, <2>1, <3>1, <3>3 DEF UploadsInv, DeletedIsIdle, Live
    <3>4. CASE c.id = req[r].id
      BY <1>1, <1>2, <3>1, <3>2, <3>4 DEF UploadsInv, DeletesOK
    <3> QED
      BY <3>2, <3>3, <3>4
  <2> QED
    BY <2>1 DEF DeletedIsIdle, Live
<1> QED
  BY <1>11, <1>15, <1>17, <1>18, <1>19, <1>20, <1>21, <1>22, <1>23 DEF UploadsInv

(* A commit writes the new rows and the versions of the replaced ones.      *)
SameButStored(new, rows, changes) ==
    /\ DOMAIN new = DOMAIN rows
    /\ \A i \in DOMAIN rows :
         /\ new[i].id = rows[i].id /\ new[i].hash = rows[i].hash
         /\ new[i].deleted = rows[i].deleted
         /\ new[i].processingPath = rows[i].processingPath
         /\ \/ new[i].storagePath = rows[i].storagePath
            \/ \E u \in ToSet(changes) :
                 u.id = rows[i].id /\ new[i].storagePath = Key(u.id, u.version, "original")

LEMMA WithVersionsFacts ==
    ASSUME NEW rows \in Seq(Contracts), NEW changes \in Seq(Replacement),
           NEW new, new = WithVersions(rows, changes)
    PROVE  new \in Seq(Contracts) /\ SameButStored(new, rows, changes)
<1> DEFINE those(i) == {w \in ToSet(changes) : w.id = rows[i].id}
           mine(i) == {u.version : u \in those(i)}
           row(i) == [rows[i] EXCEPT !.version = Max(mine(i)),
                                     !.storagePath = Key(rows[i].id, Max(mine(i)), "original")]
<1>1. new = [i \in DOMAIN rows |-> IF mine(i) = {} THEN rows[i] ELSE row(i)]
  BY DEF WithVersions
<1>2. ASSUME NEW i \in DOMAIN rows, mine(i) # {}
      PROVE  \E u \in ToSet(changes) : u.id = rows[i].id /\ u.version = Max(mine(i))
  <2> DEFINE f == [u \in those(i) |-> u.version]
             those1 == those(i)
             mine1 == mine(i)
  <2>1. IsFiniteSet(ToSet(changes)) /\ ToSet(changes) \subseteq Replacement
    BY ToSetFinite
  <2>2. IsFiniteSet(those1)
    BY <2>1, FS_Subset
  <2>3. f \in [those1 -> mine1] /\ \A t \in mine1 : \E x \in those1 : f[x] = t
    OBVIOUS
  <2>4. \A x \in mine1 : x \in Int
    BY <2>1 DEF Replacement
  <2>5. mine1 # {}
    BY <1>2
  <2> HIDE DEF those1, mine1, f
  <2>6. IsFiniteSet(mine1)
    BY <2>2, <2>3, OntoFinite
  <2>7. Max(mine1) \in mine1
    BY <2>4, <2>5, <2>6, MaxFacts
  <2> QED
    BY <2>7 DEF mine1
<1> HIDE DEF mine
<1>3. ASSUME NEW i \in DOMAIN rows, mine(i) # {}
      PROVE  /\ row(i) \in Contracts /\ row(i).id = rows[i].id /\ row(i).hash = rows[i].hash
             /\ row(i).deleted = rows[i].deleted /\ row(i).processingPath = rows[i].processingPath
             /\ row(i).storagePath = Key(rows[i].id, Max(mine(i)), "original")
  <2>1. PICK u \in ToSet(changes) : u.id = rows[i].id /\ u.version = Max(mine(i))
    BY <1>2, <1>3
  <2>2. u \in Replacement
    BY <2>1, ToSetFinite
  <2>3. rows[i] \in Contracts /\ Max(mine(i)) \in Nat
    BY <2>1, <2>2 DEF Replacement
  <2>4. Key(rows[i].id, Max(mine(i)), "original") \in Path
    BY <2>3 DEF Key, Path, Contracts, Kind
  <2> QED
    BY <2>3, <2>4 DEF Contracts
<1> HIDE DEF row
<1>4. \A i \in DOMAIN rows : new[i] \in Contracts
  BY <1>1, <1>3
<1>5. new \in Seq(Contracts) /\ DOMAIN new = DOMAIN rows
  <2>1. DOMAIN rows = 1 .. Len(rows) /\ Len(rows) \in Nat
    OBVIOUS
  <2>2. new = [i \in 1 .. Len(rows) |-> new[i]]
    BY <1>1, <2>1
  <2> QED
    BY <1>4, <2>1, <2>2
<1>6. ASSUME NEW i \in DOMAIN rows
      PROVE  /\ new[i].id = rows[i].id /\ new[i].hash = rows[i].hash
             /\ new[i].deleted = rows[i].deleted
             /\ new[i].processingPath = rows[i].processingPath
             /\ \/ new[i].storagePath = rows[i].storagePath
                \/ \E u \in ToSet(changes) :
                     u.id = rows[i].id /\ new[i].storagePath = Key(u.id, u.version, "original")
  <2>1. CASE mine(i) = {}
    BY <1>1, <2>1
  <2>2. CASE mine(i) # {}
    <3>1. new[i] = row(i)
      BY <1>1, <2>2
    <3>2. PICK u \in ToSet(changes) : u.id = rows[i].id /\ u.version = Max(mine(i))
      BY <1>2, <2>2
    <3> QED
      BY <1>3, <2>2, <3>1, <3>2
  <2> QED
    BY <2>1, <2>2
<1> QED
  BY <1>5, <1>6 DEF SameButStored

LEMMA StepCommits ==
    ASSUME UploadsInv, NEW r \in Request, CommitUpload(r)
    PROVE  UploadsInv'
<1> DEFINE new == [at |-> "done", clash |-> {}]
           all == contract \o req[r].created
           up == req[r].upload
<1>1. /\ req[r].at = "commit" /\ Uploading(r) /\ ~Deleting(r) /\ DOMAIN req = Request
      /\ UploadsShape /\ contract \in Seq(Contracts)
  BY RequestTypes DEF CommitUpload, Uploading, UploadsInv, UploadsShape
<1>2. /\ req[r] \in UploadRequest /\ NumbersOK(r) /\ CreatedOK(r) /\ TargetOK(r)
      /\ ReplacedOK(r) /\ QueueOK(r)
  BY <1>1, UploadOf
<1>3. /\ req[r].created \in Seq(Contracts) /\ req[r].replaced \in Seq(Replacement) /\ up \in Nat
      /\ req[r].state \in {"queued", "failed"}
  BY <1>2 DEF UploadRequest
<1>4. /\ req' = [req EXCEPT ![r] = new] /\ contract' = WithVersions(all, req[r].replaced)
      /\ job' = [j \in DOMAIN job \union req[r].queue |->
                   IF j \in DOMAIN job THEN job[j] ELSE req[r].state]
      /\ message' = IF driver = "postgres" THEN message \union req[r].queue ELSE message
      /\ UNCHANGED <<file, driver, uploads, torn, overlapped>>
  BY DEF CommitUpload, bounds
<1>5. new \in RestingRequest /\ new.at = "done" /\ new # Idle
  BY DEF RestingRequest, Idle
<1> HIDE DEF new
<1>6. req'[r] = new /\ \A s \in Request : s # r => req'[s] = req[s]
  BY <1>1, <1>4
<1>7. all \in Seq(Contracts) /\ ToSet(all) = ToSet(contract) \union ToSet(req[r].created)
  BY <1>1, <1>3, ToSetConcat
<1>8. IdsApart(all)
  <2>1. /\ DOMAIN all = 1 .. (Len(contract) + Len(req[r].created))
        /\ DOMAIN contract = 1 .. Len(contract) /\ DOMAIN req[r].created = 1 .. Len(req[r].created)
        /\ Len(contract) \in Nat /\ Len(req[r].created) \in Nat
        /\ \A i \in 1 .. Len(contract) : all[i] = contract[i]
        /\ \A i \in 1 .. Len(req[r].created) : all[Len(contract) + i] = req[r].created[i]
    BY <1>1, <1>3
  <2>2. \A i \in 1 .. Len(contract) : all[i].id[1] # up
    BY <1>2, <2>1 DEF NumbersOK, ToSet
  <2>3. \A i \in 1 .. Len(req[r].created) : all[Len(contract) + i].id[1] = up
    BY <1>2, <2>1 DEF CreatedOK, ToSet
  <2> SUFFICES ASSUME NEW i \in DOMAIN all, NEW k \in DOMAIN all, all[i].id = all[k].id
               PROVE  i = k
    BY DEF IdsApart
  <2>4. CASE i <= Len(contract) /\ k <= Len(contract)
    BY <2>1, <2>4 DEF UploadsInv, ContractsOK, IdsApart
  <2>5. CASE i > Len(contract) /\ k > Len(contract)
    <3>1. PICK p \in 1 .. Len(req[r].created) : i = Len(contract) + p
      BY <2>1, <2>5, i - Len(contract) \in 1 .. Len(req[r].created)
    <3>2. PICK q \in 1 .. Len(req[r].created) : k = Len(contract) + q
      BY <2>1, <2>5, k - Len(contract) \in 1 .. Len(req[r].created)
    <3>3. req[r].created[p].id = req[r].created[q].id
      BY <2>1, <3>1, <3>2
    <3>4. p = q
      BY <1>2, <2>1, <3>3 DEF CreatedOK, IdsApart
    <3> QED
      BY <3>1, <3>2, <3>4
  <2>6. CASE i <= Len(contract) /\ k > Len(contract)
    <3>1. PICK q \in 1 .. Len(req[r].created) : k = Len(contract) + q
      BY <2>1, <2>6, k - Len(contract) \in 1 .. Len(req[r].created)
    <3>2. all[i].id[1] # up /\ all[k].id[1] = up
      BY <2>1, <2>2, <2>3, <2>6, <3>1
    <3> QED
      BY <3>2
  <2>7. CASE i > Len(contract) /\ k <= Len(contract)
    <3>1. PICK q \in 1 .. Len(req[r].created) : i = Len(contract) + q
      BY <2>1, <2>7, i - Len(contract) \in 1 .. Len(req[r].created)
    <3>2. all[i].id[1] = up /\ all[k].id[1] # up
      BY <2>1, <2>2, <2>3, <2>7, <3>1
    <3> QED
      BY <3>2
  <2> QED
    BY <2>1, <2>4, <2>5, <2>6, <2>7
<1> HIDE DEF all
<1>9. /\ contract' \in Seq(Contracts) /\ DOMAIN contract' = DOMAIN all
      /\ \A i \in DOMAIN all :
           /\ contract'[i].id = all[i].id /\ contract'[i].hash = all[i].hash
           /\ contract'[i].deleted = all[i].deleted
           /\ contract'[i].processingPath = all[i].processingPath
           /\ \/ contract'[i].storagePath = all[i].storagePath
              \/ \E u \in ToSet(req[r].replaced) :
                   u.id = all[i].id /\ contract'[i].storagePath = Key(u.id, u.version, "original")
  <2>1. PICK rows : rows = WithVersions(all, req[r].replaced)
    OBVIOUS
  <2>2. PICK changes \in Seq(Replacement) : changes = req[r].replaced
    BY <1>3
  <2>3. rows \in Seq(Contracts) /\ SameButStored(rows, all, changes)
    BY <1>7, <2>1, <2>2, WithVersionsFacts
  <2> QED
    BY <1>4, <2>1, <2>2, <2>3 DEF SameButStored
<1>10. \A d \in ToSet(contract)' :
          \E c \in ToSet(contract) \union ToSet(req[r].created) :
             /\ d.id = c.id /\ d.hash = c.hash /\ d.deleted = c.deleted
             /\ d.processingPath = c.processingPath
             /\ \/ d.storagePath = c.storagePath
                \/ \E u \in ToSet(req[r].replaced) :
                     u.id = c.id /\ d.storagePath = Key(u.id, u.version, "original")
  <2> TAKE d \in ToSet(contract)'
  <2>1. PICK i \in DOMAIN all : d = contract'[i]
    BY <1>9 DEF ToSet
  <2>2. all[i] \in ToSet(contract) \union ToSet(req[r].created)
    BY <1>7 DEF ToSet
  <2> QED
    BY <1>9, <2>1, <2>2
<1>11. \A c \in ToSet(contract) : \E d \in ToSet(contract)' : d.id = c.id /\ d.hash = c.hash
  <2> TAKE c \in ToSet(contract)
  <2>1. PICK i \in DOMAIN all : c = all[i]
    BY <1>7 DEF ToSet
  <2>2. contract'[i] \in ToSet(contract)'
    BY <1>9 DEF ToSet
  <2> QED
    BY <1>9, <2>1, <2>2
<1>12. UploadsShape'
  <2>1. job' \in [DOMAIN job' -> {"queued", "done", "failed"}]
    BY <1>1, <1>3, <1>4 DEF UploadsShape
  <2> QED
    BY <1>1, <1>4, <1>5, <1>6, <1>9, <2>1 DEF UploadsShape
<1>13. ~Uploading(r)' /\ ~Deleting(r)'
  BY <1>5, <1>6 DEF Uploading, Deleting
<1>14. \A s \in Request : s # r => /\ Uploading(s)' = Uploading(s) /\ Deleting(s)' = Deleting(s)
                                   /\ Deletes(s)' = Deletes(s) /\ Replaces(s)' = Replaces(s)
  BY <1>6 DEF Uploading, Deleting, Deletes, Replaces
<1>15. /\ Deletes(r)' = {} /\ Replaces(r)' = {}
       /\ \A u \in ToSet(req[r].replaced) : u.id \in Replaces(r)
  BY <1>1, <1>13 DEF Deletes, Replaces
<1>16. \A id : Excepted(id)' = Excepted(id)
  BY <1>4 DEF Excepted
<1>17. \A id : Active(id)' =>
          \/ Active(id)
          \/ \E c \in ToSet(req[r].created) : c.id = id
          \/ id \in Replaces(r)
  <2> SUFFICES ASSUME NEW id, NEW j \in DOMAIN job', j[1] = id, job'[j] = "queued"
               PROVE  \/ Active(id)
                      \/ \E c \in ToSet(req[r].created) : c.id = id
                      \/ id \in Replaces(r)
    BY DEF Active
  <2>1. CASE j \in DOMAIN job
    BY <1>4, <2>1 DEF Active
  <2>2. CASE j \in req[r].queue
    BY <1>2, <1>15, <2>2 DEF QueueOK
  <2> QED
    BY <1>4, <2>1, <2>2
<1>18. \A c \in ToSet(req[r].created) : ~Committed(c.id)
  BY <1>2 DEF CreatedOK, NumbersOK, Committed
<1>19. ContractsOK'
  <2>1. IdsApart(contract')
    BY <1>8, <1>9 DEF IdsApart
  <2>2. ASSUME NEW d \in ToSet(contract)'
        PROVE  d.id[1] <= uploads /\ d.id[2] >= 1 /\ OwnPaths(d)
    <3>1. PICK c \in ToSet(contract) \union ToSet(req[r].created) :
             /\ d.id = c.id /\ d.processingPath = c.processingPath
             /\ \/ d.storagePath = c.storagePath
                \/ \E u \in ToSet(req[r].replaced) :
                     u.id = c.id /\ d.storagePath = Key(u.id, u.version, "original")
      BY <1>10
    <3>2. c.id[1] <= uploads /\ c.id[2] >= 1 /\ OwnPaths(c)
      <4>1. CASE c \in ToSet(contract)
        BY <4>1 DEF UploadsInv, ContractsOK
      <4>2. CASE c \in ToSet(req[r].created)
        BY <1>2, <4>2 DEF CreatedOK, NumbersOK
      <4> QED
        BY <4>1, <4>2
    <3>3. d.storagePath[1] = d.id
      BY <3>1, <3>2 DEF OwnPaths, Key
    <3> QED
      BY <3>1, <3>2, <3>3 DEF OwnPaths
  <2> QED
    BY <1>4, <2>1, <2>2 DEF ContractsOK
<1>20. UploadsOK'
  <2>1. ASSUME NEW s \in Request, Uploading(s)'
        PROVE  NumbersOK(s)' /\ CreatedOK(s)' /\ TargetOK(s)' /\ ReplacedOK(s)' /\ QueueOK(s)'
    <3>1. Uploading(s) /\ req'[s] = req[s] /\ s # r
      BY <1>6, <1>13, <1>14, <2>1
    <3>2. CreatedOK(s)' /\ TargetOK(s)' /\ ReplacedOK(s)' /\ QueueOK(s)'
      BY <1>4, <1>11, <1>16, <3>1, OthersKeep
    <3>3. NumbersOK(s)
      BY <3>1 DEF UploadsInv, UploadsOK
    <3>4. \A q \in Request : Uploading(q)' => Uploading(q) /\ req'[q] = req[q]
      BY <1>6, <1>13, <1>14
    <3>5. \A d \in ToSet(contract)' : d.id[1] # req[s].upload
      <4>1. up # req[s].upload
        BY <1>1, <3>1, <3>3 DEF NumbersOK
      <4> HIDE DEF up
      <4>2. \A c \in ToSet(req[r].created) : c.id[1] # req[s].upload
        BY <1>2, <4>1 DEF CreatedOK, up
      <4>3. \A c \in ToSet(contract) : c.id[1] # req[s].upload
        BY <3>3 DEF NumbersOK
      <4> QED
        BY <1>10, <4>2, <4>3
    <3>6. \A q \in Request \ {s} : Uploading(q)' => req'[q].upload # req[s].upload
      BY <3>3, <3>4 DEF NumbersOK
    <3>7. NumbersOK(s)'
      BY <1>4, <3>1, <3>3, <3>5, <3>6 DEF NumbersOK
    <3> QED
      BY <3>2, <3>7
  <2> QED
    BY <2>1 DEF UploadsOK
<1>21. DeletesOK'
  <2>1. ASSUME NEW s \in Request, Deleting(s)'
        PROVE  Committed(req[s].id)' /\ (~Active(req[s].id)' \/ req'[s].id \in overlapped')
    <3>1. Deleting(s) /\ req'[s] = req[s] /\ s # r
      BY <1>6, <1>13, <1>14, <2>1
    <3>2. Committed(req[s].id) /\ (~Active(req[s].id) \/ req[s].id \in overlapped)
      BY <3>1 DEF UploadsInv, DeletesOK
    <3>3. Committed(req[s].id)'
      BY <1>11, <3>1, <3>2 DEF Committed
    <3>4. req[s].id \in Replaces(r) => req[s].id \in overlapped
      BY <3>1 DEF UploadsInv, OverlapsSeen, Deletes
    <3>5. PICK id : id = req[s].id
      OBVIOUS
    <3>6. Active(id)' => id \in overlapped
      BY <1>17, <1>18, <3>2, <3>4, <3>5
    <3>7. Active(req[s].id)' => Active(id)'
      BY <3>1, <3>5 DEF Active
    <3> QED
      BY <1>4, <3>1, <3>3, <3>5, <3>6, <3>7
  <2> QED
    BY <2>1 DEF DeletesOK
<1>22. OverlapsSeen'
  <2>1. ASSUME NEW q \in Request, NEW d \in ToSet(contract)', d.deleted, d.id \in Replaces(q)'
        PROVE  d.id \in overlapped'
    <3>1. q # r /\ d.id \in Replaces(q)
      BY <1>14, <1>15, <2>1
    <3>2. PICK c \in ToSet(contract) \union ToSet(req[r].created) : d.id = c.id /\ d.deleted = c.deleted
      BY <1>10
    <3>3. c \in ToSet(contract)
      BY <1>2, <2>1, <3>2 DEF CreatedOK
    <3> QED
      BY <1>4, <2>1, <3>1, <3>2, <3>3 DEF UploadsInv, OverlapsSeen
  <2>2. \A q, s \in Request : Deletes(s)' \cap Replaces(q)' \subseteq overlapped'
    BY <1>4, <1>14, <1>15 DEF UploadsInv, OverlapsSeen
  <2> QED
    BY <2>1, <2>2 DEF OverlapsSeen
<1>23. FilesThere'
  <2>1. ASSUME NEW d \in ToSet(contract)', ~d.deleted, ~Excepted(d.id)
        PROVE  \/ {d.storagePath, d.processingPath} \subseteq file
               \/ \E s \in Request : req'[s].at = "deleted" /\ req'[s].purge /\ req'[s].id = d.id
    <3>1. PICK c \in ToSet(contract) \union ToSet(req[r].created) :
             /\ d.id = c.id /\ d.deleted = c.deleted /\ d.processingPath = c.processingPath
             /\ \/ d.storagePath = c.storagePath
                \/ \E u \in ToSet(req[r].replaced) :
                     u.id = c.id /\ d.storagePath = Key(u.id, u.version, "original")
      BY <1>10
    <3>2. CASE {c.storagePath, c.processingPath} \subseteq file
      <4>1. \A u \in ToSet(req[r].replaced) : u.id = d.id => Key(u.id, u.version, "original") \in file
        BY <1>2, <2>1 DEF ReplacedOK
      <4> QED
        BY <3>1, <3>2, <4>1
    <3>3. CASE \E s \in Request : req[s].at = "deleted" /\ req[s].purge /\ req[s].id = d.id
      BY <1>1, <1>6, <3>3
    <3>4. c \in ToSet(req[r].created) => {c.storagePath, c.processingPath} \subseteq file
      BY <1>2 DEF CreatedOK
    <3> QED
      BY <2>1, <3>1, <3>2, <3>3, <3>4 DEF UploadsInv, FilesThere, Live
  <2> QED
    BY <1>4, <1>16, <2>1 DEF FilesThere, Live
<1>24. BatchLostOnlyToOthers'
  <2>1. {c.hash : c \in ToSet(contract)} \subseteq {d.hash : d \in ToSet(contract)'}
    BY <1>11
  <2> QED
    BY <1>5, <1>6, <2>1 DEF UploadsInv, BatchLostOnlyToOthers
<1>25. NoStrandedJob'
  BY <1>4 DEF UploadsInv, NoStrandedJob
<1>26. DeletedIsIdle'
  <2>1. ASSUME NEW d \in ToSet(contract)', d.deleted PROVE ~Active(d.id)' \/ d.id \in overlapped'
    <3>1. PICK c \in ToSet(contract) \union ToSet(req[r].created) : d.id = c.id /\ d.deleted = c.deleted
      BY <1>10
    <3>2. c \in ToSet(contract) /\ c.deleted
      BY <1>2, <2>1, <3>1 DEF CreatedOK
    <3>3. ~Active(c.id) \/ c.id \in overlapped
      BY <3>2 DEF UploadsInv, DeletedIsIdle, Live
    <3>4. c.id \in Replaces(r) => c.id \in overlapped
      BY <3>2 DEF UploadsInv, OverlapsSeen
    <3>5. Committed(c.id)
      BY <3>2 DEF Committed
    <3>6. PICK id : id = d.id
      OBVIOUS
    <3>7. Active(id)' => id \in overlapped
      BY <1>17, <1>18, <3>1, <3>3, <3>4, <3>5, <3>6
    <3>8. Active(d.id)' => Active(id)'
      BY <3>6 DEF Active
    <3> QED
      BY <1>4, <3>6, <3>7, <3>8
  <2> QED
    BY <2>1 DEF DeletedIsIdle, Live
<1> QED
  BY <1>12, <1>19, <1>20, <1>21, <1>22, <1>23, <1>24, <1>25, <1>26 DEF UploadsInv

-----------------------------------------------------------------------------

LEMMA UploadsInitOK == UploadsInit => UploadsInv
<1> SUFFICES ASSUME UploadsInit PROVE UploadsInv
  OBVIOUS
<1>1. PICK document \in Document : contract = <<NewContract(<<0, 1>>, document)>> /\ file = FilesOf(<<0, 1>>, document)
  BY DEF UploadsInit
<1> DEFINE c == NewContract(<<0, 1>>, document)
<1>2. /\ c \in Contracts /\ c.id = <<0, 1>> /\ OwnPaths(c) /\ ~c.deleted
      /\ {c.storagePath, c.processingPath} \subseteq file
  BY <1>1 DEF NewContract, Contracts, OwnPaths, Key, Path, ContractIds, Kind, ProcessedKind, FilesOf
<1>3. contract = <<c>>
  BY <1>1
<1> HIDE DEF c
<1>4. contract \in Seq(Contracts) /\ ToSet(contract) = {c} /\ IdsApart(contract)
  BY <1>2, <1>3 DEF ToSet, IdsApart
<1>5. \A r \in Request : req[r] = Idle /\ ~Uploading(r) /\ ~Deleting(r) /\ req[r].at = "idle"
  BY DEF UploadsInit, Uploading, Deleting, Idle
<1>6. job = <<>> /\ message = {} /\ uploads = 0 /\ DOMAIN req = Request
  BY DEF UploadsInit
<1>7. DOMAIN job = {}
  BY <1>6
<1>8. UploadsShape
  BY <1>4, <1>5, <1>6, <1>7 DEF UploadsShape
<1>9. ContractsOK
  BY <1>2, <1>4, <1>6 DEF ContractsOK
<1>10. UploadsOK /\ DeletesOK /\ OverlapsSeen /\ FilesThere
  BY <1>2, <1>4, <1>5 DEF UploadsOK, DeletesOK, OverlapsSeen, Deletes, Replaces, FilesThere
<1>11. BatchLostOnlyToOthers /\ NoStrandedJob /\ DeletedIsIdle
  BY <1>2, <1>4, <1>5, <1>7 DEF BatchLostOnlyToOthers, NoStrandedJob, DeletedIsIdle, Live
<1> QED
  BY <1>8, <1>9, <1>10, <1>11 DEF UploadsInv

LEMMA UploadsStepOK == UploadsInv /\ [UploadsNext]_uploadVars => UploadsInv'
<1> SUFFICES ASSUME UploadsInv, [UploadsNext]_uploadVars PROVE UploadsInv'
  OBVIOUS
<1>1. ASSUME NEW r \in Request, NEW docs \in Batches, NEW replace \in BOOLEAN,
             BeginUpload(r, docs, replace)
      PROVE  UploadsInv'
  BY <1>1, RequestBegins
<1>2. ASSUME NEW r \in Request, UploadStep(r) PROVE UploadsInv'
  BY <1>2, StepChecks, StepCreates, StepStores, StepInserts, StepDeadlocks, StepEnqueues,
     StepCommits DEF UploadStep
<1>3. ASSUME NEW r \in Request, EnqueueFails(r) \/ Die(r) PROVE UploadsInv'
  BY <1>3, StepEnqueues, RequestDies
<1>4. ASSUME NEW r \in Request, DeleteStep(r) PROVE UploadsInv'
  BY <1>4, StepPurges, StepCommitsDelete DEF DeleteStep
<1>5. ASSUME NEW r \in Request, NEW c \in ToSet(contract), NEW purge \in BOOLEAN,
             BeginDelete(r, c, purge)
      PROVE  UploadsInv'
  BY <1>5, StepDeletes
<1>6. ASSUME NEW j \in message, Work(j) PROVE UploadsInv'
  BY <1>6, StepWorks
<1>7. CASE UNCHANGED uploadVars
  <2>1. UNCHANGED <<contract, file, job, message, req, driver, uploads, deletes, faults, torn, overlapped>>
    BY <1>7 DEF uploadVars, bounds
  <2>2. UploadsShape' /\ ContractsOK'
    BY <2>1 DEF UploadsInv, UploadsShape, ContractsOK
  <2>3. UploadsOK'
    BY <2>1 DEF UploadsInv, UploadsOK, NumbersOK, CreatedOK, TargetOK, ReplacedOK,
                QueueOK, Uploading, Committed, Excepted, Doc
  <2>4. DeletesOK'
    BY <2>1 DEF UploadsInv, DeletesOK, Deleting, Committed, Active
  <2>5. OverlapsSeen' /\ FilesThere' /\ BatchLostOnlyToOthers'
    BY <2>1 DEF UploadsInv, OverlapsSeen, Deletes, Replaces, Uploading, Deleting, FilesThere,
                Live, Excepted, BatchLostOnlyToOthers
  <2>6. NoStrandedJob' /\ DeletedIsIdle'
    BY <2>1 DEF UploadsInv, NoStrandedJob, DeletedIsIdle, Live, Active
  <2> QED
    BY <2>2, <2>3, <2>4, <2>5, <2>6 DEF UploadsInv
<1> QED
  BY <1>1, <1>2, <1>3, <1>4, <1>5, <1>6, <1>7 DEF UploadsNext

THEOREM UploadsAlwaysInv == UploadsSpec => []UploadsInv
<1> QED
  BY UploadsInitOK, UploadsStepOK, PTL DEF UploadsSpec

(* The bytes a live contract names are in storage, at every version and      *)
(* after any crash, whatever requests did meanwhile (upload, _add_version,   *)
(* purge): but for a purge under way, one that never committed, or a         *)
(* deletion that met a replacement of the same contract.                     *)
THEOREM FileIsBehindContract == UploadsSpec => []FileBehindContract
<1>1. UploadsInv => FileBehindContract
  <2> SUFFICES ASSUME UploadsInv, NEW c \in ToSet(contract), Live(c), ~Excepted(c.id),
                      NEW s \in Request, req[s].at = "deleted" /\ req[s].id = c.id
               PROVE  c.id \in Deletes(s)
    BY DEF UploadsInv, FilesThere, FileBehindContract, Excepted
  <2> QED
    BY DEF Deletes, Deleting
<1> QED
  BY <1>1, UploadsAlwaysInv, PTL

(* A request is rolled back for a document only when somebody else's request *)
(* committed that document: identical files inside one batch are caught by   *)
(* seen_hashes and never cost the rest of it (UploadService.upload).         *)
THEOREM BatchesLostOnlyToOthers == UploadsSpec => []BatchLostOnlyToOthers
<1>1. UploadsInv => BatchLostOnlyToOthers
  BY DEF UploadsInv
<1> QED
  BY <1>1, UploadsAlwaysInv, PTL

(* With the postgres driver no committed job is left without its message     *)
(* (enqueue_many with db=), and no deleted contract has a job running unless *)
(* it was deleted and replaced at one time (delete_contract).                *)
THEOREM JobsAlwaysHaveAFuture == UploadsSpec => []JobsHaveAFuture
<1>1. UploadsInv => JobsHaveAFuture
  BY DEF UploadsInv, JobsHaveAFuture
<1> QED
  BY <1>1, UploadsAlwaysInv, PTL
===============================================================================
