-------------------------- MODULE ContractKnowledge --------------------------
(***************************************************************************)
(* What extraction leaves in the database about one contract               *)
(* (orchestrator/stages/extraction_base.py and extraction.py): runs of the *)
(* stage for different jobs of the contract, each in one transaction that  *)
(* deletes what is there, writes the chunks, asks the model for minutes,   *)
(* and writes what it found.                                               *)
(*                                                                         *)
(* The database is READ COMMITTED: a deletion that meets a row another     *)
(* transaction has deleted waits, and then removes only rows it saw before *)
(* it waited; an insert that meets an uncommitted equal key waits.  A row  *)
(* here is all the rows of one run in one table; a document has at least   *)
(* one section, so every run has chunks.                                   *)
(***************************************************************************)
EXTENDS Integers, FiniteSets, Sequences

CONSTANTS
    Extraction,      \* runs of the stage; each belongs to a job of its own
    Before,          \* a run that was over at the start
    Tables,          \* the tables in the order cleanup deletes from them
    Facts,           \* columns of contract_metadata
    Certain,         \* those a run always has a value for: scores and counts
    MaxLosses      \* runs that fail or die

ASSUME KnowledgeAssumption ==
    /\ Before \notin Extraction
    /\ Tables \in Seq(STRING) /\ Tables # <<>> /\ Tables[Len(Tables)] = "chunks"
    /\ Certain \subseteq Facts /\ MaxLosses \in Nat

VARIABLES
    knowledge,       \* committed rows
    projection,      \* contract_metadata: the run each column was written by
    txn,             \* txn[r]: the transaction of run r
    latest,          \* history: the last run to commit, whether it failed, its rows
    rivals,          \* history: two runs were open at one time
    losses         \* counter of the bound

knowledgeVars == <<knowledge, projection, txn, latest, rivals, losses>>

Table == {Tables[i] : i \in DOMAIN Tables}
Row   == [table : Table, run : Extraction \union {Before}]

\* What a run writes: vectors are the embedding stage's.
Written(r) == {[table |-> t, run |-> r] : t \in Table \ {"vectors"}}
Chunks(rows) == {row \in rows : row.table = "chunks"}

UnderWay(r) == txn[r].at \in {"clearing", "waiting", "cleared", "asking"}
Others(r)   == {q \in Extraction \ {r} : UnderWay(q)}
BeingDeleted(r) == UNION {txn[q].gone : q \in Others(r)}

Unbegun == [at |-> "queued", todo |-> Tables, seen |-> {}, gone |-> {}]

\* The contract may have been extracted before, with or without anything in a
\* table, and embedded or not.
KnowledgeInit ==
    /\ knowledge \in SUBSET {[table |-> t, run |-> Before] : t \in Table}
    /\ projection = [f \in Facts |-> Before]
    /\ txn = [r \in Extraction |-> Unbegun]
    /\ latest = [run |-> Before, failed |-> FALSE, rows |-> {}]
    /\ rivals = FALSE /\ losses = 0

-----------------------------------------------------------------------------

BeginRun(r) ==
    /\ txn[r].at = "queued"
    /\ txn' = [txn EXCEPT ![r].at = "clearing"]
    /\ rivals' = (rivals \/ Others(r) # {})
    /\ UNCHANGED <<knowledge, projection, latest, losses>>

Cleared(r, rows) ==
    [at |-> IF Len(txn[r].todo) = 1 THEN "cleared" ELSE "clearing",
     todo |-> Tail(txn[r].todo), seen |-> {}, gone |-> txn[r].gone \union (rows \cap knowledge)]

\* delete_for_contract of the next table: at once, or when whoever deletes what
\* it saw is done.
ClearTable(r) ==
    LET rows == {row \in knowledge : row.table = Head(txn[r].todo)} IN
    /\ txn[r].at = "clearing"
    /\ txn' = [txn EXCEPT ![r] = IF rows \cap BeingDeleted(r) = {} THEN Cleared(r, rows)
                                 ELSE [@ EXCEPT !.at = "waiting", !.seen = rows]]
    /\ UNCHANGED <<knowledge, projection, latest, rivals, losses>>

ClearAfterWait(r) ==
    /\ txn[r].at = "waiting"
    /\ txn[r].seen \cap BeingDeleted(r) = {}
    /\ txn' = [txn EXCEPT ![r] = Cleared(r, txn[r].seen)]
    /\ UNCHANGED <<knowledge, projection, latest, rivals, losses>>

-----------------------------------------------------------------------------

(* Faulty: nothing forbids the chunks of two runs to be there at once.     *)
WriteChunksRegardless(r) ==
    /\ txn[r].at = "cleared"
    /\ txn' = [txn EXCEPT ![r].at = "asking"]
    /\ UNCHANGED <<knowledge, projection, latest, rivals, losses>>

(* The transaction is rolled back; the stage is retried or given up.        *)
Lost(r) ==
    /\ \E goesTo \in (IF losses < MaxLosses THEN {"queued"} ELSE {}) \union {"over"} :
          txn' = [txn EXCEPT ![r] = [Unbegun EXCEPT !.at = goesTo]]
    /\ losses' = losses + 1
    /\ UNCHANGED <<knowledge, projection, latest, rivals>>

(* _prepare_chunks: uq_chunks_contract_version_order lets one run at a time *)
(* past, and fails the one that meets the chunks of another.                *)
WriteChunks(r) ==
    /\ txn[r].at = "cleared"
    /\ \A q \in Others(r) : txn[q].at # "asking"
    /\ \/ /\ Chunks(knowledge) \subseteq txn[r].gone
          /\ txn' = [txn EXCEPT ![r].at = "asking"]
          /\ UNCHANGED <<knowledge, projection, latest, rivals, losses>>
       \/ ~(Chunks(knowledge) \subseteq txn[r].gone) /\ Lost(r)

Ends(r, failed, rows) ==
    /\ knowledge' = (knowledge \ txn[r].gone) \union rows
    /\ txn' = [txn EXCEPT ![r] = [Unbegun EXCEPT !.at = "over"]]
    /\ latest' = [run |-> r, failed |-> failed, rows |-> rows]
    /\ UNCHANGED rivals

\* _update_metadata: the columns there is a value for; the others keep theirs.
Projected(r, values) == [f \in Facts |-> IF f \in Certain \union values THEN r ELSE projection[f]]

(* _persist: what was found, and the projection of it.                      *)
FinishRun(r) ==
    /\ txn[r].at = "asking"
    /\ \E found \in SUBSET (Written(r) \ Chunks(Written(r))), values \in SUBSET (Facts \ Certain) :
          /\ Ends(r, FALSE, Chunks(Written(r)) \union found)
          /\ projection' = Projected(r, values)
    /\ UNCHANGED losses

(* The stage fails for good with an error of its own: the runner commits the *)
(* deletions, and the chunks when they were written.                        *)
FailRun(r) ==
    /\ txn[r].at \in {"cleared", "asking"}
    /\ losses < MaxLosses
    /\ losses' = losses + 1
    /\ Ends(r, TRUE, IF txn[r].at = "asking" THEN Chunks(Written(r)) ELSE {})
    /\ UNCHANGED projection

(* A worker dies, a wait outlasts the statement timeout, or an idle         *)
(* transaction is ended by the database.                                    *)
LoseRun(r) == UnderWay(r) /\ losses < MaxLosses /\ Lost(r)

KnowledgeNext ==
    \E r \in Extraction :
        \/ BeginRun(r) \/ ClearTable(r) \/ ClearAfterWait(r) \/ WriteChunks(r)
        \/ FinishRun(r) \/ FailRun(r) \/ LoseRun(r)

KnowledgeSpec == KnowledgeInit /\ [][KnowledgeNext]_knowledgeVars

-----------------------------------------------------------------------------

KnowledgeTypeOK ==
    /\ knowledge \subseteq Row
    /\ projection \in [Facts -> Extraction \union {Before}]
    /\ \A r \in Extraction :
          /\ txn[r].at \in {"queued", "clearing", "waiting", "cleared", "asking", "over"}
          /\ txn[r].seen \subseteq Row /\ txn[r].gone \subseteq Row
    /\ latest \in [run : Extraction \union {Before}, failed : BOOLEAN, rows : SUBSET Row]
    /\ rivals \in BOOLEAN /\ losses \in Nat

\* Rows that the last run to commit did not write.
Leftover == {row \in knowledge : row.run # latest.run}

\* The last run to commit is whole, whoever ran beside it: what it found is there.
\* There are the chunks of one run, those of the last unless it failed before it
\* wrote any.  Of an older run nothing else is left, unless two runs of the
\* contract were open at one time (cleanup, _prepare_chunks, _persist).
KnowledgeWhole ==
    latest.run # Before =>
        /\ knowledge \ Leftover = latest.rows
        /\ Cardinality(Chunks(knowledge)) <= 1
        /\ ~latest.failed => Chunks(latest.rows) # {}
        /\ ~rivals => Leftover = {}

\* repositories/base.py:309-310, "a stage deletes its prior output and re-inserts,
\* so re-running it can never duplicate rows".
NeverDuplicated == Cardinality({row.run : row \in knowledge}) <= 1

\* models/contract.py and _update_metadata, "the contract_metadata projection": the
\* columns tell of the rows there are.
ProjectionOfOneRun ==
    latest.run # Before /\ ~latest.failed => \A f \in Facts : projection[f] = latest.run
=============================================================================
