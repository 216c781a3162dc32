---------------------------- MODULE BatchPlanner ----------------------------
(***************************************************************************)
(* Which clauses share one extraction call (ai/extraction/batch_planner.py,*)
(* plan_batches): the first clause without a batch seeds one, the others   *)
(* are looked at once, in the same order, and join while there is room.    *)
(*                                                                         *)
(* A clause is its place in the order by (priority, key), so a batch, which*)
(* is always filled in that order, is the set of its clauses and its seed  *)
(* is the least of them.  The share of a clause's tokens that a chunk gets *)
(* is a float in the code and a fraction over Parts here.                   *)
(***************************************************************************)
EXTENDS Integers, FiniteSets, FiniteSetsExt

CONSTANTS
    ClauseCount, \* number of clauses
    Chunk,
    Tokens,      \* evidence token counts a clause may have
    MaxBatch,    \* max_batch
    Budget,      \* evidence_budget
    Parts,       \* a multiple of the number of chunks of every clause
    Overlap      \* min_overlap as <<part, of>>

ASSUME PlannerAssumption ==
    /\ ClauseCount \in Nat /\ MaxBatch \in Nat \ {0} /\ IsFiniteSet(Chunk)
    /\ Tokens \subseteq Nat /\ Budget \in Nat /\ Parts \in Nat \ {0}

VARIABLES
    chunks,      \* chunk_ids of each clause
    tokens,      \* evidence_tokens of each clause
    batches,     \* plan.batches
    batch,       \* the batch being filled, {} between two
    next         \* the candidate the scan is at

plannerVars == <<chunks, tokens, batches, batch, next>>

Clause == 1 .. ClauseCount

\* jaccard(c, d) >= min_overlap; two clauses without evidence are not alike.
Alike(c, d) ==
    LET union == chunks[c] \union chunks[d]
    IN  IF union = {} THEN Overlap[1] <= 0
        ELSE Overlap[2] * Cardinality(chunks[c] \cap chunks[d]) >= Overlap[1] * Cardinality(union)

Share(c) == (tokens[c] * Parts) \div Cardinality(chunks[c])

\* Batch.evidence_tokens before it is rounded: a chunk is sent once, and costs
\* the most that one of its clauses estimates.
Cost(clauses) ==
    MapThenSumSet(LAMBDA k : Max({Share(c) : c \in {d \in clauses : k \in chunks[d]}}),
                  UNION {chunks[c] : c \in clauses})

\* round(cost) > evidence_budget; round takes a half to the even neighbour.
TooDear(clauses) ==
    LET cost == 2 * Cost(clauses)
        half == 2 * Parts * Budget + Parts
    IN  cost > half \/ (cost = half /\ Budget % 2 = 1)

SeedOf(clauses) == CHOOSE c \in clauses : \A d \in clauses : c <= d

Assigned == (UNION batches) \union batch

PlannerInit ==
    /\ chunks \in [Clause -> SUBSET Chunk]
    /\ tokens \in [Clause -> Tokens]
    /\ batches = {} /\ batch = {} /\ next = 1

\* The seed of the next batch; its own size is not looked at.
SeedBatch(c) ==
    /\ batch = {}
    /\ c \notin Assigned
    /\ \A d \in Clause \ Assigned : c <= d
    /\ batch' = {c} /\ next' = 1
    /\ UNCHANGED <<chunks, tokens, batches>>

Scanning == batch # {} /\ next \in Clause /\ Cardinality(batch) < MaxBatch

AlikeAny(c) == \E d \in batch : Alike(d, c)

JoinsUnassigned(c) == Alike(SeedOf(batch), c) /\ ~TooDear(batch \union {c})

JoinsByLast(c) == c \notin Assigned /\ AlikeAny(c) /\ ~TooDear(batch \union {c})

Joins(c) ==
    /\ c \notin Assigned
    /\ Alike(SeedOf(batch), c)
    /\ ~TooDear(batch \union {c})

ConsiderOrClose ==
    /\ Scanning
    /\ IF Joins(next)
       THEN batch' = batch \union {next} /\ next' = next + 1
       ELSE batch' = batch /\ next' = IF TooDear(batch \union {next}) THEN ClauseCount + 1 ELSE next + 1
    /\ UNCHANGED <<chunks, tokens, batches>>

\* One candidate; one that would be too dear leaves room for a later one.
Consider ==
    /\ Scanning
    /\ batch' = IF Joins(next) THEN batch \union {next} ELSE batch
    /\ next' = next + 1
    /\ UNCHANGED <<chunks, tokens, batches>>

\* The end of the scan.
CloseBatch ==
    /\ batch # {} /\ ~Scanning
    /\ batches' = batches \union {batch}
    /\ batch' = {} /\ next' = 1
    /\ UNCHANGED <<chunks, tokens>>

PlannerNext == (\E c \in Clause : SeedBatch(c)) \/ Consider \/ CloseBatch

PlannerSpec == PlannerInit /\ [][PlannerNext]_plannerVars

-----------------------------------------------------------------------------

PlannerTypeOK ==
    /\ batch \subseteq Clause /\ batches \subseteq SUBSET Clause
    /\ next \in 1 .. ClauseCount + 1

\* No clause is asked for twice.
EveryClauseOnce ==
    /\ \A b, d \in batches \union {batch} : b # d => b \cap d = {}
    /\ {} \notin batches

BatchesFit ==
    \A b \in batches \union {batch} :
        /\ \A c \in b : c # SeedOf(b) => Alike(SeedOf(b), c)
        /\ Cardinality(b) <= MaxBatch
        /\ Cardinality(b) > 1 => ~TooDear(b)

\* A clause that went into a later batch although it is like the seed of an
\* earlier one does not fit into what the earlier batch became, or that is full.
TurnedAwayForRoom ==
    \A b \in batches, d \in batches \union {batch} :
        d # {} /\ Cardinality(b) < MaxBatch =>
            \A c \in d : SeedOf(b) < SeedOf(d) /\ Alike(SeedOf(b), c) => TooDear(b \union {c})

\* A clause is extracted by one call only.  What is sent together belongs together
\* and fits: every clause of a batch is like the seed, a batch has at most max_batch
\* clauses, and only a clause alone exceeds the evidence budget.  And a clause like
\* an earlier seed is turned away for want of room alone, never because it came
\* late in the scan or after one that did not fit (plan_batches; the plan is greedy:
\* other seeds might do with fewer calls).
PlanIsSound == EveryClauseOnce /\ BatchesFit /\ TurnedAwayForRoom
=============================================================================
