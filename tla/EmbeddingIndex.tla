---------------------------- MODULE EmbeddingIndex ----------------------------
(***************************************************************************)
(* The vectors of a project's contracts (orchestrator/stages/embedding.py, *)
(* ai/embedding/, repositories/embedding.py): workers that run the         *)
(* embedding stage of a contract in one transaction each, the extraction   *)
(* stage that replaces what was embedded, deployments that move a worker to*)
(* another vector space, and edits of the levels that are embedded.        *)
(*                                                                         *)
(* The database is READ COMMITTED: `index` holds the committed rows, a row *)
(* that a transaction has deleted makes another deletion of it wait, and a *)
(* deletion that waited removes only rows it saw before it waited.         *)
(***************************************************************************)
EXTENDS Integers, FiniteSets, FiniteSetsExt, Sequences

CONSTANTS
    Worker, Contract,
    Levels,       \* the levels in the order of EmbeddingLevel
    Shape,        \* Shape[level]: the sequences of texts a contract may have there
    Spaces,       \* the spaces a worker is moved through by deployments
    ReuseKey,     \* ReuseKey[space]: its model and versions
    MaxRuns, MaxExtracts, MaxEdits, MaxSetbacks

ASSUME EmbeddingAssumption ==
    /\ IsFiniteSet(DOMAIN Levels) /\ \A i \in DOMAIN Levels : i \in Int
    /\ \A i \in DOMAIN Levels : \A text \in Shape[Levels[i]] : IsFiniteSet(DOMAIN text)

VARIABLES
    content,      \* content[c]: the extracted texts, and how often they were replaced
    index,        \* committed rows of embeddings
    run,          \* run[w]: the embedding stage on worker w
    deployed,     \* deployed[w]: the place of w's space in Spaces
    enabled,      \* the levels of the profile
    contested,   \* history: contracts two transactions worked on at a time
    begun, extracts, edits, setbacks   \* counters of the bounds

embeddingVars == <<content, index, run, deployed, enabled, contested, begun, extracts, edits, setbacks>>

Level == {Levels[i] : i \in DOMAIN Levels}
Space == {Spaces[i] : i \in DOMAIN Spaces}

\* What one contract needs embedded at a level: a clause or chunk gets a new
\* id whenever it is extracted, the summary has the contract's.
Items(c, level) ==
    {[ref |-> <<c, IF level = Levels[1] THEN 0 ELSE content[c].generation, i>>,
      text |-> content[c].text[level][i]] : i \in DOMAIN content[c].text[level]}

RowsAt(c, level) == {row \in index : row.contract = c /\ row.level = level}

Open(w) == run[w].at # "idle"
OpenOn(c) == {w \in Worker : Open(w) /\ run[w].contract = c}
Locked(w) == UNION {run[v].cleared : v \in {u \in Worker \ {w} : Open(u)}}

\* The texts an extraction may leave.
Texts ==
    {f \in [Level -> UNION {Shape[l] : l \in Level}] : \A l \in Level : f[l] \in Shape[l]}

AtRest == [at |-> "idle"]

EmbeddingInit ==
    /\ \E text \in Texts : content = [c \in Contract |-> [generation |-> 1, text |-> text]]
    /\ index = {} /\ run = [w \in Worker |-> AtRest]
    /\ deployed = [w \in Worker |-> 1] /\ enabled = Level
    /\ contested = {}
    /\ begun = 0 /\ extracts = 0 /\ edits = 0 /\ setbacks = 0

-----------------------------------------------------------------------------
(* One embedding stage.                                                     *)

ReusableOfAnySpace(level, space) ==
    {row.vector : row \in {r \in index : r.level = level}}

\* existing_hashes and get_vector: rows of the whole project, compared by text
\* and by model and versions.
Reusable(level, space) ==
    {row.vector : row \in {r \in index : r.level = level /\ ReuseKey[r.space] = ReuseKey[space]}}

\* _build_plan and _load_reusable, before anything is deleted.
BeginEmbedding(w, c) ==
    /\ ~Open(w)
    /\ begun < MaxRuns
    /\ begun' = begun + 1
    /\ LET space == Spaces[deployed[w]]
       IN  run' = [run EXCEPT ![w] =
             [at |-> "clearing", contract |-> c, space |-> space,
              plan |-> [l \in enabled |-> Items(c, l)],
              reuse |-> [l \in enabled |-> Reusable(l, space)],
              todo |-> enabled,
              doomed |-> {}, cleared |-> {}, failed |-> {}]]
    /\ contested' = IF OpenOn(c) = {} THEN contested ELSE contested \union {c}
    /\ UNCHANGED <<content, index, deployed, enabled, extracts, edits, setbacks>>

\* The levels still to be cleared come in the order of EmbeddingLevel.
NextLevel(w) == Levels[Min({i \in DOMAIN Levels : Levels[i] \in run[w].todo})]

ClearedAfter(w, rows) ==
    [run[w] EXCEPT !.at = "clearing", !.todo = @ \ {NextLevel(w)},
                   !.cleared = @ \union (rows \cap index), !.doomed = {}]

DoomedOfSpace(w) ==
    {row \in RowsAt(run[w].contract, NextLevel(w)) : row.space = run[w].space}

Doomed(w) == RowsAt(run[w].contract, NextLevel(w))

\* delete_for_contract_level for the next level: at once, or after a wait.
ClearLevel(w) ==
    /\ run[w].at = "clearing" /\ run[w].todo # {}
    /\ run' = [run EXCEPT ![w] =
            IF Doomed(w) \cap Locked(w) = {} THEN ClearedAfter(w, Doomed(w))
            ELSE [@ EXCEPT !.at = "waiting", !.doomed = Doomed(w)]]
    /\ UNCHANGED <<content, index, deployed, enabled, contested, begun, extracts, edits, setbacks>>

WaitIsOver(w) ==
    /\ run[w].at = "waiting"
    /\ run[w].doomed \cap Locked(w) = {}
    /\ run' = [run EXCEPT ![w] = ClearedAfter(w, run[w].doomed)]
    /\ UNCHANGED <<content, index, deployed, enabled, contested, begun, extracts, edits, setbacks>>

\* A level needs the provider when a text of it has no vector to reuse.
NeedsProvider(w, level) ==
    \E item \in run[w].plan[level] :
        \A vector \in run[w].reuse[level] : vector.text # item.text

\* EmbeddingEngine.run: a level whose provider fails is left out.
Embed(w, failed) ==
    /\ run[w].at = "clearing" /\ run[w].todo = {}
    /\ \A l \in failed : l \in DOMAIN run[w].plan /\ NeedsProvider(w, l)
    /\ setbacks + Cardinality(failed) <= MaxSetbacks
    /\ setbacks' = setbacks + Cardinality(failed)
    /\ run' = [run EXCEPT ![w].at = "embedded", ![w].failed = failed]
    /\ UNCHANGED <<content, index, deployed, enabled, contested, begun, extracts, edits>>

\* _embed_level: reused vectors, and new ones shared by equal texts.
VectorFor(w, level, text) ==
    LET found == {vector \in run[w].reuse[level] : vector.text = text}
    IN  IF found = {} THEN {[text |-> text, space |-> run[w].space]} ELSE found

RowOf(w, level, item, vector) ==
    [contract |-> run[w].contract, level |-> level, ref |-> item.ref, text |-> item.text,
     space |-> run[w].space, vector |-> vector]

NewRows(w) ==
    UNION {{RowOf(w, l, item, CHOOSE v \in VectorFor(w, l, item.text) : TRUE) :
               item \in run[w].plan[l]} : l \in DOMAIN run[w].plan \ run[w].failed}

\* uq_embeddings_level_ref_model_version
Clashes(rows, others) ==
    \E r \in rows, o \in others :
        r.level = o.level /\ r.ref = o.ref /\ ReuseKey[r.space] = ReuseKey[o.space]

\* insert_many and the commit.  Without a single vector the stage fails, which
\* commits the deletions; a clash rolls everything back.
Finish(w) ==
    /\ run[w].at = "embedded"
    /\ index' = IF Clashes(NewRows(w), index \ run[w].cleared) THEN index
                ELSE (index \ run[w].cleared) \union NewRows(w)
    /\ run' = [run EXCEPT ![w] = AtRest]
    /\ UNCHANGED <<content, deployed, enabled, contested, begun, extracts, edits, setbacks>>

EmbeddingDies(w) ==
    /\ Open(w)
    /\ setbacks < MaxSetbacks
    /\ setbacks' = setbacks + 1
    /\ run' = [run EXCEPT ![w] = AtRest]
    /\ UNCHANGED <<content, index, deployed, enabled, contested, begun, extracts, edits>>

-----------------------------------------------------------------------------
(* What changes around it.                                                  *)

\* The extraction stage: its cleanup deletes the vectors of every level.
Extract(c) ==
    /\ extracts < MaxExtracts
    /\ \A w \in Worker : Open(w) => \A row \in run[w].cleared : row.contract # c
    /\ extracts' = extracts + 1
    /\ \E text \in Texts :
         content' = [content EXCEPT ![c] = [generation |-> @.generation + 1, text |-> text]]
    /\ index' = {row \in index : row.contract # c}
    /\ contested' = IF OpenOn(c) = {} THEN contested ELSE contested \union {c}
    /\ UNCHANGED <<run, deployed, enabled, begun, edits, setbacks>>

\* A worker comes up again with a new configuration.
Deploy(w) ==
    /\ ~Open(w) /\ deployed[w] < Len(Spaces)
    /\ deployed' = [deployed EXCEPT ![w] = @ + 1]
    /\ UNCHANGED <<content, index, run, enabled, contested, begun, extracts, edits, setbacks>>

EditLevels(levels) ==
    /\ edits < MaxEdits
    /\ levels # enabled
    /\ edits' = edits + 1
    /\ enabled' = levels
    /\ UNCHANGED <<content, index, run, deployed, contested, begun, extracts, setbacks>>

EmbeddingNext ==
    \/ \E w \in Worker :
         \/ (\E c \in Contract : BeginEmbedding(w, c)) \/ ClearLevel(w) \/ WaitIsOver(w)
         \/ (\E failed \in SUBSET Level : Embed(w, failed)) \/ Finish(w)
         \/ EmbeddingDies(w) \/ Deploy(w)
    \/ \E c \in Contract : Extract(c)
    \/ \E levels \in (SUBSET Level) \ {{}} : EditLevels(levels)

EmbeddingSpec == EmbeddingInit /\ [][EmbeddingNext]_embeddingVars

-----------------------------------------------------------------------------

EmbeddingTypeOK ==
    /\ \A row \in index : row.contract \in Contract /\ row.level \in Level
    /\ enabled \in (SUBSET Level) \ {{}} /\ contested \subseteq Contract

\* A vector is one of the text its row names, made by the model and versions
\* its row names, whatever was reused, shared or deployed meanwhile
\* (_load_reusable: "every version that shaped it").
VectorsMatchText ==
    \A row \in index :
        row.vector.text = row.text /\ ReuseKey[row.vector.space] = ReuseKey[row.space]

\* A contract nothing else worked on meanwhile is indexed at a level as a whole
\* or not at all, in one space, and by what was extracted last: a failing
\* provider, a crash or a redeployment leaves no half level, no mixture and no
\* row for a chunk that is gone (cleanup, "a search hit whose evidence cannot
\* be loaded").
LevelsWholeAndUnmixed ==
    \A c \in Contract \ contested, level \in Level :
        LET rows == RowsAt(c, level) IN
        rows # {} =>
            /\ {[ref |-> row.ref, text |-> row.text] : row \in rows} = Items(c, level)
            /\ Cardinality(rows) = Cardinality(Items(c, level))
            /\ Cardinality({row.space : row \in rows}) = 1

\* ai/embedding/reindex.py: each contract is fully re-embedded and committed,
\* or left entirely alone.
NeverMixed ==
    \A c \in Contract : Cardinality({row.space : row \in {r \in index : r.contract = c}}) <= 1

\* ai/embedding/reindex.py, _stale_predicate: every field of the space identity
\* participates, the provider's name too.
VectorsOfTheirSpace == \A row \in index : row.vector.space = row.space
=============================================================================
