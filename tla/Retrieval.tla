------------------------------- MODULE Retrieval -------------------------------
(***************************************************************************)
(* What the retrieval engine (ai/retrieval/engine.py, rerank.py) does with  *)
(* the passages its searches find: fusion of the vector and keyword legs,   *)
(* narrowing by document, expansion by neighbours and graph edges,          *)
(* de-duplication, suppression of repeated text and re-ranking.             *)
(*                                                                          *)
(* A passage is one indexed row: a summary, a clause or a chunk.  Its text  *)
(* is its set of shingles, its similarity to the question a percentage.     *)
(* Scores are integers: a similarity of 100 and a fusion score of 1 are     *)
(* both Unit, which every 60+rank of a rank up to 3 divides; 1/(60+rank) of  *)
(* a higher rank is rounded down.                                           *)
(***************************************************************************)
EXTENDS Integers, SequencesExt, FiniteSetsExt

CONSTANTS Passages,    \* rows of the index
          LevelOf,     \* [Passages -> {"summary", "clause", "chunk"}]
          ContractOf,  \* the contract each passage is of
          TypeOf,      \* [contract -> its agreement type]
          MaxCandidates, \* contracts the pre-filter carries
          ChunkOf,     \* the chunk a clause was read from, a chunk itself
          NumberOf,    \* clause numbers; nothing keeps two clauses from sharing one
          Words,       \* the shingles of each passage's text
          Neighbours,  \* [chunk -> sequence of the chunks around it]
          EdgesOf,     \* [clause number -> sequence of the numbers it refers to]
          Nowhere      \* no chunk, no similarity

ASSUME PassageAssumption ==
    /\ Passages \subseteq Nat /\ IsFiniteSet(Passages)
    /\ \A p \in Passages :
          /\ LevelOf[p] \in {"summary", "clause", "chunk"}
          /\ ContractOf[p] \in DOMAIN TypeOf
          /\ IsFiniteSet(Words[p])
          /\ LevelOf[p] = "chunk" =>
                /\ ChunkOf[p] = p /\ ChunkOf[p] # Nowhere
                /\ Neighbours[p] \in Seq({q \in Passages : /\ LevelOf[q] = "chunk"
                                                           /\ ContractOf[q] = ContractOf[p]})
          /\ LevelOf[p] = "clause" => EdgesOf[NumberOf[p]] \in Seq(Nat)
    /\ IsFiniteSet(DOMAIN TypeOf) /\ MaxCandidates \in Nat

Unit == 10 * 61 * 62 * 63

\* An Evidence object: the row it stands for, its score, the leg that found it,
\* the cosine similarity when a vector search measured one, and the relevance
\* when a re-ranker judged it.
Hit(p, score, source, sim) ==
    [row |-> p, score |-> score, source |-> source, similarity |-> sim,
     relevance |-> Nowhere]

Rows(hits) == {hits[i].row : i \in DOMAIN hits}
RankOf(leg, p) == CHOOSE i \in DOMAIN leg : leg[i].row = p
First(s, n) == SubSeq(s, 1, IF Len(s) < n THEN Len(s) ELSE n)

\* The members of S in their order, where ahead[x] are those that come before x.
InOrder(S, ahead) ==
    [i \in 1 .. Cardinality(S) |-> CHOOSE x \in S : Cardinality(ahead[x]) = i - 1]

\* The items of s at those places.
Those(s, places) ==
    LET order == InOrder(places, [i \in places |-> {j \in places : j < i}])
    IN  [k \in DOMAIN order |-> s[order[k]]]

\* sorted(..., key=lambda item: -item.score): stable, highest score first.
ByScore(hits) ==
    LET ahead == [j \in DOMAIN hits |->
                    {i \in DOMAIN hits : \/ hits[i].score > hits[j].score
                                         \/ hits[i].score = hits[j].score /\ i < j}]
        order == InOrder(DOMAIN hits, ahead)
    IN  [k \in DOMAIN order |-> hits[order[k]]]

--------------------------------------------------------------------------------
\* The two legs.  world.similarity is that of each row to the question,
\* world.lexical the chunks that match its words, best ts_rank first, and
\* world.rank the rank.  No candidates means the whole project.

Within(candidates, p) == candidates = {} \/ ContractOf[p] \in candidates

\* vector_metadata: a filter of one type is pushed into the vector search, whatever
\* became of the candidates (one risk band and unlimited liability likewise).
OfTheType(plan, p) == Cardinality(plan.types) = 1 => TypeOf[ContractOf[p]] \in plan.types

VectorSearch(world, plan, budget, candidates) ==
    LET near  == {p \in Passages : /\ LevelOf[p] = budget.level
                                   /\ Within(candidates, p) /\ OfTheType(plan, p)
                                   /\ world.similarity[p] >= budget.floor}
        ahead == [q \in near |->
                    {p \in near : \/ world.similarity[p] > world.similarity[q]
                                  \/ world.similarity[p] = world.similarity[q] /\ p < q}]
        best  == First(InOrder(near, ahead), budget.limit)
    IN  [i \in DOMAIN best |-> Hit(best[i], (Unit \div 100) * world.similarity[best[i]],
                                   "vector", world.similarity[best[i]])]

\* There is no lexical index over summaries; at every other level the rows
\* searched are the chunks.
KeywordSearch(world, budget, candidates) ==
    LET matching == {i \in DOMAIN world.lexical : Within(candidates, world.lexical[i])}
        best     == First(Those(world.lexical, matching), budget.limit)
    IN  IF budget.level = "summary" THEN <<>>
        ELSE [i \in DOMAIN best |-> Hit(best[i], world.rank[best[i]], "keyword", Nowhere)]

\* A row the vector leg found keeps its similarity whichever record of it is kept.
SimilarityOfRecord(vector, keyword, p) ==
    IF p \in Rows(keyword) THEN Nowhere ELSE vector[RankOf(vector, p)].similarity

FusedSimilarity(vector, keyword, p) ==
    IF p \in Rows(vector) THEN vector[RankOf(vector, p)].similarity ELSE Nowhere

\* Reciprocal rank fusion: a row scores 1/(60+rank) in each leg that found it,
\* the best `limit` rows are kept, and a row found by both is "fused".
Fuse(vector, keyword, limit) ==
    LET share(leg, p) == IF p \in Rows(leg) THEN Unit \div (60 + RankOf(leg, p)) ELSE 0
        seen == vector \o Those(keyword, {i \in DOMAIN keyword : keyword[i].row \notin Rows(vector)})
        fuse(h) == Hit(h.row, share(vector, h.row) + share(keyword, h.row),
                       IF h.row \in Rows(vector) \cap Rows(keyword) THEN "fused" ELSE h.source,
                       FusedSimilarity(vector, keyword, h.row))
    IN  First(ByScore([i \in DOMAIN seen |-> fuse(seen[i])]), limit)

\* A question that could not be embedded has no vector leg; a keyword search
\* never had one.
VectorLeg(world, plan, budget, candidates) ==
    IF plan.mode = "keyword" \/ ~plan.embedded THEN <<>>
    ELSE VectorSearch(world, plan, budget, candidates)

KeywordLeg(world, plan, budget, candidates) ==
    IF plan.mode = "semantic" THEN <<>> ELSE KeywordSearch(world, budget, candidates)

\* The levels whose passages can answer a question; a summary only selects
\* documents.
AnsweringLevelsWithSummaries == {"summary", "clause", "chunk"}
AnsweringLevels == {"clause", "chunk"}

\* One level.  The summaries found narrow the candidates of the levels below;
\* the similarities measured at an answering level are noted before fusion
\* replaces the scores.
SearchLevel(world, plan, found, budget) ==
    LET vector  == VectorLeg(world, plan, budget, found.candidates)
        keyword == KeywordLeg(world, plan, budget, found.candidates)
        merged  == IF plan.mode = "hybrid" THEN Fuse(vector, keyword, budget.limit)
                   ELSE vector \o keyword
    IN  [hits |-> found.hits \o merged,
         measured |-> found.measured \union
            (IF budget.level \in AnsweringLevels
             THEN {vector[i].similarity : i \in DOMAIN vector} ELSE {}),
         candidates |-> IF budget.level = "summary" /\ merged # <<>>
                        THEN {ContractOf[p] : p \in Rows(merged)}
                        ELSE found.candidates]

\* The levels in turn.
Searched(world, plan, candidates) ==
    FoldLeft(LAMBDA found, budget : SearchLevel(world, plan, found, budget),
             [hits |-> <<>>, measured |-> {}, candidates |-> candidates], plan.levels)

--------------------------------------------------------------------------------
\* Expansion.  A neighbour scores half of the hit that pulled it in, a clause
\* reached through the graph four tenths of it.

AtLevel(hits, level) == Those(hits, {i \in DOMAIN hits : LevelOf[hits[i].row] = level})

\* The chunks around each chunk hit, once each, and none that a hit already shows.
Widen(found, seed) ==
    LET around == Neighbours[seed.row]
        fresh  == Those(around, {i \in DOMAIN around : around[i] \notin found.seen})
    IN  [seen |-> found.seen \union ToSet(fresh),
         more |-> found.more \o [i \in DOMAIN fresh |->
                     Hit(fresh[i], seed.score \div 2, "neighbour", Nowhere)]]

ExpandNeighbours(hits, maxChunks) ==
    LET seeds == First(AtLevel(hits, "chunk"), maxChunks)
        shown == {ChunkOf[p] : p \in Rows(hits)} \ {Nowhere}
    IN  FoldLeft(Widen, [seen |-> shown, more |-> <<>>], seeds).more

\* The clause of the same contract that a clause hit refers to: of several of that
\* number the one that an unordered query returns first.  A number followed for
\* one contract is not followed again for another.
Referred(seed, n) ==
    {p \in Passages : /\ LevelOf[p] = "clause" /\ ContractOf[p] = ContractOf[seed.row]
                      /\ NumberOf[p] = n}
TheReferred(seed, n) == CHOOSE p \in Referred(seed, n) : TRUE

Follow(found, seed) ==
    LET edges == EdgesOf[NumberOf[seed.row]]
        fresh == {i \in DOMAIN edges : /\ edges[i] \notin found.seen
                                       /\ \A j \in 1 .. i - 1 : edges[j] # edges[i]}
        there == Those(edges, {i \in fresh : Referred(seed, edges[i]) # {}})
    IN  [seen |-> found.seen \union {edges[i] : i \in fresh},
         more |-> found.more \o [i \in DOMAIN there |->
                     Hit(TheReferred(seed, there[i]),
                         (seed.score * 2) \div 5, "graph", Nowhere)]]

ExpandGraph(hits) ==
    FoldLeft(Follow, [seen |-> {}, more |-> <<>>], First(AtLevel(hits, "clause"), 10)).more

Expanded(plan, hits) ==
    LET wide == IF plan.widen THEN hits \o ExpandNeighbours(hits, plan.maxChunks) ELSE hits
    IN  IF plan.graph THEN wide \o ExpandGraph(wide) ELSE wide

--------------------------------------------------------------------------------
\* De-duplication: the best-scored record of each row, then no passage whose
\* text an already admitted one repeats.

Repeats(p, q) ==
    LET smaller == IF Cardinality(Words[p]) < Cardinality(Words[q])
                   THEN Cardinality(Words[p]) ELSE Cardinality(Words[q])
    IN  /\ Words[p] # {} /\ Words[q] # {}
        /\ 10 * Cardinality(Words[p] \cap Words[q]) >= 8 * smaller

\* A better-scored record of a row a search found takes over its provenance.
Place(best, h) ==
    LET i == RankOf(best, h.row)
        found == best[i].source \in {"vector", "keyword", "fused"}
    IN  IF h.row \notin Rows(best) THEN Append(best, h)
        ELSE IF h.score <= best[i].score THEN best
        ELSE [best EXCEPT ![i] = [h EXCEPT !.source = IF found THEN best[i].source
                                                      ELSE h.source]]

BestOfEach(hits) == FoldLeft(Place, <<>>, hits)

Admit(kept, h) ==
    IF \E p \in Rows(kept) : Repeats(h.row, p) THEN kept ELSE Append(kept, h)

SuppressNearDuplicates(hits) == FoldLeft(Admit, <<>>, hits)

\* Suppression taken in the order the passages arrived, before the sort.
DeduplicateUnsorted(hits) == ByScore(SuppressNearDuplicates(BestOfEach(hits)))

Deduplicate(hits) == SuppressNearDuplicates(ByScore(BestOfEach(hits)))

--------------------------------------------------------------------------------
\* Re-ranking.  A ranking is the model's answer: a sequence of entries, each an
\* index (counted from 0, perhaps out of range or repeated) and a score; no
\* entries for a call that failed or an answer of another shape.

IsExpansion(h) == h.source \in {"neighbour", "graph"}

Primary(hits)    == Those(hits, {i \in DOMAIN hits : ~IsExpansion(hits[i])})
Expansions(hits) == Those(hits, {i \in DOMAIN hits : IsExpansion(hits[i])})

\* The places of a ranking that name the i-th hit; the last score given to it
\* counts, and the place of its first mention.
Named(ranking, i) == {k \in DOMAIN ranking : ranking[k].index = i - 1}
ScoreOf(ranking, i) == ranking[Max(Named(ranking, i))].score
Mention(ranking, i) == Min(Named(ranking, i))

\* The hits with the relevance the model gave them, in its order; the ones it
\* did not score keep their order behind.
Apply(ranking, hits) ==
    LET scored == {i \in DOMAIN hits : Named(ranking, i) # {}}
        before(i, j) == \/ ScoreOf(ranking, i) > ScoreOf(ranking, j)
                        \/ /\ ScoreOf(ranking, i) = ScoreOf(ranking, j)
                           /\ Mention(ranking, i) < Mention(ranking, j)
        ahead == [j \in DOMAIN hits |->
                    IF j \in scored THEN {i \in scored : before(i, j)}
                    ELSE scored \union {i \in DOMAIN hits : i < j}]
        judged(i) == IF i \in scored THEN [hits[i] EXCEPT !.relevance = ScoreOf(ranking, i)]
                     ELSE hits[i]
        order == InOrder(DOMAIN hits, ahead)
    IN  [k \in DOMAIN order |-> judged(order[k])]

\* One passage is not ranked against itself.
Ranked(ranking, hits) == IF Len(hits) <= 1 THEN hits ELSE Apply(ranking, hits)

\* The best topK hits in the model's order, those past the cut behind them in the
\* order they had, the expansions last.
RerankDroppingTail(ranking, hits, topK) ==
    First(Ranked(ranking, Primary(hits)), topK) \o Expansions(hits)

Rerank(ranking, hits, topK) ==
    LET ranked == Ranked(ranking, Primary(hits))
        kept   == First(ranked, topK)
        tail   == Those(hits, {i \in DOMAIN hits : /\ ~IsExpansion(hits[i])
                                                   /\ hits[i].row \notin Rows(kept)})
    IN  kept \o [i \in DOMAIN tail |-> ranked[RankOf(ranked, tail[i].row)]] \o Expansions(hits)

--------------------------------------------------------------------------------
\* The contracts of the projection that the plan's filters admit.
Matched(plan) ==
    {c \in DOMAIN TypeOf : /\ plan.named = {} \/ c \in plan.named
                           /\ plan.types = {} \/ TypeOf[c] \in plan.types}

\* A pre-filter that overflows narrows nothing: the project bounds the search.
Truncated(plan) == Cardinality(Matched(plan)) > MaxCandidates
Candidates(plan) == IF Truncated(plan) THEN {} ELSE Matched(plan)

\* The searches of the plan; none when it names no project, when it is answered
\* from the projection alone (no levels), or when its filters matched nothing.
Found(world, plan) ==
    LET filtered == plan.named # {} \/ plan.types # {}
        searched == plan.scoped /\ (Matched(plan) # {} \/ ~filtered)
    IN  Searched(world, [plan EXCEPT !.levels = IF searched THEN @ ELSE <<>>], Candidates(plan))

\* The evidence, in the order it is to be used.
Evidence(world, plan, ranking) ==
    LET evidence == Deduplicate(Expanded(plan, Found(world, plan).hits))
    IN  IF plan.rerank THEN Rerank(ranking, evidence, plan.topK) ELSE evidence

--------------------------------------------------------------------------------
\* What the evidence must be, whatever the searches found.

\* Each passage found is offered, or a passage of at least its score that repeats
\* its text is.
NothingLost(found, evidence) ==
    \A i \in DOMAIN found : \E j \in DOMAIN evidence :
        /\ evidence[j].row = found[i].row \/ Repeats(evidence[j].row, found[i].row)
        /\ evidence[j].score >= found[i].score

\* No text is offered twice, and no expansion before a hit once re-ranked.
NothingTwice(evidence, reranked) ==
    \A i, j \in DOMAIN evidence : i < j =>
        /\ evidence[i].row # evidence[j].row
        /\ ~Repeats(evidence[i].row, evidence[j].row)
        /\ reranked /\ IsExpansion(evidence[i]) => IsExpansion(evidence[j])

\* A passage the vector leg found is offered with the similarity it measured.
SimilarityKept(world, evidence) ==
    \A i \in DOMAIN evidence : evidence[i].source \in {"vector", "fused"} =>
        evidence[i].similarity = world.similarity[evidence[i].row]

\* Contracts the question named are the only ones quoted.
InScope(plan, evidence) ==
    plan.named # {} => \A i \in DOMAIN evidence : ContractOf[evidence[i].row] \in plan.named
================================================================================
