----------------------------- MODULE MCDocuments -----------------------------
(***************************************************************************)
(* What happens to documents on the way in, and what answers are made of:  *)
(* uploads, the search for clauses, the plan of extraction calls, a call   *)
(* with its retries, one extraction and what it leaves behind, the vector   *)
(* index, and a question from retrieval to the vouched answer.  They meet  *)
(* only in the database, so a behaviour is one of one part and the others  *)
(* rest.                                                                   *)
(***************************************************************************)
EXTENDS Answering, BatchPlanner, RetryCall, EmbeddingIndex, Uploads, ClauseDetection,
        ExtractionEngine, ContractKnowledge

VARIABLE part      \* the part that works

-----------------------------------------------------------------------------
(* Eleven passages: summaries, clauses and chunks of two contracts, of which *)
(* some say nearly the same, and a chunk of a third, of another type; clauses *)
(* 5 and 8 refer to each other, and the second contract has two clauses 8.  *)

MCPassages == 1 .. 11
MCLevelOf == [p \in 1 .. 11 |-> IF p <= 2 THEN "summary"
                                ELSE IF p <= 6 \/ p = 10 THEN "clause" ELSE "chunk"]
MCContractOf == <<1, 2, 1, 2, 1, 2, 1, 1, 2, 2, 3>>
MCTypeOf == <<"nda", "nda", "msa">>
MCChunkOf == [p \in 1 .. 11 |-> IF p <= 2 THEN Nowhere ELSE <<7, 9, 8, 9, 7, 8, 9, 9, 11>>[p - 2]]
MCNumberOf == <<0, 0, 5, 5, 8, 8, 0, 0, 0, 8, 0>>
MCWords == <<{11}, {12}, {1, 2, 3}, {8}, {14, 15}, {9, 10}, {1, 2, 3, 4, 5}, {4, 5, 6, 7}, {8, 13},
             {16, 17}, {18, 19}>>
MCNeighbours == [p \in {7, 8, 9, 11} |-> CASE p = 7 -> <<8>> [] p = 8 -> <<7>> [] OTHER -> <<>>]
MCEdgesOf == [n \in {5, 8} |-> IF n = 5 THEN <<8>> ELSE <<5>>]

Orders(S) == UNION {{s \in [1 .. n -> S] : \A i, j \in 1 .. n : i # j => s[i] # s[j]} :
                    n \in 0 .. Cardinality(S)}
(* Ranks such that half of the best outscores the next.                     *)
Ranked3(x) == [p \in 1 .. 11 |-> LET at == {i \in DOMAIN x : x[i] = p} IN
                 IF at = {} THEN 0 ELSE Unit \div <<2, 5, 12>>[Min(at)]]
MCWorlds ==
  {[similarity |-> <<60, d, a, b, 30, 10, k, 40, d - 10, 30, 50>>, lexical |-> x, rank |-> Ranked3(x)] :
     d \in {55, 10}, a \in {90, 40}, b \in {50, 10}, k \in {80, 10},
     x \in {y \in Orders(7 .. 9) : Len(y) # 2} \union {<<11>>, <<11, 9>>, <<8, 11>>}}
L(level, limit) == [level |-> level, limit |-> limit, floor |-> 20]
Lower == <<L("clause", 3), L("chunk", 2)>>
MCPlans == {[mode |-> mode, embedded |-> TRUE, named |-> c[1], types |-> c[2], levels |-> v,
           widen |-> TRUE, graph |-> TRUE, maxChunks |-> 2, scoped |-> TRUE,
           rerank |-> TRUE, topK |-> 2, threshold |-> 45] :
           mode \in {"hybrid", "semantic", "keyword"}, c \in {<<{}, {}>>, <<{1}, {}>>, <<{}, {"nda"}>>, <<{}, {"lease"}>>},
           v \in {Lower, <<L("summary", 1)>> \o Lower}}
MCRankings == {<<>>, <<[index |-> 1, score |-> 90], [index |-> 0, score |-> 10]>>}
MCCosts == {<<9, 9, 20, 22, 15, 18, 20, 25, 20, 21, 20>>, <<9, 9, 200, 0, 90, 10, 40, 70, 0, 30, 5>>}
MCAsks == [budget : {400, 220}, turns : {<<>>, <<90, 10, 10, 5, 5, 5, 5>>, <<90>>},
         metadataCost : {0, 45}, clausesFirst : BOOLEAN, maxCitations : {2, 6},
         outcome : {"failed", "refused", "ok"}]
MCReplies == [groups : {<<>>, <<<<1>>>>, <<<<1, 9>>, <<2>>>>, <<<<9>>>>, <<<<4, 3>>, <<1, 2>>>>},
          long : BOOLEAN, saysNothing : BOOLEAN]
MCFollowed ==
  {q \in [world : MCWorlds, plan : MCPlans, ranking : MCRankings] :
     /\ q.world.lexical = <<8, 7, 9>> /\ q.ranking # <<>> /\ q.plan.mode = "hybrid"
     /\ q.plan.named = {} /\ q.plan.types = {}
     /\ q.world.similarity[2] = 55 /\ q.world.similarity[3] = 90}

-----------------------------------------------------------------------------
(* Uploads: batches that meet in opposite orders, one of them with the same *)
(* document twice; "w" is the Word file.                                    *)
MCBatches == {<<"a", "a", "w">>, <<"w", "a">>}

(* Extraction calls: half of the evidence in common.                        *)
MCOverlap == <<1, 2>>

(* Extraction: three clause categories, documents with and without evidence *)
(* for some; the order of cleanup.                                          *)
MCPriority  == <<"term", "law", "cap">>
MCEvidenced == {{"term", "law", "cap", "financial", "dates"}, {"term", "cap", "dates", "risks"}}
MCTables == <<"vectors", "obligations", "clauses", "chunks">>

(* The index: one summary and two chunks, that may come out alike.          *)
MCLevels   == <<"summary", "chunk">>
MCShape    == [l \in {"summary", "chunk"} |->
                 IF l = "summary" THEN {<<"s">>} ELSE {<<"a", "b">>, <<"b", "b">>}]
MCSpaces   == <<"old", "new">>
MCReuseKey == [s \in {"old", "new"} |-> s]
(* The same model, bought from another provider.                            *)
MCSameModel == [s \in {"old", "new"} |-> "model"]

(* Four pages, a window of two every page, and documents with a heading that *)
(* names a clause, twice; none; one between windows; two; and a thin middle. *)
(* What follows the first window is a page away, and what follows that two.  *)
MCPageOf == <<1, 1, 2, 3, 4, 4>>
Titled(title) == [kind |-> "heading", size |-> 1, title |-> title]
Text(size)    == [kind |-> "body", size |-> size, title |-> NotFound]
Footer        == [kind |-> "furniture", size |-> 1, title |-> NotFound]
Signed        == [kind |-> "signature", size |-> 2, title |-> NotFound]
MCDocs == {
    <<Titled("term"), Text(2), Text(2), Titled("term"), Text(1), Signed>>,
    <<Text(2), Footer, Text(3), Text(1), Text(1), Text(2)>>,
    <<Text(1), Titled("other"), Text(3), Text(2), Footer, Text(1)>>,
    <<Titled("other"), Text(3), Titled("law"), Text(3), Text(2), Text(2)>>,
    <<Titled("other"), Text(2), Text(1), Footer, Text(2), Titled("other")>>}

-----------------------------------------------------------------------------
(* What a part that rests looks like.                                       *)
KnowledgeRests == KnowledgeInit /\ knowledge = {}
EngineRests    == EngineInit /\ only = {} /\ "law" \in evidenced
DetectionRests == doc = [p \in Paragraph |-> Text(1)] /\ DetectionInit
QuestionRests  == stage = "rests" /\ call = <<>> /\ prepared = <<>> /\ reply = <<>>
PlannerRests   == chunks = <<>> /\ tokens = <<>> /\ batches = {} /\ batch = {} /\ next = 1
RetryRests     == RetryInit /\ bounded
EmbeddingRests == EmbeddingInit /\ \A c \in Contract : content[c].text["chunk"] = <<"a", "b">>
UploadsRest    == UploadsInit /\ driver = "broker" /\ contract[1].hash = "a"

Init ==
    \/ /\ part = "question" /\ AskInit
       /\ PlannerRests /\ RetryRests /\ EmbeddingRests /\ UploadsRest
       /\ DetectionRests /\ EngineRests /\ KnowledgeRests
    \/ /\ part = "planner" /\ PlannerInit
       /\ QuestionRests /\ RetryRests /\ EmbeddingRests /\ UploadsRest
       /\ DetectionRests /\ EngineRests /\ KnowledgeRests
    \/ /\ part = "retry" /\ RetryInit
       /\ QuestionRests /\ PlannerRests /\ EmbeddingRests /\ UploadsRest
       /\ DetectionRests /\ EngineRests /\ KnowledgeRests
    \/ /\ part = "embedding" /\ EmbeddingInit
       /\ QuestionRests /\ PlannerRests /\ RetryRests /\ UploadsRest
       /\ DetectionRests /\ EngineRests /\ KnowledgeRests
    \/ /\ part = "uploads" /\ UploadsInit
       /\ QuestionRests /\ PlannerRests /\ RetryRests /\ EmbeddingRests
       /\ DetectionRests /\ EngineRests /\ KnowledgeRests
    \/ /\ part = "detection" /\ doc \in MCDocs /\ DetectionInit
       /\ QuestionRests /\ PlannerRests /\ RetryRests /\ EmbeddingRests
       /\ UploadsRest /\ EngineRests /\ KnowledgeRests
    \/ /\ part = "knowledge" /\ KnowledgeInit
       /\ QuestionRests /\ PlannerRests /\ RetryRests /\ EmbeddingRests
       /\ UploadsRest /\ DetectionRests /\ EngineRests
    \/ /\ part = "engine" /\ EngineInit
       /\ QuestionRests /\ PlannerRests /\ RetryRests /\ EmbeddingRests
       /\ UploadsRest /\ DetectionRests /\ KnowledgeRests

Next ==
    /\ UNCHANGED part
    /\ \/ /\ part = "question" /\ AskNext
          /\ UNCHANGED <<plannerVars, retryVars, embeddingVars, uploadVars,
                       detectionVars, engineVars, knowledgeVars>>
       \/ /\ part = "planner" /\ PlannerNext
          /\ UNCHANGED <<questionVars, retryVars, embeddingVars, uploadVars,
                       detectionVars, engineVars, knowledgeVars>>
       \/ /\ part = "retry" /\ RetryNext
          /\ UNCHANGED <<questionVars, plannerVars, embeddingVars, uploadVars,
                       detectionVars, engineVars, knowledgeVars>>
       \/ /\ part = "embedding" /\ EmbeddingNext
          /\ UNCHANGED <<questionVars, plannerVars, retryVars, uploadVars,
                       detectionVars, engineVars, knowledgeVars>>
       \/ /\ part = "uploads" /\ UploadsNext
          /\ UNCHANGED <<questionVars, plannerVars, retryVars, embeddingVars,
                       detectionVars, engineVars, knowledgeVars>>
       \/ /\ part = "detection" /\ DetectionNext
          /\ UNCHANGED <<questionVars, plannerVars, retryVars, embeddingVars,
                       uploadVars, engineVars, knowledgeVars>>
       \/ /\ part = "knowledge" /\ KnowledgeNext
          /\ UNCHANGED <<questionVars, plannerVars, retryVars, embeddingVars,
                       uploadVars, detectionVars, engineVars>>
       \/ /\ part = "engine" /\ EngineNext
          /\ UNCHANGED <<questionVars, plannerVars, retryVars, embeddingVars,
                       uploadVars, detectionVars, knowledgeVars>>

Spec == Init /\ [][Next]_<<part, questionVars, plannerVars, retryVars, embeddingVars, uploadVars,
                          detectionVars, engineVars, knowledgeVars>>
=============================================================================
