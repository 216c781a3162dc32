------------------------------- MODULE Answering -------------------------------
(***************************************************************************)
(* From the evidence to the answer: the copilot's retry and guardrail       *)
(* (services/copilot.py), the context package (ai/retrieval/context.py) and *)
(* the validation of the model's text (ai/rag/engine.py).                   *)
(*                                                                          *)
(* Costs are estimated tokens.  The model's text is the sequence of its     *)
(* citation groups, with whether it is long enough to state terms and       *)
(* whether it says that the evidence does not cover the question.           *)
(***************************************************************************)
EXTENDS Retrieval

CONSTANTS Worlds, Plans, Rankings,  \* what the index holds, what is asked of it, what a
                                    \* re-ranker says
          Asks, Costs, Replies,     \* how it is to be answered, what passages cost, what
                                    \* the model says
          Followed                  \* bound: the questions followed up to an answer

VARIABLES stage, call,       \* a question, and what was asked last
          prepared, reply    \* what was found, what was answered

questionVars == <<stage, call, prepared, reply>>

\* Each turn costs its text and 8 tokens around it.
CostOfTurns(turns) ==
    LET cost == [i \in DOMAIN turns |-> turns[i] + 8] IN MapThenSumSet(LAMBDA i : cost[i], DOMAIN turns)

\* The history kept: the newest of the last six turns that fit 15% of the
\* budget, the newest one in any case.  turns holds the cost of each turn.
TrimHistory(turns, budget) ==
    LET recent  == SubSeq(turns, IF Len(turns) > 6 THEN Len(turns) - 5 ELSE 1, Len(turns))
        ceiling == (budget * 15) \div 100
        from(i) == SubSeq(recent, i, Len(recent))
        fits    == {i \in DOMAIN recent : i = Len(recent) \/ CostOfTurns(from(i)) <= ceiling}
    IN  IF recent = <<>> THEN <<>> ELSE from(Min(fits))

\* Clauses first for the intents that want whole clauses, expansions last, the
\* retrieved order otherwise.
Prioritise(evidence, clausesFirst) ==
    LET first == {i \in DOMAIN evidence : /\ ~IsExpansion(evidence[i])
                                          /\ clausesFirst /\ LevelOf[evidence[i].row] = "clause"}
        rest  == {i \in DOMAIN evidence : ~IsExpansion(evidence[i])} \ first
    IN  Those(evidence, first) \o Those(evidence, rest) \o Expansions(evidence)

MinItems == 3

\* Is there room for a passage of this cost after n citations?
AdmitsWithoutHistory(package, cost, budget, n) ==
    n < MinItems \/ (cost <= budget \div 4 /\ package.evidence + cost <= budget)

Admits(package, cost, budget, n) ==
    n < MinItems \/ (cost <= budget \div 4 /\ package.spent + cost <= budget)

\* costOf gives the cost of each passage's text, 0 when it is blank; 30 tokens
\* are added for its header.
Offer(ask, costOf, package, h) ==
    LET n    == Len(package.citations)
        cost == costOf[h.row] + 30
    IN  IF n >= ask.maxCitations THEN [package EXCEPT !.dropped = @ + 1]
        ELSE IF costOf[h.row] = 0 THEN package
        ELSE IF ~Admits(package, cost, ask.budget, n) THEN [package EXCEPT !.dropped = @ + 1]
        ELSE [package EXCEPT !.citations = Append(@, h), !.spent = @ + cost, !.evidence = @ + cost]

Assemble(evidence, ask, costOf) ==
    LET turns == TrimHistory(ask.turns, ask.budget)
        start == ask.metadataCost + CostOfTurns(turns)
    IN  FoldLeft(LAMBDA package, h : Offer(ask, costOf, package, h),
                 [citations |-> <<>>, turns |-> turns, spent |-> start, evidence |-> 0,
                  dropped |-> 0],
                 Prioritise(evidence, ask.clausesFirst))

--------------------------------------------------------------------------------
\* Validation.  The label of a citation is its place in the package.

Labels(package) == 1 .. Len(package.citations)
Cited(groups) == UNION {ToSet(groups[i]) : i \in DOMAIN groups}

\* A group goes only when all of its labels are fabricated.
StripWholeGroups(groups, invalid) ==
    Those(groups, {i \in DOMAIN groups : ~(ToSet(groups[i]) \subseteq invalid)})

\* A group that was entirely fabricated disappears, a mixed one keeps the labels
\* that resolve.
StripLabels(groups, invalid) ==
    LET left == [i \in DOMAIN groups |->
                   Those(groups[i], {k \in DOMAIN groups[i] : groups[i][k] \notin invalid})]
    IN  Those(left, {i \in DOMAIN left : left[i] # <<>>})

\* n/d to the nearest whole number.
Rounded(n, d) == (2 * n + d) \div (2 * d)

\* Confidence, in ten-thousandths: 55% coverage of up to five citations, 45% the
\* mean strength of those cited (their relevance or similarity, 50% when none
\* was measured), halved
\* for a fabricated label and cut by a tenth for dropped evidence.
Confidence(package, cited, invalid, says_nothing) ==
    LET offered  == Len(package.citations)
        m        == IF offered < 5 THEN offered ELSE 5
        c        == IF Cardinality(cited) < m THEN Cardinality(cited) ELSE m
        strength == [l \in cited |-> IF package.citations[l].relevance # Nowhere
                                     THEN package.citations[l].relevance
                                     ELSE package.citations[l].similarity]
        measured == {l \in cited : strength[l] # Nowhere}
        k == IF measured = {} THEN 1 ELSE Cardinality(measured)
        s == IF measured = {} THEN 50
             ELSE MapThenSumSet(LAMBDA l : strength[l], measured)
        f == (IF invalid = {} THEN 20 ELSE 10) * (IF package.dropped = 0 THEN 10 ELSE 9)
    IN  IF cited = {} THEN (IF ~says_nothing THEN 1500 ELSE IF offered > 0 THEN 7500 ELSE 6000)
        ELSE Rounded((5500 * c * k + 45 * s * m) * f, 200 * m * k)

Band(confidence) == IF confidence >= 8000 THEN "high"
                    ELSE IF confidence >= 5500 THEN "medium" ELSE "low"

Validate(text, package) ==
    LET labels  == Cited(text.groups)
        cited   == labels \cap Labels(package)
        invalid == labels \ Labels(package)
        score   == Confidence(package, cited, invalid, text.saysNothing)
    IN  [kind |-> "answer",
         groups |-> StripLabels(text.groups, invalid),
         citations |-> cited,
         invalid |-> invalid,
         confidence |-> score,
         needsReview |-> \/ invalid # {}
                         \/ text.long /\ cited = {} /\ ~text.saysNothing
                         \/ Band(score) = "low"]

--------------------------------------------------------------------------------
\* The copilot.  prepare(): a search that a document type emptied is repeated
\* without it; then the best similarity at an answering level must reach the
\* threshold.

Prepare(world, plan, ranking) ==
    LET retry == Evidence(world, plan, ranking) = <<>> /\ plan.types # {}
        final == IF retry THEN [plan EXCEPT !.types = {}] ELSE plan
        best  == Max({0} \cup Found(world, final).measured)
        found == Evidence(world, final, ranking)
    IN  [plan |-> final, evidence |-> found, relaxed |-> retry,
         sufficient |-> found # <<>> /\ best >= plan.threshold]

\* The passages shown behind an answer: those it cites, or all the package
\* offers when it cites none.
Sources(package, cited) == IF cited # {} THEN cited ELSE Labels(package)

\* answer(): no generation when the guardrail fired, none from an empty package
\* either, and the passages alone when the model could not be reached.  text is
\* what the model says, ask.outcome what became of the call.
Answer(ready, ask, costOf, text) ==
    LET package == Assemble(ready.evidence, ask, costOf)
        without(kind, sources, review) ==
            [kind |-> kind, groups |-> <<>>, citations |-> {}, invalid |-> {},
             confidence |-> 0, needsReview |-> review, sources |-> sources]
        answer == Validate(text, package)
    IN  IF ~ready.sufficient THEN without("insufficient", {}, FALSE)
        ELSE IF package.citations = <<>> /\ ask.metadataCost = 0 THEN without("empty", {}, FALSE)
        ELSE CASE ask.outcome = "failed"  -> without("unavailable", Labels(package), TRUE)
               [] ask.outcome = "refused" -> without("refused", Labels(package), TRUE)
               [] OTHER -> [kind |-> answer.kind, groups |-> answer.groups,
                            citations |-> answer.citations, invalid |-> answer.invalid,
                            confidence |-> answer.confidence,
                            needsReview |-> answer.needsReview,
                            sources |-> Sources(package, answer.citations)]

--------------------------------------------------------------------------------
\* What a package and an answer must be.

\* Every passage is cited, counted as dropped or blank; nothing is dropped before
\* the minimum is cited; the budget holds from there on, history included; and no
\* expansion comes before a hit.
PackageFits(package, evidence, ask, costOf) ==
    LET cited == Len(package.citations)
        blank == Cardinality({i \in DOMAIN evidence : costOf[evidence[i].row] = 0})
    IN  /\ cited + package.dropped \in Len(evidence) - blank .. Len(evidence)
        /\ package.dropped > 0 => cited >= Min({MinItems, ask.maxCitations})
        /\ package.spent <= ask.budget \/ cited <= MinItems
        /\ \/ 100 * CostOfTurns(package.turns) <= 15 * ask.budget
           \/ Len(package.turns) = 1
        /\ \A i, j \in 1 .. cited :
              i < j /\ IsExpansion(package.citations[i]) => IsExpansion(package.citations[j])

\* Every label shown resolves to a passage that was offered; what needs no review
\* cites something or says that nothing answers; a fabricated label is never
\* passed over, nor does it leave a cited answer more than half sure.
Accountable(answer, text, package) ==
    /\ answer.sources \subseteq Labels(package)
    /\ Cited(answer.groups) = answer.citations
    /\ answer.citations \subseteq answer.sources
    /\ answer.kind = "answer" => 
          /\ answer.citations = Cited(text.groups) \cap Labels(package)
          /\ ~answer.needsReview => \/ answer.citations # {}
                                    \/ text.saysNothing
          /\ ~answer.needsReview => answer.confidence >= 5500
          /\ answer.invalid # {} => /\ answer.needsReview
                                    /\ answer.citations # {} => answer.confidence <= 5000

\* The passage whose similarity let the question through is among the evidence,
\* or one that repeats it is.
Vouched(world, ready) ==
    \E i \in DOMAIN ready.evidence : \E p \in Passages :
        /\ LevelOf[p] \in {"clause", "chunk"}
        /\ world.similarity[p] >= ready.plan.threshold
        /\ \/ ready.evidence[i].row = p
           \/ Repeats(ready.evidence[i].row, p)
--------------------------------------------------------------------------------
\* A question, from its plan to the answer.

Wanted == [index : Int, score : 0 .. 100]    \* an entry of a ranking

PlanOK(plan) ==
    /\ plan \in [mode : {"hybrid", "semantic", "keyword"}, embedded : BOOLEAN,
                 named : SUBSET Nat, types : SUBSET STRING, scoped : BOOLEAN,
                 levels : Seq([level : {"summary", "clause", "chunk"}, limit : Nat, floor : Nat]),
                 widen : BOOLEAN, maxChunks : Nat, graph : BOOLEAN,
                 rerank : BOOLEAN, topK : Nat, threshold : Nat]
    /\ IsFiniteSet(plan.named) /\ Cardinality(plan.named) <= MaxCandidates
    /\ \A i, j \in DOMAIN plan.levels : i < j =>
          <<plan.levels[i].level, plan.levels[j].level>>
             \in {<<"summary", "clause">>, <<"summary", "chunk">>, <<"clause", "chunk">>}

ASSUME QuestionAssumption ==
    /\ \A world \in Worlds :
          /\ world.similarity \in [Passages -> 0 .. 100]
          /\ world.lexical \in Seq({p \in Passages : LevelOf[p] = "chunk"})
          /\ IsInjective(world.lexical) /\ world.rank \in [Passages -> Nat]
          /\ \A i, j \in DOMAIN world.lexical :
                i < j => world.rank[world.lexical[i]] >= world.rank[world.lexical[j]]
    /\ \A plan \in Plans : PlanOK(plan)
    /\ Rankings \subseteq Seq(Wanted)
    /\ \A ask \in Asks : /\ ask.budget \in Nat /\ ask.turns \in Seq(Nat)
                         /\ ask.metadataCost \in Nat /\ ask.maxCitations \in Nat
                         /\ ask.clausesFirst \in BOOLEAN
                         /\ ask.outcome \in {"failed", "refused", "ok"}
    /\ Costs \subseteq [Passages -> Nat]
    /\ \A text \in Replies : /\ text.groups \in Seq(Seq(Nat))
                             /\ text.long \in BOOLEAN /\ text.saysNothing \in BOOLEAN

Questions == [world : Worlds, plan : Plans, ranking : Rankings]

AskInit ==
    /\ call \in Questions
    /\ stage = "asked" /\ prepared = <<>> /\ reply = <<>>

AskPrepare ==
    /\ stage = "asked" /\ stage' = "prepared"
    /\ prepared' = Prepare(call.world, call.plan, call.ranking)
    /\ UNCHANGED <<call, reply>>

AskAnswer ==
    /\ stage = "prepared" /\ stage' = "answered"
    /\ call \in Followed
    /\ \E ask \in Asks, costOf \in Costs, text \in Replies :
          /\ ask.outcome = "ok" \/ text.groups = <<>>
          /\ call' = [ask |-> ask, costOf |-> costOf, text |-> text]
          /\ reply' = Answer(prepared, ask, costOf, text)
    /\ UNCHANGED prepared

AskNext == AskPrepare \/ AskAnswer

AskSpec == AskInit /\ [][AskNext]_questionVars

\* A clause found at this place of a level's results or before it scores more than
\* any clause reached through the graph: 4/10 of 1/61 is less than 1/(60 + 92).
SafeLimit == 92

\* What retrieval hands on accounts for what it found: a hit is dropped only for
\* a better copy of it or for want of room, nothing is there twice, nothing comes
\* from outside the scope the question names, similarities survive fusion and
\* expansion, and "sufficient" is said only when a searched level vouches for it
\* (retrieve, _fuse, _deduplicate, _rerank, prepare).
EvidenceAccounted == stage = "prepared" =>
   LET plan  == prepared.plan
       found == Found(call.world, plan).hits
   IN  /\ NothingLost(Expanded(plan, found), prepared.evidence)
       /\ NothingTwice(prepared.evidence, plan.rerank)
       /\ InScope(plan, prepared.evidence)
       /\ plan.mode = "hybrid" /\ (\A i \in DOMAIN plan.levels : plan.levels[i].limit <= SafeLimit)
             => SimilarityKept(call.world, prepared.evidence)
       /\ prepared.sufficient /\ plan.threshold > 0 => Vouched(call.world, prepared)

\* What is sent to the model fits the window and keeps the best evidence, and what
\* it answers is cited from what was sent: labels it made up are stripped and
\* never become sources (assemble, _parse_citations, _validate, _confidence).
AnswerAccountable == stage = "answered" =>
   LET package == Assemble(prepared.evidence, call.ask, call.costOf)
   IN  /\ PackageFits(package, prepared.evidence, call.ask, call.costOf)
       /\ Accountable(reply, call.text, package)
================================================================================
