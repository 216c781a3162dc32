--------------------------- MODULE ExtractionEngine ---------------------------
(***************************************************************************)
(* One extraction (ai/extraction/engine.py, extract and summarise): parties *)
(* and metadata one after the other, the clause categories in the order of *)
(* their priority and a few at a time, the categories derived from them all *)
(* at once, the assessment, the summary.  Everything happens in memory on  *)
(* one event loop, so calls of the model overlap and what follows each     *)
(* answer, up to the next call, is one step.                               *)
(***************************************************************************)
EXTENDS Integers, FiniteSets, Sequences, Functions

CONSTANTS
    Priority,        \* the clause categories of the Clause Master by priority
    Mandatory,       \* those the profile demands, in the Clause Master or not
    Derived,         \* the categories that run after the clauses
    Requests,        \* only_clauses of the only; the empty set asks for all
    Evidenced,       \* categories for which a chunk may match
    Concurrency,     \* clause calls at a time
    MaxMishaps       \* calls that fail, and steps that raise

\* The name a clause has among the outcomes, clause:<key>, is no name of another
\* category.
ASSUME EngineAssumption ==
    /\ Priority \in Seq(Range(Priority)) /\ IsInjective(Priority)
    /\ Concurrency \in Nat \ {0} /\ MaxMishaps \in Nat
    /\ {"parties", "metadata", "summary"} \cap (Range(Priority) \union Derived) = {}
    /\ Range(Priority) \cap Derived = {}

VARIABLES
    doing,           \* how far extract is
    only,            \* the clause keys asked for
    evidenced,       \* the categories for which the document has evidence
    starting,        \* clause categories that wait for the semaphore
    open,            \* categories with a call out
    extract,         \* the ExtractionResult
    said, stated     \* history: how calls ended; the facts metadata stated

engineVars == <<doing, only, evidenced, starting, open, extract, said, stated>>

\* One fact that _run_financial may fill and one that _run_dates may.
Fact    == {"value", "expiry"}
Failed  == {"invalid", "error", "refused"}

\* How a call may end.  "failed": _call returns None.  "raised": parsing raises.
\* "unreported": the clauses are there, and then the progress report raises.
\* No mishap but an answer: "rejected", when all that was found fails a hard check.
\* (An answer of which something passes is found; what it loses is left out.)
Mishaps == {"invalid", "failed", "raised", "unreported"}
Finds   == {"found", "unsure"}
Mishap  == {c \in DOMAIN said : said[c] \in Mishaps}
Ending(kinds) == IF Cardinality(Mishap) < MaxMishaps THEN kinds ELSE kinds \ Mishaps

Said(c, how)      == [x \in DOMAIN said \union {c} |-> IF x = c THEN how ELSE said[x]]
Outcome(c, status) == [category |-> c, issues |-> FALSE, status |-> status]
Rejected(c)        == [category |-> c, issues |-> TRUE, status |-> "not_found"]

\* What an answer leaves among the outcomes (for a clause, _extract_one_clause and
\* _parse_clauses): nothing when the call failed or parsing raised; what was found
\* and rejected is not found, and the errors are the outcome's issues.  (Issues of
\* the schema, which _call notes whatever the status, are left out.)
Recorded(c, how) ==
    IF how \in Finds \union {"unreported"} THEN {Outcome(c, "ok")}
    ELSE IF how = "absent" THEN {Outcome(c, "not_found")}
    ELSE IF how = "rejected" THEN {Rejected(c)}
    ELSE IF how = "invalid" THEN {Outcome(c, "invalid")}
    ELSE {}

Empty == [parties |-> FALSE, facts |-> [f \in Fact |-> "none"], clauses |-> <<>>,
          outcomes |-> {}, missing |-> {}, reasons |-> {}, digest |-> <<>>]

\* Some of a list, in its order.
Among(list, some) ==
    LET upTo[i \in 0 .. Len(list)] ==
          IF i = 0 THEN <<>>
          ELSE IF list[i] \in some THEN Append(upTo[i - 1], list[i]) ELSE upTo[i - 1]
    IN  upTo[Len(list)]

\* _clause_plan.
ClausePlan(wanted) == IF wanted = {} THEN Priority ELSE Among(Priority, wanted)

EngineInit ==
    /\ doing = "parties" /\ only \in Requests /\ evidenced \in Evidenced
    /\ starting = <<>> /\ open = {} /\ extract = Empty /\ said = <<>> /\ stated = {}

-----------------------------------------------------------------------------

Parties ==
    /\ doing = "parties" /\ doing' = "metadata"
    /\ \E how \in Ending({"found", "absent", "rejected", "failed"}) :
          /\ said' = Said("parties", how)
          /\ extract' = [extract EXCEPT
                !.parties = (how = "found"),
                !.outcomes = @ \union Recorded("parties", how)]
    /\ UNCHANGED <<only, evidenced, starting, open, stated>>

Metadata ==
    /\ doing = "metadata" /\ doing' = "clauses"
    /\ \E how \in Ending({"found", "failed"}), facts \in SUBSET Fact :
          /\ how = "failed" => facts = {}
          /\ said' = Said("metadata", how) /\ stated' = facts
          /\ extract' = [extract EXCEPT
                !.facts = [f \in Fact |-> IF f \in facts THEN "metadata" ELSE @[f]],
                !.outcomes = @ \union Recorded("metadata", how)]
    /\ starting' = ClausePlan(only)
    /\ UNCHANGED <<only, evidenced, open>>

(* The next category gets past the semaphore.  Without evidence it is absent *)
(* and no call is made.                                                     *)
StartClause ==
    LET c == Head(starting) IN
    /\ doing = "clauses" /\ starting # <<>> /\ Cardinality(open) < Concurrency
    /\ starting' = Tail(starting)
    /\ IF c \in evidenced
       THEN open' = open \union {c} /\ UNCHANGED <<extract, said>>
       ELSE /\ \E how \in Ending({"unasked", "raised"}) : said' = Said(c, how)
            /\ extract' = [extract EXCEPT !.outcomes = @ \union {Outcome(c, "not_found")}]
            /\ UNCHANGED open
    /\ UNCHANGED <<doing, only, evidenced, stated>>

AnswerClause(c) ==
    /\ doing = "clauses" /\ c \in open /\ open' = open \ {c}
    /\ \E how \in Ending(Finds \union Mishaps \union {"absent", "rejected"}) :
          /\ said' = Said(c, how)
          /\ extract' = [extract EXCEPT !.outcomes = @ \union Recorded(c, how)]
    /\ UNCHANGED <<doing, only, evidenced, starting, stated>>

(* Faulty: what finished before the report raised is kept.                  *)
GatheredUnreported ==
    Among(ClausePlan(only), {c \in DOMAIN said : said[c] \in Finds \union {"unreported"}})

\* gather has everything: a category that raised is an error, with or without an
\* outcome of its own; the clauses of the others, in the order of the plan.
Gathered == Among(ClausePlan(only), {c \in DOMAIN said : said[c] \in Finds})

\* A derived category without evidence is absent at once.
BeginDerived ==
    /\ doing = "clauses" /\ starting = <<>> /\ open = {}
    /\ doing' = "derived" /\ open' = Derived \cap evidenced
    /\ extract' = [extract EXCEPT
          !.clauses = Gathered,
          !.outcomes = @ \union {Outcome(c, "error") : c \in {k \in Range(ClausePlan(only)) :
                                                   said[k] \in {"raised", "unreported"}}}
                         \union {Outcome(d, "not_found") : d \in Derived \ evidenced}]
    /\ said' = [x \in DOMAIN said \union (Derived \ evidenced) |->
                  IF x \in Derived \ evidenced THEN "unasked" ELSE said[x]]
    /\ UNCHANGED <<only, evidenced, starting, stated>>

(* Faulty: the derived category knows better.                               *)
FilledOver(f, d, found) ==
    IF found THEN [extract.facts EXCEPT ![f] = d] ELSE extract.facts

\* A derived category fills a fact that metadata left open.
Filled(f, d, found) ==
    IF found /\ extract.facts[f] = "none" THEN [extract.facts EXCEPT ![f] = d] ELSE extract.facts

\* gather without return_exceptions: a derived category that raises ends it all.
Answered(d, how, facts) ==
    /\ doing = "derived" /\ d \in open /\ open' = open \ {d}
    /\ said' = Said(d, how)
    /\ doing' = IF how = "raised" THEN "raised" ELSE doing
    /\ extract' = [extract EXCEPT !.facts = facts, !.outcomes = @ \union Recorded(d, how)]
    /\ UNCHANGED <<only, evidenced, starting, stated>>

RunFinancial ==
    \E how \in Ending({"found", "failed", "raised"}), value \in BOOLEAN :
        /\ how # "found" => ~value
        /\ Answered("financial", how, Filled("value", "financial", value))

RunDates ==
    \E how \in Ending({"found", "absent", "rejected", "failed", "raised"}), expiry \in BOOLEAN :
        /\ how # "found" => ~expiry
        /\ Answered("dates", how, Filled("expiry", "dates", expiry))

(* Obligations, risks and relationships are lists of their own.             *)
RunItems(d) ==
    \E how \in Ending({"found", "absent", "rejected", "failed", "raised"}) :
        d \notin {"financial", "dates"} /\ Answered(d, how, extract.facts)

\* RiskAssessor.assess and _apply_review_triggers.
Missing(clauses)  == Mandatory \ Range(clauses)
Reasons(missing, outcomes) ==
    {why \in {"low_confidence", "missing_mandatory_clause", "validation_failure"} :
        \/ why = "low_confidence" /\ \E c \in Range(extract.clauses) : said[c] = "unsure"
        \/ why = "missing_mandatory_clause" /\ missing # {}
        \/ why = "validation_failure" /\ \E o \in outcomes : o.status \in Failed}

Assess ==
    /\ doing = "derived" /\ open = {} /\ doing' = "summary"
    /\ extract' = [extract EXCEPT !.missing = Missing(extract.clauses),
                                !.reasons = Reasons(Missing(extract.clauses), extract.outcomes)]
    /\ UNCHANGED <<only, evidenced, starting, open, said, stated>>

\* _digest: a row for each clause that was found, once, in their order.
Digest(rows) == Among(extract.clauses, rows)

Summarise ==
    /\ doing = "summary" /\ doing' = "over"
    /\ \E how \in Ending({"found", "failed"}), rows \in SUBSET Range(Priority) :
          /\ how = "failed" => rows = {}
          /\ said' = Said("summary", how)
          /\ extract' = [extract EXCEPT !.digest = Digest(rows),
                                      !.outcomes = @ \union Recorded("summary", how)]
    /\ UNCHANGED <<only, evidenced, starting, open, stated>>

EngineNext ==
    \/ Parties \/ Metadata \/ StartClause \/ BeginDerived \/ Assess \/ Summarise
    \/ RunFinancial \/ RunDates
    \/ \E c \in open : AnswerClause(c) \/ RunItems(c)

EngineSpec == EngineInit /\ [][EngineNext]_engineVars

-----------------------------------------------------------------------------

Asked         == Range(ClausePlan(only)) \union Derived \union {"parties", "metadata"}
StatusesOf(c) == {o.status : o \in {x \in extract.outcomes : x.category = c}}

\* In whatever order the answers come in: the clauses are those of the categories
\* that succeeded, by priority; a category is missing from the outcomes only if its
\* call failed; it is not found by an answer, for want of evidence, or because all
\* that was found was rejected, and then and only then with the errors; a clause
\* lost otherwise, and a mandatory one lost in any way, asks for a review (a failed
\* call and a rejected answer ask for none by themselves); a fact from the preamble
\* stands, and another comes from a category that succeeded; the digest speaks of
\* clauses there are (_extract_clauses, _parse_clauses, _run_financial, _run_dates,
\* _apply_review_triggers, _digest).
AccountedFor == doing = "over" =>
    /\ extract.clauses = Among(Priority, {c \in Range(Priority) : StatusesOf(c) = {"ok"}})
    /\ \A c \in Asked : StatusesOf(c) = {} => said[c] = "failed"
    /\ \A c \in Asked : StatusesOf(c) = {"not_found"} => said[c] \in {"absent", "unasked", "rejected"}
    /\ \A c \in Asked : Rejected(c) \in extract.outcomes <=> said[c] = "rejected"
    /\ \A c \in Range(Priority) \cap Asked :
          said[c] \in Mishaps \ {"failed"} => "validation_failure" \in extract.reasons
    /\ Mandatory \ Range(extract.clauses) # {} => "missing_mandatory_clause" \in extract.reasons
    /\ \A f \in Fact : LET by == extract.facts[f] IN
          /\ f \in stated => by = "metadata"
          /\ by # "none" => "ok" \in StatusesOf(by)
    /\ Range(extract.digest) \subseteq Range(extract.clauses)

\* _call: "Failures are recorded on the category and swallowed."
FailureIsOnRecord == doing = "over" =>
    \A c \in Mishap \ {"summary"} : StatusesOf(c) \cap Failed # {}
=============================================================================
