----------------------------- MODULE AlertRules -----------------------------
(***************************************************************************)
(* The pure half of services/alert_evaluator.py: what condition of a       *)
(* contract is worth an alert, under the rule that applies to it, on a     *)
(* given day.  An evaluator returns a set of at most one draft, the empty  *)
(* set standing for Python's None.                                         *)
(*                                                                         *)
(* Days are integers.  A contract c is a record of what extraction left:   *)
(*   id, project, alive (not deleted), examined (neither archived nor      *)
(*   failed), extracted (it has metadata), expires, renews, notice (the extracted deadline),  *)
(*   noticeDays, score, missing, flagged, pending, and its obligations,    *)
(*   records of id, due and unfulfilled.                                   *)
(* A rule r is a record of severity, the thresholds of its config, and     *)
(* escalateAfter.  Absent values are None.                                 *)
(***************************************************************************)
EXTENDS Integers, FiniteSets, FiniteSetsExt

CONSTANT None

\* _LADDER: INFO, LOW, MEDIUM, HIGH, CRITICAL.
Severity == 1 .. 5
High     == 4
Critical == 5

AtLeast(current, floor) == IF current >= floor THEN current ELSE floor
Promote(severity) == IF severity = Critical THEN Critical ELSE severity + 1

ContractTypes == {"contract_expiring", "auto_renewal_notice", "high_risk",
                  "missing_mandatory_clause"}
EvaluatedTypes == ContractTypes \union {"review_required", "obligation_due"}

\* Alerts of every other type are their author's: the sweep never sees them.
AlertTypes == EvaluatedTypes \union {"processing_failed"}

\* The key is the identity of a condition: the date is part of it when the
\* condition is a deadline (due), and not when it stands by itself (None).
Draft(type, subject, due, severity) ==
    [type |-> type, key |-> <<type, subject, due>>, severity |-> severity]

Expiring(c, r, today) ==
    LET severityIn(remaining) ==
            IF remaining <= r.criticalDays THEN AtLeast(r.severity, Critical)
            ELSE IF remaining <= r.escalateDays THEN AtLeast(r.severity, High)
            ELSE r.severity
    IN  {Draft("contract_expiring", c.id, day, severityIn(day - today)) :
            day \in {c.expires} \cap today .. today + r.windowDays}

\* The explicit deadline wins; without one it is counted back from the expiry,
\* by the contract's own notice period or else by the rule's lead.
NoticeDeadline(c, r) ==
    IF c.notice # None THEN c.notice
    ELSE IF c.expires = None THEN None
    ELSE c.expires - (IF c.noticeDays = None THEN r.leadDays ELSE c.noticeDays)

AutoRenewal(c, r, today) ==
    {Draft("auto_renewal_notice", c.id, day,
           IF day - today <= r.criticalDays THEN AtLeast(r.severity, Critical)
           ELSE r.severity) :
        day \in IF c.renews
                THEN {NoticeDeadline(c, r)} \cap today .. today + r.leadDays
                ELSE {}}

HighRisk(c, r, today) ==
    IF c.score = None \/ c.score < r.cutoff THEN {}
    ELSE {Draft("high_risk", c.id, None,
                IF c.score >= r.criticalScore THEN AtLeast(r.severity, Critical)
                ELSE r.severity)}

AtLeastOne(n) == IF n < 1 THEN 1 ELSE n

\* An empty clause_types watches whatever the profile calls mandatory.
MissingClause(c, r, today) ==
    LET missing == IF r.watched = {} THEN c.missing ELSE c.missing \cap r.watched
    IN  IF Cardinality(missing) < AtLeastOne(r.minMissing) THEN {}
        ELSE {Draft("missing_mandatory_clause", c.id, None, r.severity)}

\* Two independent triggers: the pipeline's flag and the reviewers' backlog.
ReviewRequired(c, r, today) ==
    IF c.flagged \/ c.pending >= AtLeastOne(r.minItems)
    THEN {Draft("review_required", c.id, None, r.severity)}
    ELSE {}

ObligationDue(o, r, today) ==
    {Draft("obligation_due", o.id, day,
           IF day < today THEN AtLeast(r.severity, High) ELSE r.severity) :
        day \in IF o.unfulfilled
                THEN {o.due} \cap today - r.overdueDays .. today + r.windowDays
                ELSE {}}

Evaluate(type, c, r, today) ==
    CASE type = "contract_expiring"        -> Expiring(c, r, today)
      [] type = "auto_renewal_notice"      -> AutoRenewal(c, r, today)
      [] type = "high_risk"                -> HighRisk(c, r, today)
      [] type = "missing_mandatory_clause" -> MissingClause(c, r, today)
      [] type = "review_required"          -> ReviewRequired(c, r, today)
      [] type = "obligation_due"             -> UNION {ObligationDue(o, r, today) : o \in c.obligations}

-----------------------------------------------------------------------------
(* Rules.  rules[scope, type] is None when there is no row, and else a      *)
(* record with enabled and rule; scope is a project or Platform.            *)

CONSTANT Platform

\* _load_rules drops what is disabled, so a lookup cannot tell a disabled row
\* of a project from a missing one.
Loaded(rules) ==
    [p \in DOMAIN rules |->
        IF rules[p] # None /\ rules[p].enabled THEN rules[p].rule ELSE None]

RuleFor(loaded, project, type) ==
    LET rule(scope) == IF <<scope, type>> \in DOMAIN loaded
                       THEN loaded[scope, type] ELSE None
    IN  IF rule(project) # None THEN rule(project) ELSE rule(Platform)

\* Metadata is an outer join: the review flag does not need it.
TypesFor(c) ==
    (IF c.extracted THEN ContractTypes ELSE {}) \union {"review_required"}

WidestNarrowed(loaded, field) ==
    LET inForce == {loaded[p] : p \in {q \in DOMAIN loaded :
                        q[2] = "obligation_due" /\ loaded[q] # None}}
    IN  IF inForce = {} THEN {}
        ELSE {Min({r[field] : r \in inForce})}

\* _collect_obligations reads with one window for all projects, the widest of
\* any rule: obligation rules of another project never hide this one's.
Widest(loaded, field) ==
    LET inForce == {loaded[p] : p \in {q \in DOMAIN loaded :
                        q[2] = "obligation_due" /\ loaded[q] # None}}
    IN  IF inForce = {} THEN {}
        ELSE {Max({r[field] : r \in inForce})}

ObligationsRead(c, loaded, today) ==
    {o \in c.obligations :
        /\ c.alive
        /\ o.unfulfilled
        /\ \E w \in Widest(loaded, "windowDays"),
              b \in Widest(loaded, "overdueDays") :
              o.due \in today - b .. today + w}

\* What contract c gives under its rule for the type, if there is one.
DraftsOf(c, type, loaded, today) ==
    LET r == RuleFor(loaded, c.project, type)
    IN  IF r = None THEN {}
        ELSE IF type = "obligation_due"
        THEN UNION {ObligationDue(o, r, today) : o \in ObligationsRead(c, loaded, today)}
        ELSE Evaluate(type, c, r, today)

\* _collect: every draft of the estate, contract by contract and type by type.
\* Archived and failed contracts are not examined, but their obligations are.
Collect(contracts, loaded, today) ==
    UNION {UNION {DraftsOf(c, type, loaded, today) :
                    type \in (IF c.alive /\ c.examined THEN TypesFor(c) ELSE {})
                             \union {"obligation_due"}} :
           c \in contracts}

Keys(drafts) == {d.key : d \in drafts}
=============================================================================
