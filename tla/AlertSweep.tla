------------------------------ MODULE AlertSweep ------------------------------
(***************************************************************************)
(* The alerts the evaluator owns: its sweep (services/alert_evaluator.py), *)
(* and the operators who acknowledge, resolve, dismiss and reopen rows and *)
(* edit rules (api/v1/admin.py), all at once.  The alerts of failures have *)
(* keys and types of their own (AlertDelivery): a sweep never reads them.  *)
(*                                                                         *)
(* A sweep is one transaction at READ COMMITTED: it reads the rules, the   *)
(* contracts and the live alerts, and writes everything at its end.        *)
(* The one constraint of the table is a unique index on the key among open *)
(* alerts: a write that breaks it aborts its whole transaction.            *)
(*                                                                         *)
(* The worker's loop holds an advisory lock while it sweeps; the CLI's     *)
(* evaluate-alerts does not ask for it.                                    *)
(***************************************************************************)
EXTENDS AlertRules, Sequences, SequencesExt

CONSTANTS
    Sweeper,      \* the maintenance "loop" and the "cli"
    Facts,        \* what a contract's row can say
    RuleOf,       \* RuleOf[scope, type]: the rule an administrator would write
    MaxDay,       \* the calendar ends
    MaxUpsets     \* edits of contracts, rules and alerts, and sweeps that die

\* A contract has finitely many obligations; a rule has a severity and windows.
ASSUME FactsAssumption == \A c \in Facts : IsFiniteSet(c.obligations)
ASSUME RulesAssumption ==
    /\ IsFiniteSet(DOMAIN RuleOf)
    /\ \A p \in DOMAIN RuleOf :
         /\ RuleOf[p] # None
         /\ RuleOf[p].severity \in Severity
         /\ RuleOf[p].windowDays \in Int /\ RuleOf[p].overdueDays \in Int
ASSUME CalendarAssumption == MaxDay \in Nat

VARIABLES
    today,        \* the calendar
    contract,     \* the contract as it is in the database
    rules,        \* alert_rules: None, or [enabled, rule]
    alert,        \* alerts, oldest first
    sweep,        \* sweep[s]: how far a sweep has come and what it has read
                  \* (its field of, the contract it read, is history)
    upsets,       \* counter of the bound
    raced         \* history: two sweeps were under way at once

alertVars == <<today, contract, rules, alert, sweep, upsets, raced>>

Live   == {"open", "acknowledged"}
Closed == {"resolved", "dismissed"}

Subjects == UNION {{c.id} \union {o.id : o \in c.obligations} : c \in Facts}
DueDays  == {None} \union UNION {{c.expires} \union {o.due : o \in c.obligations}
                                \union {NoticeDeadline(c, RuleOf[p]) : p \in DOMAIN RuleOf} :
                                c \in Facts}
AllKeys  == AlertTypes \X Subjects \X DueDays

\* base and reopened are history: the severity the last evaluation gave, and
\* whether an operator made a closed row live again.
AlertRow ==
    [key : AllKeys, type : AlertTypes, status : Live \union Closed,
     severity : Severity, escalated : BOOLEAN, raisedOn : 0 .. MaxDay,
     base : Severity, reopened : BOOLEAN]

Idle == [at |-> "idle"]

Rows(status) == {i \in DOMAIN alert : alert[i].status \in status}

\* uq_alerts_open_dedupe.
OpenKeysUnique(rows) ==
    \A i, j \in DOMAIN rows :
        (rows[i].status = "open" /\ rows[j].status = "open"
            /\ rows[i].key = rows[j].key) => i = j

NewRow(d) ==
    [key |-> d.key, type |-> d.type, status |-> "open", severity |-> d.severity,
     escalated |-> FALSE, raisedOn |-> today, base |-> d.severity,
     reopened |-> FALSE]

AlertInit ==
    /\ today = 0
    /\ contract \in Facts
    /\ rules = [p \in DOMAIN RuleOf |->
                   IF p[1] = Platform THEN [enabled |-> TRUE, rule |-> RuleOf[p]]
                   ELSE None]
    /\ alert = <<>>
    /\ sweep = [s \in Sweeper |-> Idle]
    /\ upsets = 0
    /\ raced = FALSE

-----------------------------------------------------------------------------
(* The sweep.                                                               *)

SweepUnchanged == UNCHANGED <<today, contract, rules, upsets>>

Evaluated(i) == alert[i].type \in EvaluatedTypes

LiveAlertsOpenOnly(i) == alert[i].status = "open" /\ Evaluated(i)
LiveAlertsAll(i)      == Evaluated(i)

\* _load_live_alerts.
LiveAlerts(i) == alert[i].status \in Live /\ Evaluated(i)

\* _load_rules, _collect and _load_live_alerts.  They read one table each, and
\* no step of anybody else reads one of these tables to write another, so any
\* order of reads and writes is as good as one in which the three reads are
\* together.  Without a rule nothing is even retired.
ReadEstate(s) ==
    /\ sweep[s] = Idle
    /\ LET loaded == Loaded(rules)
       IN  /\ \E p \in DOMAIN loaded : loaded[p] # None
           /\ sweep' = [sweep EXCEPT ![s] =
                 [at |-> "write", rules |-> loaded, day |-> today, of |-> contract,
                  drafts |-> Collect({contract}, loaded, today),
                  read |-> [i \in {j \in DOMAIN alert : LiveAlerts(j)} |-> alert[i]]]]
    /\ raced' = (raced \/ \E t \in Sweeper \ {s} : sweep[t] # Idle)
    /\ UNCHANGED alert
    /\ SweepUnchanged

\* The row a draft refreshes: of several with its key, the one by_key ends with.
ByKey(read, drafts) ==
    LET stored == {d \in drafts : \E i \in DOMAIN read : read[i].key = d.key}
    IN  {f \in [stored -> DOMAIN read] : \A d \in stored : read[f[d]].key = d.key}

OldEnough(row, r) ==
    r # None /\ r.escalateAfter # None /\ r.escalateAfter > 0
        /\ today - row.raisedOn >= r.escalateAfter

\* What the session wants row i to be: the row it read, refreshed, retired,
\* escalated.  Status is only ever set to resolved.
RefreshedFlat(row, d) ==
    [row EXCEPT !.severity = d.severity, !.base = d.severity]

Refreshed(row, d) ==
    [row EXCEPT !.severity = IF row.escalated THEN Promote(d.severity) ELSE d.severity,
                !.base = d.severity]

Escalated(row, r) ==
    IF row.status = "open" /\ ~row.escalated /\ OldEnough(row, r)
    THEN [row EXCEPT !.severity = Promote(row.severity), !.escalated = TRUE]
    ELSE row

\* Faulty: every row the drafts did not refresh is retired, the second of two
\* rows with one key as well.
WantedUnlessRefreshed(s, by, i) ==
    LET row  == sweep[s].read[i]
        mine == {d \in DOMAIN by : by[d] = i}
        r    == RuleFor(sweep[s].rules, contract.project, row.type)
    IN  IF mine # {} THEN Escalated(Refreshed(row, CHOOSE d \in mine : TRUE), r)
        ELSE IF r # None THEN [row EXCEPT !.status = "resolved"]
        ELSE row

WantedWithoutRule(s, by, i) ==
    LET row  == sweep[s].read[i]
        mine == {d \in DOMAIN by : by[d] = i}
        r    == RuleFor(sweep[s].rules, contract.project, row.type)
        seen == IF mine = {} THEN row ELSE Refreshed(row, CHOOSE d \in mine : TRUE)
    IN  IF row.key \in Keys(sweep[s].drafts) THEN Escalated(seen, r)
        ELSE [row EXCEPT !.status = "resolved"]

Wanted(s, by, i) ==
    LET row  == sweep[s].read[i]
        mine == {d \in DOMAIN by : by[d] = i}
        r    == RuleFor(sweep[s].rules, contract.project, row.type)
        seen == IF mine = {} THEN row ELSE Refreshed(row, CHOOSE d \in mine : TRUE)
    IN  IF row.key \in Keys(sweep[s].drafts) THEN Escalated(seen, r)
        ELSE IF r # None THEN [row EXCEPT !.status = "resolved"]
        ELSE row

\* An UPDATE names the columns whose value the session changed.  The marker of
\* an escalation is inside details, which a refresh always rewrites.
Merged(now, was, wanted, rewritten) ==
    [now EXCEPT
        !.status   = IF wanted.status   # was.status   THEN wanted.status   ELSE @,
        !.severity = IF wanted.severity # was.severity THEN wanted.severity ELSE @,
        !.base     = IF rewritten THEN wanted.base ELSE @,
        !.escalated = IF rewritten \/ wanted.escalated # was.escalated
                      THEN wanted.escalated ELSE @]

\* _reconcile, its flush and the commit.
WriteAlerts(s) ==
    /\ sweep[s].at = "write"
    /\ LET read == sweep[s].read
           raise == {d \in sweep[s].drafts :
                        ~\E i \in DOMAIN read : read[i].key = d.key}
       IN  \E by \in ByKey(read, sweep[s].drafts) :
             LET updated == [i \in DOMAIN alert |->
                               IF i \in DOMAIN read
                               THEN Merged(alert[i], read[i], Wanted(s, by, i),
                                           \E d \in DOMAIN by : by[d] = i)
                               ELSE alert[i]]
                 written == updated \o SetToSeq({NewRow(d) : d \in raise})
             IN  alert' = IF OpenKeysUnique(written) THEN written ELSE alert
    /\ sweep' = [sweep EXCEPT ![s] = Idle]
    /\ UNCHANGED raced
    /\ SweepUnchanged

SweepDies(s) ==
    /\ sweep[s] # Idle
    /\ upsets < MaxUpsets
    /\ upsets' = upsets + 1
    /\ sweep' = [sweep EXCEPT ![s] = Idle]
    /\ UNCHANGED <<today, contract, rules, alert, raced>>

-----------------------------------------------------------------------------
(* Operators, administrators and time.                                      *)

\* update_alert writes whatever status it is given over the one it finds.
UpdateAlert(i, status) ==
    /\ upsets < MaxUpsets
    /\ alert[i].status # status
    /\ alert' = [alert EXCEPT ![i].status = status,
                              ![i].reopened = alert[i].reopened
                                  \/ (alert[i].status \in Closed /\ status \in Live)]
    /\ OpenKeysUnique(alert')
    /\ upsets' = upsets + 1
    /\ UNCHANGED <<today, contract, rules, sweep, raced>>

\* A re-extraction, an edit of the metadata, an archival or a deletion.
EditContract ==
    /\ upsets < MaxUpsets
    /\ contract' \in Facts \ {contract}
    /\ upsets' = upsets + 1
    /\ UNCHANGED <<today, rules, alert, sweep, raced>>

\* create_, update_ and delete_alert_rule.
EditRule(p) ==
    /\ upsets < MaxUpsets
    /\ rules' = [rules EXCEPT ![p] =
                    IF rules[p] = None THEN [enabled |-> TRUE, rule |-> RuleOf[p]]
                    ELSE [rules[p] EXCEPT !.enabled = ~rules[p].enabled]]
    /\ upsets' = upsets + 1
    /\ UNCHANGED <<today, contract, alert, sweep, raced>>

DeleteRule(p) ==
    /\ upsets < MaxUpsets
    /\ rules[p] # None
    /\ rules' = [rules EXCEPT ![p] = None]
    /\ upsets' = upsets + 1
    /\ UNCHANGED <<today, contract, alert, sweep, raced>>

NextDay ==
    /\ today < MaxDay
    /\ today' = today + 1
    /\ UNCHANGED <<contract, rules, alert, sweep, upsets, raced>>

-----------------------------------------------------------------------------

SweepStep(s) ==
    ReadEstate(s) \/ WriteAlerts(s)

AlertNext ==
    \/ \E s \in Sweeper : SweepStep(s) \/ SweepDies(s)
    \/ \E i \in DOMAIN alert, status \in Live \union Closed : UpdateAlert(i, status)
    \/ \E p \in DOMAIN rules : EditRule(p) \/ DeleteRule(p)
    \/ EditContract
    \/ NextDay

AlertSpec == AlertInit /\ [][AlertNext]_alertVars

\* The maintenance loop sweeps for as long as it lives (maintenance_loop); the
\* CLI sweeps when somebody runs it.
AlertFairSpec == AlertSpec /\ WF_alertVars(SweepStep("loop"))

-----------------------------------------------------------------------------
(* Properties.                                                              *)

AlertTypeOK ==
    /\ today \in 0 .. MaxDay
    /\ contract \in Facts
    /\ \A p \in DOMAIN rules :
           rules[p] = None \/ (rules[p].enabled \in BOOLEAN /\ rules[p].rule = RuleOf[p])
    /\ \A i \in DOMAIN alert : alert[i] \in AlertRow
    /\ \A s \in Sweeper : sweep[s].at \in {"idle", "write"}
    /\ raced \in BOOLEAN

\* What the rules in force say of contract c on this day, asked directly:
\* the rule of the contract's project or else the platform's, for every type.
Conditions(c, inForce) ==
    LET said(type) ==
            LET r == RuleFor(inForce, c.project, type)
            IN  IF r = None \/ ~c.alive
                   \/ (type # "obligation_due" /\ ~c.examined)
                   \/ (type \in ContractTypes /\ ~c.extracted)
                THEN {} ELSE Evaluate(type, c, r, today)
    IN  UNION {said(type) : type \in EvaluatedTypes}

\* The one query over all obligations, with the widest window of any rule,
\* loses no obligation its own rule would have raised (_collect_obligations).
PrefilterLosesNothing ==
    \A c \in Facts :
        Collect({c}, Loaded(rules), today) = Conditions(c, Loaded(rules))

\* A condition has one live alert, acknowledged or not: a sweep adds another
\* only where an operator reopened a row behind its back, or where the CLI swept
\* at the same time as the loop (the index guards open rows only).
OneLivePerCondition ==
    \A i, j \in Rows(Live) :
        (i # j /\ alert[i].key = alert[j].key /\ alert[i].type \in EvaluatedTypes)
            => raced \/ alert[i].reopened \/ alert[j].reopened

\* An alert nobody deals with climbs one step and no further, however many
\* sweeps refresh it and however its rule is retuned in between.
OneStepUp ==
    ~raced => \A i \in Rows(Live) :
        alert[i].severity = IF alert[i].escalated THEN Promote(alert[i].base)
                            ELSE alert[i].base

\* A sweep retires an alert only under a rule in force for its type.  And what
\* it retires is gone: where the contract, the rules and the day are still (or
\* again) as the sweep read them, whatever was edited, escalated, reopened or
\* swept before or meanwhile, no rule raises the condition any longer.
RetiredOnGrounds ==
    [][\A s \in Sweeper : \A i \in Rows(Live) :
         (sweep[s].at = "write" /\ sweep'[s] = Idle /\ alert'[i].status = "resolved") =>
            /\ RuleFor(sweep[s].rules, contract.project, alert[i].type) # None
            /\ (sweep[s].rules = Loaded(rules) /\ sweep[s].day = today
                 /\ sweep[s].of = contract) =>
                    alert[i].key \notin Keys(Conditions(contract, Loaded(rules)))]_alertVars

\* Once the calendar, the contract and the rules stand still, sweeps bring the
\* table to agree with them: every condition has a live alert, and every live
\* alert of a type whose rule is in force has its condition.
TableAgrees ==
    LET holds == Keys(Conditions(contract, Loaded(rules)))
    IN  /\ \A k \in holds : \E i \in Rows(Live) : alert[i].key = k
        /\ (\E p \in DOMAIN rules : Loaded(rules)[p] # None) =>
            \A i \in Rows(Live) :
              (alert[i].type \in EvaluatedTypes
               /\ RuleFor(Loaded(rules), contract.project, alert[i].type) # None)
                 => alert[i].key \in holds

EventuallyAgrees == <>[]TableAgrees

\* docs/PORTFOLIO_AND_ALERTS.md:253: a disabled rule is off, the type is not
\* evaluated at all.  _load_rules drops the row, and the default takes over.
DisabledMeansOff ==
    \A s \in Sweeper : sweep[s].at = "write" =>
        \A d \in sweep[s].drafts :
            LET p == <<contract.project, d.type>>
            IN  (p \in DOMAIN rules /\ sweep[s].rules = Loaded(rules))
                    => (rules[p] # None => rules[p].enabled)
=============================================================================
