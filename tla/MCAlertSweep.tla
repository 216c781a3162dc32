---------------------------- MODULE MCAlertSweep ----------------------------
(* One contract of project "p", whose rules differ from the platform's.       *)
EXTENDS AlertSweep

Quiet ==
    [id |-> "c", project |-> "p", alive |-> TRUE, examined |-> TRUE,
     extracted |-> TRUE, expires |-> None, renews |-> FALSE, notice |-> None,
     noticeDays |-> None, score |-> 10, missing |-> {}, flagged |-> FALSE,
     pending |-> 0, obligations |-> {}]

MCFacts ==
    {[Quiet EXCEPT !.score = 90],
     [Quiet EXCEPT !.examined = FALSE, !.score = 90,
                   !.obligations = {[id |-> "o", due |-> 1, unfulfilled |-> TRUE]}]}

RuleWith(severity) ==
    [severity |-> severity, windowDays |-> 1, criticalDays |-> 0,
     escalateDays |-> 0, leadDays |-> 1, cutoff |-> 67, criticalScore |-> 95,
     watched |-> {}, minMissing |-> 1, minItems |-> 1, overdueDays |-> 1,
     escalateAfter |-> 1]

MCRuleOf ==
    (<<Platform, "high_risk">> :> RuleWith(Critical)) @@
    (<<Platform, "obligation_due">> :> [RuleWith(1) EXCEPT !.windowDays = 0]) @@
    (<<"p", "obligation_due">> :> [RuleWith(2) EXCEPT !.overdueDays = 0])
=============================================================================
