SPECIFICATION AlertFairSpec
CONSTANTS
    None = None
    Platform = "platform"
    Sweeper = {"loop", "cli"}
    Facts <- MCFacts
    RuleOf <- MCRuleOf
    MaxDay = 1
    MaxUpsets = 2
INVARIANTS
    PrefilterLosesNothing
    OneLivePerCondition
    OneStepUp
PROPERTIES
    RetiredOnGrounds
    EventuallyAgrees
CHECK_DEADLOCK FALSE
