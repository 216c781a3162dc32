SPECIFICATION AlertSpec
CONSTANTS
    None = None
    Platform = "platform"
    Sweeper = {"loop", "cli"}
    Facts <- MCFacts
    RuleOf <- MCRuleOf
    MaxDay = 1
    MaxUpsets = 2
INVARIANT DisabledMeansOff
CHECK_DEADLOCK FALSE
