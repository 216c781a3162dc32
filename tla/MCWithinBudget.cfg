SPECIFICATION FairSpec
CONSTANTS
    MaxEntries = 2
    MaxAttempts = 2
    MaxStalls = 0
    MaxFaults = 0
INVARIANTS
    WithinBudget
CHECK_DEADLOCK FALSE
