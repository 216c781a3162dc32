SPECIFICATION FairSpec
CONSTANTS
    MaxEntries = 2
    MaxAttempts = 2
    MaxStalls = 1
    MaxFaults = 2
INVARIANTS
    NothingLost
    ExhaustedMeansNoRetry
PROPERTIES
    ImplementsWiderBudget
    EveryEntrySettles
CHECK_DEADLOCK FALSE
