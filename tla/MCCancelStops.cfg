SPECIFICATION FairSpec
CONSTANTS
    Row = {r1, r2, r3}
    Proc = {p1}
    Queue = {1, 2}
    Cap <- MCCap
    MaxAttempts = 2
    NoRow = NoRow
    NStages = 2
    Cacheable = {2}
    Available = {1, 2}
    NoStage = NoStage
    NoCheckpoint = NoCheckpoint
    Job = {j1, j2}
    FirstJob = j1
    NoJob = NoJob
    StateOf <- MCStateOf
    Gate = 1
    DocStage = 2
    MaxFaults = 1
    MaxOps = 1
PROPERTIES
    CancelStops
CHECK_DEADLOCK FALSE
