SPECIFICATION Spec
CONSTANTS
    Row = {r1, r2, r3}
    Proc = {p1}
    Queue = {1, 2}
    Cap <- MCLateCap
    MaxAttempts = 2
    NoRow = NoRow
    NStages = 2
    Cacheable = {1, 2}
    Available = {1, 2}
    NoStage = NoStage
    NoCheckpoint = NoCheckpoint
    Job = {j1, j2}
    FirstJob = j1
    NoJob = NoJob
    StateOf <- MCLateStateOf
    Gate = NoStage
    DocStage = NoStage
    MaxFaults = 1
    MaxOps = 1
INVARIANTS
    OnePlanPerRun
CHECK_DEADLOCK FALSE
