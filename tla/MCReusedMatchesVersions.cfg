SPECIFICATION Spec
CONSTANTS
    NStages = 3
    Cacheable = {2, 3}
    Available = {1, 2, 3}
    NoStage = NoStage
    NoCheckpoint = NoCheckpoint
    NoOutput = NoOutput
    MaxAttempts = 2
    Clearing = {3}
    DocStage = 2
    MaxJobs = 3
    MaxDeploys = 2
    Payload <- MCPayload
    field = field
    other = other
    one = one
    two = two
INVARIANTS
    ReusedMatchesVersions
CHECK_DEADLOCK FALSE
