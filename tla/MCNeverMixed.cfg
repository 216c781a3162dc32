SPECIFICATION Spec
CONSTANTS
    Passages <- MCPassages
    LevelOf <- MCLevelOf
    ContractOf <- MCContractOf
    TypeOf <- MCTypeOf
    MaxCandidates = 1
    ChunkOf <- MCChunkOf
    NumberOf <- MCNumberOf
    Words <- MCWords
    Neighbours <- MCNeighbours
    EdgesOf <- MCEdgesOf
    Nowhere = Nowhere
    Worlds <- MCWorlds
    Plans <- MCPlans
    Rankings <- MCRankings
    Asks <- MCAsks
    Costs <- MCCosts
    Replies <- MCReplies
    Followed <- MCFollowed
    ClauseCount = 4
    Chunk = {k1, k2}
    Tokens = {1, 3}
    MaxBatch = 3
    Budget = 3
    Parts = 2
    Overlap <- MCOverlap
    MaxAttempts = 3
    AttemptTimeout = 2
    Deadline = 7
    Base = 1
    Cap = 2
    Worker = {w1, w2}
    Contract = {c1}
    Levels <- MCLevels
    Shape <- MCShape
    Spaces <- MCSpaces
    ReuseKey <- MCReuseKey
    MaxRuns = 3
    MaxExtracts = 1
    MaxEdits = 1
    MaxSetbacks = 1
    Request = {r1, r2}
    Batches <- MCBatches
    Word = {"w"}
    Drivers = {"postgres", "broker"}
    DuplicateCheck = TRUE
    MaxUploads = 2
    MaxDeletes = 1
    MaxFaults = 1
    PageOf <- MCPageOf
    MaxSection = 4
    Target = {"term", "law"}
    PageCount = 4
    ChunkPages = 2
    ChunkOverlap = 1
    WaveSize = 2
    MinChunk = 4
    MaxRepair = 2
    NotFound = NotFound
    Priority <- MCPriority
    Mandatory = {"term"}
    Derived = {"financial", "dates", "risks"}
    Requests = {{}, {"law"}}
    Evidenced <- MCEvidenced
    Concurrency = 2
    MaxMishaps = 2
    Extraction = {x1, x2, x3}
    Before = before
    Tables <- MCTables
    Facts = {"score", "expiry"}
    Certain = {"score"}
    MaxLosses = 2
INVARIANT NeverMixed
CHECK_DEADLOCK FALSE
