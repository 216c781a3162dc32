SPECIFICATION Spec
CONSTANTS
    Row = {r1, r2}
    Proc = {p1, p2}
    Queue = {q1}
    Cap <- MCCap
    MaxAttempts = 3
    NoRow = NoRow
    Worker = {w1, w2}
    Code = {"timeout", "quota", "bad_json"}
    CategoryOf <- MCCategoryOf
    Configured = {"slack", "email"}
    Usable = {"slack", "email"}
    SendAttempts = 1
    MaxFailures = 3
    MaxCloses = 1
    MaxDeaths = 1
    Export = {e1, e2, e3}
    Undeletable = {e3}
    Limit = 2
    MaxFaults = 1
INVARIANTS
    AlertingIsHarmless
    OneRowPerStage
CHECK_DEADLOCK FALSE
