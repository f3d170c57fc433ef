SPECIFICATION Spec
CONSTANTS
    Keys = {k1}
    NoKey = NoKey
    MaxJobs = 2
    Workers = {w1}
    Requests = {r1, r2}
    Operations = {"enqueue"}
    MaxCalls = 2
    MaxCrashes = 0
    MaxAttempts = 3
    SlowJobs = FALSE
    SlowSessions = FALSE
INVARIANTS
    OneActivePerKey
