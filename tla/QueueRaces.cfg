SPECIFICATION Spec
CONSTANTS
    Keys = {k1}
    NoKey = NoKey
    MaxJobs = 2
    Workers = {w1, w2}
    Requests = {r1, r2}
    Operations = {"enqueue", "retry", "cancel"}
    MaxCalls = 3
    MaxCrashes = 1
    MaxAttempts = 2
    SlowJobs = TRUE
    SlowSessions = TRUE
SYMMETRY Symmetry
INVARIANTS
    AttemptsAreDistinct
