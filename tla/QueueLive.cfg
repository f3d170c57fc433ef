SPECIFICATION FairSpec
CONSTANTS
    Keys = {k1}
    NoKey = NoKey
    MaxJobs = 2
    Workers = {w1, w2}
    Requests = {r1}
    Operations = {"enqueue", "cancel"}
    MaxCalls = 3
    MaxCrashes = 1
    MaxAttempts = 3
    SlowJobs = FALSE
    SlowSessions = FALSE
INVARIANTS
    OneWorkerPerJob
PROPERTIES
    EndStays
    EveryJobEnds
