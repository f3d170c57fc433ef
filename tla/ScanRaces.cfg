SPECIFICATION ScanFairSpec
CONSTANTS
    Scans = {s1, s2}
    Runners = {r1, r2}
    Cancellers = {c1}
    ScanTypes = {"VENDOR", "FULL"}
    Ids = {1, 2}
    Initially <- MCInitially
    Detects <- MCDetects
    BatchSize = 2
    MaxCalls = 2
    MaxFaults = 1
INVARIANTS
    CheckpointIsSound
    ExaminedHasSignals
CHECK_DEADLOCK FALSE
PROPERTIES
    EveryRunReturns
