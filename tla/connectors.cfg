SPECIFICATION Spec
CONSTANTS
    s1 = s1
    s2 = s2
    s3 = s3
    None = None
    Sessions <- ThreeSessions
    MaxBuffer = 2
    MaxRetained = 2
    Reserve = 3
    MaxFlushes = 2
    MaxGapChecks = 1
    MaxDeferred = 1
    MaxGaps = 2
    MaxWrites = 1
    MaxPasses = 2
    MaxChunks = 2
    MaxEvents = 5
INVARIANTS TypeOK RetainedExact LossReported TerminalOnce TerminalsScheduled
SYMMETRY Symmetry
CHECK_DEADLOCK FALSE
