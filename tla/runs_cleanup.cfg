SPECIFICATION Spec
CONSTANTS
    Length = 3
    Limit = 4
    Reservation = 2
    MaxUsage = 3
    Modes <- ReplayOnly
    MaxFaults = 0
    MaxCancels = 1
    MaxRecoveries = 0
    MaxCrashes = 0
INVARIANT EngineSettles
CHECK_DEADLOCK FALSE
