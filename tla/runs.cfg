SPECIFICATION Spec
CONSTANTS
    Length = 3
    Limit = 4
    Reservation = 2
    MaxUsage = 3
    Modes <- BothModes
    MaxFaults = 2
    MaxCancels = 2
    MaxRecoveries = 2
    MaxCrashes = 1
INVARIANTS BudgetHeld ChargedInFull RangesTile EndsSettled
CHECK_DEADLOCK FALSE
