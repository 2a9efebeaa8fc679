SPECIFICATION DrainFairSpec
CONSTANTS
  None = None
  Sessions <- ThreeSessions
  Intakes <- MixedIntakes
  Singles <- MixedSingles
  Chunks <- BridgeChunks
  Outcomes <- AnyOutcome
  MaxEvents = 2
  MaxBacklog = 0
  MaxHooks = 3
  MaxCrashes = 2
  MaxKills = 1
INVARIANTS
  QueuedSessionsMarked
  AcknowledgedCounted
  DropsAccounted
  FenceKept
  DropsNotOvercounted
PROPERTIES
  NoOvertaking
  ImplementsAdmission
  LockReleased
  QueuedEventuallyStored
