SPECIFICATION FairSpec
CONSTANTS
  None = None
  Project = Project
  Connections <- TwoConnections
  Profiles <- EitherProfile
  Sessions <- TwoSessions
  ConnectionOf <- SameConnection
  Intakes <- SessionIntakes
  Hooked <- HookIntakes
  Drained <- HookIntakes
  Fallbacks <- BridgeFallbacks
  Chunks <- BridgeChunks
  LegacyEvents <- NoLegacy
  MaxEvents = 3
  MaxReceipts = 2
INVARIANTS
  TypeOK
  NothingTampered
  ReceiptsBacked
  CoverageHonest
PROPERTIES
  SessionDeletionEnds
  LossKept
  ImplementsLedger
