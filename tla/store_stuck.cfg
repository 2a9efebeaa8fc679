SPECIFICATION Spec
CONSTANTS
  None = None
  Project = Project
  Connections <- TwoConnections
  Profiles <- Hooks
  Sessions <- TwoSessions
  ConnectionOf <- SameConnection
  Intakes <- HookIntakes
  Hooked <- HookIntakes
  Drained <- HookIntakes
  Fallbacks <- NoIntakes
  Chunks <- NoChunks
  LegacyEvents <- NoLegacy
  MaxEvents = 1
  MaxReceipts = 1
INVARIANT
  UnusedProjectDeletable
