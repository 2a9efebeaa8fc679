SPECIFICATION Spec
CONSTANTS
  None = None
  Project = Project
  Connections <- OneConnection
  Profiles <- Bridge
  Sessions <- TwoSessions
  ConnectionOf <- SameConnection
  Intakes <- SessionIntakes
  Hooked <- NoIntakes
  Drained <- NoIntakes
  Fallbacks <- NoIntakes
  Chunks <- LegacyChunks
  LegacyEvents <- LegacyOne
  MaxEvents = 2
  MaxReceipts = 1
INVARIANT
  NothingTampered
