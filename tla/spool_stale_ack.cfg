SPECIFICATION Spec
CONSTANTS
  None = None
  Sessions <- TwoSessions
  Intakes <- SingleIntakes
  Singles <- SingleIntakes
  Chunks <- NoChunks
  Outcomes <- MaybeBusy
  MaxEvents = 1
  MaxBacklog = 0
  MaxHooks = 5
  MaxCrashes = 0
  MaxKills = 0
INVARIANT HealthReadable
