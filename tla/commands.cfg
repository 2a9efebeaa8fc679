SPECIFICATION FairSpec
CONSTANTS
  None = None
  Processes <- TwoProcesses
  Generations <- TwoGenerations
  Texts <- UserTexts
  Limits <- Behaviours
INVARIANTS
  AllOrNothing
  QueueAccepted
PROPERTIES
  UserTextKept
  RetiredDrained
  DisconnectEnds
