SPECIFICATION FairSpec
CONSTANTS
  None = None
  Processes <- OneProcess
  Generations <- TwoGenerations
  Texts <- UserTexts
  Limits <- CrashAlone
PROPERTY
  RemovalCompleted
