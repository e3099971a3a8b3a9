SPECIFICATION FairSpec
CONSTANTS
  ToolCalls = {c1, c2}
  MaxSteps = 2
  MaxRuns = 2
  MaxReviews = 2
  None = None
INVARIANTS
  CrashLosesOneStep
  CheckpointKnown
  EndIsDurable
  NoThirdRepeat
PROPERTIES
  AskEnds
CHECK_DEADLOCK FALSE
