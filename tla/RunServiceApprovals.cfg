SPECIFICATION FairSpec
CONSTANTS
  Sessions = {s1}
  Runs = {r1}
  None = None
  Kinds = {"agent", "prepared", "static"}
  CitedRuns = {}
  MaxTools = 2
  RiskyRuns = {r1}
  Answers = {"allow_once", "allow_always", "deny"}
INVARIANTS
  ToolNeedsConsent
PROPERTIES
  DenialIsAnswered
  NoToolAfterCancel
  CancelledRunEnds
