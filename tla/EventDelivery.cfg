SPECIFICATION FairSpec
CONSTANTS
  Kinds = {"answered", "static", "stopped", "failed", "cancelled"}
  Deltas = 2
  Limit = 3
  MaxDrops = 2
INVARIANTS
  AppliedOnceInOrder
PROPERTIES
  TerminalEndsStreams
CHECK_DEADLOCK FALSE
