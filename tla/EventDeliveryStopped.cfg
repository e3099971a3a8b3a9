SPECIFICATION FairSpec
CONSTANTS
  Kinds = {"answered", "static", "stopped", "failed", "cancelled"}
  Deltas = 2
  Limit = 10
  MaxDrops = 2
PROPERTIES
  EndClosesStreams
CHECK_DEADLOCK FALSE
