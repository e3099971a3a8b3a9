SPECIFICATION FairSpec
CONSTANTS
  Sources = {s1}
  Operations = {"rescan", "upsert", "delete"}
  Clients = {h1}
  MaxJobs = 3
  MaxStarts = 2
  None = None
INVARIANTS
  NoJobLost
  RunningIsExecuted
PROPERTIES
  FinishedStays
  JobsEnd
CHECK_DEADLOCK FALSE
