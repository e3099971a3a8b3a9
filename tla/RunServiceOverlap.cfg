SPECIFICATION Spec
CONSTANTS
  Sessions = {s1}
  Runs = {r1, r2}
  None = None
  Kinds = {"agent", "prepared", "static"}
  CitedRuns = {r1}
  MaxTools = 1
  RiskyRuns = {r1}
  Answers = {"allow_once"}
INVARIANTS
  LiveRunHoldsSlot
  SlotNamesUnfinishedRun
  ControlsOwned
  EventsInOrder
  OneTerminalEvent
PROPERTIES
  KeepsPromise
