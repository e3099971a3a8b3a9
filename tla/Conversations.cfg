CONSTANTS
  Sessions = {s1}
  Requests = {q1, q2}
  MaxRequests = 3
  MaxItems = 1
  MaxOdd = 1
  Documents = {d1, d2}
  None = none
  Writers = {w1, w2}
  MaxWrites = 4
  MaxMishaps = 2
  Callers = {c1, c2}
  Messages = {m1}
  Handlers = {h1, h2}
  MaxGenerations = 4
  MaxCalls = 3
  MaxTrouble = 1
SPECIFICATION PartsSpec
INVARIANTS HistoryKept RunHasItsTools RevokedRunsStop LockFollowsScope MessageOnce ChannelIsCurrent
CHECK_DEADLOCK FALSE
