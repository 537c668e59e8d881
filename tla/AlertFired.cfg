\* One round; the windows in units of fifteen days.
CONSTANTS
  W60 = 4
  W30 = 2
  W15 = 1
  LookAhead = 4
  LastDay = 5
  ExpiryDay = {4, 5}
  StatusSent = {"in_progress", "completed"}
  MaxCompletions = 2
  RoundReq = {r1}
  NoDate = NoDate
  NoScan = NoScan
  NoRound = NoRound
SPECIFICATION RoundSpec
INVARIANTS
  MarkedWindowsFired
CHECK_DEADLOCK FALSE
