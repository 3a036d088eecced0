\* Every way to start the tool; small rounds, lists and panes.
CONSTANTS
  Threads = {"main"}
  Estimating = {"main"}
  MaxEvents = 6
  MaxNotices = 1
  MaxBackfill = 1
  MaxKeys = 2
  MaxRows = 2
  Heights = {0, 4}
  TxsPerRound = 2
  MaxNonce = 3
SPECIFICATION CliFairSpec
CHECK_DEADLOCK FALSE
INVARIANTS
  CountedIsSent
  FinalCountIsApplied
  ScrollInRange
PROPERTIES
  TrackerEnds
  TimedRunEnds
