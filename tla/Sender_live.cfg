\* A replacement limit so low that the Ethereum strategy requeues after it has
\* resubmitted once, and fees that may fail; one permit for two messages, one of
\* which can expire.
CONSTANTS
  m1 = m1
  m2 = m2
  Foreign = Foreign
  Messages <- TwoMessages
  Nonces <- NonceRange
  Leftover = {}
  Attempts <- Attempts3
  MAX_IN_FLIGHT_TRANSACTIONS = 1
  MAX_RETRIES = 3
  MAX_REPLACEMENTS = 1
  Adapter = "eth"
  FeesCanFail = TRUE
  StreamCanClose = FALSE
  Priorities = {1}
  Deadlined <- OneDeadline
  MaxBlocks = 1
SPECIFICATION FairSpec
INVARIANTS
  PermitsConserved
  NoLostWakeup
PROPERTIES
  EveryMessageSettles
