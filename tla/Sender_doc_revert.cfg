\* One message and the shipped limits: can the retry of a reverted transaction
\* be accepted?
CONSTANTS
  m1 = m1
  m2 = m2
  Foreign = Foreign
  Messages <- OneMessage
  Nonces <- NonceRange
  Leftover = {}
  Attempts <- Attempts3
  MAX_IN_FLIGHT_TRANSACTIONS = 1
  MAX_RETRIES = 3
  MAX_REPLACEMENTS = 3
  Adapter = "eth"
  FeesCanFail = FALSE
  StreamCanClose = TRUE
  Priorities = {1}
  Deadlined = {}
  MaxBlocks = 1
SPECIFICATION Spec
INVARIANTS
  RevertedRetryIsAcceptable
