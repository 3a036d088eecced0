\* The shipped limits (three retries, three replacements), fees that may fail,
\* a pending transaction of an earlier process, a block arriving at any moment, and a
\* block stream that may close.
CONSTANTS
  m1 = m1
  m2 = m2
  Foreign = Foreign
  Messages <- TwoMessages
  Nonces <- NonceRange
  Leftover = {0}
  Attempts <- Attempts3
  MAX_IN_FLIGHT_TRANSACTIONS = 2
  MAX_RETRIES = 3
  MAX_REPLACEMENTS = 3
  Adapter = "eth"
  FeesCanFail = TRUE
  StreamCanClose = TRUE
  Priorities = {1}
  Deadlined = {}
  MaxBlocks = 1
SPECIFICATION Spec
SYMMETRY Symm
INVARIANTS
  TypeOK
  UniqueNonces
  NoLeakedNonce
  AtMostOnce
  BaselineNotAhead
  StrategyNeverReleases
PROPERTIES
  ImplementsDelivery
