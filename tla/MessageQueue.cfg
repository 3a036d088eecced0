\* Two messages; a block lasts two ticks of the clock.  One deadline lies beyond
\* the far threshold and is lived through to its end, the other one is near.
CONSTANTS
  m1 = m1
  m2 = m2
  Messages <- TwoMessages
  MAX_PRIORITY = 100
  MAX_RETRIES = 2
  BLOCK_TIME_MS = 2
  DEADLINE_BOOST_NEAR_BLOCKS = 2
  DEADLINE_BOOST_FAR_BLOCKS = 10
  RequestedPriorities = {0, 150}
  Deadlines = {3, 21}
  LastCreation = 1
  LastTime = 23
SPECIFICATION Spec
SYMMETRY Symm
CHECK_DEADLOCK FALSE
INVARIANTS
  TypeOK
  ExpiryAgrees
  FrozenPriorityIsLowerBound
  InversionIsBounded
PROPERTIES
  UrgencyNeverFalls
