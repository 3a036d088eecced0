\* Three threads, all of which may estimate.  They can block each other for good,
\* and the tracker may end, so deadlock is not an error here.
CONSTANTS
  t1 = t1
  t2 = t2
  t3 = t3
  Threads <- ThreeThreads
  Estimating <- ThreeThreads
  MaxEvents = 3
SPECIFICATION FairSpec
CHECK_DEADLOCK FALSE
INVARIANTS
  TypeOK
  SameSnapshot
PROPERTY EveryoneProgresses
