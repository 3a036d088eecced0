\* Two threads, both of which estimate: does the handle always answer?
CONSTANTS
  t1 = t1
  t2 = t2
  t3 = t3
  Threads <- TwoThreads
  Estimating <- TwoThreads
  MaxEvents = 2
SPECIFICATION FairSpec
CHECK_DEADLOCK FALSE
PROPERTY EveryQueryReturns
