\* The shipped fees in MWei and one transaction after the other:
\* is a replacement always 10% above what it replaces?
CONSTANTS
  t1 = t1
  t2 = t2
  Txs <- OneTx
  MAX_PRIORITY_FEE = 100000
  INITIAL_PRIORITY_FEE = 1000
  INITIAL_BASE_FEE = 2000
  CONFIRMATION_TIME_WINDOW = 10
  CONGESTION_THRESHOLD_LOW = 15
  CONGESTION_THRESHOLD_MEDIUM = 60
  GAS_PRICE_INCREASE_PERCENT = 20
  MaxBumps = 2
  Priorities = {0}
  Times = {3}
SPECIFICATION Spec
INVARIANTS
  ReplacementIsTenPercentHigher
