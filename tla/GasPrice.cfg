\* Two transactions whose calls interleave, on a small scale of fees; a window
\* of two, times in each of the three congestion classes.
CONSTANTS
  t1 = t1
  t2 = t2
  Txs <- TwoTxs
  MAX_PRIORITY_FEE = 24
  INITIAL_PRIORITY_FEE = 10
  INITIAL_BASE_FEE = 20
  CONFIRMATION_TIME_WINDOW = 2
  CONGESTION_THRESHOLD_LOW = 15
  CONGESTION_THRESHOLD_MEDIUM = 60
  GAS_PRICE_INCREASE_PERCENT = 20
  MaxBumps = 2
  Priorities = {0, 29, 130}
  Times = {3, 40, 90}
SPECIFICATION Spec
SYMMETRY Symm
INVARIANTS
  TypeOK
  FeeFloor
  FeeCeiling
PROPERTIES
  EstimateIsARatchet
