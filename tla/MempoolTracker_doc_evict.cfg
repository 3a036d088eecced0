\* The bounds of MempoolTracker.cfg; the test of insert at capacity.
CONSTANTS
  Addresses = {1, 2}
  Nonces <- NonceRange
  MaxFees = {2, 4}
  Tips = {1, 2}
  BaseFees = {1, 3}
  initial_base_fee = 1
  global_capacity = 2
  per_account_capacity = 2
  None = None
  MaxEvents = 4
SPECIFICATION Spec
CHECK_DEADLOCK FALSE
INVARIANT BetterThanWorstIsTracked
