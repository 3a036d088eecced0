\* Two accounts, three nonces, room for two transactions and two for each
\* account; transactions that cannot pay the base fee or leave no tip occur.
CONSTANTS
  Addresses = {1, 2}
  Nonces <- NonceRange
  MaxFees = {2, 4}
  Tips = {1, 2}
  BaseFees = {1, 3}
  initial_base_fee = 1
  global_capacity = 2
  per_account_capacity = 2
  None = None
  MaxEvents = 5
SPECIFICATION Spec
CHECK_DEADLOCK FALSE
INVARIANTS
  TypeOK
  SlotsAligned
  TrackedIsIndexed
  KeysNotBelowConfirmed
  FreshAfterBlock
PROPERTIES
  OvertakenLeave
