\* Both adapters, channels of one slot, and slots enough for the blockhash to be
\* refreshed and for the broadcast buffer to overflow.
CONSTANTS
  Capacity = 1
  Backlog = 2
  MaxHeaders = 7
  Validity = 4
  BLOCKHASH_REFRESH_MARGIN = 2
  CommitmentLag = 1
SPECIFICATION FairSpec
CHECK_DEADLOCK FALSE
INVARIANTS
  TypeOK
  NothingSkipped
  FewReadLate
  TokenValid
PROPERTIES
  FeedEnds
  EveryHeaderArrives
  ImplementsStream
