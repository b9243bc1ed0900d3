SPECIFICATION FairSpec
CONSTANTS
  txSize = 3
  SyncBuffers = {1}
  Mailboxes = {0, 1}
  RxDepth = 2
  MaxRequests = 4
INVARIANTS
  NeverStranded
  RefillFits
  NewestLast
PROPERTY
  Drains
CHECK_DEADLOCK FALSE
