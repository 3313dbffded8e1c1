SPECIFICATION FairSpec
CONSTANTS
  Messages <- MCMessages
  Kind <- MCKind
  Tags = {1, 2, 3}
  Prefetch = 1
  MaxRetries = 3
  MaxStarts = 2
  MaxLosses = 2
  NoMessage = NoMessage
INVARIANTS
  UnackedIsHandled
  HandledBeforeAcked
  DuplicatesNeedLoss
PROPERTIES
  RefinesMessageQueue
  Settled
CHECK_DEADLOCK FALSE
