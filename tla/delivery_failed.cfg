SPECIFICATION Spec
CONSTANTS
  Messages <- MCMessages
  Kind <- MCKind
  Tags = {1, 2, 3}
  Prefetch = 1
  MaxRetries = 3
  MaxStarts = 2
  MaxLosses = 1
  NoMessage = NoMessage
INVARIANTS
  AckedMeansHandled
CHECK_DEADLOCK FALSE
