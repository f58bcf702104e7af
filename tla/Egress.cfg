CONSTANTS
  MaxMessages = 2
  MaxOutputs = 2
  RetryCounts = {0, 2, 6}
  U32Max = 6
  W64 = 4
  BaseDelay = 3
  MaxDelay = 14
  Jitter = 2
  Backoffs = {0, 15}
  DlqMayFail = TRUE
SPECIFICATION Spec
INVARIANTS
  SentOrDeadLettered
  RetriesAreDue
CHECK_DEADLOCK FALSE
