SPECIFICATION Spec
CONSTANTS
  PageSize = 4
  MemSize = 16
  Calls <- SplitCalls
  TwiMayFail = TRUE
INVARIANTS NothingMisplaced CompleteWhenOk PageWritesFit
CHECK_DEADLOCK FALSE
