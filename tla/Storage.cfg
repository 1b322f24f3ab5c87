SPECIFICATION FairSpec
CONSTANTS
  Blocks = 2
  PagesPerBlock = 2
  ChunksPerPage = 1
  Uint8 = 4
  Values <- MCValues
  Unread = Unread
  LastLba = 1
  Faults = {"power"}
INVARIANTS TypeOK Coherent WriteInRange
PROPERTIES KeepsPromise WriteBackRunsDown WriteBackFinishes
