SPECIFICATION FairSpec
CONSTANTS
  Blocks = 2
  PagesPerBlock = 2
  ChunksPerPage = 1
  Uint8 = 4
  Values <- MCValues
  Unread = Unread
  LastLba = 1
  Faults = {"write"}
PROPERTIES WriteBackFinishes
