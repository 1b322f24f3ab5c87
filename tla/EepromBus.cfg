SPECIFICATION FairSpec
CONSTANTS
  PageSize = 2
  Uint8 = 2
  MaxPolls = 1
  Values <- MCValues
  NoValue = NoValue
  Reads <- MCReads
  Writes <- MCWrites
  Faults = {"bus", "reset"}
INVARIANTS TypeOK
PROPERTIES KeepsPromise CallsReturn CallsRunDown
