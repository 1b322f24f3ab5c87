SPECIFICATION MSSpec
CONSTANTS
  Blocks = 1
  PagesPerBlock = 2
  ChunksPerPage = 1
  Uint8 = 4
  Values = {v0, v1}
  Unread = Unread
  LastLba = 0
  Faults = {"power", "write", "read"}
  Commands <- AllCommands
  Tags = {t0, t1}
  NoTag = NoTag
  Empty = Empty
SYMMETRY Symmetry
INVARIANTS MSTypeOK NothingOverwritten QueueBounded PacketsReachTheirParser CswAnswersCommand ReplyFitsCommand OwedInFull UnreadNeverStored
PROPERTIES BuffersStable DamageStaysLocal
