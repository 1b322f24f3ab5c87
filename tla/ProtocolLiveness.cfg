SPECIFICATION MSFairSpec
CONSTANTS
  Blocks = 1
  PagesPerBlock = 2
  ChunksPerPage = 1
  Uint8 = 4
  Values = {v0}
  Unread = Unread
  LastLba = 0
  Faults = {"power", "write"}
  Commands <- AllCommands
  Tags = {t0, t1}
  NoTag = NoTag
  Empty = Empty
PROPERTIES CommandsAnswered WriteBackGoesIdle
