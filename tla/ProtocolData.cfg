SPECIFICATION MSSpec
CONSTANTS
  Blocks = 2
  PagesPerBlock = 2
  ChunksPerPage = 1
  Uint8 = 4
  Values = {v0, v1}
  Unread = Unread
  LastLba = 1
  Faults = {"power"}
  Commands <- DataCommands
  Tags = {t0, t1}
  NoTag = NoTag
  Empty = Empty
INVARIANTS ReadsSeeLastWrite
PROPERTIES ImplementsStorage
