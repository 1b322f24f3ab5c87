SPECIFICATION MSSpec
CONSTANTS
  Blocks = 1
  PagesPerBlock = 1
  ChunksPerPage = 2
  Uint8 = 4
  Values = {v0, v1}
  Unread = Unread
  LastLba = 1
  Faults = {}
  Commands <- DataCommands
  Tags = {t0, t1}
  NoTag = NoTag
  Empty = Empty
INVARIANTS ReadsSeeLastWrite
