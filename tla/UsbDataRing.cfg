SPECIFICATION Spec
CONSTANTS
  BufferSize = 4
  Buf = {csw, data}
  Lengths <- MCLengths
  NoBuf = NoBuf
  NoChunk = NoChunk
INVARIANTS TypeOK
PROPERTIES IsQueue
