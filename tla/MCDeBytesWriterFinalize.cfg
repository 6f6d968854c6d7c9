SPECIFICATION Spec
CONSTANTS
  Byte <- MCByte
  N = 4
  Chunk <- MCChunk
INVARIANT
  FinalizeReturnsDataLength
