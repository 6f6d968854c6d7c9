SPECIFICATION Spec
CONSTANTS
  Byte <- MCByte
  N = 4
  Chunk <- MCChunk
INVARIANTS
  TypeOK
  EndsNeverCross
PROPERTIES
  AcceptedBytesStay
  ImplementsStore
