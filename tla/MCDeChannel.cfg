SPECIFICATION Spec
CONSTANTS
  Byte <- MCByte
  N = 4
  Chunk <- MCChunk
  MaxRead = 3
  MaxCalls = 3
INVARIANTS
  TypeOK
  RecordConserved
  TailIsQueue
  CompleteMeansAllTaken
PROPERTIES
  ReadsAllOrNothing
CHECK_DEADLOCK FALSE
