SPECIFICATION Spec
CONSTANTS
  Schema <- MCSchema
  Foreign <- MCForeign
  MaxKeys = 2
  LenType <- U64
INVARIANTS
  TypeOK
  ScanInOrder
  KeysReadBack
  DecodeIsExact
CHECK_DEADLOCK FALSE
