SPECIFICATION Spec
CONSTANTS
  Value <- MCValue
  Unstable <- MCUnstable
  MaxRoom = 8
  LenType <- U64
  LenEnd = "back"
INVARIANTS
  TypeOK
  SizeIsExact
  RoomIsBalanced
PROPERTIES
  ImplementsApi
  EveryCallReturns
CHECK_DEADLOCK FALSE
