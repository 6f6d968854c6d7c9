SPECIFICATION Spec
CONSTANTS
  Types <- MCTypes
  Sample <- MCSample
  Extra <- MCExtra
  Damage <- MCDamage
  IsUtf8 <- MCIsUtf8
  LenType <- U64
INVARIANTS
  TypeOK
  RoundTrip
  EveryByteAccounted
  TornIsRefused
PROPERTIES
  EveryCallEnds
CHECK_DEADLOCK FALSE
