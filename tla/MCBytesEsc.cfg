SPECIFICATION Spec
CONSTANTS
  Text <- MCText
  RawInput <- MCRawInput
  Follower <- MCFollower
  MaxRoom = 8
  IsUtf8 <- MCIsUtf8
INVARIANTS
  TypeOK
  WireIsEscaped
  OrderKept
  RoundTrip
  TornIsRefused
  AcceptedIsCanonical
PROPERTIES
  MeasuredLengthIsCopied
  EveryScanEnds
CHECK_DEADLOCK FALSE
