SPECIFICATION Spec
CONSTANTS
  Text <- MCText
  RawInput <- MCRawInput
  Follower <- MCFollower
  MaxRoom = 8
  IsUtf8 <- MCIsUtf8
INVARIANT
  ReaderStandsBehind
CHECK_DEADLOCK FALSE
