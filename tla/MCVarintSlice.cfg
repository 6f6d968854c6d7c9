SPECIFICATION Spec
CONSTANTS
  Value <- MCValue
  RawInput <- MCRawInput
  Follower <- MCFollower
INVARIANT
  EncodedLenIsEnough
CHECK_DEADLOCK FALSE
