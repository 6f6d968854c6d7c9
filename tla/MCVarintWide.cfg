SPECIFICATION Spec
CONSTANTS
  Value <- MCValue
  RawInput <- MCRawInput
  Follower <- MCFollower
INVARIANT
  WideReaderReadsNarrowWriter
CHECK_DEADLOCK FALSE
