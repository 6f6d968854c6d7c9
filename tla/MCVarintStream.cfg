SPECIFICATION Spec
CONSTANTS
  Value <- MCValue
  RawInput <- MCRawInput
  Follower <- MCFollower
INVARIANTS
  TypeOK
  RoundTrip
  ShortestForm
  TornIsRefused
  ShortFormsAgree
  DebugReaderIsCanonical
  SliceReaderAgrees
  SliceReadsBack
CHECK_DEADLOCK FALSE
