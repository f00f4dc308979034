SPECIFICATION EitherSpec
CONSTANTS
  First <- TwoStreams
  Length <- Lengths
  Window = 2
  Ads <- TheAds
  Untimed = {2}
  Fmp4 = TRUE
  ConnectLimit = 1
  IdleLimit = 2
  FailLimit = 0
  MaxAttempts = 1
  MaxFaults = 1
  Total = 2
  Configured = TRUE
  NoChangeLimit = 2
  ErrorLimit = 2
INVARIANTS OrderedWithGaps CapturedWhole PlaysInPlace
PROPERTIES KeepsSound CapturesEnd
CHECK_DEADLOCK FALSE
