SPECIFICATION Spec
CONSTANTS
  Jobs = {1, 2}
  NoJob = 0
  Kind <- TwoReplace
  Settings <- Forcing
  Listed <- OldVod
  MaxAttempts = 2
  MaxDeferrals = 1
  MaxFaults = 0
  MaxRetries = 0
INVARIANTS NothingStray
CHECK_DEADLOCK FALSE
