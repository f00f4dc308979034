SPECIFICATION FairSpec
CONSTANTS
  Jobs = {1, 2}
  NoJob = 0
  Kind <- LiveAndVod
  Settings <- Forcing
  Listed <- OldVod
  MaxAttempts = 1
  MaxDeferrals = 1
  MaxFaults = 1
  MaxRetries = 1
INVARIANTS ListedIsThere UploadedOnce NothingStray
PROPERTIES NoEntryLost LinksAreCurrent UploadsSettle
CHECK_DEADLOCK FALSE
