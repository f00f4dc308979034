SPECIFICATION Spec
CONSTANTS
  InUse = {"synthetic", "split", "account", "quota", "viewer", "cache", "chat", "media", "monitor", "check",
    "sessions", "logins", "settings", "log", "folders", "edits", "bot", "tags", "removal"}
  None = None
  Unset = Unset
  Kept = Kept
  ToTheEnd = ToTheEnd
  Calls = {c1, c2}
  Requests <- AllRequests
  MaxBegins = 3
  MaxRotations = 0
  Copies <- WholeCopies
INVARIANTS
  TypesOK
  StaleIsKnown
  MadeSoundly
  AccountStays
  QuotaCounts
  UnlinkedIsForgotten
  CacheIsCurrent
  ChatIsWhole
  PagesFollow
  UploadsAreRight
  StreamsHaveTheirJobs
  LossIsReported
  SignInHolds
  SettingsInEffect
  PollersMissNothing
  DeletesAreSafe
  EditsHold
CHECK_DEADLOCK FALSE
