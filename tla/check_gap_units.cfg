SPECIFICATION Spec
CONSTANTS
  InUse = {"check"}
  None = None
  Unset = Unset
  Kept = Kept
  ToTheEnd = ToTheEnd
  Calls = {c1}
  Requests <- AllRequests
  MaxBegins = 3
  MaxRotations = 0
  Copies <- WithAdBreak
INVARIANT WholeIsNotBad
CHECK_DEADLOCK FALSE
