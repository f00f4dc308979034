SPECIFICATION Spec
CONSTANTS
  InUse = {"synthetic"}
  None = None
  Unset = Unset
  Kept = Kept
  ToTheEnd = ToTheEnd
  Calls = {c1}
  Requests <- KeepingOnly
  MaxBegins = 3
  MaxRotations = 0
  Copies <- WholeCopies
INVARIANT EditsAreSeen
CHECK_DEADLOCK FALSE
