SPECIFICATION Spec
CONSTANTS
  Second = 1
  VideoTypes = {"live"}
  PlayedFirst = "live"
  Originals = {1, 2, 3}
  Start <- MCStart
  SideOf <- MCSideOf
  Comments <- MCComments
  CommentAt <- MCCommentAt
  Games <- MCGames
  GameAt <- MCGameAt
  GapOverrides = {}
  Computed = Computed
  Forces = {FALSE}
  Titles = {"renamed"}
  Callers = {c1, c2}
  Jobs = {j1}
  JobVods <- OnlyThree
  EditVods <- OnlyTwo
  NoVod = NoVod  NoCall = NoCall  NoJob = NoJob  NoEdit = NoEdit
  MaxSplices = 3
  MaxEdits = 1
SYMMETRY Symmetric
INVARIANTS UndoLeavesNoTrace ChatKeepsSync
PROPERTIES EditsKept
CHECK_DEADLOCK FALSE
