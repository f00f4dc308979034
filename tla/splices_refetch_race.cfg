SPECIFICATION Spec
CONSTANTS
  Second = 1
  VideoTypes = {"live"}
  PlayedFirst = "live"
  Originals = {1, 2, 3}
  Start <- MCStart
  SideOf <- MCSideOf
  Comments <- MCComments
  CommentAt <- MCCommentAt
  Games <- MCGames
  GameAt <- MCGameAt
  GapOverrides = {}
  Computed = Computed
  Forces = {FALSE}
  Titles = {"renamed"}
  Callers = {c1}
  Jobs = {j1}
  JobVods <- OnlyOne
  EditVods <- OnlyTwo
  NoVod = NoVod  NoCall = NoCall  NoJob = NoJob  NoEdit = NoEdit
  MaxSplices = 1
  MaxEdits = 0
INVARIANTS ChatKeepsSync
CHECK_DEADLOCK FALSE
