SPECIFICATION Spec
CONSTANTS
  Second = 2
  VideoTypes = {"vod", "live"}
  PlayedFirst = "live"
  Durations = {4}
  PartLists <- MCPartLists
  CutSpans <- MCCutSpans
  GapLengths = {1}
  Gaps = {0, 1}
  Lengths = {9}
  Archives <- AllArchives
  Splits = {2, 3}
  ToTheEnd = ToTheEnd
  MaxDepth = 2
INVARIANTS PartsPlayAll RecordingPlaysInPlace CensorCovers ComposedShows FramesStay
CHECK_DEADLOCK FALSE
