SPECIFICATION FairSpec
CONSTANTS
  t1 = t1  t2 = t2  t3 = t3  vodA = vodA  vodB = vodB
  Jobs = {1, 2}
  Tasks = {t1, t2}
  Callers = {c1}
  Ops = {"pause", "resume", "retry"}
  NSteps = 2
  VodKey <- OneVod
  Late = {2}
  ResolveStep = 1
  ManualSteps = {}
  OwnGates <- GateAt2
  Inherit = Inherit
  Concurrency = 1
  MaxAttempts = 2
  PickLimit = 1
  NoTask = NoTask  NoClaim = NoClaim  NoCall = NoCall
  MaxCalls = 1
  MaxStops = 1
  MaxFaults = 0
PROPERTIES EveryJobSettles
CHECK_DEADLOCK FALSE
