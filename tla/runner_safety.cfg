SPECIFICATION Spec
CONSTANTS
  t1 = t1  t2 = t2  t3 = t3  vodA = vodA  vodB = vodB
  Jobs = {1, 2}
  Tasks = {t1, t2}
  Callers = {c1}
  Ops = {"pause", "resume", "once", "retry", "cancel", "gates"}
  NSteps = 3
  VodKey <- OneVod
  Late = {}
  ResolveStep = 1
  ManualSteps = {}
  OwnGates <- GateAt2
  Inherit = Inherit
  Concurrency = 2
  MaxAttempts = 1
  PickLimit = 1
  NoTask = NoTask  NoClaim = NoClaim  NoCall = NoCall
  MaxCalls = 2
  MaxStops = 1
  MaxFaults = 1
INVARIANTS OneTaskPerKey CrashResumesHere
PROPERTIES ImplementsDurableJob
CHECK_DEADLOCK FALSE
