\* Two requests for one advertisement race each other, deletion and recovery.
CONSTANTS
  Ad = {a1}
  w1 = w1  w2 = w2  j1 = j1  j2 = j2  o1 = o1  o2 = o2
  Job <- TwoJobs
  Client = {c1, c2}
  Worker <- DistinctWorkers
  WorkerId <- DistinctIds
  Output = {o1}
  Unreadable = {}
  Verdict = {TRUE}
  Suggesting <- NoJobs
  RetryDelays <- NoDelays
  StaleAfter = 1
  MaxQueue = 1
  MaxFiles = 1
  MaxFaults = 1
  None = None
SYMMETRY SymmetryAll
SPECIFICATION Spec
CHECK_DEADLOCK FALSE
INVARIANTS OneActiveReviewPerAd AdStatusFollows
PROPERTIES ImplementsLifecycle
