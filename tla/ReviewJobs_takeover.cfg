\* Two workers and one job: takeovers, zombies, lost messages.
CONSTANTS
  Ad = {a1}
  w1 = w1  w2 = w2  j1 = j1  j2 = j2  o1 = o1  o2 = o2
  Job <- OneJob
  Client = {c1}
  Worker <- DistinctWorkers
  WorkerId <- DistinctIds
  Output = {o1, o2}
  Unreadable = {o2}
  Verdict = {TRUE, FALSE}
  Suggesting <- OneJob
  RetryDelays <- ShortDelays
  StaleAfter = 1
  MaxQueue = 2
  MaxFiles = 1
  MaxFaults = 2
  None = None
SYMMETRY SymmetryWorkers
SPECIFICATION Spec
CHECK_DEADLOCK FALSE
INVARIANTS JobReviewAgree CheckpointCoherent DeadLetterSound
PROPERTIES LeaseFencesOthers
