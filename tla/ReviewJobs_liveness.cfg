\* The retry delays of the code, one worker and one job: every review ends, and a
\* revision may come at any moment of it.
CONSTANTS
  Ad = {a1}
  w1 = w1  w2 = w2  j1 = j1  j2 = j2  o1 = o1  o2 = o2
  Job <- OneJob
  Client = {c1}
  Worker <- OneWorker
  WorkerId <- OneId
  Output = {o1}
  Unreadable = {}
  Verdict = {TRUE}
  Suggesting <- NoJobs
  RetryDelays <- CodeDelays
  StaleAfter = 2
  MaxQueue = 2
  MaxFiles = 2
  MaxFaults = 2
  None = None
SPECIFICATION FairSpec
CHECK_DEADLOCK FALSE
PROPERTIES EveryReviewEnds
