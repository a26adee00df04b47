\* A review after a revision reads the original file, a failed review leaves its
\* advertisement in ANALYSIS_REQUESTED, and an object-store outage ends a job at once.
\* tlc -continue shows all three.
CONSTANTS
  Ad = {a1}
  w1 = w1  w2 = w2  j1 = j1  j2 = j2  o1 = o1  o2 = o2
  Job <- OneJob
  Client = {c1}
  Worker <- OneWorker
  WorkerId <- OneId
  Output = {o1}
  Unreadable = {}
  Verdict = {TRUE}
  Suggesting <- NoJobs
  RetryDelays <- CodeDelays
  StaleAfter = 2
  MaxQueue = 2
  MaxFiles = 2
  MaxFaults = 1
  None = None
SPECIFICATION Spec
CHECK_DEADLOCK FALSE
INVARIANTS StorageFaultIsRetried RevisionIsReviewed AdShowsFailure
