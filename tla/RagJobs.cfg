\* Two requests, one of them without judgment, one executor thread.
CONSTANTS
  Key = {k1, k2}
  Planning = {k2}
  Job = {j1, j2, j3}
  Lane = {l1}
  MaxAttempts = 2
  MaxCrashes = 2
  MaxRetries = 1
  None = None
SPECIFICATION FairSpec
CHECK_DEADLOCK FALSE
INVARIANT ResultAsStated
PROPERTIES ImplementsLifecycle EveryJobEnds
