\* A job that waits for its next attempt is forgotten by a restart.
CONSTANTS
  Key = {k1, k2}
  Planning = {k2}
  Job = {j1, j2, j3}
  Lane = {l1}
  MaxAttempts = 2
  MaxCrashes = 2
  MaxRetries = 1
  None = None
SPECIFICATION Spec
CHECK_DEADLOCK FALSE
INVARIANT RestartRecovers
