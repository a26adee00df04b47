\* A thread fails after its review was canceled, or still runs after it was canceled
\* and deleted. tlc -continue shows both.
CONSTANTS
  Ad = {a1}
  Review = {r1, r2}
  Thread = {t1, t2}
  MaxAttempts = 2
  MaxStops = 2
  None = None
SPECIFICATION Spec
CHECK_DEADLOCK FALSE
INVARIANTS CancelIsNotFailure DeletedHasStopped
