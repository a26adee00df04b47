\* Two reviews share one thread; one shutdown or crash.
CONSTANTS
  Ad = {a1}
  Review = {r1, r2}
  Thread = {t1}
  MaxAttempts = 2
  MaxStops = 1
  None = None
SPECIFICATION FairSpec
CHECK_DEADLOCK FALSE
PROPERTIES EveryReviewEnds
