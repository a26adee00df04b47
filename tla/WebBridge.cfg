\* Two reviews of one advertisement, two threads, two shutdowns or crashes.
CONSTANTS
  Ad = {a1}
  Review = {r1, r2}
  Thread = {t1, t2}
  MaxAttempts = 2
  MaxStops = 2
  None = None
SYMMETRY SymmetryAll
SPECIFICATION Spec
CHECK_DEADLOCK FALSE
INVARIANTS NoReviewForgotten AnswersAreDurable
PROPERTIES EndsOnce
