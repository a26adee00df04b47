SPECIFICATION MCSpec
CONSTANTS
  a1 = a1
  a2 = a2
  Apis = {a1, a2}
  Threshold = 2
  PerMinute = 2
  MaxRequests = 4
SYMMETRY Symmetric
INVARIANTS
  EvaluationsStand
  OutputsAgree
  RegistrationsStand
  OneSessionPerLogin
CHECK_DEADLOCK FALSE
