SPECIFICATION FairSpec
CONSTANTS
  Files <- MCFiles
  Items = {"a", "b", "c", "d", "e"}
  Certified = {"d"}
  Focusable = {"a", "e"}
  Says <- MCSays
  Marked = {"e"}
  Targets <- MCTargets
  SplitLimit = 1
  Workers = 2
  TransportLimit = 2
  MaxAttempts = 2
  MaxVersions = 2
  MaxRecoveries = 1
CHECK_DEADLOCK FALSE
INVARIANTS AnsweredOnceInOrder CallsAuditedOnce
PROPERTIES SettledSurvives RunsEnd
