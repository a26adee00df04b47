SPECIFICATION MCSpec
CONSTANTS
  StandardIds = {"s1", "s2"}
  Sources = {"f"}
  Apis = {"api"}
  Ingestor = "ingestor"
  Chunks <- MCChunks
  Days = {1, 2}
  Dates <- MCDates
  Keeps = {{}, {"source"}}
  MaxVersions = 3
  MaxOps = 4
  MaxFaults = 1
CHECK_DEADLOCK FALSE
INVARIANTS HistoriesStand IndexesFollowRows CollectionStands TextsAreReadRight
