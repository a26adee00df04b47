SPECIFICATION MCSpec
CONSTANTS
  p = p
  q = q
  Run <- MCRuns
  Corpus = {"c1", "c2"}
  Rules <- MCCatalogs
  Take = {1, 2}
  None = None
  Damaged = Damaged
  MaxRuns = 3
  MaxFaults = 1
SYMMETRY Symmetric
CHECK_DEADLOCK FALSE
INVARIANTS RequestsAreWarranted WindowsAreHonest ResultAccountsForAll SearchesAreWhole
