SPECIFICATION Spec
INVARIANTS
  EvidenceIsOwn
  TextIsPreserved
  PagesKeepTheirPlace
  ProvenanceIsHonest
  ResultsStand
PROPERTIES
  EvidenceIsStable
CHECK_DEADLOCK FALSE
