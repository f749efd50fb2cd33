\* Two controls that name up to two logs each, three keystrokes; no process need end.
SPECIFICATION FairSpec
CONSTANTS
  Catalog <- MCCatalog
  Controls <- MCControls
  Timed = TRUE
  MaxLogs = 2
  MaxKeystrokes = 3
\* A collection ends.
CHECK_DEADLOCK FALSE
INVARIANTS
  NamesFresh
  SurvivorStopsPromotion
  InterruptNotSwallowed
  InterruptLeavesNoGroup
  SilenceMeansComplete
PROPERTIES
  IsEvidenceSource
  CollectionEnds
