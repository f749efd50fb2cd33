\* One invocation, two sources, up to three keystrokes; the final path may be
\* taken by something else at any moment.
SPECIFICATION Spec
CONSTANTS
  Collectors = {c1}
  Sources = {s1, s2}
  s1 = s1
  s2 = s2
  Order <- TwoSources
  Foreign = Foreign
  Nobody = Nobody
  MaxInterrupts = 3
\* Every invocation ends.
CHECK_DEADLOCK FALSE
INVARIANTS
  CompleteMeansComplete
  EverySourceAttempted
  StatusTruthful
  ResidueReported
  ResidueNamed
  AnnouncementAgrees
PROPERTIES
  DeliverySpec
