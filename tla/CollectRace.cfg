\* Two invocations started in the same second share one final path; one source.
SPECIFICATION Spec
CONSTANTS
  Collectors = {c1, c2}
  Sources = {s1}
  s1 = s1
  s2 = s2
  Order <- OneSource
  Foreign = Foreign
  Nobody = Nobody
  MaxInterrupts = 1
SYMMETRY MCSymmetry
\* Every invocation ends.
CHECK_DEADLOCK FALSE
INVARIANTS
  FinalIsWhole
  ResultTruthful
PROPERTIES
  NoReplacement
