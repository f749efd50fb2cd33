\* One invocation, one source, one keystroke.
SPECIFICATION Spec
CONSTANTS
  Collectors = {c1}
  Sources = {s1}
  s1 = s1
  s2 = s2
  Order <- OneSource
  Foreign = Foreign
  Nobody = Nobody
  MaxInterrupts = 1

\* Every invocation ends.
CHECK_DEADLOCK FALSE
INVARIANTS
  DeliveredExitsZero
