\* One fixed file, one drop-in directory, one log tree; the node changes once or
\* twice and one system call fails.
SPECIFICATION Spec
CONSTANTS
  slash = slash
  etc = etc
  log = log
  sub = sub
  drop = drop
  old = old
  new = new
  alias = alias
  fifo = fifo
  absent = absent
  Inodes <- MCInodes
  Absent = absent
  Kind <- MCKind
  Depth <- MCDepth
  Recent = {new}
  Root = slash
  Names <- MCNames
  InitialTree <- MCInitial
  Jobs <- MCJobs
  MaxChanges = 2
  MaxFaults = 1
  MaxBelow = 2
\* The copy ends.
CHECK_DEADLOCK FALSE
INVARIANTS
  UndisturbedUnharmed
  StoredWasThere
  SilenceAccounts
