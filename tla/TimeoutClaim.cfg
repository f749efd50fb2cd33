\* Under fairness, timeouts on, one probe that SIGTERM does not end.
SPECIFICATION FairSpec
CONSTANTS
  NodeProbes <- MCNodeProbes
  CephProbes <- NoProbe
  CrashList = "crash-ls-json"
  CrashInfos <- NoProbe
  CollectCeph = FALSE
  Timed = TRUE
  Stubborn = {"df"}
  MaxKeystrokes = 0
\* A session ends.
CHECK_DEADLOCK FALSE
PROPERTIES
  TimeoutBoundsProbe
