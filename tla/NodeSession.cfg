\* A Ceph source, two keystrokes, a probe that SIGTERM does not end.
SPECIFICATION FairSpec
CONSTANTS
  NodeProbes <- MCNodeProbes
  CephProbes <- MCCephProbes
  CrashList = "crash-ls-json"
  CrashInfos <- OneCrashInfo
  CollectCeph = TRUE
  Timed = TRUE
  Stubborn = {"df"}
  MaxKeystrokes = 2
\* A session ends.
CHECK_DEADLOCK FALSE
INVARIANTS
  SilenceMeansComplete
  OnlyWholeArchivesAdmitted
  RemoteResidueSaid
  NoOrphan
  SshEndsFirst
PROPERTIES
  IsEvidenceSource
  SessionEnds
  KeystrokeEnds
