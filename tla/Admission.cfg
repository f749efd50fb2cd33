\* The Ceph source, which may send any archive of the pool, and another Target
\* Node; a file system that folds case.
SPECIFICATION FairSpec
CONSTANTS
  Nodes = {"alpha", "beta"}
  CephSource = "alpha"
  Names <- MCNames
  Unsafe = {".."}
  Fold <- MCFold
  FsFold <- MCFold
  Root = "root"
  Archives <- MCArchives
  ChunkBytes = 2
\* Collection ends.
CHECK_DEADLOCK FALSE
INVARIANTS
  AdmissionIsExact
  ExtractionUnobstructed
  ContributionWhole
  AdmittedIsPublishable
PROPERTIES
  Decides
