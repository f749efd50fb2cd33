\* Up to two discoveries that name up to two matching metrics each; any request may
\* fail, and a response may go on for ever.
SPECIFICATION FairSpec
CONSTANTS
  SelectedJobs = {"ceph", "node"}
  Matching = {"up", "load"}
  JobLists <- MCJobLists
  MetricLists <- MCMetricLists
  NoName = ""
  Timed = TRUE
\* A collection ends.
CHECK_DEADLOCK FALSE
INVARIANTS
  RequestsExact
  SilenceMeansComplete
PROPERTIES
  IsEvidenceSource
  EndsUnlessFed
