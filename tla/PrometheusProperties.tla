------------------------ MODULE PrometheusProperties ------------------------
(***************************************************************************)
(* What run() and the operator may rely on when collect_prometheus ends.   *)
(***************************************************************************)
EXTENDS PrometheusCollection, FiniteSets

Places(kind) == {i \in DOMAIN captures : captures[i].request.kind = kind}

\* The directories of the discoveries and the jobs they are about.
Discovered == {<<captures[i].request.number, captures[i].request.job>> : i \in Places("metric-names")}

\* The selected names of a list, numbered as they come.
Numbered(list) ==
  LET selected(p) == {q \in 1 .. p : list[q] \in SelectedJobs}
  IN  {<<Cardinality(selected(p)), list[p]>> : p \in selected(Len(list))}

\* The discoveries for job j that named metric m, and the ranges asked of the two.
Naming(j, m) ==
  {i \in Places("metric-names") : captures[i].request.job = j /\ Contains(captures[i].list, m)}

Asking(j, m) ==
  {i \in Places("query-range") :
     captures[i].request.job = j /\ captures[i].request.metric = m}

MetricNames == UNION {ToSet(l) : l \in MetricLists}

\* What is admitted is exactly what the server's answers call for: the three
\* controls, one discovery per named job, numbered in job-values' order, one range
\* per discovered pair, each request under a name of its own, however many of the
\* other requests failed.
RequestsExact ==
  admitted =>
     /\ \A i, j \in DOMAIN captures :
           /\ captures[i].request.kind = captures[j].request.kind
           /\ captures[i].request.number = captures[j].request.number
           => i = j
     /\ Places("buildinfo") # {} /\ Places("targets") # {}
     /\ \E i \in Places("job-values") : Discovered = Numbered(captures[i].list)
     /\ \A m \in MetricNames, j \in SelectedJobs :
           Cardinality(Asking(j, m)) = IF m \in Matching THEN Cardinality(Naming(j, m)) ELSE 0

\* A collection that returns no problem made every request, received every
\* response to its end, understood every list and promoted all of it.
SilenceMeansComplete ==
  ppc = "returned" /\ ~problems =>
     /\ admitted /\ left = <<>> /\ stage = "ranges"
     /\ \A i \in DOMAIN captures : captures[i].outcome \notin {"failed", "malformed"}

Source == INSTANCE EvidenceSource WITH
            phase <- IF ppc \in WorkingLabels THEN "working" ELSE ppc,
            contribution <- admitted,
            problem <- IF ppc = "returned" THEN problems ELSE FALSE

\* collect_prometheus is an evidence source as run() takes it.
IsEvidenceSource == Source!Spec

\* With a timeout the collection ends, unless the server keeps sending: the
\* timeout bounds each wait, not the response.
EndsUnlessFed == <>(ppc \in {"returned", "interrupted"}) \/ []<><<Chunk>>_vars

=============================================================================
