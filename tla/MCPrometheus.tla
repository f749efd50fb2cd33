---------------------------- MODULE MCPrometheus ----------------------------
(* Repeated jobs and metrics, a job and a metric that are not selected.    *)
EXTENDS PrometheusProperties

MCJobLists    == {<<>>, <<"ceph", "db">>, <<"node", "ceph">>, <<"ceph", "node", "ceph">>}
MCMetricLists == {<<>>, <<"up", "up">>, <<"load", "up", "go">>}

=============================================================================
