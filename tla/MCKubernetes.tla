---------------------------- MODULE MCKubernetes ----------------------------
(* One plain probe between the two that name logs.                         *)
EXTENDS KubernetesProperties

MCCatalog  == <<"consumer-pods-json", "consumer-events", "operator-pods-json">>
MCControls == {"consumer-pods-json", "operator-pods-json"}

=============================================================================
