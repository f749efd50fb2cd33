------------------------------- MODULE MCNode -------------------------------
(* One Target Node, with few probes of each catalog.                       *)
EXTENDS NodeSession

MCNodeProbes  == <<"df">>
MCCephProbes  == <<"crash-ls-json">>
OneCrashInfo  == <<"crash-info-000001">>
NoProbe       == <<>>

=============================================================================
