----------------------------- MODULE MCCollect -----------------------------
(* Whole invocations, on small sets of collectors and sources.             *)
EXTENDS CollectProperties, TLC

CONSTANTS s1, s2

OneSource  == <<s1>>
TwoSources == <<s1, s2>>

MCSymmetry == Permutations(Collectors)

=============================================================================
