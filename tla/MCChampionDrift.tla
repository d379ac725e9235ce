-------------------------- MODULE MCChampionDrift ---------------------------
(* One optimisation against the baseline, sampled on after its promotion.  *)
EXTENDS Champion

MCIds == {0, 1}
MCValues == {0, 1, 8}
MCSpans == {<<0, 1>>}
MCPolicies == {[minimumSamples |-> 2, minimumAbsoluteGain |-> 1,
                minimumRelativePercent |-> 2, zScore |-> 2,
                requireConfidence |-> TRUE]}
=============================================================================
