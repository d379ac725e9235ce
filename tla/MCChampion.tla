----------------------------- MODULE MCChampion -----------------------------
(* Champion with a baseline and two optimisations, and the offline choice  *)
(* on the same evidence, for TLC.                                          *)
EXTENDS TunerAgreement

MCIds == 0..2

\* A fast, a slow and a rejected sample.
MCValues == {2, 6, -1}

MCSpans == {<<0, 1, 2>>, <<2, 0, 1>>, <<1, 2>>, <<0, 1, 1>>}

Policy(n, gain, percent, z, confidence) ==
  [minimumSamples |-> n, minimumAbsoluteGain |-> gain,
   minimumRelativePercent |-> percent, zScore |-> z,
   requireConfidence |-> confidence]

\* One that demands a relative margin and separated means, one that demands
\* an absolute margin only, and an invalid one.
MCPolicies == {Policy(2, 0, 40, 2, TRUE), Policy(1, 2, 0, -1, FALSE),
               Policy(0, 0, 0, 0, FALSE)}
=============================================================================
