--------------------------- MODULE MCCalibration ---------------------------
(* Calibration over three sizes and every outcome a measured point may have. *)
EXTENDS Calibration

Evidence(id, samples, total, correct) ==
  [id |-> id, samples |-> samples, total |-> total, correct |-> correct]

MCEvidences == {
  <<>>,
  <<Evidence(0, 2, 8, TRUE)>>,
  <<Evidence(0, 2, 8, TRUE), Evidence(1, 2, 6, TRUE), Evidence(2, 4, 4, TRUE)>>,
  <<Evidence(1, 2, 2, TRUE), Evidence(0, 2, 8, TRUE), Evidence(2, 3, 0, FALSE)>>,
  <<Evidence(2, 1, 1, TRUE), Evidence(1, 2, -2, TRUE), Evidence(0, 4, 16, TRUE)>>,
  <<Evidence(1, 2, 7, TRUE), Evidence(0, 2, 8, FALSE)>>,
  <<Evidence(1, 2, 2, TRUE), Evidence(0, 2, 8, TRUE), Evidence(1, 2, 4, TRUE)>>,
  <<Evidence(2, 2, 2, TRUE)>>}

Policy(samples, gain, percent) ==
  [minimumSamples |-> samples, minimumAbsoluteGain |-> gain,
   minimumRelativePercent |-> percent]

MCPolicies == {Policy(2, 0, 40), Policy(1, 1, 0), Policy(0, 0, 0)}
=============================================================================
