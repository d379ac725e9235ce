---------------------------- MODULE MCTelemetry ----------------------------
(* A histogram of three-bit durations that counts past one hundred, its    *)
(* distribution put before the release gate.                               *)
EXTENDS ReleaseGate

MCElapsed == {-1, 0, 3, 4}

MCPercentiles == {0, 1, 50, 95, 99, 100, 101}

Distribution(none, three, four) ==
  [t \in Durations |-> IF t = 0 THEN none ELSE IF t = 3 THEN three ELSE four]

\* Percentiles at zero, in the middle and at the top; few and many samples.
MCReferences == {Distribution(2, 0, 0), Distribution(1, 19, 0), Distribution(0, 99, 1)}

Policy(percent95, absolute95, percent99, absolute99) ==
  [p95Percent |-> percent95, p95Absolute |-> absolute95,
   p99Percent |-> percent99, p99Absolute |-> absolute99]

MCPolicies == {Policy(5, 0, 10, 0), Policy(40, 0, 40, 1), Policy(-1, 0, 10, 0)}

MCClaims ==
  {{}, {"representative_benchmark"}, {"source_design", "build_tests"},
   {"source_design", "build_tests", "representative_benchmark"},
   {"source_design", "build_tests", "representative_benchmark", "ladder_runtime"}}
=============================================================================
