---------------------------- MODULE ReleaseGate -----------------------------
(***************************************************************************)
(* The proof tooling fed with measurements (Proof/Manifest.cpp,            *)
(* Proof/Profiles.cpp, Proof/Regression.cpp).  `accepted` of Telemetry is  *)
(* a distribution of measured durations.  The microbenchmark               *)
(* (Bench/Micro/spatial_query_bench.cpp) reports its exact percentiles; a  *)
(* BenchmarkRecord made of them is validated in a certification manifest   *)
(* and compared with the record of a reference distribution.               *)
(*                                                                         *)
(* A profile is the set of its fields that are not empty, proof layers are *)
(* the set of layers claimed, relative limits are in percent.              *)
(***************************************************************************)
EXTENDS Telemetry, Sequences

CONSTANTS
  Identities,    \* what a record is of: a candidate at a workload size
  OnFile,        \* the identity of the references
  References,    \* distributions measured for an earlier release
  RegressionPolicies,      \* regression policies, valid and not
  Claims,        \* sets of proof layers a manifest claims
  NonFinite

ASSUME OnFileAssumption == OnFile \in Identities
ASSUME NonFiniteAssumption == NonFinite \notin Int

\* A record on file was made of samples.
ASSUME ReferencesAssumption ==
  \A reference \in References :
    reference \in [Durations -> Nat] /\ \E t \in Durations : reference[t] > 0
ASSUME RegressionPoliciesAssumption ==
  RegressionPolicies \subseteq
    [p95Percent : Int \union {NonFinite}, p95Absolute : Nat,
     p99Percent : Int \union {NonFinite}, p99Absolute : Nat]

-----------------------------------------------------------------------------
(* The benchmark's percentiles                                             *)

CountOf(dist) == SumUpTo(dist, MaxDuration)

NearestRank(n, percent) == Least(Greatest(1, (n * percent + 99) \div 100), n)

\* The sample of that rank, in order of duration.
Percentile(dist, percent) ==
  LET rank     == NearestRank(CountOf(dist), percent)
      reaching == {t \in DOMAIN dist : SumUpTo(dist, t) >= rank}
  IN  CHOOSE t \in reaching : \A u \in reaching : t <= u

\* The BenchmarkRecord of a distribution; without samples there is only the
\* record as it is initialised.
Record(of, dist, passed) ==
  LET n == CountOf(dist)
  IN  IF n = 0
      THEN [identity |-> of, samples |-> 0, mean |-> 0, p50 |-> 0, p95 |-> 0, p99 |-> 0,
            correct |-> passed]
      ELSE [identity |-> of,
            samples |-> n,
            mean    |-> SumUpTo([t \in DOMAIN dist |-> t * dist[t]], MaxDuration) \div n,
            p50     |-> Percentile(dist, 50),
            p95     |-> Percentile(dist, 95),
            p99     |-> Percentile(dist, 99),
            correct |-> passed]

-----------------------------------------------------------------------------
(* The manifest                                                            *)

Finite(mean) == mean # NonFinite /\ mean >= 0

\* (fault) the mean is not looked at, nor the number of samples behind it.
BenchmarkValidByOrder(record) == record.p50 <= record.p95 /\ record.p95 <= record.p99

BenchmarkValid(record) ==
  /\ record.samples > 0 /\ Finite(record.mean)
  /\ record.p50 <= record.p95 /\ record.p95 <= record.p99

ProofLayers == <<"source_design", "build_tests", "representative_benchmark",
                 "consumer_integration", "ladder_runtime">>

ProofOrderValid(layers) ==
  \A i \in 2..5 : ProofLayers[i] \in layers => ProofLayers[i - 1] \in layers

HardwareFields == {"id", "cpu", "os", "compiler", "build_config"}
WorkloadFields == {"id", "family", "version", "sc2_build", "data_version",
                   "corpus_identity"}

Representative(manifest) == "representative_benchmark" \in manifest.layers

ValidateManifest(manifest) ==
  IF ~manifest.schemaMatches THEN "SchemaVersion"
  ELSE IF ~manifest.apiMatches THEN "ApiContractVersion"
  ELSE IF ~manifest.identified THEN "MissingIdentity"
  ELSE IF manifest.hardware # HardwareFields THEN "InvalidHardware"
  ELSE IF manifest.workload # WorkloadFields THEN "InvalidWorkload"
  ELSE IF ~ProofOrderValid(manifest.layers) THEN "InvalidProofOrder"
  ELSE IF Representative(manifest)
          /\ (manifest.kind # "Representative" \/ manifest.benchmarks = <<>>)
       THEN "MissingRepresentativeEvidence"
  ELSE IF \E i \in DOMAIN manifest.benchmarks :
            \/ ~BenchmarkValid(manifest.benchmarks[i])
            \/ Representative(manifest) /\ ~manifest.benchmarks[i].correct
       THEN "InvalidBenchmark"
  ELSE "None"

\* A manifest complete in everything but its evidence.
Manifest(layers, kind, benchmarks) ==
  [schemaMatches |-> TRUE, apiMatches |-> TRUE, identified |-> TRUE,
   hardware |-> HardwareFields, workload |-> WorkloadFields,
   kind |-> kind, layers |-> layers, benchmarks |-> benchmarks]

-----------------------------------------------------------------------------
(* The regression gate                                                     *)

PolicyValid(policy) ==
  \A limit \in {policy.p95Percent, policy.p99Percent} : limit # NonFinite /\ limit >= 0

EvidenceValid(record) ==
  /\ record.samples > 0 /\ record.correct /\ Finite(record.mean)
  /\ record.p50 <= record.p95 /\ record.p95 <= record.p99

\* (fault) an increase from zero is no relative increase.
ExceedsFromZero(reference, candidate, percent, absolute) ==
  /\ candidate > reference
  /\ \/ absolute # 0 /\ candidate - reference > absolute
     \/ reference # 0 /\ 100 * (candidate - reference) > percent * reference

\* An increase from zero is infinitely large; an absolute limit of zero is
\* none.
Exceeds(reference, candidate, percent, absolute) ==
  /\ candidate > reference
  /\ \/ absolute # 0 /\ candidate - reference > absolute
     \/ reference = 0
     \/ 100 * (candidate - reference) > percent * reference

EvaluatePerformanceRegression(reference, candidate, policy) ==
  IF ~PolicyValid(policy) THEN "InvalidPolicy"
  ELSE IF reference.identity # candidate.identity THEN "IdentityMismatch"
  ELSE IF ~EvidenceValid(reference) \/ ~EvidenceValid(candidate) THEN "InvalidEvidence"
  ELSE IF Exceeds(reference.p95, candidate.p95, policy.p95Percent, policy.p95Absolute)
       THEN "P95Regression"
  ELSE IF Exceeds(reference.p99, candidate.p99, policy.p99Percent, policy.p99Absolute)
       THEN "P99Regression"
  ELSE "None"

\* The records the gate has on file.
ReferenceRecord == [reference \in References |-> Record(OnFile, reference, TRUE)]

-----------------------------------------------------------------------------
(* Properties                                                              *)

\* docs/RUNTIME_OPTIMIZATION.md: live telemetry reports "conservative
\* p50/p95/p99 bucket upper bounds", "exact distribution analysis belongs in
\* benchmark/proof tooling".  The two compute their ranks differently; on the
\* same samples the histogram answers the upper end of the very bucket that
\* holds the benchmark's exact percentile.
HistogramAgreesWithBench ==
  samples > 0 =>
    \A p \in Percentiles \intersect (1..100) :
      PercentileUpper(p) = BucketUpper(BucketFor(Percentile(accepted, p)))

\* Manifest and regression gate each have their own idea of valid evidence
\* (Manifest.cpp:10, Regression.cpp:17).  Whatever is measured, a manifest
\* that passes with the representative layer contains only records the gate
\* can compare, claims no layer over a missing one and is not synthetic; and
\* a correct measurement is not refused.
CertifiedIsComparable ==
  \A passed \in BOOLEAN :
    LET record == Record(OnFile, accepted, passed)
    IN  \A layers \in Claims, kind \in {"Synthetic", "Representative"} :
          LET issue == ValidateManifest(Manifest(layers, kind, <<record>>))
          IN  /\ issue = "None" /\ "representative_benchmark" \in layers =>
                   /\ EvidenceValid(record) /\ kind = "Representative"
                   /\ {"source_design", "build_tests"} \subseteq layers
              /\ samples > 0 /\ passed /\ kind = "Representative" /\ ProofOrderValid(layers)
                   => issue = "None"

\* No sample share of the candidate is slower than the same share of the
\* reference, whatever the two numbers of samples.
NoSlower(candidate, reference) ==
  LET n == CountOf(candidate)
      m == ReferenceRecord[reference].samples
  IN  \A t \in DOMAIN reference :
        SumUpTo(candidate, t) * m >= SumUpTo(reference, t) * n

\* The share of percent of the samples stays within the limits over what the
\* reference recorded for that share.
TailWithin(dist, recorded, percent, limit, absolute) ==
  \E t \in DOMAIN dist :
    /\ 100 * (t - recorded) <= limit * recorded
    /\ absolute # 0 => t - recorded <= absolute
    /\ 100 * SumUpTo(dist, t) >= percent * CountOf(dist)

\* docs/BUILD_POLICY.md: performance regression checks "fail closed".  What
\* passes the gate was measured as the reference was and keeps both tails of
\* its distribution within the policy's limits over it; a candidate no slower
\* at any share passes under every valid policy, also when it was sampled more
\* or less often.
GateJudgesTheTail ==
  samples > 0 =>
    \A of \in Identities, reference \in References, policy \in RegressionPolicies :
      LET filed == ReferenceRecord[reference]
          issue == EvaluatePerformanceRegression(filed, Record(of, accepted, TRUE), policy)
      IN  /\ issue = "None" =>
               /\ of = OnFile
               /\ TailWithin(accepted, filed.p95, 95, policy.p95Percent, policy.p95Absolute)
               /\ TailWithin(accepted, filed.p99, 99, policy.p99Percent, policy.p99Absolute)
          /\ PolicyValid(policy) /\ of = OnFile /\ issue # "None" => ~NoSlower(accepted, reference)
=============================================================================
