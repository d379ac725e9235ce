--------------------------- MODULE TunerAgreement ---------------------------
(***************************************************************************)
(* The tuner decides in two places: online in EvaluateChampion, offline in *)
(* ChooseNetBenefitChampion, which calibration delegates to.  The header   *)
(* of the latter (Tuner/Calibration.hpp:36) calls it the single authority; *)
(* this module puts both on the same evidence.                             *)
(***************************************************************************)
EXTENDS Champion

Offline == INSTANCE NetBenefit

\* The CandidateEvidence a caller makes of a candidate's running statistics.
Evidence(id) ==
  [id      |-> id,
   samples |-> IF stats[id] = Corrupt THEN 0 ELSE stats[id].n,
   total   |-> IF stats[id] = Corrupt THEN -1 ELSE stats[id].total,
   correct |-> correct[id]]

EvidenceOf(span) == [i \in DOMAIN span |-> Evidence(span[i])]

\* Starting from the baseline, and without the confidence test that only the
\* online tuner has, the two decide the same champion on any evidence: what a
\* calibration table was built to answer is what the tuner would have found.
AuthoritiesAgree ==
  \A span \in Spans, policy \in Policies :
    (mode = "Adaptive" /\ ~DuplicateIds(span)) =>
      EvaluateChampion(span, Baseline, [policy EXCEPT !.requireConfidence = FALSE]).champion
        = Offline!ChooseNetBenefitChampion(EvidenceOf(span), policy).champion

\* With the confidence test the online tuner is only ever more cautious: what
\* it promotes over the baseline is what the offline choice would be.
ConfidenceOnlyWithholds ==
  \A span \in Spans, policy \in Policies :
    LET online == EvaluateChampion(span, Baseline, policy).champion
    IN  online # Baseline =>
          online = Offline!ChooseNetBenefitChampion(EvidenceOf(span), policy).champion
=============================================================================
