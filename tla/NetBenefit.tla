----------------------------- MODULE NetBenefit -----------------------------
(***************************************************************************)
(* The stateless choice between a baseline and its challengers             *)
(* (Tuner/NetBenefit.cpp).  A piece of evidence gives a candidate's mean   *)
(* total cost as the fraction total/samples; a total below zero stands for *)
(* every mean the code refuses (negative, infinite, not a number).  The    *)
(* two reported gains are left out: no code reads them.                    *)
(***************************************************************************)
EXTENDS Integers, Sequences

Baseline == 0

Choice(id, reason) == [champion |-> id, reason |-> reason]

\* The least element of a set of positions.
First(S) == CHOOSE i \in S : \A j \in S : i <= j

PolicyValid(policy) ==
  /\ policy.minimumSamples > 0
  /\ policy.minimumAbsoluteGain >= 0
  /\ policy.minimumRelativePercent >= 0

\* (fault) evidence that failed its equivalence checks is eligible.
EligibleUnchecked(candidate, policy) ==
  /\ candidate.samples >= policy.minimumSamples
  /\ candidate.total >= 0

Eligible(candidate, policy) ==
  /\ candidate.correct
  /\ candidate.samples >= policy.minimumSamples
  /\ candidate.total >= 0

\* mean(a) < mean(b)
Cheaper(a, b) == a.total * b.samples < b.total * a.samples

\* mean(a) - mean(b), times the two sample counts.
ScaledGain(a, b) == a.total * b.samples - b.total * a.samples

EnoughGain(baseline, best, policy) ==
  LET gain == ScaledGain(baseline, best)
  IN  /\ gain >= policy.minimumAbsoluteGain * baseline.samples * best.samples
      /\ 100 * gain >= policy.minimumRelativePercent
                         * baseline.total * best.samples

Baselines(evidence) == {i \in DOMAIN evidence : evidence[i].id = Baseline}

Challengers(evidence, policy) ==
  {i \in DOMAIN evidence :
     evidence[i].id # Baseline /\ Eligible(evidence[i], policy)}

\* The positions of S with the lowest mean.
Cheapest(evidence, S) ==
  {i \in S : \A j \in S : ~Cheaper(evidence[j], evidence[i])}

\* (fault) the first challenger that beats the baseline is taken.
ChooseFirstWinner(evidence, policy) ==
  LET baseline == evidence[First(Baselines(evidence))]
      winners  == {i \in Challengers(evidence, policy) :
                     Cheaper(evidence[i], baseline) /\ EnoughGain(baseline, evidence[i], policy)}
  IN  IF ~PolicyValid(policy)
        THEN Choice(Baseline, "PolicyInvalid")
      ELSE IF Baselines(evidence) = {} \/ ~Eligible(baseline, policy)
        THEN Choice(Baseline, "BaselineInvalid")
      ELSE IF winners = {}
        THEN Choice(Baseline, "NoPositiveNetBenefit")
      ELSE Choice(evidence[First(winners)].id, "ChallengerWon")

\* The first entry of the baseline is the baseline; of equally cheap
\* challengers the first is the best.
ChooseNetBenefitChampion(evidence, policy) ==
  LET baseline    == evidence[First(Baselines(evidence))]
      challengers == Challengers(evidence, policy)
      best        == evidence[First(Cheapest(evidence, challengers))]
  IN  IF ~PolicyValid(policy)
        THEN Choice(Baseline, "PolicyInvalid")
      ELSE IF Baselines(evidence) = {} \/ ~Eligible(baseline, policy)
        THEN Choice(Baseline, "BaselineInvalid")
      ELSE IF challengers = {}
        THEN Choice(Baseline, "NoEligibleChallenger")
      ELSE IF ~Cheaper(best, baseline) \/ ~EnoughGain(baseline, best, policy)
        THEN Choice(Baseline, "NoPositiveNetBenefit")
      ELSE Choice(best.id, "ChallengerWon")
=============================================================================
