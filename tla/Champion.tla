------------------------------ MODULE Champion ------------------------------
(***************************************************************************)
(* The champion/challenger tuner (Tuner/Champion.cpp): running statistics  *)
(* per candidate, the pure decision EvaluateChampion over a span of them,  *)
(* and the champion state the decision is applied to in a separate call.   *)
(*                                                                         *)
(* RunningStats keeps the count, the sum and the sum of squares of the     *)
(* samples, from which mean = total/n and m2 = squares - total^2/n; the    *)
(* comparisons the code makes on means and standard errors are the same    *)
(* comparisons on integers, cross-multiplied, with no rounding.            *)
(* A decision's two reported gains are left out: no code reads them.       *)
(***************************************************************************)
EXTENDS Integers, Sequences

CONSTANTS
  Ids,           \* candidate ids; 0 is the baseline
  Values,        \* samples callers report, valid or not
  MaxSamples,    \* bound of the model on a candidate's sample count
  Spans,         \* the orders and selections in which callers pass candidates
  Policies,      \* the policies callers evaluate with
  Corrupt        \* statistics whose mean or m2 is not finite

Baseline == 0

ASSUME IdsAssumption == Ids \subseteq Nat /\ Baseline \in Ids
ASSUME ValuesAssumption == Values \subseteq Int
ASSUME MaxSamplesAssumption == MaxSamples \in Nat
ASSUME SpansAssumption == Spans \subseteq Seq(Ids)
ASSUME PoliciesAssumption ==
  Policies \subseteq [minimumSamples : Int, minimumAbsoluteGain : Int,
                      minimumRelativePercent : Int, zScore : Int,
                      requireConfidence : BOOLEAN]

VARIABLES
  stats,      \* total_cost_ns of each candidate
  correct,    \* correctness_passed of each candidate
  champion,   \* ChampionState::champion
  mode,       \* ChampionState::mode
  decision    \* the last ChampionDecision, which the caller may still apply

vars == <<stats, correct, champion, mode, decision>>

Modes == {"Adaptive", "BaselineOnly"}

Reasons == {"EvidenceInvalid", "BaselineInvalid", "BaselineMode",
            "CurrentChampionInvalid", "NoEligibleChallenger",
            "NoBetterChallenger", "ChallengerInsufficientGain",
            "ChallengerInsufficientConfidence", "ChallengerWon"}

Decide(c, h, r) == [champion |-> c, challenger |-> h, reason |-> r]

NoStats == [n |-> 0, total |-> 0, squares |-> 0]

Init ==
  /\ stats = [i \in Ids |-> NoStats]
  /\ correct = [i \in Ids |-> FALSE]
  /\ champion = Baseline
  /\ mode = "Adaptive"
  /\ decision = Decide(Baseline, Baseline, "BaselineInvalid")

-----------------------------------------------------------------------------
(* Comparisons of candidates a and b on their means and standard errors.   *)

\* mean(a) < mean(b)
Faster(a, b) == stats[a].total * stats[b].n < stats[b].total * stats[a].n

\* mean(a) - mean(b), times the two sample counts.
ScaledGain(a, b) == stats[a].total * stats[b].n - stats[b].total * stats[a].n

\* n * m2
Scatter(a) == stats[a].n * stats[a].squares - stats[a].total * stats[a].total

\* LowerBound(a) > UpperBound(b): the gain exceeds z times the sum of the two
\* standard errors sqrt(m2 / ((n - 1) * n)), which are infinite below two
\* samples.  Scaled by the counts this is sqrt(g) > sqrt(u) + sqrt(v), which
\* is compared by squaring twice.
Separated(a, b, z) ==
  LET p == stats[a].n - 1
      q == stats[b].n - 1
      g == ScaledGain(a, b) * ScaledGain(a, b) * p * q
      u == z * z * stats[b].n * stats[b].n * Scatter(a) * q
      v == z * z * stats[a].n * stats[a].n * Scatter(b) * p
      w == g - u - v
  IN  /\ p >= 1 /\ q >= 1
      /\ ScaledGain(a, b) > 0
      /\ w > 0 /\ w * w > 4 * u * v

-----------------------------------------------------------------------------
(* EvaluateChampion                                                        *)

PolicyValid(policy) ==
  /\ policy.minimumSamples > 0
  /\ policy.minimumAbsoluteGain >= 0
  /\ policy.minimumRelativePercent >= 0
  /\ policy.requireConfidence => policy.zScore >= 0

DuplicateIds(span) ==
  \E i, j \in 1..Len(span) : i # j /\ span[i] = span[j]

Eligible(id, policy) ==
  /\ correct[id]
  /\ stats[id] # Corrupt
  /\ stats[id].n >= policy.minimumSamples

EligibleIn(span, policy) ==
  {i \in 1..Len(span) : Eligible(span[i], policy)}

\* (fault) the search for the challenger stops at the first eligible one.
FirstEligible(span, S) == span[CHOOSE i \in S : \A j \in S : i <= j]

\* The candidate with the lowest mean among positions S; the first of equals.
Fastest(span, S) ==
  span[CHOOSE i \in S : \A j \in S :
         \/ Faster(span[i], span[j])
         \/ ~Faster(span[j], span[i]) /\ i <= j]

\* The margin gates on a challenger with a lower mean than the incumbent.
EnoughGain(current, challenger, policy) ==
  LET gain == ScaledGain(current, challenger)
      both == stats[current].n * stats[challenger].n
  IN  /\ gain >= policy.minimumAbsoluteGain * both
      /\ 100 * gain >= policy.minimumRelativePercent
                         * stats[current].total * stats[challenger].n

\* (fault) the challenger is measured against the baseline, not the incumbent.
ContestWithBaseline(span, policy, current, fallbackReason) ==
  LET others     == {i \in EligibleIn(span, policy) : span[i] # current}
      challenger == Fastest(span, others)
  IN  IF others = {} THEN Decide(current, Baseline, fallbackReason)
      ELSE IF ~Faster(challenger, Baseline) \/ ~EnoughGain(Baseline, challenger, policy)
        THEN Decide(current, challenger, "NoBetterChallenger")
      ELSE Decide(challenger, challenger, "ChallengerWon")

\* The incumbent against the best of the other eligible candidates.
Contest(span, policy, current, fallbackReason) ==
  LET others     == {i \in EligibleIn(span, policy) : span[i] # current}
      challenger == Fastest(span, others)
  IN  IF others = {} THEN Decide(current, Baseline, fallbackReason)
      ELSE IF ~Faster(challenger, current)
        THEN Decide(current, challenger, "NoBetterChallenger")
      ELSE IF ~EnoughGain(current, challenger, policy)
        THEN Decide(current, challenger, "ChallengerInsufficientGain")
      ELSE IF policy.requireConfidence /\ ~Separated(current, challenger, policy.zScore)
        THEN Decide(current, challenger, "ChallengerInsufficientConfidence")
      ELSE Decide(challenger, challenger, "ChallengerWon")

\* A candidate the caller passed and that may hold or take the championship.
Qualified(id, span, policy) ==
  \E i \in EligibleIn(span, policy) : span[i] = id

\* (fault) the incumbent is not checked again once it is champion.
EvaluateTrustingIncumbent(span, incumbent, policy) ==
  IF ~PolicyValid(policy) \/ DuplicateIds(span)
    THEN Decide(Baseline, Baseline, "EvidenceInvalid")
  ELSE IF mode = "BaselineOnly"
    THEN Decide(Baseline, Baseline, "BaselineMode")
  ELSE IF ~Qualified(Baseline, span, policy)
    THEN Decide(Baseline, Baseline, "BaselineInvalid")
  ELSE IF stats[incumbent] = Corrupt
    THEN Contest(span, policy, Baseline, "CurrentChampionInvalid")
  ELSE Contest(span, policy, incumbent, "NoEligibleChallenger")

EvaluateChampion(span, incumbent, policy) ==
  IF ~PolicyValid(policy) \/ DuplicateIds(span)
    THEN Decide(Baseline, Baseline, "EvidenceInvalid")
  ELSE IF mode = "BaselineOnly"
    THEN Decide(Baseline, Baseline, "BaselineMode")
  ELSE IF ~Qualified(Baseline, span, policy)
    THEN Decide(Baseline, Baseline, "BaselineInvalid")
  ELSE IF ~Qualified(incumbent, span, policy)
    THEN Contest(span, policy, Baseline, "CurrentChampionInvalid")
  ELSE Contest(span, policy, incumbent, "NoEligibleChallenger")

-----------------------------------------------------------------------------
(* The calls                                                               *)

\* (fault) negative samples are accumulated like any other.
AddAnything(id, value) ==
  /\ stats[id] # Corrupt
  /\ stats[id].n < MaxSamples
  /\ stats' = [stats EXCEPT ![id] = [n |-> @.n + 1, total |-> @.total + value,
                                     squares |-> @.squares + value * value]]
  /\ UNCHANGED <<correct, champion, mode, decision>>

\* RunningStats::Add accepts a finite non-negative sample.
Add(id, value) ==
  /\ value >= 0
  /\ stats[id] # Corrupt
  /\ stats[id].n < MaxSamples
  /\ stats' = [stats EXCEPT ![id] = [n |-> @.n + 1, total |-> @.total + value,
                                     squares |-> @.squares + value * value]]
  /\ UNCHANGED <<correct, champion, mode, decision>>

\* A negative or non-finite sample, and any sample on top of a non-finite
\* mean, is refused and changes nothing.
RefuseSample(id, value) ==
  /\ value < 0 \/ stats[id] = Corrupt
  /\ UNCHANGED vars

\* The caller owns the evidence: it records the outcome of its equivalence
\* checks, and may overwrite the statistics with numbers that are not usable.
Qualify(id, passed) ==
  /\ correct' = [correct EXCEPT ![id] = passed]
  /\ UNCHANGED <<stats, champion, mode, decision>>

Overwrite(id) ==
  /\ stats' = [stats EXCEPT ![id] = Corrupt]
  /\ UNCHANGED <<correct, champion, mode, decision>>

\* Resets the candidates of the span the caller passes.
ResetEvidence(ids) ==
  /\ stats' = [i \in Ids |-> IF i \in ids THEN NoStats ELSE stats[i]]
  /\ correct' = [i \in Ids |-> i \notin ids /\ correct[i]]
  /\ UNCHANGED <<champion, mode, decision>>

ResetToBaseline(m) ==
  /\ champion' = Baseline
  /\ mode' = m
  /\ UNCHANGED <<stats, correct, decision>>

\* ChampionState is a plain struct: callers assign its mode.
SetMode(m) ==
  /\ mode' = m
  /\ UNCHANGED <<stats, correct, champion, decision>>

Evaluate(span, policy) ==
  /\ decision' = EvaluateChampion(span, champion, policy)
  /\ UNCHANGED <<stats, correct, champion, mode>>

\* (fault) the decision is applied without looking at the mode.
ApplyWhateverTheMode ==
  /\ champion' = decision.champion
  /\ UNCHANGED <<stats, correct, mode, decision>>

\* The decision is a value: it may be applied late, twice, or after the state
\* it was made from has changed.
ApplyChampionDecision ==
  /\ champion' = IF mode = "BaselineOnly" THEN Baseline ELSE decision.champion
  /\ UNCHANGED <<stats, correct, mode, decision>>

Next ==
  \/ \E id \in Ids, v \in Values : Add(id, v) \/ RefuseSample(id, v)
  \/ \E id \in Ids, passed \in BOOLEAN : Qualify(id, passed)
  \/ \E id \in Ids : Overwrite(id)
  \/ \E ids \in SUBSET Ids : ResetEvidence(ids)
  \/ \E m \in Modes : ResetToBaseline(m) \/ SetMode(m)
  \/ \E span \in Spans, policy \in Policies : Evaluate(span, policy)
  \/ ApplyChampionDecision

Spec == Init /\ [][Next]_vars

-----------------------------------------------------------------------------
(* Properties                                                              *)

RunningStats == [n : 0..MaxSamples, total : Nat, squares : Nat]

Decisions == [champion : Ids, challenger : Ids, reason : Reasons]

\* Candidates, champion and decision keep their types; in particular a decision
\* never names a candidate that does not exist.
TypeOK ==
  /\ stats \in [Ids -> RunningStats \union {Corrupt}]
  /\ correct \in [Ids -> BOOLEAN]
  /\ champion \in Ids
  /\ mode \in Modes
  /\ decision \in Decisions

\* No evaluation, from any span under any policy, keeps or promotes an
\* optimisation that is incorrect, under-sampled, corrupt or not in the span,
\* or while the baseline it is to be measured against is any of these,
\* however it became champion.
DecisionsAreQualified ==
  \A span \in Spans, policy \in Policies :
    LET d == EvaluateChampion(span, champion, policy)
    IN  d.champion # Baseline =>
          /\ Qualified(d.champion, span, policy)
          /\ Qualified(Baseline, span, policy)

\* An incumbent that still qualifies is only ever replaced by a candidate that
\* is strictly faster than it and that no other qualified candidate beats.
ChangesAreImprovements ==
  \A span \in Spans, policy \in Policies :
    LET d == EvaluateChampion(span, champion, policy)
    IN  (/\ d.reason \notin {"EvidenceInvalid", "BaselineMode", "BaselineInvalid"}
         /\ Qualified(champion, span, policy)
         /\ d.champion # champion)
        => /\ Faster(d.champion, champion)
           /\ \A i \in EligibleIn(span, policy) : ~Faster(span[i], d.champion)

\* Champion and challenger do not chase each other: evaluating again with the
\* decided champion installed and the same evidence decides the same champion.
DecisionsAreStable ==
  \A span \in Spans, policy \in Policies :
    LET d == EvaluateChampion(span, champion, policy)
    IN  EvaluateChampion(span, d.champion, policy).champion = d.champion

\* The baseline-only switch holds: while the mode stays BaselineOnly nothing,
\* a decision made before the switch included, brings an optimisation back.
BaselineOnlyHolds ==
  [][mode = "BaselineOnly" /\ mode' = "BaselineOnly" /\ champion = Baseline
       => champion' = Baseline]_vars

\* docs/ARCHITECTURE.md: "An optimisation that is slower, too noisy, incorrect,
\* or below the configured benefit threshold is disabled."  No evaluation keeps
\* an optimisation whose mean cost exceeds the baseline's.
SlowerIsDisabled ==
  \A span \in Spans, policy \in Policies :
    LET d == EvaluateChampion(span, champion, policy)
    IN  d.champion # Baseline => ~Faster(Baseline, d.champion)
=============================================================================
