-------------------------- MODULE Champion_proofs ---------------------------
(***************************************************************************)
(* Proofs about Champion, for any candidates, spans, policies and samples, *)
(* and, in the second half, about Persistence, the store champions are     *)
(* kept in, for any records, writes, tears and restarts.                   *)
(***************************************************************************)
EXTENDS TunerAgreement, Persistence, OrderLemmas, SequenceTheorems, FiniteSetTheorems, TLAPS

-----------------------------------------------------------------------------
(* The challenger search.  A finite set of positions has one of lowest     *)
(* mean: the position fewest others beat.                                  *)

\* A candidate with samples behind a usable mean.
Measured(id) == id \in Ids /\ stats[id] \in RunningStats /\ stats[id].n # 0

LEMMA FasterOrder ==
  ASSUME NEW a, NEW b, NEW c, Measured(a), Measured(b), Measured(c),
         Faster(a, b), ~Faster(c, b)
  PROVE  Faster(a, c)
<1>1. /\ stats[a].total \in Nat /\ stats[a].n \in Nat \ {0}
      /\ stats[b].total \in Nat /\ stats[b].n \in Nat \ {0}
      /\ stats[c].total \in Nat /\ stats[c].n \in Nat \ {0}
  BY DEF Measured, RunningStats
<1>2. QED
  BY <1>1, QuotientOrder DEF Faster

LEMMA FasterAsymmetric ==
  ASSUME NEW a, NEW b, Measured(a), Measured(b), Faster(a, b)
  PROVE  ~Faster(b, a)
<1>1. /\ stats[a].total * stats[b].n \in Int /\ stats[b].total * stats[a].n \in Int
  BY DEF Measured, RunningStats
<1>2. QED
  BY <1>1 DEF Faster

LEMMA FastestIsLowest ==
  ASSUME NEW span, NEW S, IsFiniteSet(S), S \subseteq Nat, S # {},
         \A i \in S : Measured(span[i])
  PROVE  \E i \in S : /\ Fastest(span, S) = span[i]
                      /\ \A j \in S : ~Faster(span[j], span[i])
<1> DEFINE Beats(j, i) == Faster(span[j], span[i])
           Beaters(i) == {j \in S : Beats(j, i)}
           ranks == {Cardinality(Beaters(i)) : i \in S}
           lowest == {i \in S : \A j \in S : ~Beats(j, i)}
<1>1. \A i \in S : IsFiniteSet(Beaters(i)) /\ Cardinality(Beaters(i)) \in Nat
  BY FS_Subset, FS_CardinalityType
<1>2. PICK i \in S : \A j \in S : Cardinality(Beaters(i)) <= Cardinality(Beaters(j))
  <2>1. ranks \subseteq Nat /\ ranks # {}
    BY <1>1
  <2>2. \E r \in ranks : \A s \in ranks : r <= s
    BY <2>1, LeastNatural
  <2>3. QED
    BY <2>2
<1>3. i \in lowest
  <2>1. SUFFICES ASSUME NEW j \in S, Beats(j, i) PROVE FALSE
    OBVIOUS
  <2>2. Beaters(j) \subseteq Beaters(i)
    <3>1. SUFFICES ASSUME NEW k \in S, Beats(k, j) PROVE Beats(k, i)
      OBVIOUS
    <3>2. ~Beats(i, j)
      BY <2>1, FasterAsymmetric
    <3>3. QED
      BY <3>1, <3>2, FasterOrder
  <2>3. j \in Beaters(i) /\ j \notin Beaters(j)
    BY <2>1, FasterAsymmetric
  <2>4. Cardinality(Beaters(j)) # Cardinality(Beaters(i))
    BY <1>1, <2>2, <2>3, FS_Subset
  <2>5. Cardinality(Beaters(j)) <= Cardinality(Beaters(i))
    BY <1>1, <2>2, FS_Subset
  <2>6. QED
    BY <1>1, <1>2, <2>4, <2>5
<1>4. PICK first \in lowest : \A j \in lowest : first <= j
  <2>1. lowest \subseteq Nat /\ lowest # {}
    BY <1>3
  <2>2. QED
    BY <2>1, LeastNatural
<1> DEFINE Chosen(p) == \A j \in S : \/ Beats(p, j)
                                     \/ ~Beats(j, p) /\ p <= j
<1>5. first \in S /\ Chosen(first)
  <2>1. SUFFICES ASSUME NEW j \in S, ~Beats(first, j) PROVE ~Beats(j, first) /\ first <= j
    OBVIOUS
  <2>2. \A k \in S : Beats(k, j) => Beats(k, first)
    BY <2>1, FasterOrder
  <2>3. j \in lowest
    BY <2>2
  <2>4. QED
    BY <1>4, <2>3
<1>6. PICK p \in S : Chosen(p) /\ Fastest(span, S) = span[p]
  <2>1. Fastest(span, S) = span[CHOOSE p \in S : Chosen(p)]
    BY DEF Fastest
  <2>2. \E p \in S : Chosen(p)
    BY <1>5
  <2>3. QED
    BY <2>1, <2>2
<1>7. \A j \in S : ~Beats(j, p)
  BY <1>6, FasterAsymmetric
<1>8. QED
  BY <1>6, <1>7

-----------------------------------------------------------------------------
(* Contest and EvaluateChampion.                                           *)

LEMMA EligibleIsMeasured ==
  ASSUME TypeOK, NEW policy, PolicyValid(policy), policy.minimumSamples \in Int,
         NEW id \in Ids, Eligible(id, policy)
  PROVE  Measured(id)
<1>1. stats[id] \in RunningStats
  BY DEF TypeOK, Eligible
<1>2. stats[id].n >= 1
  BY <1>1 DEF Eligible, PolicyValid, RunningStats
<1>3. QED
  BY <1>1, <1>2 DEF Measured, RunningStats

LEMMA PositionsFinite ==
  ASSUME NEW span \in Spans, NEW policy
  PROVE  /\ EligibleIn(span, policy) \subseteq Nat
         /\ IsFiniteSet(EligibleIn(span, policy))
         /\ \A S \in SUBSET EligibleIn(span, policy) : IsFiniteSet(S)
         /\ \A i \in EligibleIn(span, policy) :
              span[i] \in Ids /\ Eligible(span[i], policy)
<1>1. span \in Seq(Ids) /\ Len(span) \in Nat
  BY SpansAssumption
<1>2. IsFiniteSet(1..Len(span))
  BY <1>1, FS_Interval
<1>3. EligibleIn(span, policy) \subseteq 1..Len(span)
  BY DEF EligibleIn
<1>4. EligibleIn(span, policy) \subseteq Nat
  BY <1>1, <1>3
<1>5. \A S \in SUBSET EligibleIn(span, policy) : IsFiniteSet(S)
  BY <1>2, <1>3, FS_Subset
<1>6. \A i \in EligibleIn(span, policy) : span[i] \in Ids /\ Eligible(span[i], policy)
  BY <1>1 DEF EligibleIn
<1>7. QED
  BY <1>4, <1>5, <1>6

\* What the challenger search returns among positions of eligible candidates.
LEMMA ChallengerIsLowest ==
  ASSUME TypeOK, NEW span \in Spans, NEW policy \in Policies, PolicyValid(policy),
         NEW S \in SUBSET EligibleIn(span, policy), S # {}
  PROVE  \E i \in S : /\ Fastest(span, S) = span[i]
                      /\ \A j \in S : ~Faster(span[j], span[i])
<1>1. policy.minimumSamples \in Int
  BY PoliciesAssumption
<1>2. \A i \in S : Measured(span[i])
  BY <1>1, PositionsFinite, EligibleIsMeasured
<1>3. IsFiniteSet(S) /\ S \subseteq Nat
  BY PositionsFinite
<1>4. QED
  BY <1>2, <1>3, FastestIsLowest

\* A contest keeps the incumbent or names a faster, eligible candidate that
\* no eligible candidate beats.
LEMMA ContestOutcome ==
  ASSUME TypeOK, NEW span \in Spans, NEW policy \in Policies, PolicyValid(policy),
         NEW current \in Ids, Qualified(current, span, policy),
         NEW why \in Reasons
  PROVE  LET d == Contest(span, policy, current, why)
         IN  /\ d \in Decisions
             /\ d.champion # current =>
                  /\ Qualified(d.champion, span, policy)
                  /\ Faster(d.champion, current)
                  /\ \A i \in EligibleIn(span, policy) : ~Faster(span[i], d.champion)
<1> DEFINE d == Contest(span, policy, current, why)
           others == {i \in EligibleIn(span, policy) : span[i] # current}
           h == Fastest(span, others)
<1>1. CASE others = {}
  <2>1. d = Decide(current, Baseline, why)
    BY <1>1 DEF Contest
  <2>2. QED
    BY <2>1, IdsAssumption DEF Decide, Decisions
<1>2. CASE others # {}
  <2>1. PICK i \in others : h = span[i] /\ \A j \in others : ~Faster(span[j], h)
    BY <1>2, ChallengerIsLowest
  <2>2. h \in Ids /\ Qualified(h, span, policy) /\ h # current
    BY <2>1, PositionsFinite DEF Qualified
  <2>3. d.challenger = h /\ d \in Decisions
    BY <1>2, <2>2 DEF Contest, Decide, Decisions, Reasons
  <2>4. d.champion = current \/ (d.champion = h /\ Faster(h, current))
    BY <1>2 DEF Contest, Decide
  <2>5. ASSUME Faster(h, current), NEW j \in EligibleIn(span, policy)
        PROVE  ~Faster(span[j], h)
    <3>1. CASE j \in others
      BY <2>1, <3>1
    <3>2. CASE span[j] = current
      <4>1. Measured(h) /\ Measured(current)
        <5>1. policy.minimumSamples \in Int
          BY PoliciesAssumption
        <5>2. Eligible(h, policy) /\ Eligible(current, policy)
          BY <2>2, PositionsFinite DEF Qualified
        <5>3. QED
          BY <5>1, <5>2, <2>2, EligibleIsMeasured
      <4>2. QED
        BY <2>5, <3>2, <4>1, FasterAsymmetric
    <3>3. QED
      BY <3>1, <3>2
  <2>6. QED
    BY <2>2, <2>3, <2>4, <2>5
<1>3. QED
  BY <1>1, <1>2

\* The same contest with the winner as incumbent: nobody beats it.
LEMMA UnbeatenKeeps ==
  ASSUME TypeOK, NEW span \in Spans, NEW policy \in Policies, PolicyValid(policy),
         NEW current \in Ids, NEW why \in Reasons,
         \A i \in EligibleIn(span, policy) : ~Faster(span[i], current)
  PROVE  Contest(span, policy, current, why).champion = current
<1> DEFINE others == {i \in EligibleIn(span, policy) : span[i] # current}
           h == Fastest(span, others)
<1>1. CASE others = {}
  BY <1>1 DEF Contest, Decide
<1>2. CASE others # {}
  <2>1. \E i \in others : h = span[i]
    BY <1>2, ChallengerIsLowest
  <2>2. ~Faster(h, current)
    BY <2>1
  <2>3. QED
    BY <1>2, <2>2 DEF Contest, Decide
<1>3. QED
  BY <1>1, <1>2

\* The reason given when there is nobody to contest does not affect the choice.
LEMMA ReasonIrrelevant ==
  ASSUME NEW span, NEW policy, NEW current, NEW w1, NEW w2
  PROVE  Contest(span, policy, current, w1).champion
           = Contest(span, policy, current, w2).champion
  BY DEF Contest, Decide

\* An evaluation either refuses and names the baseline or is a contest with
\* the incumbent, or with the baseline in place of a disqualified incumbent.
LEMMA EvaluationIsContest ==
  ASSUME NEW span, NEW policy, NEW incumbent
  PROVE  LET d == EvaluateChampion(span, incumbent, policy)
         IN  \/ /\ \/ ~PolicyValid(policy) \/ DuplicateIds(span)
                   \/ mode = "BaselineOnly"
                   \/ ~Qualified(Baseline, span, policy)
                /\ \E r \in {"EvidenceInvalid", "BaselineMode", "BaselineInvalid"} :
                     d = Decide(Baseline, Baseline, r)
             \/ /\ PolicyValid(policy) /\ ~DuplicateIds(span)
                /\ mode # "BaselineOnly" /\ Qualified(Baseline, span, policy)
                /\ \/ /\ ~Qualified(incumbent, span, policy)
                      /\ d = Contest(span, policy, Baseline, "CurrentChampionInvalid")
                   \/ /\ Qualified(incumbent, span, policy)
                      /\ d = Contest(span, policy, incumbent, "NoEligibleChallenger")
  BY DEF EvaluateChampion

LEMMA EvaluationType ==
  ASSUME TypeOK, NEW span \in Spans, NEW policy \in Policies, NEW incumbent \in Ids
  PROVE  EvaluateChampion(span, incumbent, policy) \in Decisions
<1> DEFINE d == EvaluateChampion(span, incumbent, policy)
<1>0. Baseline \in Ids
  BY IdsAssumption
<1>1. CASE \E r \in {"EvidenceInvalid", "BaselineMode", "BaselineInvalid"} :
             d = Decide(Baseline, Baseline, r)
  BY <1>0, <1>1 DEF Decide, Decisions, Reasons
<1>2. CASE /\ PolicyValid(policy) /\ Qualified(Baseline, span, policy)
           /\ d = Contest(span, policy, Baseline, "CurrentChampionInvalid")
  BY <1>0, <1>2, ContestOutcome DEF Reasons
<1>3. CASE /\ PolicyValid(policy) /\ Qualified(incumbent, span, policy)
           /\ d = Contest(span, policy, incumbent, "NoEligibleChallenger")
  BY <1>3, ContestOutcome DEF Reasons
<1>4. QED
  BY <1>1, <1>2, <1>3, EvaluationIsContest

-----------------------------------------------------------------------------
(* The theorems                                                            *)

\* Candidates, champion and decision keep their types; a decision names only
\* candidates that exist.
THEOREM TypeCorrect == Spec => []TypeOK
<1>1. Init => TypeOK
  BY IdsAssumption, MaxSamplesAssumption
     DEF Init, TypeOK, NoStats, RunningStats, Modes, Decide, Decisions, Reasons
<1>2. TypeOK /\ [Next]_vars => TypeOK'
  <2> SUFFICES ASSUME TypeOK, [Next]_vars PROVE TypeOK'
    OBVIOUS
  <2>1. ASSUME NEW id \in Ids, NEW v \in Values, Add(id, v) PROVE TypeOK'
    <3>1. stats[id] \in RunningStats /\ v \in Nat /\ v * v \in Nat
      BY <2>1, ValuesAssumption DEF TypeOK, Add
    <3>2. [n |-> stats[id].n + 1, total |-> stats[id].total + v,
           squares |-> stats[id].squares + v * v] \in RunningStats
      BY <2>1, <3>1, MaxSamplesAssumption DEF Add, RunningStats
    <3>3. stats' \in [Ids -> RunningStats \union {Corrupt}]
      BY <2>1, <3>2 DEF TypeOK, Add
    <3>4. QED
      BY <2>1, <3>3 DEF TypeOK, Add
  <2>2. ASSUME NEW id \in Ids, NEW v \in Values, RefuseSample(id, v) PROVE TypeOK'
    BY <2>2 DEF TypeOK, RefuseSample, vars
  <2>3. ASSUME NEW id \in Ids, NEW passed \in BOOLEAN, Qualify(id, passed) PROVE TypeOK'
    BY <2>3 DEF TypeOK, Qualify
  <2>4. ASSUME NEW id \in Ids, Overwrite(id) PROVE TypeOK'
    BY <2>4 DEF TypeOK, Overwrite
  <2>5. ASSUME NEW ids \in SUBSET Ids, ResetEvidence(ids) PROVE TypeOK'
    <3>1. NoStats \in RunningStats
      BY MaxSamplesAssumption DEF NoStats, RunningStats
    <3>2. QED
      BY <2>5, <3>1 DEF TypeOK, ResetEvidence
  <2>6. ASSUME NEW m \in Modes, ResetToBaseline(m) \/ SetMode(m) PROVE TypeOK'
    BY <2>6, IdsAssumption DEF TypeOK, ResetToBaseline, SetMode
  <2>7. ASSUME NEW span \in Spans, NEW policy \in Policies, Evaluate(span, policy)
        PROVE  TypeOK'
    <3>1. decision' \in Decisions
      BY <2>7, EvaluationType DEF Evaluate, TypeOK
    <3>2. QED
      BY <2>7, <3>1 DEF TypeOK, Evaluate
  <2>8. CASE ApplyChampionDecision
    BY <2>8, IdsAssumption DEF TypeOK, ApplyChampionDecision, Decisions
  <2>9. CASE UNCHANGED vars
    BY <2>9 DEF TypeOK, vars
  <2>10. QED
    BY <2>1, <2>2, <2>3, <2>4, <2>5, <2>6, <2>7, <2>8, <2>9 DEF Next
<1>3. QED
  BY <1>1, <1>2, PTL DEF Spec

\* No evaluation keeps or promotes a candidate that fails its qualification.
THEOREM OnlyQualifiedChampions == Spec => []DecisionsAreQualified
<1>1. TypeOK => DecisionsAreQualified
  <2>1. SUFFICES ASSUME TypeOK, NEW span \in Spans, NEW policy \in Policies,
                        EvaluateChampion(span, champion, policy).champion # Baseline
                 PROVE  LET d == EvaluateChampion(span, champion, policy)
                        IN  /\ Qualified(d.champion, span, policy)
                            /\ Qualified(Baseline, span, policy)
    BY DEF DecisionsAreQualified
  <2> DEFINE d == EvaluateChampion(span, champion, policy)
  <2>2. champion \in Ids /\ Baseline \in Ids
    BY <2>1, IdsAssumption DEF TypeOK
  <2>3. \/ /\ PolicyValid(policy) /\ Qualified(Baseline, span, policy)
           /\ d = Contest(span, policy, Baseline, "CurrentChampionInvalid")
        \/ /\ PolicyValid(policy) /\ Qualified(Baseline, span, policy)
           /\ Qualified(champion, span, policy)
           /\ d = Contest(span, policy, champion, "NoEligibleChallenger")
    BY <2>1, EvaluationIsContest DEF Decide
  <2>4. QED
    BY <2>1, <2>2, <2>3, ContestOutcome DEF Reasons
<1>2. QED
  BY <1>1, TypeCorrect, PTL

\* A qualified incumbent is only ever replaced by a strictly faster candidate
\* that no qualified candidate beats.
THEOREM OnlyImprovements == Spec => []ChangesAreImprovements
<1>1. TypeOK => ChangesAreImprovements
  <2>1. SUFFICES ASSUME TypeOK, NEW span \in Spans, NEW policy \in Policies,
                        EvaluateChampion(span, champion, policy).reason
                          \notin {"EvidenceInvalid", "BaselineMode", "BaselineInvalid"},
                        Qualified(champion, span, policy),
                        EvaluateChampion(span, champion, policy).champion # champion
                 PROVE  LET d == EvaluateChampion(span, champion, policy)
                        IN  /\ Faster(d.champion, champion)
                            /\ \A i \in EligibleIn(span, policy) :
                                 ~Faster(span[i], d.champion)
    BY DEF ChangesAreImprovements
  <2> DEFINE d == EvaluateChampion(span, champion, policy)
  <2>2. champion \in Ids
    BY <2>1 DEF TypeOK
  <2>3. PolicyValid(policy) /\ d = Contest(span, policy, champion, "NoEligibleChallenger")
    BY <2>1, EvaluationIsContest DEF Decide
  <2>4. QED
    BY <2>1, <2>2, <2>3, ContestOutcome DEF Reasons
<1>2. QED
  BY <1>1, TypeCorrect, PTL

\* Installing a decision and evaluating the same evidence again changes
\* nothing: the tuner does not thrash.
THEOREM NoThrashing == Spec => []DecisionsAreStable
<1>1. TypeOK => DecisionsAreStable
  <2>1. SUFFICES ASSUME TypeOK, NEW span \in Spans, NEW policy \in Policies
                 PROVE  LET d == EvaluateChampion(span, champion, policy)
                        IN  EvaluateChampion(span, d.champion, policy).champion = d.champion
    BY DEF DecisionsAreStable
  <2> DEFINE c == EvaluateChampion(span, champion, policy).champion
             again == EvaluateChampion(span, c, policy)
  <2>2. CASE \/ ~PolicyValid(policy) \/ DuplicateIds(span)
             \/ mode = "BaselineOnly"
             \/ ~Qualified(Baseline, span, policy)
    BY <2>2, EvaluationIsContest DEF Decide
  <2>3. ASSUME NEW current \in Ids, NEW why \in Reasons,
               PolicyValid(policy), ~DuplicateIds(span), mode # "BaselineOnly",
               Qualified(Baseline, span, policy), Qualified(current, span, policy),
               c = Contest(span, policy, current, why).champion
        PROVE  again.champion = c
    <3>1. c \in Ids
      BY <2>1, <2>3, ContestOutcome DEF Decisions
    <3>2. Qualified(c, span, policy)
      BY <2>1, <2>3, ContestOutcome
    <3> HIDE DEF c
    <3>3. again = Contest(span, policy, c, "NoEligibleChallenger")
      BY <2>3, <3>2, EvaluationIsContest
    <3>4. CASE c = current
      <4>1. Contest(span, policy, current, "NoEligibleChallenger").champion
              = Contest(span, policy, current, why).champion
        BY ReasonIrrelevant
      <4>2. QED
        BY <2>3, <3>3, <3>4, <4>1
    <3>5. CASE c # current
      <4>1. \A i \in EligibleIn(span, policy) : ~Faster(span[i], c)
        BY <2>1, <2>3, <3>5, ContestOutcome
      <4>2. QED
        BY <2>1, <2>3, <3>1, <3>3, <4>1, UnbeatenKeeps DEF Reasons
    <3>6. QED
      BY <3>4, <3>5
  <2>4. CASE /\ PolicyValid(policy) /\ ~DuplicateIds(span)
             /\ mode # "BaselineOnly" /\ Qualified(Baseline, span, policy)
    <3>1. champion \in Ids /\ Baseline \in Ids
      BY <2>1, IdsAssumption DEF TypeOK
    <3>2. CASE Qualified(champion, span, policy)
      BY <2>3, <2>4, <3>1, <3>2, EvaluationIsContest DEF Reasons
    <3>3. CASE ~Qualified(champion, span, policy)
      BY <2>3, <2>4, <3>1, <3>3, EvaluationIsContest DEF Reasons
    <3>4. QED
      BY <3>2, <3>3
  <2>5. QED
    BY <2>2, <2>4
<1>2. QED
  BY <1>1, TypeCorrect, PTL

\* While the mode stays BaselineOnly no call, a stale decision's application
\* included, brings an optimisation back.
THEOREM BaselineOnlyIsSafe == Spec => BaselineOnlyHolds
<1>1. [Next]_vars => [mode = "BaselineOnly" /\ mode' = "BaselineOnly" /\ champion = Baseline
                       => champion' = Baseline]_vars
  BY DEF Next, vars, Add, RefuseSample, Qualify, Overwrite, ResetEvidence,
         ResetToBaseline, SetMode, Evaluate, ApplyChampionDecision
<1>2. QED
  BY <1>1, PTL DEF Spec, BaselineOnlyHolds

-----------------------------------------------------------------------------
(* The offline choice on the same evidence.                                *)

LEMMA SamePolicies ==
  ASSUME NEW policy \in Policies, NEW p, p = [policy EXCEPT !.requireConfidence = FALSE]
  PROVE  /\ PolicyValid(p) <=> Offline!PolicyValid(policy)
         /\ PolicyValid(policy) => Offline!PolicyValid(policy)
         /\ \A id : Eligible(id, p) <=> Eligible(id, policy)
         /\ \A a, b : EnoughGain(a, b, p) <=> EnoughGain(a, b, policy)
         /\ p.requireConfidence = FALSE
<1>1. /\ p.minimumSamples = policy.minimumSamples
      /\ p.minimumAbsoluteGain = policy.minimumAbsoluteGain
      /\ p.minimumRelativePercent = policy.minimumRelativePercent
      /\ p.requireConfidence = FALSE
  BY PoliciesAssumption
<1>2. QED
  BY <1>1 DEF PolicyValid, Offline!PolicyValid, Eligible, EnoughGain

LEMMA SameEligibility ==
  ASSUME TypeOK, NEW policy \in Policies, NEW id \in Ids
  PROVE  /\ Offline!Eligible(Evidence(id), policy) <=> Eligible(id, policy)
         /\ Eligible(id, policy) => /\ Evidence(id).samples = stats[id].n
                                    /\ Evidence(id).total = stats[id].total
<1>1. CASE stats[id] = Corrupt
  BY <1>1 DEF Evidence, Eligible, Offline!Eligible
<1>2. CASE stats[id] # Corrupt
  <2>1. stats[id] \in RunningStats
    BY <1>2 DEF TypeOK
  <2>2. stats[id].total >= 0
    BY <2>1 DEF RunningStats
  <2>3. QED
    BY <1>2, <2>2 DEF Evidence, Eligible, Offline!Eligible
<1>3. QED
  BY <1>1, <1>2

\* Both searches end at the first position of lowest mean.
LEMMA FastestIsFirst ==
  ASSUME NEW span, NEW S, IsFiniteSet(S), S \subseteq Nat, S # {},
         \A i \in S : Measured(span[i])
  PROVE  LET lowest == {i \in S : \A j \in S : ~Faster(span[j], span[i])}
         IN  Offline!First(lowest) \in S /\ Fastest(span, S) = span[Offline!First(lowest)]
<1> DEFINE Beats(j, i) == Faster(span[j], span[i])
           lowest == {i \in S : \A j \in S : ~Beats(j, i)}
           Chosen(p) == \A j \in S : \/ Beats(p, j)
                                     \/ ~Beats(j, p) /\ p <= j
           f == Offline!First(lowest)
<1>1. lowest \subseteq Nat /\ lowest # {}
  BY FastestIsLowest
<1>2. f \in lowest /\ \A j \in lowest : f <= j
  BY <1>1, LeastNatural DEF Offline!First
<1> HIDE DEF f
<1>3. Chosen(f)
  <2>1. SUFFICES ASSUME NEW j \in S, ~Beats(f, j) PROVE ~Beats(j, f) /\ f <= j
    OBVIOUS
  <2>2. \A k \in S : Beats(k, j) => Beats(k, f)
    BY <1>2, <2>1, FasterOrder
  <2>3. j \in lowest
    BY <1>2, <2>2
  <2>4. QED
    BY <1>2, <2>3
<1>4. ASSUME NEW q \in S, Chosen(q) PROVE q = f
  <2>1. q \in lowest
    BY <1>4, FasterAsymmetric
  <2>2. f <= q /\ ~Beats(q, f)
    BY <1>2, <2>1
  <2>3. q <= f
    BY <1>2, <1>4, <2>2
  <2>4. QED
    BY <1>1, <1>2, <2>1, <2>2, <2>3
<1>5. (CHOOSE q \in S : Chosen(q)) = f
  BY <1>2, <1>3, <1>4
<1>6. Fastest(span, S) = span[f]
  BY <1>5 DEF Fastest
<1>7. QED
  BY <1>2, <1>6 DEF f

\* The offline choice from a span without duplicates is the contest of its
\* best challenger with the baseline.
LEMMA OfflineIsContest ==
  ASSUME TypeOK, NEW span \in Spans, NEW policy \in Policies,
         Offline!PolicyValid(policy), ~DuplicateIds(span),
         Qualified(Baseline, span, policy), NEW why,
         NEW p, p = [policy EXCEPT !.requireConfidence = FALSE]
  PROVE  Offline!ChooseNetBenefitChampion(EvidenceOf(span), policy).champion
           = Contest(span, p, Baseline, why).champion
<1> DEFINE E == EvidenceOf(span)
           S == {i \in EligibleIn(span, policy) : span[i] # Baseline}
           lowest == {i \in S : \A j \in S : ~Faster(span[j], span[i])}
           b == Offline!First(Offline!Baselines(E))
           h == Offline!First(lowest)
<1>0. /\ {i \in EligibleIn(span, p) : span[i] # Baseline} = S
      /\ EligibleIn(span, p) = EligibleIn(span, policy)
      /\ ~p.requireConfidence
      /\ EnoughGain(Baseline, span[h], p) <=> EnoughGain(Baseline, span[h], policy)
  <2>1. /\ \A id : Eligible(id, p) <=> Eligible(id, policy)
        /\ \A x, y : EnoughGain(x, y, p) <=> EnoughGain(x, y, policy)
        /\ ~p.requireConfidence
    BY SamePolicies
  <2>2. EligibleIn(span, p) = EligibleIn(span, policy)
    BY <2>1 DEF EligibleIn
  <2>3. {i \in EligibleIn(span, p) : span[i] # Baseline} = S
    BY <2>2
  <2> HIDE DEF h, S
  <2>4. QED
    BY <2>1, <2>2, <2>3
<1>00. \A i \in EligibleIn(span, policy) : Measured(span[i])
  <2>1. PolicyValid(p) /\ p.minimumSamples \in Int
    BY SamePolicies, PoliciesAssumption
  <2>2. \A i \in EligibleIn(span, policy) : span[i] \in Ids /\ Eligible(span[i], p)
    BY PositionsFinite, SamePolicies
  <2>3. QED
    BY <2>1, <2>2, EligibleIsMeasured
<1>1. /\ span \in Seq(Ids) /\ DOMAIN E = 1..Len(span) /\ DOMAIN span = 1..Len(span)
      /\ Len(span) \in Nat /\ \A i \in 1..Len(span) : span[i] \in Ids /\ E[i] = Evidence(span[i])
  BY SpansAssumption DEF EvidenceOf
<1>2. \A i \in 1..Len(span) : E[i].id = span[i]
  BY <1>1 DEF Evidence
<1>3. \A i \in 1..Len(span) :
        /\ Offline!Eligible(E[i], policy) <=> i \in EligibleIn(span, policy)
        /\ i \in EligibleIn(span, policy) => /\ E[i].samples = stats[span[i]].n
                                             /\ E[i].total = stats[span[i]].total
  BY <1>1, SameEligibility DEF EligibleIn
<1>4. /\ b \in 1..Len(span) /\ span[b] = Baseline /\ b \in EligibleIn(span, policy)
  <2>1. PICK i \in EligibleIn(span, policy) : span[i] = Baseline
    BY DEF Qualified
  <2>2. i \in 1..Len(span)
    BY DEF EligibleIn
  <2>3. Offline!Baselines(E) = {i}
    BY <1>1, <1>2, <2>1, <2>2 DEF Offline!Baselines, DuplicateIds, Baseline, Offline!Baseline
  <2>4. b = i
    BY <1>1, <2>2, <2>3 DEF Offline!First
  <2>5. QED
    BY <2>1, <2>2, <2>4
<1>5. Offline!Challengers(E, policy) = S
  BY <1>1, <1>2, <1>3 DEF Offline!Challengers, EligibleIn, Baseline, Offline!Baseline
<1>6. \A i, j \in EligibleIn(span, policy) :
        /\ Offline!Cheaper(E[i], E[j]) <=> Faster(span[i], span[j])
        /\ Offline!EnoughGain(E[i], E[j], policy) <=> EnoughGain(span[i], span[j], policy)
  <2>1. EligibleIn(span, policy) \subseteq 1..Len(span)
    BY DEF EligibleIn
  <2>2. SUFFICES ASSUME NEW i \in EligibleIn(span, policy), NEW j \in EligibleIn(span, policy)
                 PROVE  /\ Offline!Cheaper(E[i], E[j]) <=> Faster(span[i], span[j])
                        /\ Offline!EnoughGain(E[i], E[j], policy)
                             <=> EnoughGain(span[i], span[j], policy)
    OBVIOUS
  <2>3. /\ E[i].samples = stats[span[i]].n /\ E[i].total = stats[span[i]].total
        /\ E[j].samples = stats[span[j]].n /\ E[j].total = stats[span[j]].total
    BY <1>3, <2>1
  <2>4. /\ stats[span[i]].n \in Nat /\ stats[span[j]].n \in Nat
        /\ policy.minimumAbsoluteGain \in Int
    <3>1. Measured(span[i]) /\ Measured(span[j])
      BY <1>00, <2>2
    <3>2. QED
      BY <3>1, PoliciesAssumption DEF Measured, RunningStats
  <2>5. policy.minimumAbsoluteGain * stats[span[i]].n * stats[span[j]].n
          = policy.minimumAbsoluteGain * (stats[span[i]].n * stats[span[j]].n)
    BY <2>4
  <2>6. QED
    BY <2>3, <2>5 DEF Offline!Cheaper, Faster, Offline!EnoughGain, EnoughGain,
                      Offline!ScaledGain, ScaledGain
<1>7. S # {} => Offline!Cheapest(E, S) = lowest
  BY <1>6 DEF Offline!Cheapest
<1>8. Offline!Baselines(E) # {} /\ Offline!Eligible(E[b], policy) /\ Offline!PolicyValid(policy)
  BY <1>1, <1>2, <1>3, <1>4, SamePolicies DEF Offline!Baselines, Baseline, Offline!Baseline
<1>9. CASE S = {}
  BY <1>0, <1>5, <1>8, <1>9 DEF Offline!ChooseNetBenefitChampion, Offline!Choice, Contest, Decide,
                          Baseline, Offline!Baseline
<1>10. CASE S # {}
  <2>1. h \in S /\ Fastest(span, S) = span[h]
    <3>1. IsFiniteSet(S) /\ S \subseteq Nat
      BY PositionsFinite
    <3>2. \A i \in S : Measured(span[i])
      BY <1>00
    <3>3. QED
      BY <1>10, <3>1, <3>2, FastestIsFirst
  <2>2. /\ Offline!Cheaper(E[h], E[b]) <=> Faster(span[h], Baseline)
        /\ Offline!EnoughGain(E[b], E[h], policy) <=> EnoughGain(Baseline, span[h], policy)
        /\ E[h].id = span[h]
    BY <1>1, <1>2, <1>4, <1>6, <2>1 DEF EligibleIn
  <2> HIDE DEF E, h, b
  <2>3. Offline!ChooseNetBenefitChampion(E, policy).champion
          = IF ~Offline!Cheaper(E[h], E[b]) \/ ~Offline!EnoughGain(E[b], E[h], policy)
              THEN Baseline ELSE E[h].id
    BY <1>5, <1>7, <1>8, <1>10
       DEF Offline!ChooseNetBenefitChampion, Offline!Choice, Baseline, Offline!Baseline, b, h
  <2>4. Contest(span, p, Baseline, why).champion
          = IF ~Faster(span[h], Baseline) \/ ~EnoughGain(Baseline, span[h], policy)
              THEN Baseline ELSE span[h]
    <3> HIDE DEF S
    <3>1. QED
      BY <1>0, <1>10, <2>1, Zenon DEF Contest, Decide, h
  <2>5. QED
    BY <2>2, <2>3, <2>4 DEF E
<1>11. QED
  BY <1>9, <1>10

\* Without a qualified baseline the offline choice is the baseline.
LEMMA OfflineNeedsBaseline ==
  ASSUME TypeOK, NEW span \in Spans, NEW policy \in Policies,
         ~Qualified(Baseline, span, policy)
  PROVE  Offline!ChooseNetBenefitChampion(EvidenceOf(span), policy).champion = Baseline
<1> DEFINE E == EvidenceOf(span)
           b == Offline!First(Offline!Baselines(E))
<1>1. /\ span \in Seq(Ids) /\ DOMAIN E = 1..Len(span)
      /\ \A i \in 1..Len(span) : span[i] \in Ids /\ E[i] = Evidence(span[i])
  BY SpansAssumption DEF EvidenceOf
<1>2. CASE Offline!Baselines(E) = {}
  BY <1>2 DEF Offline!ChooseNetBenefitChampion, Offline!Choice, Baseline, Offline!Baseline
<1>3. CASE Offline!Baselines(E) # {}
  <2>1. Offline!Baselines(E) \subseteq Nat
    BY <1>1 DEF Offline!Baselines
  <2>2. b \in Offline!Baselines(E)
    BY <1>3, <2>1, LeastNatural DEF Offline!First
  <2>3. b \in 1..Len(span) /\ span[b] = Baseline
    BY <1>1, <2>2 DEF Offline!Baselines, Evidence, Baseline, Offline!Baseline
  <2>4. ~Eligible(span[b], policy)
    BY <2>3 DEF Qualified, EligibleIn
  <2>5. ~Offline!Eligible(E[b], policy)
    BY <1>1, <2>3, <2>4, SameEligibility
  <2>6. QED
    BY <2>5 DEF Offline!ChooseNetBenefitChampion, Offline!Choice, Baseline, Offline!Baseline
<1>4. QED
  BY <1>2, <1>3

\* Online and offline decide the same from the baseline on the same evidence,
\* for every candidate set, span, policy and reachable statistics.
THEOREM OneAuthority == Spec => []AuthoritiesAgree
<1>1. TypeOK => AuthoritiesAgree
  <2>1. SUFFICES ASSUME TypeOK, NEW span \in Spans, NEW policy \in Policies,
                        mode = "Adaptive", ~DuplicateIds(span)
                 PROVE  EvaluateChampion(span, Baseline,
                            [policy EXCEPT !.requireConfidence = FALSE]).champion
                          = Offline!ChooseNetBenefitChampion(EvidenceOf(span), policy).champion
    BY DEF AuthoritiesAgree
  <2> DEFINE p == [policy EXCEPT !.requireConfidence = FALSE]
             offline == Offline!ChooseNetBenefitChampion(EvidenceOf(span), policy).champion
             online == EvaluateChampion(span, Baseline, p)
  <2>2. /\ PolicyValid(p) <=> Offline!PolicyValid(policy)
        /\ Qualified(Baseline, span, p) <=> Qualified(Baseline, span, policy)
    BY SamePolicies DEF Qualified, EligibleIn
  <2>3. CASE ~Offline!PolicyValid(policy)
    BY <2>2, <2>3 DEF Offline!ChooseNetBenefitChampion, Offline!Choice, EvaluateChampion,
                      Decide, Baseline, Offline!Baseline
  <2>4. CASE Offline!PolicyValid(policy) /\ ~Qualified(Baseline, span, policy)
    <3>1. online.champion = Baseline
      BY <2>1, <2>2, <2>4 DEF EvaluateChampion, Decide
    <3>2. offline = Baseline
      BY <2>1, <2>4, OfflineNeedsBaseline
    <3>3. QED
      BY <3>1, <3>2
  <2>5. CASE Offline!PolicyValid(policy) /\ Qualified(Baseline, span, policy)
    <3>1. online = Contest(span, p, Baseline, "NoEligibleChallenger")
      BY <2>1, <2>2, <2>5 DEF EvaluateChampion
    <3>2. offline = Contest(span, p, Baseline, "NoEligibleChallenger").champion
      BY <2>1, <2>5, OfflineIsContest
    <3>3. QED
      BY <3>1, <3>2
  <2>6. QED
    BY <2>3, <2>4, <2>5
<1>2. QED
  BY <1>1, TypeCorrect, PTL

\* The confidence test only ever withholds a promotion.
THEOREM ConfidenceIsConservative == Spec => []ConfidenceOnlyWithholds
<1>1. TypeOK => ConfidenceOnlyWithholds
  <2>1. SUFFICES ASSUME TypeOK, NEW span \in Spans, NEW policy \in Policies,
                        EvaluateChampion(span, Baseline, policy).champion # Baseline
                 PROVE  EvaluateChampion(span, Baseline, policy).champion
                          = Offline!ChooseNetBenefitChampion(EvidenceOf(span), policy).champion
    BY DEF ConfidenceOnlyWithholds
  <2> DEFINE p == [policy EXCEPT !.requireConfidence = FALSE]
             online == EvaluateChampion(span, Baseline, policy)
             why == "NoEligibleChallenger"
  <2>2. /\ PolicyValid(policy) /\ ~DuplicateIds(span)
        /\ Qualified(Baseline, span, policy)
        /\ online = Contest(span, policy, Baseline, why)
    BY <2>1 DEF EvaluateChampion, Decide
  <2>3. Offline!PolicyValid(policy)
    BY <2>2, SamePolicies
  <2>4. Contest(span, p, Baseline, why).champion
          = Offline!ChooseNetBenefitChampion(EvidenceOf(span), policy).champion
    BY <2>1, <2>2, <2>3, OfflineIsContest
  <2>5. Contest(span, policy, Baseline, why).champion # Baseline
    BY <2>1, <2>2
  <2>6. EligibleIn(span, p) = EligibleIn(span, policy) /\ ~p.requireConfidence
        /\ \A a, b : EnoughGain(a, b, p) <=> EnoughGain(a, b, policy)
    BY SamePolicies DEF EligibleIn
  <2>7. Contest(span, policy, Baseline, why).champion = Contest(span, p, Baseline, why).champion
    <3> HIDE DEF p
    <3>1. QED
      BY <2>5, <2>6 DEF Contest, Decide
  <2>8. QED
    BY <2>2, <2>4, <2>7
<1>2. QED
  BY <1>1, TypeCorrect, PTL

-----------------------------------------------------------------------------
(* Tokens and lines                                                        *)

Tokens ==
  {Magic, Newline} \union {Number(n) : n \in Int \union {NotFinite}}
    \union {Quoted(t) : t \in Texts} \union {Open(t) : t \in Texts} \union {Plain(t) : t \in Texts}

LEMMA TokenKinds ==
  /\ Magic[1] = "magic" /\ Newline[1] = "newline"
  /\ \A x : /\ Number(x)[1] = "number" /\ Number(x)[2] = x
            /\ Quoted(x)[1] = "quoted" /\ Quoted(x)[2] = x
            /\ Open(x)[1] = "open" /\ Open(x)[2] = x
            /\ Plain(x)[1] = "plain"
  /\ \A x \in Tokens : (x[1] = "newline" <=> x = Newline) /\ (x[1] = "magic" <=> x = Magic)
<1>1. /\ Magic[1] = "magic" /\ Newline[1] = "newline"
      /\ \A x : /\ Number(x)[1] = "number" /\ Number(x)[2] = x
                /\ Quoted(x)[1] = "quoted" /\ Quoted(x)[2] = x
                /\ Open(x)[1] = "open" /\ Open(x)[2] = x
                /\ Plain(x)[1] = "plain"
  BY DEF Magic, Newline, Number, Quoted, Open, Plain
<1>2. \A x \in Tokens : (x[1] = "newline" <=> x = Newline) /\ (x[1] = "magic" <=> x = Magic)
  BY <1>1 DEF Tokens
<1>3. QED
  BY <1>1, <1>2

\* A text is one token, or with a line break in it three.
LEMMA TextTokensAre ==
  ASSUME NEW t \in Texts
  PROVE  /\ TextTokens(t) \in Seq(Tokens)
         /\ t # Broken => Len(TextTokens(t)) = 1 /\ TextTokens(t)[1] = Quoted(t)
         /\ t = Broken => /\ Len(TextTokens(t)) = 3
                          /\ TextTokens(t)[1] = Open(t) /\ TextTokens(t)[2] = Newline
                          /\ TextTokens(t)[3] = Plain(t)
<1>1. Quoted(t) \in Tokens /\ Open(t) \in Tokens /\ Plain(t) \in Tokens /\ Newline \in Tokens
  BY DEF Tokens
<1> HIDE DEF Tokens
<1>2. CASE t # Broken
  BY <1>1, <1>2 DEF TextTokens
<1>3. CASE t = Broken
  BY <1>1, <1>3 DEF TextTokens
<1>4. QED
  BY <1>2, <1>3

RecordType == [numbers : [1..9 -> Int \union {NotFinite}], texts : [1..6 -> Texts]]

TextsLoop(r, T) ==
  /\ T \in [0..6 -> Seq(Tokens)] /\ T[0] = <<>>
  /\ \A i \in 1..6 : T[i] = T[i - 1] \o TextTokens(r.texts[i])

LEMMA LineIsTheLoop ==
  ASSUME NEW r \in RecordType
  PROVE  \E T : /\ TextsLoop(r, T)
                /\ Line(r) = <<Magic>> \o [i \in 1..9 |-> Number(r.numbers[i])] \o T[6] \o <<Newline>>
<1> DEFINE Loop(g) == g = [i \in 0..6 |-> IF i = 0 THEN <<>>
                                          ELSE g[i - 1] \o TextTokens(r.texts[i])]
           step == [i \in 1..6 |-> [v \in Seq(Tokens) |-> v \o TextTokens(r.texts[i])]]
           texts == CHOOSE g : Loop(g)
           head == <<Magic>> \o [i \in 1..9 |-> Number(r.numbers[i])]
<1>1. \A i \in 1..6 : TextTokens(r.texts[i]) \in Seq(Tokens)
  BY TextTokensAre DEF RecordType
<1>2. Line(r) = head \o texts[6] \o <<Newline>>
  BY DEF Line
<1> HIDE DEF texts, head
<1>3. \A i \in 1..6 : \A v \in Seq(Tokens) : step[i][v] \in Seq(Tokens)
  <2> TAKE i \in 1..6
  <2> TAKE v \in Seq(Tokens)
  <2>1. step[i][v] = v \o TextTokens(r.texts[i])
    OBVIOUS
  <2>2. QED
    BY <1>1, <2>1, ConcatProperties
<1>4. <<>> \in Seq(Tokens)
  BY EmptySeq
<1> HIDE DEF step
<1>5. PICK g : Computes(6, Seq(Tokens), <<>>, step, g)
  <2>1. Loops(6, Seq(Tokens), <<>>, step)
    BY <1>3, <1>4 DEF Loops
  <2>2. QED
    BY <2>1, RecursionExists
<1>6. TextsLoop(r, g)
  <2>1. /\ g \in [0..6 -> Seq(Tokens)] /\ g[0] = <<>>
        /\ \A i \in 1..6 : g[i] = step[i][g[i - 1]]
    BY <1>5 DEF Computes
  <2>2. \A i \in 1..6 : g[i - 1] \in Seq(Tokens)
    BY <2>1
  <2>3. QED
    BY <2>1, <2>2 DEF step, TextsLoop
<1>7. Loop(g)
  <2>1. g = [i \in 0..6 |-> g[i]]
    BY <1>6 DEF TextsLoop
  <2>2. ASSUME NEW i \in 0..6
        PROVE  g[i] = IF i = 0 THEN <<>> ELSE g[i - 1] \o TextTokens(r.texts[i])
    <3>1. CASE i = 0
      BY <1>6, <3>1 DEF TextsLoop
    <3>2. CASE i # 0
      <4>1. i \in 1..6
        BY <3>2
      <4>2. g[i] = g[i - 1] \o TextTokens(r.texts[i])
        BY <1>6, <4>1 DEF TextsLoop
      <4>3. QED
        BY <3>2, <4>2
    <3>3. QED
      BY <3>1, <3>2
  <2>3. QED
    BY <2>1, <2>2
<1> HIDE DEF Loop
<1>8. Loop(texts)
  BY <1>7 DEF texts
<1>9. texts[0] = <<>> /\ \A i \in 1..6 : texts[i] = texts[i - 1] \o TextTokens(r.texts[i])
  <2>1. \A i \in 0..6 : texts[i] = IF i = 0 THEN <<>> ELSE texts[i - 1] \o TextTokens(r.texts[i])
    BY <1>8 DEF Loop
  <2>2. texts[0] = <<>>
    BY <2>1
  <2>3. ASSUME NEW i \in 1..6 PROVE texts[i] = texts[i - 1] \o TextTokens(r.texts[i])
    <3>1. i \in 0..6 /\ i # 0
      OBVIOUS
    <3>2. QED
      BY <2>1, <3>1
  <2>4. QED
    BY <2>2, <2>3
<1> DEFINE P == {i \in 0..6 : texts[i] \in Seq(Tokens)}
<1>10. \A i \in 0..6 : i \in P
  <2>1. 0 \in P
    <3>1. texts[0] \in Seq(Tokens)
      BY <1>4, <1>9, Zenon
    <3>2. QED
      BY <3>1
  <2>2. ASSUME NEW i \in 1..6, i - 1 \in P PROVE i \in P
    <3>1. texts[i - 1] \o TextTokens(r.texts[i]) \in Seq(Tokens)
      BY <1>1, <2>2, ConcatProperties
    <3>2. texts[i] = texts[i - 1] \o TextTokens(r.texts[i])
      BY <1>9
    <3>3. texts[i] \in Seq(Tokens)
      BY <3>1, <3>2, Zenon
    <3>4. QED
      BY <3>3
  <2>3. \A i \in 1..6 : i - 1 \in P => i \in P
    BY <2>2
  <2>4. 6 \in Nat
    OBVIOUS
  <2> HIDE DEF P
  <2>5. QED
    BY <2>1, <2>3, <2>4, InductionUpTo
<1>11. texts \in [0..6 -> Seq(Tokens)]
  <2>1. texts = [i \in 0..6 |-> texts[i]]
    BY <1>8 DEF Loop
  <2>2. QED
    BY <1>10, <2>1
<1>12. QED
  BY <1>2, <1>9, <1>11 DEF TextsLoop, head

\* What can follow the numbers on a line, and where it first breaks.
OfTexts(token) == token[1] \in {"quoted", "open", "plain", "newline"}

Quotes(r, L, at0, n) == \A m \in 1..n : L[at0 + m] = Quoted(r.texts[m])

Breaks(r, L, at0, j) ==
  /\ Quotes(r, L, at0, j - 1) /\ Len(L) >= at0 + j + 2
  /\ L[at0 + j] = Open(r.texts[j]) /\ L[at0 + j + 1] = Newline

UnbrokenTo(r, n) == \A m \in 1..n : r.texts[m] # Broken

TextsAre(r, L, i) ==
  /\ L \in Seq(Tokens) /\ Len(L) >= i
  /\ \A q \in 1..Len(L) : /\ OfTexts(L[q])
                          /\ L[q] = Newline => q < Len(L) /\ L[q + 1][1] = "plain"
  /\ UnbrokenTo(r, i) => Len(L) = i /\ Quotes(r, L, 0, i)
  /\ \A j \in 1..i : UnbrokenTo(r, j - 1) /\ r.texts[j] = Broken => Breaks(r, L, 0, j)

LEMMA TextsGrow ==
  ASSUME NEW r \in RecordType, NEW i \in 1..6, NEW L, TextsAre(r, L, i - 1)
  PROVE  TextsAre(r, L \o TextTokens(r.texts[i]), i)
<1> DEFINE t == r.texts[i]
           n == Len(L)
           M == L \o TextTokens(t)
<1>1. t \in Texts /\ L \in Seq(Tokens) /\ n \in Nat /\ n >= i - 1
  BY LenProperties DEF TextsAre, RecordType
<1>2. /\ TextTokens(t) \in Seq(Tokens)
      /\ t # Broken => Len(TextTokens(t)) = 1 /\ TextTokens(t)[1] = Quoted(t)
      /\ t = Broken => /\ Len(TextTokens(t)) = 3
                       /\ TextTokens(t)[1] = Open(t) /\ TextTokens(t)[2] = Newline
                       /\ TextTokens(t)[3] = Plain(t)
  BY <1>1, TextTokensAre
<1>3. /\ M \in Seq(Tokens) /\ Len(M) = n + Len(TextTokens(t))
      /\ \A q \in 1..n : M[q] = L[q]
      /\ \A q \in 1..Len(TextTokens(t)) : M[n + q] = TextTokens(t)[q]
  <2>1. Len(TextTokens(t)) \in Nat
    BY <1>2, LenProperties
  <2>2. /\ M \in Seq(Tokens) /\ Len(M) = n + Len(TextTokens(t))
        /\ \A q \in 1..(n + Len(TextTokens(t))) :
             M[q] = IF q <= n THEN L[q] ELSE TextTokens(t)[q - n]
    BY <1>1, <1>2, ConcatProperties
  <2> HIDE DEF M, n, t
  <2>3. \A q \in 1..Len(TextTokens(t)) : M[n + q] = TextTokens(t)[q]
    <3> TAKE q \in 1..Len(TextTokens(t))
    <3>1. n + q \in 1..(n + Len(TextTokens(t))) /\ ~(n + q <= n) /\ (n + q) - n = q
      BY <1>1, <2>1
    <3>2. QED
      BY <2>2, <3>1
  <2>4. \A q \in 1..n : M[q] = L[q]
    <3> TAKE q \in 1..n
    <3>1. q \in 1..(n + Len(TextTokens(t))) /\ q <= n
      BY <1>1, <2>1
    <3>2. QED
      BY <2>2, <3>1
  <2>5. QED
    BY <2>2, <2>3, <2>4
<1>4. /\ t # Broken => Len(M) = n + 1 /\ M[n + 1] = Quoted(t)
      /\ t = Broken => /\ Len(M) = n + 3
                       /\ M[n + 1] = Open(t) /\ M[n + 2] = Newline /\ M[n + 3] = Plain(t)
  <2> HIDE DEF M, n, t
  <2>1. ASSUME t # Broken PROVE Len(M) = n + 1 /\ M[n + 1] = Quoted(t)
    <3>1. Len(TextTokens(t)) = 1 /\ TextTokens(t)[1] = Quoted(t) /\ 1 \in 1..1
      BY <1>2, <2>1
    <3>2. QED
      BY <1>3, <3>1
  <2>2. ASSUME t = Broken
        PROVE  /\ Len(M) = n + 3
               /\ M[n + 1] = Open(t) /\ M[n + 2] = Newline /\ M[n + 3] = Plain(t)
    <3>1. /\ Len(TextTokens(t)) = 3
          /\ TextTokens(t)[1] = Open(t) /\ TextTokens(t)[2] = Newline
          /\ TextTokens(t)[3] = Plain(t)
          /\ 1 \in 1..3 /\ 2 \in 1..3 /\ 3 \in 1..3
      BY <1>2, <2>2
    <3>2. QED
      BY <1>3, <3>1
  <2>3. QED
    BY <2>1, <2>2
<1>5. \A q \in 1..n : OfTexts(L[q]) /\ (L[q] = Newline => q < n /\ L[q + 1][1] = "plain")
  BY DEF TextsAre
<1>6. UnbrokenTo(r, i - 1) => n = i - 1 /\ \A m \in 1..(i - 1) : L[m] = Quoted(r.texts[m])
  BY DEF TextsAre, Quotes
<1>7. ASSUME NEW j \in 1..(i - 1), UnbrokenTo(r, j - 1), r.texts[j] = Broken
      PROVE  /\ \A m \in 1..(j - 1) : L[m] = Quoted(r.texts[m])
             /\ n >= j + 2 /\ L[j] = Open(r.texts[j]) /\ L[j + 1] = Newline
  <2>1. Breaks(r, L, 0, j)
    BY <1>7 DEF TextsAre
  <2>2. Quotes(r, L, 0, j - 1) /\ Len(L) >= 0 + j + 2 /\ L[0 + j] = Open(r.texts[j])
        /\ L[0 + j + 1] = Newline
    BY <2>1 DEF Breaks
  <2>3. 0 + j = j /\ 0 + j + 1 = j + 1 /\ 0 + j + 2 = j + 2
    OBVIOUS
  <2>4. \A m \in 1..(j - 1) : L[0 + m] = Quoted(r.texts[m]) /\ 0 + m = m
    BY <2>2 DEF Quotes
  <2>5. QED
    BY <2>2, <2>3, <2>4
<1> HIDE DEF M, n, t
<1>8. Len(M) \in Nat /\ Len(M) > n /\ Len(M) >= i
  BY <1>1, <1>4
<1>9. ASSUME NEW q \in 1..Len(M)
      PROVE  OfTexts(M[q]) /\ (M[q] = Newline => q < Len(M) /\ M[q + 1][1] = "plain")
  <2>1. CASE q <= n
    <3>1. q \in 1..n /\ M[q] = L[q]
      BY <1>3, <2>1
    <3>2. ASSUME M[q] = Newline PROVE q < Len(M) /\ M[q + 1][1] = "plain"
      <4>1. q < n /\ L[q + 1][1] = "plain"
        BY <1>5, <3>1, <3>2
      <4>2. M[q + 1] = L[q + 1]
        BY <1>1, <1>3, <4>1
      <4>3. QED
        BY <1>1, <1>8, <4>1, <4>2
    <3>3. QED
      BY <1>5, <3>1, <3>2
  <2>2. CASE ~(q <= n) /\ t # Broken
    <3>1. q = n + 1
      BY <1>1, <1>4, <2>2
    <3>2. M[q] = Quoted(t)
      BY <1>4, <2>2, <3>1
    <3>3. QED
      BY <3>2, TokenKinds DEF OfTexts
  <2>3. CASE ~(q <= n) /\ t = Broken
    <3>1. q \in {n + 1, n + 2, n + 3}
      BY <1>1, <1>4, <2>3
    <3>2. M[n + 1][1] = "open" /\ M[n + 2] = Newline /\ M[n + 3][1] = "plain"
      BY <1>4, <2>3, TokenKinds
    <3>3. OfTexts(M[q])
      BY <3>1, <3>2, TokenKinds DEF OfTexts
    <3>4. M[q] = Newline => q = n + 2
      BY <3>1, <3>2, TokenKinds
    <3>5. n + 2 < Len(M) /\ (n + 2) + 1 = n + 3
      BY <1>1, <1>4, <2>3
    <3>6. QED
      BY <3>2, <3>3, <3>4, <3>5
  <2>4. QED
    BY <2>1, <2>2, <2>3
<1>10. ASSUME UnbrokenTo(r, i) PROVE Len(M) = i /\ Quotes(r, M, 0, i)
  <2>1. UnbrokenTo(r, i - 1) /\ t # Broken
    BY <1>10 DEF UnbrokenTo, t
  <2>2. n = i - 1 /\ Len(M) = i /\ M[i] = Quoted(t)
    BY <1>4, <1>6, <2>1
  <2>3. \A m \in 1..(i - 1) : M[m] = Quoted(r.texts[m])
    BY <1>3, <1>6, <2>1
  <2>4. \A m \in 1..i : M[0 + m] = Quoted(r.texts[m])
    BY <2>2, <2>3 DEF t
  <2>5. QED
    BY <2>2, <2>4 DEF Quotes
<1>11. ASSUME NEW j \in 1..i, UnbrokenTo(r, j - 1), r.texts[j] = Broken
       PROVE  Breaks(r, M, 0, j)
  <2>1. /\ \A m \in 1..(j - 1) : M[m] = Quoted(r.texts[m])
        /\ Len(M) >= j + 2 /\ M[j] = Open(r.texts[j]) /\ M[j + 1] = Newline
    <3>1. CASE j = i
      <4>1. UnbrokenTo(r, i - 1) /\ t = Broken
        BY <1>11, <3>1 DEF t
      <4>2. n = i - 1 /\ Len(M) = i + 2 /\ M[i] = Open(t) /\ M[i + 1] = Newline
        BY <1>4, <1>6, <4>1
      <4>3. \A m \in 1..(i - 1) : M[m] = Quoted(r.texts[m])
        BY <1>3, <1>6, <4>1
      <4>4. QED
        BY <3>1, <4>2, <4>3 DEF t
    <3>2. CASE j # i
      <4>1. j \in 1..(i - 1)
        BY <3>2
      <4>2. /\ \A m \in 1..(j - 1) : L[m] = Quoted(r.texts[m])
            /\ n >= j + 2 /\ L[j] = Open(r.texts[j]) /\ L[j + 1] = Newline
        BY <1>7, <1>11, <4>1
      <4>3. \A m \in 1..(j + 1) : M[m] = L[m]
        <5>1. n >= j + 2 /\ n \in Nat
          BY <1>1, <4>2
        <5>2. \A m \in 1..(j + 1) : m \in 1..n
          BY <5>1
        <5>3. QED
          BY <1>3, <5>2
      <4>4. QED
        BY <1>1, <1>8, <4>2, <4>3
    <3>3. QED
      BY <3>1, <3>2
  <2>2. \A m \in 1..(j - 1) : M[0 + m] = Quoted(r.texts[m])
    BY <2>1
  <2>3. 0 + j = j /\ 0 + j + 1 = j + 1 /\ 0 + j + 2 = j + 2
    OBVIOUS
  <2>4. QED
    BY <2>1, <2>2, <2>3 DEF Breaks, Quotes
<1>12. TextsAre(r, M, i)
  BY <1>3, <1>8, <1>9, <1>10, <1>11 DEF TextsAre
<1>13. QED
  BY <1>12 DEF M, t

\* A line begins with the magic word and nine numbers and ends with its line
\* break; every other line break in it stands inside a string.
LineIs(r, L) ==
  /\ L \in Seq(Tokens) /\ Len(L) \in Nat /\ Len(L) >= 17
  /\ L[1] = Magic /\ (\A i \in 1..9 : L[i + 1] = Number(r.numbers[i]))
  /\ L[Len(L)] = Newline
  /\ \A q \in 11..(Len(L) - 1) : /\ OfTexts(L[q])
                                 /\ L[q] = Newline => L[q + 1][1] = "plain"
  /\ UnbrokenTo(r, 6) => Len(L) = 17 /\ Quotes(r, L, 10, 6)
  /\ \A j \in 1..6 : UnbrokenTo(r, j - 1) /\ r.texts[j] = Broken => Breaks(r, L, 10, j)

LEMMA LineShape ==
  ASSUME NEW r \in RecordType
  PROVE  LineIs(r, Line(r))
<1>1. PICK T : /\ TextsLoop(r, T)
               /\ Line(r) = <<Magic>> \o [i \in 1..9 |-> Number(r.numbers[i])] \o T[6] \o <<Newline>>
  BY LineIsTheLoop
<1> DEFINE P == {i \in 0..6 : TextsAre(r, T[i], i)}
<1>2. TextsAre(r, T[6], 6)
  <2>1. 0 \in P
    <3>1. T[0] = <<>> /\ <<>> \in Seq(Tokens) /\ Len(<<>>) = 0
      BY <1>1, EmptySeq DEF TextsLoop
    <3>2. TextsAre(r, T[0], 0)
      <4> DEFINE L == T[0]
      <4>1. L \in Seq(Tokens) /\ Len(L) = 0
        BY <3>1, Zenon
      <4> HIDE DEF L
      <4>2. TextsAre(r, L, 0)
        BY <4>1 DEF TextsAre, Quotes
      <4>3. QED
        BY <4>2 DEF L
    <3>3. QED
      BY <3>2
  <2>2. ASSUME NEW i \in 1..6, i - 1 \in P PROVE i \in P
    <3>1. TextsAre(r, T[i - 1], i - 1)
      BY <2>2
    <3>2. T[i] = T[i - 1] \o TextTokens(r.texts[i])
      BY <1>1 DEF TextsLoop
    <3>3. TextsAre(r, T[i], i)
      BY <3>1, <3>2, TextsGrow
    <3>4. QED
      BY <3>3
  <2>3. \A i \in 1..6 : i - 1 \in P => i \in P
    BY <2>2
  <2>4. 6 \in Nat /\ 6 \in 0..6
    OBVIOUS
  <2> HIDE DEF P
  <2>5. 6 \in P
    BY <2>1, <2>3, <2>4, InductionUpTo
  <2> USE DEF P
  <2>6. QED
    BY <2>5
<1> DEFINE numbers == [i \in 1..9 |-> Number(r.numbers[i])]
           A == <<Magic>> \o numbers
           B == T[6]
           n == Len(B)
           C == A \o B
           L == C \o <<Newline>>
<1>3. /\ B \in Seq(Tokens) /\ n \in Nat /\ n >= 6
      /\ \A q \in 1..n : OfTexts(B[q]) /\ (B[q] = Newline => q < n /\ B[q + 1][1] = "plain")
      /\ UnbrokenTo(r, 6) => n = 6 /\ Quotes(r, B, 0, 6)
      /\ \A j \in 1..6 : UnbrokenTo(r, j - 1) /\ r.texts[j] = Broken => Breaks(r, B, 0, j)
  BY <1>2, LenProperties DEF TextsAre
<1> HIDE DEF B
<1>4. /\ numbers \in Seq(Tokens) /\ Len(numbers) = 9
      /\ \A i \in 1..9 : numbers[i] = Number(r.numbers[i])
  <2>1. \A i \in 1..9 : Number(r.numbers[i]) \in Tokens
    BY DEF Tokens, RecordType
  <2>2. numbers \in [1..9 -> Tokens] /\ 9 \in Nat
    BY <2>1
  <2> HIDE DEF Tokens
  <2>3. QED
    BY <2>2
<1> HIDE DEF numbers
<1>5. <<Magic>> \in Seq(Tokens) /\ <<Newline>> \in Seq(Tokens)
  <2>1. Magic \in Tokens /\ Newline \in Tokens
    BY DEF Tokens
  <2>2. QED
    BY <2>1
<1>6. /\ A \in Seq(Tokens) /\ Len(A) = 10 /\ A[1] = Magic
      /\ \A i \in 1..9 : A[i + 1] = Number(r.numbers[i])
  <2> DEFINE M == <<Magic>>
  <2>0. M \in Seq(Tokens) /\ Len(M) = 1 /\ M[1] = Magic
    BY <1>5
  <2> HIDE DEF M
  <2>1. /\ M \o numbers \in Seq(Tokens) /\ Len(M \o numbers) = Len(M) + Len(numbers)
        /\ \A i \in 1..(Len(M) + Len(numbers)) :
             (M \o numbers)[i] = IF i <= Len(M) THEN M[i] ELSE numbers[i - Len(M)]
    BY <1>4, <2>0, ConcatProperties
  <2>2. /\ A \in Seq(Tokens) /\ Len(A) = 10
        /\ \A i \in 1..10 : A[i] = IF i <= 1 THEN M[i] ELSE numbers[i - 1]
    <3>1. A = M \o numbers
      BY DEF A, M
    <3>2. Len(M) + Len(numbers) = 10
      BY <1>4, <2>0
    <3> HIDE DEF A
    <3>3. QED
      BY <2>0, <2>1, <3>1, <3>2
  <2> HIDE DEF A
  <2>3. A[1] = Magic
    BY <2>0, <2>2
  <2>4. ASSUME NEW i \in 1..9 PROVE A[i + 1] = Number(r.numbers[i])
    <3>1. i + 1 \in 1..10 /\ ~(i + 1 <= 1) /\ (i + 1) - 1 = i
      OBVIOUS
    <3>2. A[i + 1] = numbers[i]
      BY <2>2, <3>1
    <3>3. QED
      BY <1>4, <3>2
  <2>5. QED
    BY <2>2, <2>3, <2>4
<1> HIDE DEF A
<1>7. /\ C \in Seq(Tokens) /\ Len(C) = 10 + n
      /\ (\A q \in 1..10 : C[q] = A[q]) /\ (\A q \in 1..n : C[10 + q] = B[q])
  <2>1. /\ C \in Seq(Tokens) /\ Len(C) = 10 + n
        /\ \A q \in 1..(10 + n) : C[q] = IF q <= 10 THEN A[q] ELSE B[q - 10]
    <3>1. /\ C \in Seq(Tokens) /\ Len(C) = Len(A) + Len(B)
          /\ \A q \in 1..(Len(A) + Len(B)) : C[q] = IF q <= Len(A) THEN A[q] ELSE B[q - Len(A)]
      BY <1>3, <1>6, ConcatProperties
    <3> HIDE DEF C
    <3>2. QED
      BY <1>6, <3>1
  <2> HIDE DEF C, n
  <2>2. \A q \in 1..10 : C[q] = A[q]
    BY <1>3, <2>1
  <2>3. ASSUME NEW q \in 1..n PROVE C[10 + q] = B[q]
    <3>1. 10 + q \in 1..(10 + n) /\ ~(10 + q <= 10) /\ (10 + q) - 10 = q
      BY <1>3
    <3>2. QED
      BY <2>1, <3>1
  <2>4. QED
    BY <2>1, <2>2, <2>3
<1> HIDE DEF C
<1>8. /\ L \in Seq(Tokens) /\ Len(L) = 11 + n
      /\ (\A q \in 1..(10 + n) : L[q] = C[q]) /\ L[11 + n] = Newline
  <2> DEFINE N == <<Newline>>
  <2>1. N \in Seq(Tokens) /\ Len(N) = 1 /\ N[1] = Newline
    BY <1>5
  <2> HIDE DEF N
  <2>2. /\ L \in Seq(Tokens) /\ Len(L) = (10 + n) + 1
        /\ \A q \in 1..((10 + n) + 1) : L[q] = IF q <= 10 + n THEN C[q] ELSE N[q - (10 + n)]
    <3>1. L = C \o N
      BY DEF N
    <3> HIDE DEF L, n
    <3>2. /\ L \in Seq(Tokens) /\ Len(L) = Len(C) + Len(N)
          /\ \A q \in 1..(Len(C) + Len(N)) : L[q] = IF q <= Len(C) THEN C[q] ELSE N[q - Len(C)]
      BY <1>7, <2>1, <3>1, ConcatProperties
    <3>3. QED
      BY <1>7, <2>1, <3>2
  <2> HIDE DEF L, n
  <2>3. (11 + n) \in 1..((10 + n) + 1) /\ ~(11 + n <= 10 + n) /\ (11 + n) - (10 + n) = 1
        /\ (10 + n) + 1 = 11 + n
    BY <1>3
  <2>4. L[11 + n] = Newline
    BY <2>1, <2>2, <2>3
  <2>5. \A q \in 1..(10 + n) : q \in 1..((10 + n) + 1) /\ q <= 10 + n
    BY <1>3
  <2>6. QED
    BY <2>2, <2>3, <2>4, <2>5
<1>9. Line(r) = L
  BY <1>1 DEF L, C, A, B, numbers
<1> HIDE DEF L, n
<1>10. (\A q \in 1..10 : L[q] = A[q]) /\ (\A q \in 1..n : L[10 + q] = B[q])
  <2>1. \A q \in 1..10 : q \in 1..(10 + n)
    BY <1>3
  <2>2. \A q \in 1..n : 10 + q \in 1..(10 + n)
    BY <1>3
  <2>3. QED
    BY <1>7, <1>8, <2>1, <2>2
<1>11. L[1] = Magic /\ \A i \in 1..9 : L[i + 1] = Number(r.numbers[i])
  <2>1. \A i \in 1..9 : i + 1 \in 1..10
    OBVIOUS
  <2>2. QED
    BY <1>6, <1>10, <2>1
<1>12. ASSUME NEW q \in 11..(Len(L) - 1)
       PROVE  OfTexts(L[q]) /\ (L[q] = Newline => L[q + 1][1] = "plain")
  <2>1. PICK k \in 1..n : q = 10 + k
    <3>1. q - 10 \in 1..n /\ q = 10 + (q - 10)
      BY <1>3, <1>8
    <3>2. QED
      BY <3>1
  <2>2. L[q] = B[k]
    BY <1>10, <2>1
  <2>3. ASSUME L[q] = Newline PROVE L[q + 1][1] = "plain"
    <3>1. k < n /\ B[k + 1][1] = "plain"
      BY <1>3, <2>2, <2>3
    <3>2. k + 1 \in 1..n /\ q + 1 = 10 + (k + 1)
      BY <1>3, <2>1, <3>1
    <3>3. L[q + 1] = B[k + 1]
      BY <1>10, <3>2
    <3>4. QED
      BY <3>1, <3>3
  <2>4. QED
    BY <1>3, <2>2, <2>3
<1>13. ASSUME UnbrokenTo(r, 6) PROVE Len(L) = 17 /\ Quotes(r, L, 10, 6)
  <2>1. n = 6 /\ \A m \in 1..6 : B[0 + m] = Quoted(r.texts[m])
    BY <1>3, <1>13 DEF Quotes
  <2>2. \A m \in 1..6 : 0 + m = m
    OBVIOUS
  <2>3. QED
    BY <1>8, <1>10, <2>1, <2>2 DEF Quotes
<1>14. ASSUME NEW j \in 1..6, UnbrokenTo(r, j - 1), r.texts[j] = Broken
       PROVE  Breaks(r, L, 10, j)
  <2>1. /\ \A m \in 1..(j - 1) : B[0 + m] = Quoted(r.texts[m])
        /\ n >= 0 + j + 2 /\ B[0 + j] = Open(r.texts[j]) /\ B[0 + j + 1] = Newline
    <3>1. Breaks(r, B, 0, j)
      BY <1>3, <1>14
    <3>2. QED
      BY <3>1 DEF Breaks, Quotes, n
  <2>2. 0 + j = j /\ 0 + j + 1 = j + 1 /\ 0 + j + 2 = j + 2 /\ \A m \in 1..(j - 1) : 0 + m = m
    OBVIOUS
  <2>3. \A m \in 1..(j + 1) : L[10 + m] = B[m]
    BY <1>3, <1>10, <2>1
  <2>4. \A m \in 1..(j - 1) : L[10 + m] = Quoted(r.texts[m])
    BY <2>1, <2>2, <2>3
  <2>5. L[10 + j] = Open(r.texts[j]) /\ L[10 + (j + 1)] = Newline /\ 10 + (j + 1) = 10 + j + 1
    BY <2>1, <2>2, <2>3
  <2>6. Len(L) >= 10 + j + 2
    BY <1>3, <1>8, <2>1
  <2>7. QED
    BY <2>4, <2>5, <2>6 DEF Breaks, Quotes
<1>15. LineIs(r, L)
  <2>1. Len(L) \in Nat /\ Len(L) >= 17 /\ L[Len(L)] = Newline
    BY <1>3, <1>8
  <2>2. QED
    BY <1>8, <1>11, <1>12, <1>13, <1>14, <2>1 DEF LineIs
<1>16. QED
  BY <1>9, <1>15

\* Up to position b a line has neither a line break nor an open string; b is
\* where its first string with a line break begins, and without one its end.
BreaksAt(r, L, b) ==
  /\ b \in 11..17
  /\ \A q \in 1..(b - 1) : L[q][1] # "open" /\ L[q] # Newline
  /\ b = 17 => Broken \notin ToSet(r.texts) /\ Len(L) = 17 /\ Quotes(r, L, 10, 6)
  /\ b < 17 => /\ Broken \in ToSet(r.texts)
               /\ L[b][1] = "open" /\ L[b + 1] = Newline /\ b + 1 < Len(L)

LEMMA LineBreaks ==
  ASSUME NEW r \in RecordType, NEW L, LineIs(r, L)
  PROVE  \E b : BreaksAt(r, L, b)
<1>1. \A q \in 1..10 : L[q][1] # "open" /\ L[q] # Newline
  <2> TAKE q \in 1..10
  <2>1. CASE q = 1
    <3>1. L[q] = Magic
      BY <2>1 DEF LineIs
    <3>2. QED
      BY <3>1, TokenKinds
  <2>2. CASE q # 1
    <3>1. q - 1 \in 1..9 /\ (q - 1) + 1 = q
      BY <2>2
    <3>2. L[q] = Number(r.numbers[q - 1])
      BY <3>1 DEF LineIs
    <3>3. QED
      BY <3>2, TokenKinds
  <2>3. QED
    BY <2>1, <2>2
<1>2. ASSUME NEW n \in 0..6, Quotes(r, L, 10, n)
      PROVE  \A q \in 1..(10 + n) : L[q][1] # "open" /\ L[q] # Newline
  <2> TAKE q \in 1..(10 + n)
  <2>1. CASE q <= 10
    BY <1>1, <2>1
  <2>2. CASE q > 10
    <3>1. q - 10 \in 1..n /\ 10 + (q - 10) = q
      BY <2>2
    <3>2. L[q] = Quoted(r.texts[q - 10])
      BY <1>2, <3>1 DEF Quotes
    <3>3. QED
      BY <3>2, TokenKinds
  <2>3. QED
    BY <2>1, <2>2
<1>3. CASE UnbrokenTo(r, 6)
  <2>1. Len(L) = 17 /\ Quotes(r, L, 10, 6)
    BY <1>3 DEF LineIs
  <2>2. Broken \notin ToSet(r.texts)
    BY <1>3 DEF UnbrokenTo, ToSet, RecordType
  <2>3. \A q \in 1..(10 + 6) : L[q][1] # "open" /\ L[q] # Newline
    BY <1>2, <2>1
  <2>4. BreaksAt(r, L, 17)
    BY <2>1, <2>2, <2>3 DEF BreaksAt
  <2>5. QED
    BY <2>4
<1>4. CASE ~UnbrokenTo(r, 6)
  <2> DEFINE Bad == {m \in 1..6 : r.texts[m] = Broken}
  <2>1. Bad # {} /\ Bad \subseteq Nat
    BY <1>4 DEF UnbrokenTo
  <2>2. PICK j \in Bad : \A m \in Bad : j <= m
    <3> HIDE DEF Bad
    <3>1. QED
      BY <2>1, LeastNatural
  <2>3. j \in 1..6 /\ r.texts[j] = Broken /\ UnbrokenTo(r, j - 1)
    BY <2>2 DEF UnbrokenTo
  <2>4. Breaks(r, L, 10, j)
    BY <2>3 DEF LineIs
  <2>5. /\ Quotes(r, L, 10, j - 1) /\ Len(L) >= 10 + j + 2
        /\ L[10 + j] = Open(r.texts[j]) /\ L[10 + j + 1] = Newline
    BY <2>4 DEF Breaks
  <2>6. \A q \in 1..(10 + (j - 1)) : L[q][1] # "open" /\ L[q] # Newline
    <3>1. j - 1 \in 0..6
      BY <2>3
    <3>2. QED
      BY <1>2, <2>5, <3>1
  <2>7. Broken \in ToSet(r.texts)
    BY <2>3 DEF ToSet, RecordType
  <2>8. L[10 + j][1] = "open"
    BY <2>5, TokenKinds
  <2>9. Len(L) \in Nat
    BY DEF LineIs
  <2>10. BreaksAt(r, L, 10 + j)
    BY <2>3, <2>5, <2>6, <2>7, <2>8, <2>9 DEF BreaksAt
  <2>11. QED
    BY <2>10
<1>5. QED
  BY <1>3, <1>4

\* Inside a line only a string is broken, and the rest of it follows.
LEMMA LineTokens ==
  ASSUME NEW r \in RecordType, NEW L, LineIs(r, L)
  PROVE  /\ \A q \in 1..(Len(L) - 1) : L[q] = Newline => L[q + 1][1] = "plain"
         /\ \A q \in 1..Len(L) : L[q][1] = "open" => q >= 11
         /\ \A q \in 1..10 : ~HasQuote(L[q])
<1>1. \A q \in 1..10 : ~HasQuote(L[q]) /\ L[q] # Newline /\ L[q][1] # "open"
  <2> TAKE q \in 1..10
  <2>1. CASE q = 1
    <3>1. L[q] = Magic
      BY <2>1 DEF LineIs
    <3>2. QED
      BY <3>1, TokenKinds DEF HasQuote
  <2>2. CASE q # 1
    <3>1. q - 1 \in 1..9 /\ (q - 1) + 1 = q
      BY <2>2
    <3>2. L[q] = Number(r.numbers[q - 1])
      BY <3>1 DEF LineIs
    <3>3. QED
      BY <3>2, TokenKinds DEF HasQuote
  <2>3. QED
    BY <2>1, <2>2
<1>2. ASSUME NEW q \in 1..(Len(L) - 1), L[q] = Newline
      PROVE  L[q + 1][1] = "plain"
  <2>0. Len(L) \in Nat
    BY DEF LineIs
  <2>1. q \in 11..(Len(L) - 1)
    <3>1. ~(q \in 1..10)
      BY <1>1, <1>2
    <3>2. QED
      BY <2>0, <3>1
  <2>2. QED
    BY <1>2, <2>1 DEF LineIs
<1>3. \A q \in 1..Len(L) : L[q][1] = "open" => q >= 11
  <2> TAKE q \in 1..Len(L)
  <2>1. q \in 1..10 \/ q >= 11
    BY DEF LineIs
  <2>2. QED
    BY <1>1, <2>1
<1>4. QED
  BY <1>1, <1>2, <1>3

-----------------------------------------------------------------------------
(* Lexing                                                                  *)

WordTokens == Tokens \union {Quoted(Magic)}

Lexed == [words : Seq(WordTokens), place : {"inside", "between"}]

Lexes(line, g) ==
  /\ g \in [0..Len(line) -> Lexed]
  /\ g[0] = [words |-> <<>>, place |-> "between"]
  /\ \A i \in 1..Len(line) : g[i] = Lex(g[i - 1], line[i])

LEMMA LexIsLexed ==
  ASSUME NEW state \in Lexed, NEW token \in Tokens
  PROVE  Lex(state, token) \in Lexed
<1>1. state.words \in Seq(WordTokens) /\ state.place \in {"inside", "between"}
  BY DEF Lexed
<1>2. token \in WordTokens /\ Quoted(Magic) \in WordTokens
  BY DEF WordTokens
<1>3. CASE state.place = "inside" /\ HasQuote(token)
  <2>1. token[2] \in Texts
    BY <1>3, TokenKinds DEF Tokens, HasQuote
  <2>2. Plain(token[2]) \in WordTokens
    BY <2>1 DEF WordTokens, Tokens
  <2> DEFINE p == Plain(token[2])
             m == Quoted(Magic)
  <2>3. <<m, p>> \in Seq(WordTokens)
    <3>1. p \in WordTokens /\ m \in WordTokens
      BY <1>2, <2>2
    <3> HIDE DEF p, m, WordTokens
    <3>2. QED
      BY <3>1
  <2>4. state.words \o <<m, p>> \in Seq(WordTokens)
    <3> HIDE DEF p, m, WordTokens
    <3>1. QED
      BY <1>1, <2>3, ConcatProperties
  <2>5. Lex(state, token) = [words |-> state.words \o <<m, p>>, place |-> "between"]
    BY <1>3 DEF Lex
  <2> HIDE DEF p, m
  <2>6. QED
    BY <2>4, <2>5 DEF Lexed
<1>4. CASE state.place = "inside" /\ ~HasQuote(token)
  BY <1>4 DEF Lex
<1>5. CASE state.place # "inside" /\ token[1] = "open"
  BY <1>1, <1>5 DEF Lex, Lexed
<1>6. CASE state.place # "inside" /\ token[1] # "open"
  <2>1. Append(state.words, token) \in Seq(WordTokens)
    BY <1>1, <1>2, AppendProperties
  <2>2. Lex(state, token) = [words |-> Append(state.words, token), place |-> "between"]
    BY <1>6 DEF Lex
  <2>3. QED
    BY <2>1, <2>2 DEF Lexed
<1>7. QED
  BY <1>3, <1>4, <1>5, <1>6

LEMMA WordsAreLexed ==
  ASSUME NEW line \in Seq(Tokens)
  PROVE  \E g : Lexes(line, g) /\ Words(line) = g[Len(line)]
<1> DEFINE n == Len(line)
           v0 == [words |-> <<>>, place |-> "between"]
           Loop(g) == g = [i \in 0..n |-> IF i = 0 THEN v0 ELSE Lex(g[i - 1], line[i])]
           step == [i \in 1..n |-> [v \in Lexed |-> Lex(v, line[i])]]
           lexed == CHOOSE g : Loop(g)
<1>1. Words(line) = lexed[n]
  BY DEF Words
<1>2. n \in Nat /\ \A i \in 1..n : line[i] \in Tokens
  BY LenProperties, ElementOfSeq
<1>3. v0 \in Lexed
  <2>1. <<>> \in Seq(WordTokens)
    BY EmptySeq
  <2>2. QED
    BY <2>1 DEF Lexed
<1> HIDE DEF v0, lexed, n
<1>4. \A i \in 1..n : \A v \in Lexed : step[i][v] \in Lexed
  <2> TAKE i \in 1..n
  <2> TAKE v \in Lexed
  <2>1. step[i][v] = Lex(v, line[i])
    OBVIOUS
  <2>2. QED
    BY <1>2, <2>1, LexIsLexed
<1> HIDE DEF step
<1>5. PICK g : Computes(n, Lexed, v0, step, g)
  <2>1. Loops(n, Lexed, v0, step)
    BY <1>2, <1>3, <1>4 DEF Loops
  <2>2. QED
    BY <2>1, RecursionExists
<1>6. g \in [0..n -> Lexed] /\ g[0] = v0 /\ \A i \in 1..n : g[i] = Lex(g[i - 1], line[i])
  <2>1. g \in [0..n -> Lexed] /\ g[0] = v0 /\ \A i \in 1..n : g[i] = step[i][g[i - 1]]
    BY <1>5 DEF Computes
  <2>2. \A i \in 1..n : g[i - 1] \in Lexed
    BY <1>2, <2>1
  <2>3. QED
    BY <2>1, <2>2 DEF step
<1>7. Loop(g)
  <2>1. g = [i \in 0..n |-> g[i]]
    BY <1>6
  <2>2. ASSUME NEW i \in 0..n
        PROVE  g[i] = IF i = 0 THEN v0 ELSE Lex(g[i - 1], line[i])
    <3>1. CASE i = 0
      BY <1>6, <3>1
    <3>2. CASE i # 0
      <4>1. i \in 1..n
        BY <1>2, <3>2
      <4>2. QED
        BY <1>6, <3>2, <4>1
    <3>3. QED
      BY <3>1, <3>2
  <2>3. QED
    BY <2>1, <2>2
<1> HIDE DEF Loop
<1>8. Loop(lexed)
  BY <1>7 DEF lexed
<1>9. /\ lexed = [i \in 0..n |-> lexed[i]] /\ lexed[0] = v0
      /\ \A i \in 1..n : lexed[i] = Lex(lexed[i - 1], line[i])
  <2>1. lexed = [i \in 0..n |-> IF i = 0 THEN v0 ELSE Lex(lexed[i - 1], line[i])]
    BY <1>8 DEF Loop
  <2>2. \A i \in 0..n : lexed[i] = IF i = 0 THEN v0 ELSE Lex(lexed[i - 1], line[i])
    BY <2>1
  <2>3. lexed = [i \in 0..n |-> lexed[i]]
    BY <2>1
  <2>4. lexed[0] = v0
    BY <1>2, <2>2
  <2>5. ASSUME NEW i \in 1..n PROVE lexed[i] = Lex(lexed[i - 1], line[i])
    <3>1. i \in 0..n /\ i # 0
      BY <1>2
    <3>2. QED
      BY <2>2, <3>1
  <2>6. QED
    BY <2>3, <2>4, <2>5
<1> DEFINE P == {i \in 0..n : lexed[i] \in Lexed}
<1>10. \A i \in 0..n : i \in P
  <2>1. 0 \in P
    BY <1>2, <1>3, <1>9
  <2>2. ASSUME NEW i \in 1..n, i - 1 \in P PROVE i \in P
    <3>1. Lex(lexed[i - 1], line[i]) \in Lexed
      BY <1>2, <2>2, LexIsLexed
    <3>2. lexed[i] = Lex(lexed[i - 1], line[i])
      BY <1>9
    <3>3. lexed[i] \in Lexed
      BY <3>1, <3>2, Zenon
    <3>4. i \in 0..n
      BY <1>2
    <3>5. QED
      BY <3>3, <3>4
  <2> HIDE DEF P
  <2>3. QED
    BY <1>2, <2>1, <2>2, InductionUpTo
<1>11. lexed \in [0..n -> Lexed]
  BY <1>9, <1>10
<1>12. Lexes(line, lexed)
  BY <1>9, <1>11 DEF Lexes, v0, n
<1>13. QED
  BY <1>1, <1>12 DEF n

\* What one token does to the words before it.
LEMMA LexStep ==
  ASSUME NEW line \in Seq(Tokens), NEW g, Lexes(line, g), NEW i \in 1..Len(line)
  PROVE  LET old == g[i - 1] new == g[i] k == Len(g[i - 1].words) IN
         /\ k \in Nat /\ old.place \in {"inside", "between"}
         /\ old.place = "between" /\ line[i][1] # "open" =>
              /\ new.place = "between" /\ Len(new.words) = k + 1
              /\ \A q \in 1..k : new.words[q] = old.words[q]
              /\ new.words[k + 1] = line[i]
         /\ old.place = "between" /\ line[i][1] = "open" =>
              new.words = old.words /\ new.place = "inside"
         /\ old.place = "inside" /\ HasQuote(line[i]) =>
              /\ new.place = "between" /\ Len(new.words) = k + 2
              /\ \A q \in 1..k : new.words[q] = old.words[q]
         /\ old.place = "inside" /\ ~HasQuote(line[i]) => new = old
<1> DEFINE old == g[i - 1]
           new == g[i]
           w == old.words
           k == Len(w)
<1>1. old \in Lexed /\ new = Lex(old, line[i]) /\ line[i] \in Tokens
  <2>1. i - 1 \in 0..Len(line) /\ Len(line) \in Nat
    BY LenProperties
  <2>2. QED
    BY <2>1, ElementOfSeq DEF Lexes
<1>2. w \in Seq(WordTokens) /\ k \in Nat /\ old.place \in {"inside", "between"}
  <2>1. w \in Seq(WordTokens) /\ old.place \in {"inside", "between"}
    BY <1>1 DEF Lexed
  <2>2. QED
    BY <2>1, LenProperties
<1> HIDE DEF old, new
<1>3. ASSUME old.place = "between", line[i][1] # "open"
      PROVE  /\ new.place = "between" /\ Len(new.words) = k + 1
             /\ \A q \in 1..k : new.words[q] = old.words[q]
             /\ new.words[k + 1] = line[i]
  <2>1. new.words = Append(w, line[i]) /\ new.place = "between"
    BY <1>1, <1>3 DEF Lex
  <2>2. line[i] \in WordTokens
    BY <1>1 DEF WordTokens
  <2> HIDE DEF w
  <2>3. /\ Len(Append(w, line[i])) = Len(w) + 1
        /\ \A q \in 1..Len(w) : Append(w, line[i])[q] = w[q]
        /\ Append(w, line[i])[Len(w) + 1] = line[i]
    BY <1>2, <2>2, AppendProperties
  <2>4. QED
    BY <2>1, <2>3 DEF w
<1>4. ASSUME old.place = "between", line[i][1] = "open"
      PROVE  new.words = old.words /\ new.place = "inside"
  BY <1>1, <1>4 DEF Lex
<1>5. ASSUME old.place = "inside", HasQuote(line[i])
      PROVE  /\ new.place = "between" /\ Len(new.words) = k + 2
             /\ \A q \in 1..k : new.words[q] = old.words[q]
  <2> DEFINE m == Quoted(Magic)
             p == Plain(line[i][2])
             e == <<m, p>>
  <2>1. new.words = w \o e /\ new.place = "between"
    BY <1>1, <1>5 DEF Lex
  <2>2. e \in Seq({m, p}) /\ Len(e) = 2
    <3> HIDE DEF m, p
    <3>1. QED
      OBVIOUS
  <2>3. w \in Seq(WordTokens \union {m, p}) /\ e \in Seq(WordTokens \union {m, p})
    <3> HIDE DEF e, w, m, p, WordTokens
    <3>1. \A S, T : S \subseteq T => Seq(S) \subseteq Seq(T)
      BY SeqDef
    <3>2. QED
      BY <1>2, <2>2, <3>1
  <2> HIDE DEF e, w, m, p, WordTokens
  <2>4. /\ Len(w \o e) = Len(w) + Len(e)
        /\ \A q \in 1..(Len(w) + Len(e)) : (w \o e)[q] = IF q <= Len(w) THEN w[q] ELSE e[q - Len(w)]
    BY <2>3, ConcatProperties
  <2>5. \A q \in 1..k : (w \o e)[q] = w[q]
    <3> TAKE q \in 1..k
    <3>1. q \in 1..(Len(w) + Len(e)) /\ q <= Len(w)
      BY <1>2, <2>2
    <3>2. QED
      BY <2>4, <3>1
  <2>6. QED
    BY <2>1, <2>2, <2>4, <2>5 DEF w
<1>6. ASSUME old.place = "inside", ~HasQuote(line[i])
      PROVE  new = old
  BY <1>1, <1>6 DEF Lex
<1>7. QED
  BY <1>2, <1>3, <1>4, <1>5, <1>6 DEF old, new

LEMMA LexWord ==
  ASSUME NEW line \in Seq(Tokens), NEW g, Lexes(line, g), NEW i \in 1..Len(line),
         NEW n \in Nat, g[i - 1].place = "between", Len(g[i - 1].words) = n,
         line[i][1] # "open"
  PROVE  /\ g[i].place = "between" /\ Len(g[i].words) = n + 1
         /\ \A q \in 1..n : g[i].words[q] = g[i - 1].words[q]
         /\ g[i].words[n + 1] = line[i]
<1> DEFINE old == g[i - 1]
           new == g[i]
           k == Len(old.words)
<1>1. /\ k \in Nat /\ old.place \in {"inside", "between"}
      /\ old.place = "between" /\ line[i][1] # "open" =>
           /\ new.place = "between" /\ Len(new.words) = k + 1
           /\ \A q \in 1..k : new.words[q] = old.words[q]
           /\ new.words[k + 1] = line[i]
      /\ old.place = "between" /\ line[i][1] = "open" =>
           new.words = old.words /\ new.place = "inside"
      /\ old.place = "inside" /\ HasQuote(line[i]) =>
           /\ new.place = "between" /\ Len(new.words) = k + 2
           /\ \A q \in 1..k : new.words[q] = old.words[q]
      /\ old.place = "inside" /\ ~HasQuote(line[i]) => new = old
  BY ONLY line \in Seq(Tokens), Lexes(line, g), i \in 1..Len(line), LexStep
<1>2. old.place = "between" /\ k = n
  OBVIOUS
<1> HIDE DEF old, new, k
<1>3. /\ new.place = "between" /\ Len(new.words) = n + 1
      /\ \A q \in 1..n : new.words[q] = old.words[q]
      /\ new.words[n + 1] = line[i]
  BY <1>1, <1>2
<1>4. QED
  BY <1>3 DEF old, new

\* Without an open string every token up to k is a word.
LEMMA LexWhole ==
  ASSUME NEW line \in Seq(Tokens), NEW g, Lexes(line, g), NEW k \in 0..Len(line),
         \A q \in 1..k : line[q][1] # "open"
  PROVE  /\ g[k].place = "between" /\ Len(g[k].words) = k
         /\ \A q \in 1..k : g[k].words[q] = line[q]
<1> DEFINE Whole(i) == /\ g[i].place = "between" /\ Len(g[i].words) = i
                       /\ \A q \in 1..i : g[i].words[q] = line[q]
           P == {i \in 0..k : Whole(i)}
<1>0. k \in Nat /\ k <= Len(line) /\ Len(line) \in Nat
  BY LenProperties
<1>1. 0 \in P
  <2>1. g[0].words = <<>> /\ g[0].place = "between"
    BY DEF Lexes
  <2>2. Whole(0)
    BY <2>1
  <2> HIDE DEF Whole
  <2>3. QED
    BY <1>0, <2>2
<1>2. ASSUME NEW i \in 1..k, i - 1 \in P PROVE i \in P
  <2>1. Whole(i - 1) /\ i \in 1..Len(line) /\ line[i][1] # "open"
    BY <1>0, <1>2
  <2>2. /\ g[i].place = "between" /\ Len(g[i].words) = (i - 1) + 1
        /\ \A q \in 1..(i - 1) : g[i].words[q] = g[i - 1].words[q]
        /\ g[i].words[(i - 1) + 1] = line[i]
    <3>1. g[i - 1].place = "between" /\ Len(g[i - 1].words) = i - 1 /\ i - 1 \in Nat
      BY <2>1
    <3> DEFINE n == i - 1
    <3> HIDE DEF Whole, P
    <3>2. n \in Nat /\ g[i - 1].place = "between" /\ Len(g[i - 1].words) = n
      BY <3>1
    <3>3. /\ g[i].place = "between" /\ Len(g[i].words) = n + 1
          /\ \A q \in 1..n : g[i].words[q] = g[i - 1].words[q]
          /\ g[i].words[n + 1] = line[i]
      <4> HIDE DEF n
      <4>1. QED
        BY <2>1, <3>2, LexWord
    <3>4. QED
      BY <3>3 DEF n
  <2>3. Whole(i)
    <3>1. (i - 1) + 1 = i /\ \A q \in 1..i : q = i \/ q \in 1..(i - 1)
      OBVIOUS
    <3>2. \A q \in 1..(i - 1) : g[i - 1].words[q] = line[q]
      BY <2>1
    <3>3. \A q \in 1..i : g[i].words[q] = line[q]
      BY <2>2, <3>1, <3>2
    <3>4. QED
      BY <2>2, <3>1, <3>3
  <2> HIDE DEF Whole
  <2>4. QED
    BY <2>3
<1>3. k \in P
  <2> HIDE DEF P
  <2>1. \A i \in 0..k : i \in P
    BY <1>0, <1>1, <1>2, InductionUpTo
  <2>2. k \in 0..k
    BY <1>0
  <2>3. QED
    BY <2>1, <2>2
<1>4. QED
  BY <1>3

\* The first word, once there, stays.
LEMMA LexFirst ==
  ASSUME NEW line \in Seq(Tokens), NEW g, Lexes(line, g), Len(line) >= 1,
         line[1][1] # "open"
  PROVE  \A i \in 1..Len(line) : Len(g[i].words) >= 1 /\ g[i].words[1] = line[1]
<1> DEFINE n == Len(line)
           First(i) == Len(g[i].words) \in Nat /\ Len(g[i].words) >= 1 /\ g[i].words[1] = line[1]
           P == {i \in 0..n : i = 0 \/ First(i)}
<1>0. n \in Nat /\ n >= 1
  BY LenProperties
<1>1. 0 \in P
  BY <1>0
<1>2. ASSUME NEW i \in 1..n, i - 1 \in P PROVE i \in P
  <2>1. CASE i = 1
    <3>1. 1 \in 0..n /\ \A q \in 1..1 : line[q][1] # "open"
      BY <1>0
    <3> DEFINE k == 1
    <3>a. k \in 0..Len(line) /\ \A q \in 1..k : line[q][1] # "open"
      BY <3>1
    <3> HIDE DEF k
    <3>b. Len(g[k].words) = k /\ \A q \in 1..k : g[k].words[q] = line[q]
      BY <3>a, LexWhole
    <3>2. Len(g[1].words) = 1 /\ \A q \in 1..1 : g[1].words[q] = line[q]
      BY <3>b DEF k
    <3>3. QED
      BY <2>1, <3>1, <3>2
  <2>2. CASE i # 1
    <3>1. First(i - 1)
      BY <1>2, <2>2
    <3>2. LET k == Len(g[i - 1].words) IN
          /\ k \in Nat
          /\ Len(g[i].words) \in {k, k + 1, k + 2}
          /\ \A q \in 1..k : g[i].words[q] = g[i - 1].words[q]
      <4> DEFINE old == g[i - 1]
                 new == g[i]
                 k == Len(old.words)
      <4>1. /\ k \in Nat /\ old.place \in {"inside", "between"}
            /\ old.place = "between" /\ line[i][1] # "open" =>
                 Len(new.words) = k + 1 /\ \A q \in 1..k : new.words[q] = old.words[q]
            /\ old.place = "between" /\ line[i][1] = "open" => new.words = old.words
            /\ old.place = "inside" /\ HasQuote(line[i]) =>
                 Len(new.words) = k + 2 /\ \A q \in 1..k : new.words[q] = old.words[q]
            /\ old.place = "inside" /\ ~HasQuote(line[i]) => new = old
        BY LexStep
      <4>2. new.words = old.words => Len(new.words) = k
        OBVIOUS
      <4> HIDE DEF old, new
      <4>3. Len(new.words) \in {k, k + 1, k + 2} /\ \A q \in 1..k : new.words[q] = old.words[q]
        BY <4>1, <4>2
      <4>4. QED
        BY <4>1, <4>3 DEF old, new
    <3>3. First(i)
      BY <3>1, <3>2
    <3> HIDE DEF First
    <3>4. QED
      BY <3>3
  <2>3. QED
    BY <2>1, <2>2
<1>3. \A i \in 0..n : i \in P
  <2> HIDE DEF P
  <2>1. QED
    BY <1>0, <1>1, <1>2, InductionUpTo
<1>4. QED
  BY <1>3

\* Between quotes, every token that opens none adds a word.
LEMMA LexBetween ==
  ASSUME NEW line \in Seq(Tokens), NEW g, Lexes(line, g),
         NEW a \in 0..Len(line), NEW b \in a..Len(line),
         g[a].place = "between", \A q \in (a + 1)..b : line[q][1] # "open"
  PROVE  g[b].place = "between" /\ Len(g[b].words) = Len(g[a].words) + (b - a)
<1> DEFINE k == Len(g[a].words)
           Holds(i) == g[a + i].place = "between" /\ Len(g[a + i].words) = k + i
           P == {i \in 0..(b - a) : Holds(i)}
<1>0. a \in Nat /\ b \in Nat /\ b - a \in Nat /\ b <= Len(line) /\ Len(line) \in Nat
  BY LenProperties
<1>1. k \in Nat
  <2>1. g[a] \in Lexed
    BY DEF Lexes
  <2>2. g[a].words \in Seq(WordTokens)
    BY <2>1 DEF Lexed
  <2>3. QED
    BY <2>2, LenProperties
<1>2. 0 \in P
  BY <1>0, <1>1
<1> HIDE DEF k
<1>3. ASSUME NEW i \in 1..(b - a), i - 1 \in P PROVE i \in P
  <2>1. Holds(i - 1)
    BY <1>3
  <2>2. a + i \in 1..Len(line) /\ (a + i) - 1 = a + (i - 1) /\ a + i \in (a + 1)..b
    BY <1>0
  <2>3. line[a + i][1] # "open"
    BY <2>2
  <2>4. g[a + i].place = "between" /\ Len(g[a + i].words) = Len(g[a + (i - 1)].words) + 1
    BY <2>1, <2>2, <2>3, LexStep
  <2>5. Holds(i)
    BY <1>1, <2>1, <2>4
  <2> HIDE DEF Holds
  <2>6. QED
    BY <2>5
<1>4. b - a \in P
  <2> DEFINE m == b - a
  <2>1. m \in Nat /\ 0 \in P /\ \A i \in 1..m : i - 1 \in P => i \in P
    BY <1>0, <1>2, <1>3
  <2> HIDE DEF P, m
  <2>2. \A i \in 0..m : i \in P
    BY <2>1, InductionUpTo
  <2>3. m \in 0..m
    BY <2>1
  <2>4. m \in P
    BY <2>2, <2>3
  <2>5. QED
    BY <2>4 DEF m
<1>5. a + (b - a) = b
  BY <1>0
<1>6. QED
  BY <1>4, <1>5 DEF k

\* Inside a string, a token without a quote adds nothing.
LEMMA LexInside ==
  ASSUME NEW line \in Seq(Tokens), NEW g, Lexes(line, g),
         NEW a \in 0..Len(line), NEW b \in a..Len(line),
         g[a].place = "inside", \A q \in (a + 1)..b : ~HasQuote(line[q])
  PROVE  g[b] = g[a]
<1> DEFINE P == {i \in 0..(b - a) : g[a + i] = g[a]}
<1>0. a \in Nat /\ b \in Nat /\ b - a \in Nat /\ b <= Len(line) /\ Len(line) \in Nat
  BY LenProperties
<1>1. 0 \in P
  BY <1>0
<1>2. ASSUME NEW i \in 1..(b - a), i - 1 \in P PROVE i \in P
  <2>1. g[a + (i - 1)] = g[a]
    BY <1>2
  <2>2. a + i \in 1..Len(line) /\ (a + i) - 1 = a + (i - 1) /\ a + i \in (a + 1)..b
    BY <1>0
  <2>3. g[a + i] = g[a + (i - 1)]
    BY <2>1, <2>2, LexStep
  <2>4. QED
    BY <2>1, <2>3
<1>3. b - a \in P
  <2> DEFINE m == b - a
  <2>1. m \in Nat /\ 0 \in P /\ \A i \in 1..m : i - 1 \in P => i \in P
    BY <1>0, <1>1, <1>2
  <2> HIDE DEF P, m
  <2>2. \A i \in 0..m : i \in P
    BY <2>1, InductionUpTo
  <2>3. m \in 0..m
    BY <2>1
  <2>4. m \in P
    BY <2>2, <2>3
  <2>5. QED
    BY <2>4 DEF m
<1>4. a + (b - a) = b
  BY <1>0
<1>5. QED
  BY <1>3, <1>4

-----------------------------------------------------------------------------
(* Which lines are accepted                                                *)

\* A line that begins with the rest of a string is refused.
LEMMA RestIsRefused ==
  ASSUME NEW line \in Seq(Tokens), Len(line) >= 1, line[1][1] = "plain"
  PROVE  ~Accepts(line)
<1>1. PICK g : Lexes(line, g) /\ Words(line) = g[Len(line)]
  BY WordsAreLexed
<1>2. Len(line) \in Nat
  BY LenProperties
<1>3. \A i \in 1..Len(line) : g[i].words[1] = line[1]
  BY <1>1, LexFirst
<1>4. Words(line).words[1] = line[1]
  BY <1>1, <1>2, <1>3
<1>5. line[1] # Magic
  BY TokenKinds
<1>6. QED
  BY <1>4, <1>5 DEF Accepts

\* A line that ends in its first open string is refused.
LEMMA OpenEndIsRefused ==
  ASSUME NEW line \in Seq(Tokens), Len(line) >= 1, line[Len(line)][1] = "open",
         \A q \in 1..(Len(line) - 1) : line[q][1] # "open"
  PROVE  ~Accepts(line)
<1> DEFINE n == Len(line)
<1>1. PICK g : Lexes(line, g) /\ Words(line) = g[n]
  BY WordsAreLexed
<1>2. n \in Nat /\ n >= 1
  BY LenProperties
<1>3. n - 1 \in 0..Len(line) /\ \A q \in 1..(n - 1) : line[q][1] # "open"
  BY <1>2
<1>4. g[n - 1].place = "between"
  BY <1>1, <1>3, LexWhole
<1>5. n \in 1..Len(line) /\ line[n][1] = "open"
  BY <1>2
<1>6. g[n].place = "inside"
  BY <1>1, <1>4, <1>5, LexStep
<1>7. QED
  BY <1>1, <1>6 DEF Accepts

\* A line without open strings has as many words as tokens: sixteen make a
\* record, more or fewer do not.
LEMMA SixteenTokens ==
  ASSUME NEW line \in Seq(Tokens), \A q \in 1..Len(line) : line[q][1] # "open"
  PROVE  /\ Words(line).place = "between" /\ Len(Words(line).words) = Len(line)
         /\ \A q \in 1..Len(line) : Words(line).words[q] = line[q]
         /\ Accepts(line) => Len(line) = 16
<1> DEFINE n == Len(line)
<1>1. PICK g : Lexes(line, g) /\ Words(line) = g[n]
  BY WordsAreLexed
<1>2. n \in Nat /\ n \in 0..Len(line)
  BY LenProperties
<1>3. g[n].place = "between" /\ Len(g[n].words) = n /\ \A q \in 1..n : g[n].words[q] = line[q]
  BY <1>1, <1>2, LexWhole
<1>4. /\ Words(line).place = "between" /\ Len(Words(line).words) = Len(line)
      /\ \A q \in 1..Len(line) : Words(line).words[q] = line[q]
  BY <1>1, <1>3
<1>5. Accepts(line) => Len(line) = 16
  BY <1>4 DEF Accepts
<1>6. QED
  BY <1>4, <1>5

\* The fields of an unbroken record are read back as they were written.
LEMMA RecordIsReadBack ==
  ASSUME NEW r \in RecordType, NEW L, LineIs(r, L), Quotes(r, L, 10, 6),
         NEW line \in Seq(Tokens), Len(line) = 16, \A q \in 1..16 : line[q] = L[q]
  PROVE  /\ Parsed(Words(line).words) = r
         /\ IsValid(r) => Accepts(line)
<1> DEFINE w == Words(line).words
<1>1. \A m \in 1..6 : line[10 + m] = Quoted(r.texts[m])
  <2>1. \A m \in 1..6 : 10 + m \in 1..16
    OBVIOUS
  <2>2. QED
    BY <2>1 DEF Quotes
<1>2. line[1] = Magic /\ \A m \in 1..9 : line[m + 1] = Number(r.numbers[m])
  <2>1. 1 \in 1..16 /\ \A m \in 1..9 : m + 1 \in 1..16
    OBVIOUS
  <2>2. QED
    BY <2>1 DEF LineIs
<1>3. \A q \in 1..16 : line[q][1] # "open"
  <2> TAKE q \in 1..16
  <2>1. CASE q = 1
    BY <1>2, <2>1, TokenKinds
  <2>2. CASE q \in 2..10
    <3>1. q - 1 \in 1..9 /\ (q - 1) + 1 = q
      BY <2>2
    <3>2. line[q] = Number(r.numbers[q - 1])
      BY <1>2, <3>1
    <3>3. QED
      BY <3>2, TokenKinds
  <2>3. CASE q \in 11..16
    <3>1. q - 10 \in 1..6 /\ 10 + (q - 10) = q
      BY <2>3
    <3>2. line[q] = Quoted(r.texts[q - 10])
      BY <1>1, <3>1
    <3>3. QED
      BY <3>2, TokenKinds
  <2>4. QED
    BY <2>1, <2>2, <2>3
<1>4. /\ Words(line).place = "between" /\ Len(w) = 16 /\ \A q \in 1..16 : w[q] = line[q]
  <2>1. \A q \in 1..Len(line) : line[q][1] # "open"
    BY <1>3
  <2>2. /\ Words(line).place = "between" /\ Len(w) = Len(line)
        /\ \A q \in 1..Len(line) : w[q] = line[q]
    BY <2>1, SixteenTokens
  <2>3. QED
    BY <2>2
<1> HIDE DEF w
<1>5. \A m \in 1..9 : w[m + 1] = Number(r.numbers[m]) /\ w[m + 1][2] = r.numbers[m]
  <2> TAKE m \in 1..9
  <2>1. m + 1 \in 1..16
    OBVIOUS
  <2>2. w[m + 1] = Number(r.numbers[m])
    <3>1. w[m + 1] = line[m + 1]
      BY <1>4, <2>1
    <3>2. line[m + 1] = Number(r.numbers[m])
      BY <1>2
    <3>3. QED
      BY <3>1, <3>2
  <2>3. QED
    BY <2>2, TokenKinds
<1>6. \A m \in 1..6 : TextOf(w[m + 10]) = r.texts[m]
  <2> TAKE m \in 1..6
  <2>1. m + 10 \in 1..16 /\ m + 10 = 10 + m
    OBVIOUS
  <2>2. w[m + 10] = Quoted(r.texts[m])
    BY <1>1, <1>4, <2>1
  <2>3. QED
    BY <2>2, TokenKinds DEF TextOf
<1>7. Parsed(w) = r
  <2>1. r.numbers = [i \in 1..9 |-> r.numbers[i]] /\ r.texts = [i \in 1..6 |-> r.texts[i]]
    BY DEF RecordType
  <2>2. [i \in 1..9 |-> w[i + 1][2]] = r.numbers
    BY <1>5, <2>1
  <2>3. [i \in 1..6 |-> TextOf(w[i + 10])] = r.texts
    BY <1>6, <2>1
  <2>4. r = [numbers |-> r.numbers, texts |-> r.texts]
    BY DEF RecordType
  <2>5. QED
    BY <2>2, <2>3, <2>4 DEF Parsed
<1>8. ASSUME IsValid(r) PROVE Accepts(line)
  <2>1. w[1] = Magic
    BY <1>2, <1>4
  <2>2. \A i \in 2..10 : w[i][1] = "number"
    <3> TAKE i \in 2..10
    <3>1. i - 1 \in 1..9 /\ (i - 1) + 1 = i
      OBVIOUS
    <3>2. w[i] = Number(r.numbers[i - 1])
      BY <1>5, <3>1
    <3>3. QED
      BY <3>2, TokenKinds
  <2>3. QED
    BY <1>4, <1>7, <1>8, <2>1, <2>2 DEF Accepts, w
<1>9. QED
  BY <1>7, <1>8 DEF w

\* A string left open swallows the beginning of the line behind it up to the
\* first quote, and seven words are left of that line: at least one too many.
LEMMA SwallowingLineIsRefused ==
  ASSUME NEW line \in Seq(Tokens), NEW c \in Nat, c >= 10, Len(line) = c + 17,
         \A q \in 1..c : line[q][1] # "open", line[c + 1][1] = "open",
         \A q \in (c + 2)..(c + 11) : ~HasQuote(line[q]),
         \A q \in (c + 12)..(c + 17) : line[q][1] = "quoted"
  PROVE  ~Accepts(line)
<1> DEFINE n == Len(line)
<1>1. PICK g : Lexes(line, g) /\ Words(line) = g[n]
  BY WordsAreLexed
<1>2. g[c].place = "between" /\ Len(g[c].words) = c
  <2>1. c \in 0..Len(line)
    OBVIOUS
  <2>2. QED
    BY <1>1, <2>1, LexWhole
<1>3. g[c + 1].place = "inside" /\ Len(g[c + 1].words) = c
  <2>1. c + 1 \in 1..Len(line) /\ (c + 1) - 1 = c
    OBVIOUS
  <2>2. g[c + 1].words = g[c].words /\ g[c + 1].place = "inside"
    BY <1>1, <1>2, <2>1, LexStep, SMTT(30)
  <2>3. QED
    BY <1>2, <2>2
<1>4. g[c + 11] = g[c + 1]
  <2> DEFINE a == c + 1
             b == c + 11
  <2>1. a \in 0..Len(line) /\ b \in a..Len(line) /\ a + 1 = c + 2 /\ g[a].place = "inside"
    BY <1>3
  <2>2. \A q \in (a + 1)..b : ~HasQuote(line[q])
    BY <2>1
  <2> HIDE DEF a, b
  <2>3. g[b] = g[a]
    BY <1>1, <2>1, <2>2, LexInside
  <2>4. QED
    BY <2>3 DEF a, b
<1>5. g[c + 12].place = "between" /\ Len(g[c + 12].words) = c + 2
  <2> DEFINE i == c + 12
  <2>1. i \in 1..Len(line) /\ i - 1 = c + 11 /\ i \in (c + 12)..(c + 17)
    OBVIOUS
  <2>2. HasQuote(line[i]) /\ g[i - 1] = g[c + 1]
    BY <1>4, <2>1 DEF HasQuote
  <2> HIDE DEF i
  <2>3. g[i].place = "between" /\ Len(g[i].words) = Len(g[i - 1].words) + 2
    <3>1. g[i - 1].place = "inside"
      BY <1>3, <2>2
    <3>2. QED
      BY <1>1, <2>1, <2>2, <3>1, LexStep
  <2>4. Len(g[i].words) = c + 2
    BY <1>3, <2>2, <2>3
  <2>5. QED
    BY <2>3, <2>4 DEF i
<1>6. Len(g[n].words) = (c + 2) + 5
  <2>1. c + 12 \in 0..Len(line) /\ n \in (c + 12)..Len(line) /\ n - (c + 12) = 5
    OBVIOUS
  <2>2. \A q \in ((c + 12) + 1)..n : line[q][1] # "open"
    OBVIOUS
  <2>3. Len(g[n].words) = Len(g[c + 12].words) + (n - (c + 12))
    <3> DEFINE m == c + 12
    <3>1. /\ m \in 0..Len(line) /\ n \in m..Len(line) /\ Lexes(line, g)
          /\ g[m].place = "between" /\ \A q \in (m + 1)..n : line[q][1] # "open"
      BY <1>1, <1>5, <2>1, <2>2
    <3> HIDE DEF m, n
    <3>2. Len(g[n].words) = Len(g[m].words) + (n - m)
      BY <3>1, LexBetween, ZenonT(40)
    <3>3. QED
      BY <3>2 DEF m
  <2>4. QED
    BY <1>5, <2>1, <2>3
<1>7. Len(Words(line).words) # 16
  BY <1>1, <1>6
<1>8. QED
  BY <1>7 DEF Accepts

-----------------------------------------------------------------------------
(* What is on the medium                                                   *)

EntryType == [record : Records, from : Nat, acknowledged : BOOLEAN]

\* Where on the medium s the i-th of the writes W ends.
EndOf(s, W, i) == IF i = Len(W) THEN Len(s) ELSE W[i + 1].from

Whole(s, w, end) ==
  /\ end = w.from + Len(Line(w.record))
  /\ \A q \in 1..Len(Line(w.record)) : s[w.from + q] = Line(w.record)[q]

Torn(s, w, end) ==
  \E cut \in 1..16 :
    /\ \A q \in 1..cut : s[w.from + q] = Line(w.record)[q]
    /\ \/ end = w.from + cut
       \/ /\ end = w.from + cut + 1
          /\ Line(w.record)[cut + 1][1] = "quoted" /\ s[end][1] = "open"

OnMedium(s, w, end, t) ==
  /\ IsValid(w.record) /\ w.from < end /\ end <= Len(s)
  /\ w.acknowledged => Whole(s, w, end)
  /\ ~w.acknowledged => Torn(s, w, end) /\ end \in t

\* The writes lie one behind the other and cover the medium, each whole or
\* torn, and the tears are where the torn ones end.
StreamIs(s, W, t) ==
  /\ s \in Seq(Tokens) /\ W \in Seq(EntryType)
  /\ Len(W) = 0 => Len(s) = 0
  /\ Len(W) > 0 => W[1].from = 0
  /\ \A i \in 1..Len(W) : OnMedium(s, W[i], EndOf(s, W, i), t)
  /\ t \subseteq Nat \ {0}
  /\ \A x \in t : \E i \in 1..Len(W) : EndOf(s, W, i) = x /\ ~W[i].acknowledged

LEMMA EntryLine ==
  ASSUME NEW w \in EntryType
  PROVE  /\ w.record \in RecordType /\ w.from \in Nat
         /\ LineIs(w.record, Line(w.record))
         /\ Len(Line(w.record)) \in Nat /\ Len(Line(w.record)) >= 17
         /\ Line(w.record) \in Seq(Tokens)
<1>1. w.record \in RecordType /\ w.from \in Nat
  BY RecordsAssumption DEF EntryType, RecordType
<1>2. LineIs(w.record, Line(w.record))
  BY <1>1, LineShape
<1>3. QED
  BY <1>1, <1>2 DEF LineIs

LEMMA MediumGrows ==
  ASSUME NEW s \in Seq(Tokens), NEW s2 \in Seq(Tokens), Len(s2) >= Len(s),
         \A q \in 1..Len(s) : s2[q] = s[q],
         NEW w \in EntryType, NEW end \in Nat, NEW t, NEW t2, t \subseteq t2,
         OnMedium(s, w, end, t)
  PROVE  OnMedium(s2, w, end, t2)
<1> DEFINE L == Line(w.record)
<1>1. w.from \in Nat /\ Len(L) \in Nat /\ Len(s) \in Nat /\ Len(s2) \in Nat
  BY EntryLine, LenProperties
<1> HIDE DEF L
<1>2. IsValid(w.record) /\ w.from < end /\ end <= Len(s)
  BY DEF OnMedium
<1>3. ASSUME w.acknowledged PROVE Whole(s2, w, end)
  <2>1. end = w.from + Len(L) /\ \A q \in 1..Len(L) : s[w.from + q] = L[q]
    BY <1>3 DEF OnMedium, Whole, L
  <2>2. \A q \in 1..Len(L) : w.from + q \in 1..Len(s)
    BY <1>1, <1>2, <2>1
  <2>3. QED
    BY <2>1, <2>2 DEF Whole, L
<1>4. ASSUME ~w.acknowledged PROVE Torn(s2, w, end) /\ end \in t2
  <2>1. PICK cut \in 1..16 :
          /\ \A q \in 1..cut : s[w.from + q] = L[q]
          /\ \/ end = w.from + cut
             \/ end = w.from + cut + 1 /\ L[cut + 1][1] = "quoted" /\ s[end][1] = "open"
    BY <1>4 DEF OnMedium, Torn, L
  <2>2. \A q \in 1..cut : w.from + q \in 1..Len(s)
    <3>1. end = w.from + cut \/ end = w.from + cut + 1
      BY <2>1
    <3>2. w.from + cut <= Len(s)
      <4>1. w.from \in Nat /\ end \in Nat /\ end <= Len(s) /\ Len(s) \in Nat
        BY <1>1, <1>2
      <4>2. QED
        BY <3>1, <4>1
    <3>3. QED
      BY <1>1, <3>2
  <2>3. end \in 1..Len(s)
    BY <1>1, <1>2
  <2>4. \A q \in 1..cut : s2[w.from + q] = L[q]
    BY <2>1, <2>2
  <2>5. s2[end] = s[end]
    BY <2>3
  <2>6. end \in t2
    BY <1>4 DEF OnMedium
  <2>7. QED
    BY <2>1, <2>4, <2>5, <2>6 DEF Torn, L
<1>5. QED
  BY <1>1, <1>2, <1>3, <1>4 DEF OnMedium

\* One more write at the end of the medium leaves those before it in place.
LEMMA StreamGrows ==
  ASSUME NEW s, NEW W, NEW t, StreamIs(s, W, t),
         NEW s2 \in Seq(Tokens), Len(s2) > Len(s), \A q \in 1..Len(s) : s2[q] = s[q],
         NEW e \in EntryType, e.from = Len(s), IsValid(e.record),
         NEW t2, t \subseteq t2, t2 \subseteq t \union {Len(s2)},
         e.acknowledged => Whole(s2, e, Len(s2)) /\ t2 = t,
         ~e.acknowledged => Torn(s2, e, Len(s2)) /\ Len(s2) \in t2
  PROVE  StreamIs(s2, Append(W, e), t2)
<1> DEFINE n == Len(W)
           V == Append(W, e)
<1>1. s \in Seq(Tokens) /\ W \in Seq(EntryType) /\ n \in Nat /\ Len(s) \in Nat /\ Len(s2) \in Nat
  BY LenProperties DEF StreamIs
<1>2. /\ V \in Seq(EntryType) /\ Len(V) = n + 1
      /\ (\A i \in 1..n : V[i] = W[i]) /\ V[n + 1] = e
  BY <1>1, AppendProperties
<1> HIDE DEF V
<1>3. EndOf(s2, V, n + 1) = Len(s2)
  BY <1>2 DEF EndOf
<1>4. ASSUME NEW i \in 1..n PROVE EndOf(s2, V, i) = EndOf(s, W, i)
  <2>1. i # Len(V) /\ EndOf(s2, V, i) = V[i + 1].from
    BY <1>1, <1>2 DEF EndOf
  <2>2. CASE i = n
    BY <1>2, <2>1, <2>2 DEF EndOf
  <2>3. CASE i # n
    <3>1. i + 1 \in 1..n /\ V[i + 1] = W[i + 1]
      BY <1>1, <1>2, <2>3
    <3>2. QED
      BY <2>1, <2>3, <3>1 DEF EndOf
  <2>4. QED
    BY <2>2, <2>3
<1>5. Len(V) > 0 => V[1].from = 0
  <2>1. CASE n = 0
    BY <1>1, <1>2, <2>1 DEF StreamIs
  <2>2. CASE n # 0
    <3>1. 1 \in 1..n /\ n > 0
      BY <1>1, <2>2
    <3>2. QED
      BY <1>2, <3>1 DEF StreamIs
  <2>3. QED
    BY <2>1, <2>2
<1>6. ASSUME NEW i \in 1..Len(V) PROVE OnMedium(s2, V[i], EndOf(s2, V, i), t2)
  <2>1. CASE i = n + 1
    <3>1. V[i] = e /\ EndOf(s2, V, i) = Len(s2)
      BY <1>2, <1>3, <2>1
    <3>2. OnMedium(s2, e, Len(s2), t2)
      BY <1>1 DEF OnMedium
    <3>3. QED
      BY <3>1, <3>2
  <2>2. CASE i # n + 1
    <3>1. i \in 1..n
      BY <1>1, <1>2, <2>2
    <3>2. V[i] = W[i] /\ EndOf(s2, V, i) = EndOf(s, W, i)
      BY <1>2, <1>4, <3>1
    <3> DEFINE end == EndOf(s, W, i)
    <3>3. OnMedium(s, W[i], end, t) /\ W[i] \in EntryType
      BY <1>1, <3>1, ElementOfSeq DEF StreamIs
    <3>4. end \in Nat
      <4>1. CASE i = n
        BY <1>1, <4>1 DEF EndOf
      <4>2. CASE i # n
        <5>1. i + 1 \in 1..n
          BY <1>1, <3>1, <4>2
        <5>2. W[i + 1] \in EntryType
          BY <1>1, <5>1, ElementOfSeq
        <5>3. QED
          BY <4>2, <5>2 DEF EndOf, EntryType
      <4>3. QED
        BY <4>1, <4>2
    <3> HIDE DEF end
    <3>5. OnMedium(s2, W[i], end, t2)
      BY <1>1, <3>3, <3>4, MediumGrows
    <3>6. QED
      BY <3>2, <3>5 DEF end
  <2>3. QED
    BY <2>1, <2>2
<1>7. t2 \subseteq Nat \ {0}
  BY <1>1 DEF StreamIs
<1>8. ASSUME NEW x \in t2
      PROVE  \E i \in 1..Len(V) : EndOf(s2, V, i) = x /\ ~V[i].acknowledged
  <2>1. CASE x \in t
    <3>1. PICK i \in 1..n : EndOf(s, W, i) = x /\ ~W[i].acknowledged
      BY <2>1 DEF StreamIs
    <3>2. i \in 1..Len(V) /\ EndOf(s2, V, i) = x /\ ~V[i].acknowledged
      BY <1>1, <1>2, <1>4, <3>1
    <3>3. QED
      BY <3>2
  <2>2. CASE x \notin t
    <3>1. ~e.acknowledged /\ x = Len(s2)
      BY <1>8, <2>2
    <3>2. n + 1 \in 1..Len(V) /\ EndOf(s2, V, n + 1) = x /\ ~V[n + 1].acknowledged
      BY <1>1, <1>2, <1>3, <3>1
    <3>3. QED
      BY <3>2
  <2>3. QED
    BY <2>1, <2>2
<1>9. Len(V) # 0
  BY <1>1, <1>2
<1>10. StreamIs(s2, V, t2)
  BY <1>2, <1>5, <1>6, <1>7, <1>8, <1>9 DEF StreamIs
<1>11. QED
  BY <1>10 DEF V

StreamInv == StreamIs(stream, written, tears)

LEMMA WriteKeepsStream ==
  ASSUME StreamInv, NEW r \in Records, WriteChampionRecord(r)
  PROVE  StreamInv'
<1> DEFINE s == stream
           L == Line(r)
           s2 == stream \o Line(r)
           e == Entry(r, Len(stream), TRUE)
<1>1. s \in Seq(Tokens) /\ Len(s) \in Nat
  BY LenProperties DEF StreamInv, StreamIs
<1>2. e \in EntryType /\ e.from = Len(s) /\ e.record = r /\ e.acknowledged
  BY <1>1 DEF Entry, EntryType
<1>3. L \in Seq(Tokens) /\ Len(L) \in Nat /\ Len(L) >= 17
  BY <1>2, EntryLine
<1>4. /\ s2 \in Seq(Tokens) /\ Len(s2) = Len(s) + Len(L)
      /\ \A q \in 1..(Len(s) + Len(L)) : s2[q] = IF q <= Len(s) THEN s[q] ELSE L[q - Len(s)]
  <2> HIDE DEF L
  <2>1. QED
    BY <1>1, <1>3, ConcatProperties DEF L
<1> HIDE DEF e, L, s2
<1>5. (\A q \in 1..Len(s) : s2[q] = s[q]) /\ (\A q \in 1..Len(L) : s2[Len(s) + q] = L[q])
  <2> HIDE DEF s
  <2>1. \A q \in 1..Len(s) : s2[q] = s[q]
    <3> TAKE q \in 1..Len(s)
    <3>1. q \in 1..(Len(s) + Len(L)) /\ q <= Len(s)
      BY <1>1, <1>3
    <3>2. QED
      BY <1>4, <3>1
  <2>2. \A q \in 1..Len(L) : s2[Len(s) + q] = L[q]
    <3> TAKE q \in 1..Len(L)
    <3>1. Len(s) + q \in 1..(Len(s) + Len(L)) /\ ~(Len(s) + q <= Len(s)) /\ (Len(s) + q) - Len(s) = q
      BY <1>1, <1>3
    <3>2. QED
      BY <1>4, <3>1
  <2>3. QED
    BY <2>1, <2>2
<1>6. Whole(s2, e, Len(s2))
  BY <1>2, <1>4, <1>5 DEF Whole, L
<1>7. IsValid(e.record) /\ stream' = s2 /\ written' = Append(written, e) /\ tears' = tears
  BY <1>2 DEF WriteChampionRecord, s2, e
<1>8. StreamIs(s2, Append(written, e), tears)
  <2>1. StreamIs(s, written, tears) /\ Len(s2) > Len(s)
    BY <1>1, <1>3, <1>4 DEF StreamInv
  <2> HIDE DEF s
  <2>2. QED
    BY <1>2, <1>4, <1>5, <1>6, <1>7, <2>1, StreamGrows
<1>9. QED
  BY <1>7, <1>8 DEF StreamInv

LEMMA TornWriteKeepsStream ==
  ASSUME StreamInv, NEW r \in Records, TornWrite(r)
  PROVE  StreamInv'
<1> DEFINE s == stream
           L == Line(r)
           e == Entry(r, Len(stream), FALSE)
           s2 == stream'
<1>1. s \in Seq(Tokens) /\ Len(s) \in Nat
  BY LenProperties DEF StreamInv, StreamIs
<1>2. e \in EntryType /\ e.from = Len(s) /\ e.record = r /\ ~e.acknowledged
  BY <1>1 DEF Entry, EntryType
<1>3. L \in Seq(Tokens) /\ Len(L) \in Nat /\ Len(L) >= 17
  BY <1>2, EntryLine
<1>4. PICK cut \in Cuts :
        \/ stream' = stream \o SubSeq(L, 1, cut)
        \/ L[cut + 1][1] = "quoted" /\ stream' = stream \o SubSeq(L, 1, cut) \o <<Open(L[cut + 1][2])>>
  BY DEF TornWrite
<1> DEFINE P == SubSeq(L, 1, cut)
<1>5. cut \in 1..16
  BY <1>4, CutsAssumption
<1>6. P \in Seq(Tokens) /\ Len(P) = cut /\ \A q \in 1..cut : P[q] = L[q]
  <2>1. \A i \in 1..cut : L[i] \in Tokens
    <3> TAKE i \in 1..cut
    <3>1. i \in 1..Len(L)
      BY <1>3, <1>5
    <3> HIDE DEF L
    <3>2. QED
      BY <1>3, <3>1, ElementOfSeq
  <2> HIDE DEF L
  <2>2. /\ SubSeq(L, 1, cut) \in Seq(Tokens)
        /\ Len(SubSeq(L, 1, cut)) = IF 1 <= cut THEN cut - 1 + 1 ELSE 0
        /\ \A i \in 1..(cut - 1 + 1) : SubSeq(L, 1, cut)[i] = L[1 + i - 1]
    <3>1. 1 \in Int /\ cut \in Int
      BY <1>5
    <3>2. QED
      BY <2>1, <3>1, SubSeqProperties
  <2> HIDE DEF P
  <2>3. cut - 1 + 1 = cut /\ 1 <= cut /\ \A i \in 1..cut : 1 + i - 1 = i
    BY <1>5
  <2>4. QED
    BY <2>2, <2>3 DEF P
<1> DEFINE W == stream \o P
<1>7. /\ W \in Seq(Tokens) /\ Len(W) = Len(s) + cut
      /\ (\A q \in 1..Len(s) : W[q] = s[q]) /\ (\A q \in 1..cut : W[Len(s) + q] = L[q])
  <2> HIDE DEF P, s, L
  <2>1. /\ W \in Seq(Tokens) /\ Len(W) = Len(s) + Len(P)
        /\ \A q \in 1..(Len(s) + Len(P)) : W[q] = IF q <= Len(s) THEN s[q] ELSE P[q - Len(s)]
    BY <1>1, <1>6, ConcatProperties DEF s
  <2> HIDE DEF W
  <2>2. \A q \in 1..Len(s) : W[q] = s[q]
    <3> TAKE q \in 1..Len(s)
    <3>1. q \in 1..(Len(s) + Len(P)) /\ q <= Len(s)
      BY <1>1, <1>5, <1>6
    <3>2. QED
      BY <2>1, <3>1
  <2>3. \A q \in 1..cut : W[Len(s) + q] = L[q]
    <3> TAKE q \in 1..cut
    <3>1. /\ Len(s) + q \in 1..(Len(s) + Len(P)) /\ ~(Len(s) + q <= Len(s))
          /\ (Len(s) + q) - Len(s) = q
      BY <1>1, <1>5, <1>6
    <3>2. W[Len(s) + q] = P[q]
      BY <2>1, <3>1
    <3>3. QED
      BY <1>6, <3>2
  <2>4. QED
    BY <1>6, <2>1, <2>2, <2>3
<1>8. /\ s2 \in Seq(Tokens) /\ Len(s2) > Len(s) /\ (\A q \in 1..Len(s) : s2[q] = s[q])
      /\ Torn(s2, e, Len(s2))
  <2>1. CASE stream' = W
    <3>1. s2 = W
      BY <2>1
    <3> HIDE DEF W, s2, e, L, s
    <3>2. Torn(s2, e, Len(s2))
      BY <1>2, <1>5, <1>7, <3>1 DEF Torn, L
    <3>3. QED
      BY <1>1, <1>5, <1>7, <3>1, <3>2
  <2>2. CASE L[cut + 1][1] = "quoted" /\ stream' = W \o <<Open(L[cut + 1][2])>>
    <3> DEFINE o == Open(L[cut + 1][2])
               O == <<o>>
    <3>1. o \in Tokens
      <4>1. cut + 1 \in 1..Len(L)
        BY <1>3, <1>5
      <4>2. L[cut + 1] \in Tokens
        <5> HIDE DEF L
        <5>1. QED
          BY <1>3, <4>1, ElementOfSeq
      <4>3. L[cut + 1][2] \in Texts
        BY <2>2, <4>2, TokenKinds DEF Tokens
      <4>4. QED
        BY <4>3 DEF Tokens
    <3>2. o[1] = "open"
      BY TokenKinds
    <3> HIDE DEF o
    <3>3. O \in Seq(Tokens) /\ Len(O) = 1 /\ O[1] = o
      BY <3>1
    <3>4. s2 = W \o O
      BY <2>2 DEF o
    <3> HIDE DEF O, W, s2, L, s, e
    <3>5. /\ s2 \in Seq(Tokens) /\ Len(s2) = Len(W) + Len(O)
          /\ \A q \in 1..(Len(W) + Len(O)) : s2[q] = IF q <= Len(W) THEN W[q] ELSE O[q - Len(W)]
      BY <1>7, <3>3, <3>4, ConcatProperties
    <3>6. Len(s2) = Len(s) + cut + 1
      BY <1>1, <1>5, <1>7, <3>3, <3>5
    <3>7. \A q \in 1..(Len(s) + cut) : s2[q] = W[q]
      <4> TAKE q \in 1..(Len(s) + cut)
      <4>1. q \in 1..(Len(W) + Len(O)) /\ q <= Len(W)
        BY <1>1, <1>5, <1>7, <3>3
      <4>2. QED
        BY <3>5, <4>1
    <3>8. s2[Len(s2)] = o
      <4>1. Len(s2) \in 1..(Len(W) + Len(O)) /\ ~(Len(s2) <= Len(W)) /\ Len(s2) - Len(W) = 1
        BY <1>1, <1>5, <1>7, <3>3, <3>5
      <4>2. QED
        BY <3>3, <3>5, <4>1
    <3>9. (\A q \in 1..Len(s) : s2[q] = s[q]) /\ (\A q \in 1..cut : s2[Len(s) + q] = L[q])
      <4>1. /\ \A q \in 1..Len(s) : q \in 1..(Len(s) + cut)
            /\ \A q \in 1..cut : Len(s) + q \in 1..(Len(s) + cut)
        BY <1>1, <1>5
      <4>2. QED
        BY <1>7, <3>7, <4>1
    <3>10. Torn(s2, e, Len(s2))
      <4>1. /\ \A q \in 1..cut : s2[e.from + q] = Line(e.record)[q]
            /\ Len(s2) = e.from + cut + 1
            /\ Line(e.record)[cut + 1][1] = "quoted" /\ s2[Len(s2)][1] = "open"
        BY <1>2, <2>2, <3>2, <3>6, <3>8, <3>9 DEF L
      <4>2. QED
        BY <1>5, <4>1 DEF Torn
    <3>11. QED
      BY <1>1, <1>5, <3>5, <3>6, <3>9, <3>10
  <2>3. QED
    BY <1>4, <2>1, <2>2
<1>9. /\ IsValid(e.record) /\ written' = Append(written, e) /\ tears' = tears \union {Len(s2)}
  BY <1>2 DEF TornWrite
<1>10. StreamIs(s2, Append(written, e), tears')
  <2>1. StreamIs(s, written, tears)
    BY DEF StreamInv
  <2> DEFINE t == tears
             t2 == tears'
  <2>2. t \subseteq t2 /\ t2 \subseteq t \union {Len(s2)} /\ Len(s2) \in t2
    BY <1>9
  <2> HIDE DEF s, s2, e, t, t2
  <2>3. StreamIs(s2, Append(written, e), t2)
    BY <1>2, <1>8, <1>9, <2>1, <2>2, StreamGrows DEF t
  <2>4. QED
    BY <2>3 DEF t2
<1>11. QED
  BY <1>9, <1>10 DEF StreamInv

LEMMA StreamInvHolds ==
  /\ StoreInit => StreamInv
  /\ StreamInv /\ [StoreNext]_storeVars => StreamInv'
<1>1. ASSUME StoreInit PROVE StreamInv
  <2>1. stream = <<>> /\ written = <<>> /\ tears = {}
    BY <1>1 DEF StoreInit
  <2>2. stream \in Seq(Tokens) /\ written \in Seq(EntryType) /\ Len(stream) = 0 /\ Len(written) = 0
    <3>1. <<>> \in Seq(Tokens) /\ <<>> \in Seq(EntryType) /\ Len(<<>>) = 0
      BY EmptySeq
    <3>2. QED
      BY <2>1, <3>1, Zenon
  <2>3. QED
    BY <2>1, <2>2 DEF StreamInv, StreamIs
<1>2. ASSUME StreamInv, [StoreNext]_storeVars PROVE StreamInv'
  <2>1. CASE \E r \in Records : WriteChampionRecord(r) \/ TornWrite(r)
    BY <1>2, <2>1, WriteKeepsStream, TornWriteKeepsStream
  <2>2. ASSUME UNCHANGED <<stream, written, tears>> PROVE StreamInv'
    BY <1>2, <2>2 DEF StreamInv
  <2>3. CASE Restart \/ ReadChampionRecord \/ Resume \/ UNCHANGED storeVars
    <3>1. UNCHANGED <<stream, written, tears>>
      BY <2>3 DEF Restart, ReadChampionRecord, Resume, storeVars
    <3>2. QED
      BY <2>2, <3>1
  <2>4. QED
    BY <1>2, <2>1, <2>3 DEF StoreNext
<1>3. QED
  BY <1>1, <1>2

-----------------------------------------------------------------------------
(* Where a line begins on the medium                                       *)

LEMMA LineEndIs ==
  ASSUME stream \in Seq(Tokens), NEW p \in 0..(Len(stream) - 1)
  PROVE  /\ Len(stream) \in Nat /\ p \in Nat /\ p < Len(stream)
         /\ LineEnd(p) \in (p + 1)..(Len(stream) + 1)
         /\ \A q \in (p + 1)..(LineEnd(p) - 1) : stream[q] # Newline
         /\ LineEnd(p) <= Len(stream) => stream[LineEnd(p)] = Newline
         /\ LineAt(p) \in Seq(Tokens) /\ Len(LineAt(p)) = LineEnd(p) - 1 - p
         /\ \A q \in 1..(LineEnd(p) - 1 - p) : LineAt(p)[q] = stream[p + q]
<1> DEFINE n == Len(stream)
           S == {i \in p + 1 .. n : stream[i] = Newline} \union {n + 1}
<1>1. n \in Nat /\ p \in Nat /\ p < n
  BY LenProperties
<1>2. LineEnd(p) \in S /\ \A i \in S : LineEnd(p) <= i
  <2>1. S \subseteq Nat /\ S # {}
    BY <1>1
  <2>2. LineEnd(p) = CHOOSE x \in S : \A y \in S : x <= y
    BY DEF LineEnd, Min
  <2> HIDE DEF S
  <2>3. \E x \in S : \A y \in S : x <= y
    BY <2>1, LeastNatural
  <2>4. QED
    BY <2>2, <2>3
<1> DEFINE e == LineEnd(p)
<1> HIDE DEF e
<1>3. e \in (p + 1)..(n + 1) /\ (e <= n => stream[e] = Newline)
  BY <1>1, <1>2 DEF e
<1>4. \A q \in (p + 1)..(e - 1) : stream[q] # Newline
  <2> TAKE q \in (p + 1)..(e - 1)
  <2>1. q \in p + 1 .. n /\ q < e
    BY <1>1, <1>3
  <2>2. q \notin S
    BY <1>1, <1>2, <1>3, <2>1 DEF e
  <2>3. QED
    BY <2>1, <2>2
<1>5. /\ LineAt(p) \in Seq(Tokens) /\ Len(LineAt(p)) = e - 1 - p
      /\ \A q \in 1..(e - 1 - p) : LineAt(p)[q] = stream[p + q]
  <2> DEFINE a == p + 1
             b == e - 1
  <2>1. a \in Int /\ b \in Int /\ a = p + 1 /\ b = e - 1
    BY <1>1, <1>3
  <2>2. \A i \in a..b : stream[i] \in Tokens
    <3> TAKE i \in a..b
    <3>1. i \in 1..n
      BY <1>1, <1>3
    <3>2. QED
      BY <3>1, ElementOfSeq
  <2>3. LineAt(p) = SubSeq(stream, a, b)
    BY DEF LineAt, e
  <2> HIDE DEF a, b
  <2>4. /\ SubSeq(stream, a, b) \in Seq(Tokens)
        /\ Len(SubSeq(stream, a, b)) = IF a <= b THEN b - a + 1 ELSE 0
        /\ \A i \in 1..(b - a + 1) : SubSeq(stream, a, b)[i] = stream[a + i - 1]
    BY <2>1, <2>2, SubSeqProperties
  <2>5. b - a + 1 = e - 1 - p /\ (~(a <= b) => e - 1 - p = 0)
    BY <1>1, <1>3, <2>1
  <2>6. \A i \in 1..(e - 1 - p) : a + i - 1 = p + i
    BY <1>1, <1>3, <2>1
  <2>7. Len(LineAt(p)) = e - 1 - p
    BY <2>3, <2>4, <2>5
  <2>8. \A i \in 1..(e - 1 - p) : LineAt(p)[i] = stream[p + i]
    BY <2>3, <2>4, <2>5, <2>6
  <2>9. QED
    BY <2>3, <2>4, <2>7, <2>8
<1>6. QED
  BY <1>1, <1>3, <1>4, <1>5 DEF e

\* A line break behind tokens that are none ends the line.
LEMMA LineEndAt ==
  ASSUME stream \in Seq(Tokens), NEW p \in 0..(Len(stream) - 1), NEW k \in Nat,
         p + k <= Len(stream), \A q \in 1..k : stream[p + q] # Newline
  PROVE  /\ LineEnd(p) > p + k
         /\ p + k < Len(stream) /\ stream[p + k + 1] = Newline => LineEnd(p) = p + k + 1
         /\ p + k = Len(stream) => LineEnd(p) = p + k + 1
<1> DEFINE e == LineEnd(p)
           n == Len(stream)
<1>1. /\ n \in Nat /\ p \in Nat /\ p < n /\ e \in (p + 1)..(n + 1)
      /\ \A q \in (p + 1)..(e - 1) : stream[q] # Newline
      /\ e <= n => stream[e] = Newline
  BY LineEndIs
<1> HIDE DEF e, n
<1>2. e > p + k
  <2>1. SUFFICES ASSUME e <= p + k PROVE FALSE
    BY <1>1
  <2>2. e - p \in 1..k /\ p + (e - p) = e /\ e <= n
    BY <1>1, <2>1 DEF n
  <2>3. QED
    BY <1>1, <2>2
<1>3. ASSUME p + k < n, stream[p + k + 1] = Newline PROVE e = p + k + 1
  <2>1. SUFFICES ASSUME e > p + k + 1 PROVE FALSE
    BY <1>1, <1>2
  <2>2. p + k + 1 \in (p + 1)..(e - 1)
    BY <1>1, <2>1
  <2>3. QED
    BY <1>1, <1>3, <2>2
<1>4. p + k = n => e = p + k + 1
  BY <1>1, <1>2
<1>5. QED
  BY <1>2, <1>3, <1>4 DEF e, n

LEMMA EntryOnMedium ==
  ASSUME StreamInv, NEW i \in 1..Len(written)
  PROVE  LET end == EndOf(stream, written, i) IN
         /\ Len(written) \in Nat /\ Len(stream) \in Nat
         /\ written[i] \in EntryType /\ written[i].from \in Nat
         /\ end \in Nat /\ OnMedium(stream, written[i], end, tears)
         /\ i = Len(written) => end = Len(stream)
         /\ i < Len(written) => written[i + 1].from = end
<1> DEFINE n == Len(written)
           end == EndOf(stream, written, i)
<1>1. /\ stream \in Seq(Tokens) /\ written \in Seq(EntryType)
      /\ n \in Nat /\ Len(stream) \in Nat
      /\ OnMedium(stream, written[i], end, tears)
  BY LenProperties DEF StreamInv, StreamIs
<1>2. \A j \in 1..n : written[j] \in EntryType /\ written[j].from \in Nat
  <2> TAKE j \in 1..n
  <2>1. written[j] \in EntryType
    BY <1>1, ElementOfSeq
  <2>2. QED
    BY <2>1 DEF EntryType
<1>3. i = n => end = Len(stream)
  BY DEF EndOf
<1>4. i < n => written[i + 1].from = end /\ i + 1 \in 1..n
  BY <1>1 DEF EndOf
<1>5. end \in Nat
  <2> HIDE DEF end
  <2>1. i = n \/ i < n
    BY <1>1
  <2>2. QED
    BY <1>1, <1>2, <1>3, <1>4, <2>1
<1>6. QED
  BY <1>1, <1>2, <1>3, <1>4, <1>5

\* Every place on the medium is covered by a write.
LEMMA PlaceOnMedium ==
  ASSUME StreamInv, NEW p \in 0..(Len(stream) - 1)
  PROVE  \E i \in 1..Len(written) :
           written[i].from <= p /\ p < EndOf(stream, written, i)
<1> DEFINE n == Len(written)
           S == {i \in 1..n : p < EndOf(stream, written, i)}
<1>1. n \in Nat /\ Len(stream) \in Nat /\ n > 0 /\ p \in Nat /\ p < Len(stream)
  <2>1. n \in Nat /\ Len(stream) \in Nat /\ (n = 0 => Len(stream) = 0)
    BY LenProperties DEF StreamInv, StreamIs
  <2>2. QED
    BY <2>1
<1>2. n \in S
  <2>1. n \in 1..n /\ EndOf(stream, written, n) = Len(stream)
    BY <1>1 DEF EndOf
  <2>2. QED
    BY <1>1, <2>1
<1>3. PICK i \in S : \A j \in S : i <= j
  <2>1. S \subseteq Nat /\ S # {}
    BY <1>2
  <2> HIDE DEF S
  <2>2. QED
    BY <2>1, LeastNatural
<1>4. written[i].from <= p
  <2>1. CASE i = 1
    <3>1. written[1].from = 0
      BY <1>1 DEF StreamInv, StreamIs
    <3>2. QED
      BY <1>1, <2>1, <3>1
  <2>2. CASE i # 1
    <3> DEFINE j == i - 1
    <3>1. j \in 1..n /\ j < n /\ j + 1 = i /\ j < i
      BY <1>1, <2>2
    <3>2. j \notin S
      BY <1>1, <1>3, <3>1
    <3> HIDE DEF j
    <3>3. EndOf(stream, written, j) = written[j + 1].from /\ EndOf(stream, written, j) \in Nat
      BY <3>1, EntryOnMedium
    <3>4. ~(p < EndOf(stream, written, j))
      BY <3>1, <3>2
    <3>5. QED
      BY <1>1, <3>1, <3>3, <3>4
  <2>3. QED
    BY <2>1, <2>2
<1>5. QED
  BY <1>3, <1>4

\* A line that begins inside what one write put on the medium begins with the
\* rest of a string.
LEMMA InsideIsRefused ==
  ASSUME StreamInv, NEW i \in 1..Len(written), NEW p \in Nat,
         written[i].from < p, p < EndOf(stream, written, i), stream[p] = Newline
  PROVE  ~Accepts(LineAt(p))
<1> DEFINE w == written[i]
           L == Line(w.record)
           end == EndOf(stream, written, i)
           q == p - w.from
<1>1. /\ w \in EntryType /\ w.from \in Nat /\ end \in Nat /\ Len(stream) \in Nat
      /\ OnMedium(stream, w, end, tears)
  BY EntryOnMedium
<1>2. /\ w.record \in RecordType /\ LineIs(w.record, L) /\ Len(L) \in Nat /\ Len(L) >= 17
  BY <1>1, EntryLine
<1>3. \A k \in 1..(Len(L) - 1) : L[k] = Newline => L[k + 1][1] = "plain"
  <2> HIDE DEF L, w
  <2>1. QED
    BY <1>2, LineTokens
<1> HIDE DEF L, w, end
<1>4. q \in Nat /\ q >= 1 /\ w.from + q = p /\ w.from + (q + 1) = p + 1 /\ p + 1 <= end
  BY <1>1 DEF w, end
<1> HIDE DEF q
<1>5. end <= Len(stream) /\ w.from < end
  BY <1>1 DEF OnMedium
<1>6. stream[p + 1][1] = "plain"
  <2>1. CASE w.acknowledged
    <3>1. end = w.from + Len(L) /\ \A k \in 1..Len(L) : stream[w.from + k] = L[k]
      BY <1>1, <2>1 DEF OnMedium, Whole, L
    <3>2. q \in 1..(Len(L) - 1) /\ q \in 1..Len(L) /\ q + 1 \in 1..Len(L)
      <4>1. /\ q \in Nat /\ q >= 1 /\ w.from + q = p /\ p + 1 <= w.from + Len(L)
            /\ w.from \in Nat /\ Len(L) \in Nat
        BY <1>1, <1>2, <1>4, <3>1
      <4>2. q + 1 <= Len(L)
        BY <4>1
      <4>3. QED
        BY <4>1, <4>2
    <3>3. L[q] = Newline
      BY <1>4, <3>1, <3>2
    <3>4. QED
      BY <1>3, <1>4, <3>1, <3>2, <3>3
  <2>2. CASE ~w.acknowledged
    <3>1. PICK cut \in 1..16 :
            /\ \A k \in 1..cut : stream[w.from + k] = L[k]
            /\ \/ end = w.from + cut
               \/ end = w.from + cut + 1 /\ L[cut + 1][1] = "quoted"
      BY <1>1, <2>2 DEF OnMedium, Torn, L
    <3>2. q \in 1..cut
      <4>1. end = w.from + cut \/ end = w.from + cut + 1
        BY <3>1
      <4>2. /\ q \in Nat /\ q >= 1 /\ w.from + q = p /\ p + 1 <= end
            /\ w.from \in Nat /\ end \in Nat
        BY <1>1, <1>4
      <4>3. end <= w.from + cut + 1 /\ w.from + q + 1 <= end
        <5>1. end <= w.from + cut + 1
          BY <4>1, <4>2
        <5>2. w.from + q + 1 <= end
          BY <4>2
        <5>3. QED
          BY <5>1, <5>2
      <4>4. q <= cut
        BY <4>2, <4>3, SMTT(30)
      <4>5. QED
        BY <4>2, <4>4
    <3>3. L[q] = Newline
      BY <1>4, <3>1, <3>2
    <3>4. L[q + 1][1] = "plain"
      <4>1. q \in 1..(Len(L) - 1)
        BY <1>2, <3>2
      <4>2. QED
        BY <1>3, <3>3, <4>1
    <3>5. q + 1 \in 1..cut
      <4>1. CASE q < cut
        BY <3>2, <4>1
      <4>2. CASE q = cut
        <5>1. end = w.from + cut + 1 /\ L[cut + 1][1] = "quoted"
          BY <1>1, <1>4, <3>1, <4>2
        <5>2. QED
          BY <3>4, <4>2, <5>1
      <4>3. QED
        BY <3>2, <4>1, <4>2
    <3>6. QED
      BY <1>4, <3>1, <3>4, <3>5
  <2>3. QED
    BY <2>1, <2>2
<1>7. stream \in Seq(Tokens)
  BY DEF StreamInv, StreamIs
<1>8. p \in 0..(Len(stream) - 1)
  BY <1>1, <1>4, <1>5
<1>9. stream[p + 1] # Newline
  BY <1>6, TokenKinds
<1>10. LineEnd(p) > p + 1
  <2> DEFINE k == 1
  <2>1. k \in Nat /\ p + k <= Len(stream) /\ \A m \in 1..k : stream[p + m] # Newline
    BY <1>4, <1>5, <1>1, <1>9
  <2> HIDE DEF k
  <2>2. LineEnd(p) > p + k
    BY <1>7, <1>8, <2>1, LineEndAt
  <2>3. QED
    BY <2>2 DEF k
<1>11. /\ LineAt(p) \in Seq(Tokens) /\ Len(LineAt(p)) >= 1 /\ LineAt(p)[1] = stream[p + 1]
  <2>1. /\ LineEnd(p) \in (p + 1)..(Len(stream) + 1)
        /\ LineAt(p) \in Seq(Tokens) /\ Len(LineAt(p)) = LineEnd(p) - 1 - p
        /\ \A m \in 1..(LineEnd(p) - 1 - p) : LineAt(p)[m] = stream[p + m]
    BY <1>7, <1>8, LineEndIs
  <2>2. LineEnd(p) - 1 - p >= 1 /\ 1 \in 1..(LineEnd(p) - 1 - p)
    BY <1>1, <1>10, <2>1
  <2>3. QED
    BY <2>1, <2>2
<1>12. QED
  BY <1>6, <1>11, RestIsRefused

\* Where tokens of the medium are those of a record's line, up to where the
\* line breaks, they are refused if a string broke it, and otherwise read.
LEMMA StartOfLine ==
  ASSUME stream \in Seq(Tokens), NEW p \in 0..(Len(stream) - 1),
         NEW r \in RecordType, NEW L, LineIs(r, L), NEW b, BreaksAt(r, L, b)
  PROVE  /\ b < 17 /\ p + b + 1 <= Len(stream)
            /\ (\A q \in 1..(b + 1) : stream[p + q] = L[q]) => ~Accepts(LineAt(p))
         /\ b = 17 /\ p + 16 <= Len(stream) /\ (\A q \in 1..16 : stream[p + q] = L[q])
            /\ (p + 16 = Len(stream) \/ stream[p + 17] = Newline) =>
              /\ Parsed(Words(LineAt(p)).words) = r
              /\ IsValid(r) => Accepts(LineAt(p))
<1>1. /\ b \in 11..17 /\ \A q \in 1..(b - 1) : L[q][1] # "open" /\ L[q] # Newline
      /\ b = 17 => Quotes(r, L, 10, 6)
      /\ b < 17 => L[b][1] = "open" /\ L[b + 1] = Newline
  BY DEF BreaksAt
<1>2. /\ LineEnd(p) \in (p + 1)..(Len(stream) + 1)
      /\ LineAt(p) \in Seq(Tokens) /\ Len(LineAt(p)) = LineEnd(p) - 1 - p
      /\ \A m \in 1..(LineEnd(p) - 1 - p) : LineAt(p)[m] = stream[p + m]
      /\ Len(stream) \in Nat /\ p \in Nat
  BY LineEndIs
<1>3. ASSUME b < 17, p + b + 1 <= Len(stream), \A q \in 1..(b + 1) : stream[p + q] = L[q]
      PROVE  ~Accepts(LineAt(p))
  <2>1. \A q \in 1..b : stream[p + q] # Newline
    <3> TAKE q \in 1..b
    <3>1. q \in 1..(b + 1) /\ (q = b \/ q \in 1..(b - 1))
      BY <1>1
    <3>2. L[q] # Newline
      BY <1>1, <1>3, <3>1, TokenKinds
    <3>3. QED
      BY <1>3, <3>1, <3>2
  <2>2. stream[p + b + 1] = Newline
    <3>1. b + 1 \in 1..(b + 1) /\ p + (b + 1) = p + b + 1
      <4>1. b \in 11..17 /\ p \in Nat
        BY <1>1
      <4>2. QED
        BY <4>1
    <3>2. stream[p + (b + 1)] = L[b + 1]
      BY <1>3, <3>1
    <3>3. QED
      BY <1>1, <1>3, <3>1, <3>2
  <2>3. LineEnd(p) = p + b + 1
    <3>1. b \in Nat /\ p + b <= Len(stream) /\ p + b < Len(stream)
      BY <1>1, <1>2, <1>3
    <3>2. QED
      BY <2>1, <2>2, <3>1, LineEndAt
  <2>4. Len(LineAt(p)) = b /\ \A m \in 1..b : LineAt(p)[m] = L[m]
    <3>1. LineEnd(p) - 1 - p = b /\ \A m \in 1..b : m \in 1..(b + 1)
      BY <1>1, <1>2, <2>3
    <3>2. QED
      BY <1>2, <1>3, <3>1
  <2>5. /\ Len(LineAt(p)) >= 1 /\ LineAt(p)[Len(LineAt(p))][1] = "open"
        /\ \A q \in 1..(Len(LineAt(p)) - 1) : LineAt(p)[q][1] # "open"
    <3>1. b \in 1..b /\ \A q \in 1..(b - 1) : q \in 1..b
      BY <1>1
    <3>2. QED
      BY <1>1, <1>3, <2>4, <3>1
  <2>6. QED
    BY <1>2, <2>5, OpenEndIsRefused
<1>4. ASSUME b = 17, p + 16 <= Len(stream), \A q \in 1..16 : stream[p + q] = L[q],
             p + 16 = Len(stream) \/ stream[p + 17] = Newline
      PROVE  /\ Parsed(Words(LineAt(p)).words) = r
             /\ IsValid(r) => Accepts(LineAt(p))
  <2> DEFINE k == 16
  <2>1. \A q \in 1..k : stream[p + q] # Newline
    <3> TAKE q \in 1..k
    <3>1. q \in 1..16 /\ q \in 1..(b - 1)
      BY <1>4
    <3>2. QED
      BY <1>1, <1>4, <3>1
  <2>2. LineEnd(p) = p + 17
    <3>1. k \in Nat /\ p + k <= Len(stream) /\ p + k + 1 = p + 17 /\ (p + k = Len(stream) \/ p + k < Len(stream))
      BY <1>2, <1>4
    <3>2. p + k = Len(stream) \/ stream[p + k + 1] = Newline
      BY <1>4, <3>1
    <3> HIDE DEF k
    <3>3. LineEnd(p) = p + k + 1
      BY <2>1, <3>1, <3>2, LineEndAt
    <3>4. QED
      BY <3>1, <3>3
  <2>3. Len(LineAt(p)) = 16 /\ \A m \in 1..16 : LineAt(p)[m] = L[m]
    <3>1. LineEnd(p) - 1 - p = 16
      BY <1>2, <2>2
    <3>2. QED
      BY <1>2, <1>4, <3>1
  <2>4. Quotes(r, L, 10, 6)
    BY <1>1, <1>4
  <2>5. QED
    BY <1>2, <2>3, <2>4, RecordIsReadBack
<1>5. QED
  BY <1>3, <1>4

\* What a torn write leaves at the end of a line: tokens none of which opens
\* a string or breaks the line, and possibly an open string.
Fragment(w, end, c) ==
  /\ c \in 1..16
  /\ \A q \in 1..c : /\ stream[w.from + q] = Line(w.record)[q]
                     /\ stream[w.from + q][1] # "open" /\ stream[w.from + q] # Newline
  /\ \/ end = w.from + c
     \/ end = w.from + c + 1 /\ c >= 10 /\ stream[end][1] = "open"

LEMMA TornLeavesAFragment ==
  ASSUME StreamInv, NEW i \in 1..Len(written), ~written[i].acknowledged,
         Accepts(LineAt(written[i].from))
  PROVE  \E c : Fragment(written[i], EndOf(stream, written, i), c)
<1> DEFINE w == written[i]
           r == w.record
           L == Line(r)
           end == EndOf(stream, written, i)
           p == w.from
<1>1. /\ w \in EntryType /\ p \in Nat /\ end \in Nat /\ Len(stream) \in Nat
      /\ OnMedium(stream, w, end, tears) /\ stream \in Seq(Tokens)
  BY EntryOnMedium DEF StreamInv, StreamIs
<1>2. r \in RecordType /\ LineIs(r, L) /\ Len(L) \in Nat
  BY <1>1, EntryLine
<1>3. PICK b : BreaksAt(r, L, b)
  <2> HIDE DEF L, r
  <2>1. QED
    BY <1>2, LineBreaks
<1>4. \A q \in 1..10 : ~HasQuote(L[q])
  <2> HIDE DEF L, r
  <2>1. QED
    BY <1>2, LineTokens
<1>5. Accepts(LineAt(p)) /\ ~w.acknowledged
  OBVIOUS
<1>6. PICK cut \in 1..16 :
        /\ \A q \in 1..cut : stream[p + q] = L[q]
        /\ \/ end = p + cut
           \/ end = p + cut + 1 /\ L[cut + 1][1] = "quoted" /\ stream[end][1] = "open"
  BY <1>1, <1>5 DEF OnMedium, Torn
<1>7. end <= Len(stream) /\ p < end
  BY <1>1 DEF OnMedium
<1> HIDE DEF L, r, end, p
<1>8. /\ b \in 11..17 /\ \A q \in 1..(b - 1) : L[q][1] # "open" /\ L[q] # Newline
      /\ b < 17 => L[b][1] = "open" /\ L[b + 1] = Newline
  BY <1>3 DEF BreaksAt
<1>9. cut <= b
  <2>1. SUFFICES ASSUME cut > b PROVE FALSE
    BY <1>8
  <2>2. b < 17 /\ p + b + 1 <= Len(stream) /\ \A q \in 1..(b + 1) : stream[p + q] = L[q]
    <3>1. end >= p + cut
      BY <1>1, <1>6
    <3>2. b < 17 /\ p + b + 1 <= Len(stream)
      BY <1>1, <1>7, <1>8, <2>1, <3>1
    <3>3. \A q \in 1..(b + 1) : q \in 1..cut
      BY <1>8, <2>1
    <3>4. QED
      BY <1>6, <3>2, <3>3
  <2>3. p \in 0..(Len(stream) - 1)
    BY <1>1, <1>7
  <2>4. ~Accepts(LineAt(p))
    BY <1>1, <1>2, <1>3, <2>2, <2>3, StartOfLine
  <2>5. QED
    BY <1>5, <2>4
<1>10. CASE cut < b
  <2>1. \A q \in 1..cut : stream[p + q] = L[q] /\ L[q][1] # "open" /\ L[q] # Newline
    <3>1. \A q \in 1..cut : q \in 1..(b - 1)
      BY <1>8, <1>10
    <3>2. QED
      BY <1>6, <1>8, <3>1
  <2>2. \/ end = p + cut
        \/ end = p + cut + 1 /\ cut >= 10 /\ stream[end][1] = "open"
    <3>1. CASE end = p + cut
      BY <3>1
    <3>2. CASE end = p + cut + 1 /\ L[cut + 1][1] = "quoted" /\ stream[end][1] = "open"
      <4>1. HasQuote(L[cut + 1])
        BY <3>2 DEF HasQuote
      <4>2. ~(cut + 1 \in 1..10)
        BY <1>4, <4>1
      <4>3. QED
        BY <3>2, <4>2
    <3>3. QED
      BY <1>6, <3>1, <3>2
  <2>3. Fragment(w, end, cut)
    BY <2>1, <2>2 DEF Fragment, p, L, r
  <2>4. QED
    BY <2>3 DEF end
<1>11. CASE cut = b
  <2> DEFINE c == b - 1
  <2>1. b < 17 /\ c \in 1..16 /\ c >= 10 /\ c + 1 = b
    BY <1>8, <1>11
  <2>2. \A q \in 1..c : stream[p + q] = L[q] /\ L[q][1] # "open" /\ L[q] # Newline
    <3>1. \A q \in 1..c : q \in 1..cut
      BY <1>8, <1>11
    <3>2. QED
      BY <1>6, <1>8, <3>1
  <2>3. end = p + cut
    <3>1. L[cut + 1] = Newline
      BY <1>8, <1>11, <2>1
    <3>2. L[cut + 1][1] # "quoted"
      BY <3>1, TokenKinds
    <3>3. QED
      BY <1>6, <3>2
  <2>4. end = p + c + 1 /\ stream[end][1] = "open"
    <3>1. cut \in 1..cut
      OBVIOUS
    <3>2. stream[p + cut] = L[b]
      BY <1>6, <1>11, <3>1
    <3>3. p + c + 1 = p + cut
      BY <1>1, <1>8, <1>11
    <3>4. QED
      BY <1>8, <2>1, <2>3, <3>2, <3>3
  <2> HIDE DEF c
  <2>5. Fragment(w, end, c)
    BY <2>1, <2>2, <2>4 DEF Fragment, p, L, r
  <2>6. QED
    BY <2>5 DEF end
<1>12. QED
  BY <1>8, <1>9, <1>10, <1>11

Known(g) == WasWritten(g) \/ Cardinality(Tears(g)) >= 2 \/ BreakBehindTear(g)

LEMMA TwoTears ==
  ASSUME NEW g, g.from \in Nat, g.to \in Nat,
         NEW x \in Tears(g), NEW y \in Tears(g), x # y
  PROVE  Cardinality(Tears(g)) >= 2
<1>1. IsFiniteSet(Tears(g))
  <2>1. g.from + 1 \in Int /\ g.to - 1 \in Int
    OBVIOUS
  <2>2. IsFiniteSet((g.from + 1)..(g.to - 1))
    BY <2>1, FS_Interval
  <2>3. Tears(g) \subseteq (g.from + 1)..(g.to - 1)
    BY DEF Tears
  <2>4. QED
    BY <2>2, <2>3, FS_Subset
<1>2. IsFiniteSet({x, y}) /\ Cardinality({x, y}) = 2
  <2>1. IsFiniteSet({x}) /\ Cardinality({x}) = 1
    BY FS_Singleton
  <2>2. IsFiniteSet({x} \union {y}) /\ Cardinality({x} \union {y}) = Cardinality({x}) + 1
    BY <2>1, FS_AddElement
  <2>3. {x, y} = {x} \union {y}
    OBVIOUS
  <2>4. QED
    BY <2>1, <2>2, <2>3
<1>3. {x, y} \subseteq Tears(g)
  OBVIOUS
<1>4. Cardinality({x, y}) <= Cardinality(Tears(g)) /\ Cardinality(Tears(g)) \in Nat
  BY <1>1, <1>3, FS_Subset, FS_CardinalityType
<1>5. QED
  BY <1>2, <1>4

\* The line of a fragment and what is behind it reaches past the tear.
LEMMA FragmentLine ==
  ASSUME StreamInv, NEW i \in 1..Len(written), NEW c,
         Fragment(written[i], EndOf(stream, written, i), c)
  PROVE  LET w == written[i] end == EndOf(stream, written, i) IN
         /\ w.from \in 0..(Len(stream) - 1) /\ end \in Nat /\ Len(stream) \in Nat
         /\ c \in 1..16 /\ w.from < end /\ end <= Len(stream)
         /\ \A q \in (w.from + 1)..end : stream[q] # Newline
         /\ LineEnd(w.from) > end
<1> DEFINE w == written[i]
           end == EndOf(stream, written, i)
           p == w.from
<1>1. /\ p \in Nat /\ end \in Nat /\ Len(stream) \in Nat
      /\ OnMedium(stream, w, end, tears) /\ stream \in Seq(Tokens)
  BY EntryOnMedium DEF StreamInv, StreamIs
<1>2. end <= Len(stream) /\ p < end
  BY <1>1 DEF OnMedium
<1>3. /\ c \in 1..16
      /\ \A q \in 1..c : stream[p + q] # Newline
      /\ \/ end = p + c
         \/ end = p + c + 1 /\ stream[end][1] = "open"
  BY DEF Fragment
<1> HIDE DEF w, end, p
<1>4. \A q \in (p + 1)..end : stream[q] # Newline
  <2> TAKE q \in (p + 1)..end
  <2>1. CASE q <= p + c
    <3>1. q - p \in 1..c /\ p + (q - p) = q
      BY <1>1, <1>3, <2>1
    <3>2. QED
      BY <1>3, <3>1
  <2>2. CASE ~(q <= p + c)
    <3>1. q = end /\ stream[end][1] = "open"
      BY <1>1, <1>3, <2>2
    <3>2. QED
      BY <3>1, TokenKinds
  <2>3. QED
    BY <2>1, <2>2
<1>5. p \in 0..(Len(stream) - 1)
  BY <1>1, <1>2
<1>6. LineEnd(p) > end
  <2> DEFINE k == end - p
  <2>1. k \in Nat /\ p + k = end /\ \A q \in 1..k : stream[p + q] # Newline
    <3>1. \A q \in 1..k : p + q \in (p + 1)..end
      BY <1>1, <1>2
    <3>2. QED
      BY <1>1, <1>2, <1>4, <3>1
  <2> HIDE DEF k
  <2>2. LineEnd(p) > p + k
    BY <1>1, <1>2, <1>5, <2>1, LineEndAt
  <2>3. QED
    BY <2>1, <2>2
<1>7. QED
  BY <1>1, <1>2, <1>3, <1>4, <1>5, <1>6 DEF w, end, p

\* A torn write with nothing behind it reads as the record it was to write.
LEMMA AloneMakesNoRecord ==
  ASSUME StreamInv, NEW i \in 1..Len(written), i = Len(written), NEW c,
         Fragment(written[i], EndOf(stream, written, i), c),
         Accepts(LineAt(written[i].from))
  PROVE  Parsed(Words(LineAt(written[i].from)).words) = written[i].record
<1> DEFINE w == written[i]
           r == w.record
           L == Line(r)
           end == EndOf(stream, written, i)
           p == w.from
           line == LineAt(p)
           n == Len(stream)
<1>1. w \in EntryType /\ p \in Nat /\ end = n /\ stream \in Seq(Tokens)
  BY EntryOnMedium DEF StreamInv, StreamIs
<1>2. r \in RecordType /\ LineIs(r, L)
  BY <1>1, EntryLine
<1>3. PICK b : BreaksAt(r, L, b)
  <2> HIDE DEF L, r
  <2>1. QED
    BY <1>2, LineBreaks
<1>4. /\ c \in 1..16
      /\ \A q \in 1..c : stream[p + q] = L[q] /\ stream[p + q][1] # "open"
      /\ \/ end = p + c
         \/ end = p + c + 1 /\ stream[end][1] = "open"
  BY DEF Fragment
<1>5. p \in 0..(n - 1) /\ n \in Nat /\ LineEnd(p) > end
  BY <1>1, FragmentLine
<1>6. Accepts(line)
  OBVIOUS
<1>7. /\ LineEnd(p) \in (p + 1)..(n + 1)
      /\ line \in Seq(Tokens) /\ Len(line) = LineEnd(p) - 1 - p
      /\ \A q \in 1..(LineEnd(p) - 1 - p) : line[q] = stream[p + q]
  BY <1>1, <1>5, LineEndIs
<1> HIDE DEF w, r, L, end, p, line, n
<1>8. LineEnd(p) = n + 1 /\ Len(line) = n - p /\ \A q \in 1..(n - p) : line[q] = stream[p + q]
  <2> DEFINE e == LineEnd(p)
  <2>a. p \in Nat /\ n \in Nat /\ e > n /\ e \in (p + 1)..(n + 1)
    BY <1>1, <1>5, <1>7
  <2> HIDE DEF e
  <2>b. e = n + 1 /\ e - 1 - p = n - p
    BY <2>a
  <2>1. LineEnd(p) = n + 1
    BY <2>b DEF e
  <2>2. LineEnd(p) - 1 - p = n - p
    BY <2>b DEF e
  <2>3. QED
    BY <1>7, <2>1, <2>2
<1>9. CASE end = p + c
  <2>1. n - p = c
    BY <1>1, <1>4, <1>9
  <2>2. \A q \in 1..Len(line) : line[q][1] # "open"
    BY <1>4, <1>8, <2>1
  <2>3. c = 16
    BY <1>6, <1>7, <1>8, <2>1, <2>2, SixteenTokens
  <2>4. b = 17
    <3>1. SUFFICES ASSUME b < 17 PROVE FALSE
      BY <1>3 DEF BreaksAt
    <3>2. b \in 1..16 /\ L[b][1] = "open"
      BY <1>3, <3>1 DEF BreaksAt
    <3>3. QED
      BY <1>4, <2>3, <3>2
  <2>5. p + 16 = n /\ p + 16 <= n /\ \A q \in 1..16 : stream[p + q] = L[q]
    BY <1>1, <1>4, <1>9, <2>3
  <2>6. Parsed(Words(LineAt(p)).words) = r
    BY <1>1, <1>2, <1>3, <1>5, <2>4, <2>5, StartOfLine DEF n
  <2>7. QED
    BY <2>6 DEF p, r, w
<1>10. CASE end = p + c + 1 /\ stream[end][1] = "open"
  <2>1. n - p = c + 1 /\ p + (c + 1) = end
    BY <1>1, <1>4, <1>10
  <2>2. Len(line) = c + 1 /\ line[c + 1][1] = "open" /\ \A q \in 1..c : line[q] = stream[p + q]
    <3>1. c + 1 \in 1..(c + 1) /\ \A q \in 1..c : q \in 1..(c + 1)
      BY <1>4
    <3>2. QED
      BY <1>8, <1>10, <2>1, <3>1
  <2>3. Len(line) >= 1 /\ Len(line) - 1 = c
    BY <1>4, <2>2
  <2>4. line[Len(line)][1] = "open" /\ \A q \in 1..(Len(line) - 1) : line[q][1] # "open"
    BY <1>4, <2>2, <2>3
  <2>5. ~Accepts(line)
    BY <1>7, <2>3, <2>4, OpenEndIsRefused
  <2>6. QED
    BY <1>6, <2>5
<1>11. QED
  BY <1>4, <1>9, <1>10

\* A torn write with a whole line behind it is refused.
LEMMA WholeBehindTearIsRefused ==
  ASSUME StreamInv, NEW i \in 1..Len(written), i < Len(written), NEW c,
         Fragment(written[i], EndOf(stream, written, i), c),
         written[i + 1].acknowledged, Broken \notin ToSet(written[i + 1].record.texts)
  PROVE  ~Accepts(LineAt(written[i].from))
<1> DEFINE w == written[i]
           j == i + 1
           v == written[j]
           M == Line(v.record)
           end == EndOf(stream, written, i)
           p == w.from
           line == LineAt(p)
           n == Len(stream)
<1>1. j \in 1..Len(written) /\ v.from = end /\ stream \in Seq(Tokens) /\ p \in Nat
  BY EntryOnMedium DEF StreamInv, StreamIs
<1> HIDE DEF j
<1>2. v \in EntryType /\ OnMedium(stream, v, EndOf(stream, written, j), tears)
  BY <1>1, EntryOnMedium
<1>3. v.record \in RecordType /\ LineIs(v.record, M)
  BY <1>2, EntryLine
<1>4. Broken \notin ToSet(v.record.texts) /\ v.acknowledged
  BY DEF j
<1>5. PICK b : BreaksAt(v.record, M, b)
  <2> HIDE DEF M, v
  <2>1. QED
    BY <1>3, LineBreaks
<1>6. /\ Len(M) = 17 /\ Quotes(v.record, M, 10, 6)
      /\ \A q \in 1..16 : M[q][1] # "open" /\ M[q] # Newline
  <2> HIDE DEF M
  <2>1. b = 17
    BY <1>4, <1>5 DEF BreaksAt
  <2>2. QED
    BY <1>5, <2>1 DEF BreaksAt
<1>7. M[17] = Newline /\ \A q \in 1..10 : ~HasQuote(M[q])
  <2> HIDE DEF M, v
  <2>1. M[17] = Newline
    BY <1>3, <1>6 DEF LineIs
  <2>2. QED
    BY <1>3, <2>1, LineTokens
<1>8. /\ (\A q \in 1..17 : stream[end + q] = M[q])
      /\ end + 17 <= n
  <2>1. /\ EndOf(stream, written, j) = v.from + Len(M) /\ EndOf(stream, written, j) <= n
        /\ \A q \in 1..Len(M) : stream[v.from + q] = M[q]
    BY <1>2, <1>4 DEF OnMedium, Whole
  <2> HIDE DEF M, v, end, n
  <2>2. QED
    BY <1>1, <1>6, <2>1
<1>9. /\ c \in 1..16
      /\ \A q \in 1..c : stream[p + q][1] # "open"
      /\ \/ end = p + c
         \/ end = p + c + 1 /\ c >= 10 /\ stream[end][1] = "open"
  BY DEF Fragment
<1>10. /\ p \in 0..(n - 1) /\ n \in Nat /\ end \in Nat /\ p < end /\ end <= n
       /\ \A q \in (p + 1)..end : stream[q] # Newline
  BY FragmentLine
<1> HIDE DEF w, v, M, end, p, n
<1>a. p \in Nat /\ end \in Nat /\ n \in Nat /\ p < end /\ end + 17 <= n /\ c \in 1..16
  <2>1. end + 17 <= n
    BY <1>8
  <2>2. QED
    BY <1>1, <1>9, <1>10, <2>1
<1>11. LineEnd(p) = end + 17
  <2> DEFINE k == end + 16 - p
  <2>1. k \in Nat /\ p + k = end + 16 /\ p + k < n /\ p + k + 1 = end + 17
    BY <1>a
  <2>2. \A q \in 1..k : stream[p + q] # Newline
    <3> TAKE q \in 1..k
    <3>1. CASE p + q <= end
      <4>1. p + q \in (p + 1)..end
        BY <1>1, <1>10, <3>1
      <4>2. QED
        BY <1>10, <4>1
    <3>2. CASE p + q > end
      <4> DEFINE m == (p + q) - end
      <4>1. m \in 1..16 /\ m \in 1..17 /\ end + m = p + q
        BY <1>a, <3>2
      <4> HIDE DEF m
      <4>2. stream[end + m] = M[m]
        BY <1>8, <4>1
      <4>3. QED
        BY <1>6, <4>1, <4>2
    <3>3. QED
      BY <1>1, <1>10, <3>1, <3>2
  <2> HIDE DEF k
  <2>3. stream[p + k + 1] = Newline
    <3>1. stream[end + 17] = M[17]
      BY <1>8
    <3>2. QED
      BY <1>7, <2>1, <3>1
  <2>4. LineEnd(p) = p + k + 1
    <3>1. stream \in Seq(Tokens) /\ p \in 0..(Len(stream) - 1)
      BY <1>1, <1>10 DEF n
    <3>2. p + k <= Len(stream) /\ p + k < Len(stream)
      BY <1>a, <2>1 DEF n
    <3>3. QED
      BY <2>1, <2>2, <2>3, <3>1, <3>2, LineEndAt
  <2>5. QED
    BY <2>1, <2>4
<1>12. /\ line \in Seq(Tokens) /\ Len(line) = end + 16 - p
       /\ \A q \in 1..(end + 16 - p) : line[q] = stream[p + q]
  <2>1. /\ line \in Seq(Tokens) /\ Len(line) = LineEnd(p) - 1 - p
        /\ \A q \in 1..(LineEnd(p) - 1 - p) : line[q] = stream[p + q]
    BY <1>1, <1>10, LineEndIs DEF n
  <2> HIDE DEF line
  <2>2. LineEnd(p) - 1 - p = end + 16 - p
    BY <1>1, <1>10, <1>11
  <2>3. QED
    BY <2>1, <2>2
<1> HIDE DEF line
<1>13. \A q \in 1..16 : line[end + q - p] = M[q]
  <2> TAKE q \in 1..16
  <2> DEFINE m == end + q - p
  <2>1. m \in 1..(end + 16 - p) /\ p + m = end + q /\ q \in 1..17
    BY <1>a
  <2> HIDE DEF m
  <2>2. line[m] = M[q]
    BY <1>8, <1>12, <2>1
  <2>3. QED
    BY <2>2 DEF m
<1>14. \A q \in 1..c : line[q][1] # "open"
  <2> TAKE q \in 1..c
  <2>1. q \in 1..(end + 16 - p)
    BY <1>1, <1>9, <1>10
  <2>2. QED
    BY <1>9, <1>12, <2>1
<1>15. CASE end = p + c
  <2>1. Len(line) = c + 16
    <3>1. end + 16 - p = c + 16
      BY <1>a, <1>15
    <3>2. QED
      BY <1>12, <3>1
  <2>2. \A q \in 1..Len(line) : line[q][1] # "open"
    <3> TAKE q \in 1..Len(line)
    <3>1. CASE q <= c
      BY <1>9, <1>14, <3>1
    <3>2. CASE q > c
      <4>1. q - c \in 1..16 /\ end + (q - c) - p = q
        BY <1>1, <1>9, <1>15, <2>1, <3>2
      <4>2. line[q] = M[q - c]
        BY <1>13, <4>1
      <4>3. QED
        BY <1>6, <4>1, <4>2
    <3>3. QED
      BY <1>9, <2>1, <3>1, <3>2
  <2>3. Len(line) # 16
    BY <1>9, <2>1
  <2>4. ~Accepts(line)
    BY <1>12, <2>2, <2>3, SixteenTokens
  <2>5. QED
    BY <2>4 DEF line, p, w
<1>16. CASE end = p + c + 1 /\ c >= 10 /\ stream[end][1] = "open"
  <2>1. c \in Nat /\ Len(line) = c + 17
    BY <1>1, <1>9, <1>12, <1>16
  <2>2. line[c + 1][1] = "open"
    <3>1. c + 1 \in 1..(end + 16 - p) /\ p + (c + 1) = end
      BY <1>1, <1>9, <1>16
    <3>2. QED
      BY <1>12, <1>16, <3>1
  <2>3. ASSUME NEW q \in (c + 2)..(c + 17) PROVE q - (c + 1) \in 1..16 /\ line[q] = M[q - (c + 1)]
    <3>1. q - (c + 1) \in 1..16 /\ end + (q - (c + 1)) - p = q
      BY <1>1, <1>9, <1>16
    <3>2. QED
      BY <1>13, <3>1
  <2>4. \A q \in (c + 2)..(c + 11) : ~HasQuote(line[q])
    <3> TAKE q \in (c + 2)..(c + 11)
    <3>1. q \in (c + 2)..(c + 17) /\ q - (c + 1) \in 1..10
      BY <2>1
    <3>2. QED
      BY <1>7, <2>3, <3>1
  <2>5. \A q \in (c + 12)..(c + 17) : line[q][1] = "quoted"
    <3> TAKE q \in (c + 12)..(c + 17)
    <3> DEFINE m == q - (c + 11)
    <3>1. q \in (c + 2)..(c + 17) /\ m \in 1..6 /\ q - (c + 1) = 10 + m
      BY <2>1
    <3> HIDE DEF m
    <3>2. line[q] = Quoted(v.record.texts[m])
      BY <1>6, <2>3, <3>1 DEF Quotes
    <3>3. QED
      BY <3>2, TokenKinds
  <2>6. ~Accepts(line)
    BY <1>12, <1>14, <1>16, <2>1, <2>2, <2>4, <2>5, SwallowingLineIsRefused
  <2>7. QED
    BY <2>6 DEF line, p, w
<1>17. QED
  BY <1>9, <1>15, <1>16

\* A torn write behind a torn one leaves two tears on the line.
LEMMA TornBehindTear ==
  ASSUME StreamInv, NEW i \in 1..Len(written), i < Len(written), NEW c,
         Fragment(written[i], EndOf(stream, written, i), c),
         ~written[i + 1].acknowledged, Broken \notin ToSet(written[i + 1].record.texts)
  PROVE  /\ EndOf(stream, written, i + 1) \in tears
         /\ EndOf(stream, written, i) < EndOf(stream, written, i + 1)
         /\ EndOf(stream, written, i + 1) < LineEnd(written[i].from)
<1> DEFINE w == written[i]
           j == i + 1
           v == written[j]
           M == Line(v.record)
           end == EndOf(stream, written, i)
           last == EndOf(stream, written, j)
           p == w.from
           n == Len(stream)
<1>1. j \in 1..Len(written) /\ v.from = end /\ stream \in Seq(Tokens) /\ p \in Nat
  BY EntryOnMedium DEF StreamInv, StreamIs
<1> HIDE DEF j
<1>2. v \in EntryType /\ OnMedium(stream, v, last, tears) /\ last \in Nat
  BY <1>1, EntryOnMedium
<1>3. v.record \in RecordType /\ LineIs(v.record, M)
  BY <1>2, EntryLine
<1>4. Broken \notin ToSet(v.record.texts) /\ ~v.acknowledged
  BY DEF j
<1>5. PICK b : BreaksAt(v.record, M, b)
  <2> HIDE DEF M, v
  <2>1. QED
    BY <1>3, LineBreaks
<1>6. \A q \in 1..16 : M[q] # Newline
  <2> HIDE DEF M
  <2>1. b = 17
    BY <1>4, <1>5 DEF BreaksAt
  <2>2. \A q \in 1..(b - 1) : M[q] # Newline
    BY <1>5 DEF BreaksAt
  <2>3. 1..16 = 1..(b - 1)
    BY <2>1
  <2>4. QED
    BY <2>2, <2>3
<1>7. last \in tears /\ last <= n /\ v.from < last
  BY <1>2, <1>4 DEF OnMedium
<1>8. PICK cut \in 1..16 :
        /\ \A q \in 1..cut : stream[v.from + q] = M[q]
        /\ \/ last = v.from + cut
           \/ last = v.from + cut + 1 /\ stream[last][1] = "open"
  BY <1>2, <1>4 DEF OnMedium, Torn
<1>9. /\ p \in 0..(n - 1) /\ n \in Nat /\ end \in Nat /\ p < end /\ end <= n
      /\ \A q \in (p + 1)..end : stream[q] # Newline
  BY FragmentLine
<1> HIDE DEF w, v, M, end, p, n, last
<1>a. p \in Nat /\ end \in Nat /\ n \in Nat /\ p < end /\ end < last /\ last <= n /\ last \in Nat
  BY <1>1, <1>2, <1>7, <1>9
<1>b. last = end + cut \/ last = end + cut + 1
  BY <1>1, <1>8
<1>10. \A q \in (p + 1)..last : stream[q] # Newline
  <2> TAKE q \in (p + 1)..last
  <2>1. CASE q <= end
    <3>1. q \in (p + 1)..end
      BY <1>a, <2>1
    <3>2. QED
      BY <1>9, <3>1
  <2>2. CASE q > end /\ q <= end + cut
    <3> DEFINE m == q - end
    <3>1. m \in 1..cut /\ m \in 1..16 /\ end + m = q
      BY <1>a, <2>2
    <3> HIDE DEF m
    <3>2. stream[q] = M[m]
      BY <1>1, <1>8, <3>1
    <3>3. QED
      BY <1>6, <3>1, <3>2
  <2>3. CASE q > end + cut
    <3>1. q = last /\ last # end + cut
      BY <1>a, <1>b, <2>3
    <3>2. stream[last][1] = "open"
      BY <1>1, <1>8, <3>1
    <3>3. QED
      BY <3>1, <3>2, TokenKinds
  <2>4. QED
    BY <1>a, <2>1, <2>2, <2>3
<1>11. LineEnd(p) > last
  <2> DEFINE k == last - p
  <2>1. k \in Nat /\ p + k = last /\ \A q \in 1..k : p + q \in (p + 1)..last
    BY <1>a
  <2>2. \A q \in 1..k : stream[p + q] # Newline
    BY <1>10, <2>1
  <2> HIDE DEF k
  <2>3. p \in 0..(Len(stream) - 1) /\ p + k <= Len(stream)
    BY <1>9, <1>a, <2>1 DEF n
  <2>4. LineEnd(p) > p + k
    BY <1>1, <2>1, <2>2, <2>3, LineEndAt
  <2>5. QED
    BY <2>1, <2>4
<1>12. LineEnd(p) \in Nat
  <2>1. p \in 0..(Len(stream) - 1)
    BY <1>9 DEF n
  <2>2. LineEnd(p) \in (p + 1)..(Len(stream) + 1)
    BY <1>1, <2>1, LineEndIs
  <2>3. QED
    BY <1>a, <2>2
<1>13. last < LineEnd(p)
  BY <1>a, <1>11, <1>12
<1>14. QED
  BY <1>7, <1>13, <1>a DEF last, end, j, p, w

ReadAs(p) == [record |-> Parsed(Words(LineAt(p)).words), from |-> p, to |-> LineEnd(p)]

\* A line that is accepted is known, whatever lies around it.
LEMMA AcceptedIsKnown ==
  ASSUME StreamInv, NEW p \in 0..(Len(stream) - 1), p = 0 \/ stream[p] = Newline,
         Accepts(LineAt(p))
  PROVE  Known(ReadAs(p))
<1>1. PICK i \in 1..Len(written) : written[i].from <= p /\ p < EndOf(stream, written, i)
  BY PlaceOnMedium
<1> DEFINE w == written[i]
           L == Line(w.record)
           end == EndOf(stream, written, i)
           g == ReadAs(p)
<1>2. /\ w \in EntryType /\ w.from \in Nat /\ end \in Nat /\ Len(stream) \in Nat
      /\ Len(written) \in Nat /\ p \in Nat /\ stream \in Seq(Tokens)
      /\ OnMedium(stream, w, end, tears)
      /\ i < Len(written) => written[i + 1].from = end
  <2>1. stream \in Seq(Tokens) /\ p \in Nat
    BY LenProperties DEF StreamInv, StreamIs
  <2>2. QED
    BY <2>1, EntryOnMedium
<1>3. w.record \in RecordType /\ LineIs(w.record, L)
  BY <1>2, EntryLine
<1>4. w.from = p
  <2>1. SUFFICES ASSUME w.from < p PROVE FALSE
    BY <1>1, <1>2
  <2>2. stream[p] = Newline
    BY <1>2, <2>1
  <2>3. ~Accepts(LineAt(p))
    BY <1>1, <1>2, <2>1, <2>2, InsideIsRefused
  <2>4. QED
    BY <2>3
<1>5. PICK b : BreaksAt(w.record, L, b)
  <2> HIDE DEF L, w
  <2>1. QED
    BY <1>3, LineBreaks
<1>6. written[i] \in ToSet(written)
  <2>1. DOMAIN written = 1..Len(written)
    BY LenProperties DEF StreamInv, StreamIs
  <2>2. QED
    BY <2>1 DEF ToSet
<1>7. ASSUME Parsed(Words(LineAt(p)).words) = w.record PROVE WasWritten(g)
  <2>1. w.record = g.record /\ w.from = g.from
    BY <1>4, <1>7 DEF ReadAs
  <2>2. QED
    BY <1>6, <2>1 DEF WasWritten
<1>8. CASE w.acknowledged
  <2>1. end = p + Len(L) /\ end <= Len(stream) /\ \A q \in 1..Len(L) : stream[p + q] = L[q]
    BY <1>2, <1>4, <1>8 DEF OnMedium, Whole
  <2>2. b = 17
    <3>1. SUFFICES ASSUME b < 17 PROVE FALSE
      BY <1>5 DEF BreaksAt
    <3> HIDE DEF L, w, end
    <3>2. b \in 11..16 /\ b + 1 < Len(L) /\ Len(L) \in Nat
      <4>1. b \in 11..17 /\ (b < 17 => b + 1 < Len(L))
        BY <1>5 DEF BreaksAt
      <4>2. Len(L) \in Nat
        BY <1>3 DEF LineIs
      <4>3. QED
        BY <3>1, <4>1, <4>2
    <3>3. p + b + 1 <= Len(stream) /\ \A q \in 1..(b + 1) : q \in 1..Len(L)
      <4>1. /\ p \in Nat /\ Len(stream) \in Nat /\ Len(L) \in Nat /\ b \in 11..16
            /\ b + 1 < Len(L) /\ end = p + Len(L) /\ end <= Len(stream)
        BY <1>2, <2>1, <3>2
      <4>2. QED
        BY <4>1
    <3>4. \A q \in 1..(b + 1) : stream[p + q] = L[q]
      BY <2>1, <3>3
    <3>5. ~Accepts(LineAt(p))
      BY <1>2, <1>3, <1>5, <3>1, <3>3, <3>4, StartOfLine
    <3>6. QED
      BY <3>5
  <2>3. Len(L) = 17 /\ L[17] = Newline
    <3>1. Len(L) = 17
      BY <1>5, <2>2 DEF BreaksAt
    <3>2. L[Len(L)] = Newline
      BY <1>3 DEF LineIs
    <3>3. QED
      BY <3>1, <3>2
  <2>4. p + 16 <= Len(stream) /\ (\A q \in 1..16 : stream[p + q] = L[q]) /\ stream[p + 17] = Newline
    <3> HIDE DEF L, w, end
    <3>1. \A q \in 1..17 : stream[p + q] = L[q]
      BY <2>1, <2>3
    <3>2. p + 16 <= Len(stream)
      BY <1>2, <2>1, <2>3
    <3>3. QED
      BY <2>3, <3>1, <3>2
  <2>5. Parsed(Words(LineAt(p)).words) = w.record
    <3> DEFINE r == w.record
    <3>1. r \in RecordType /\ LineIs(r, L) /\ BreaksAt(r, L, b) /\ stream \in Seq(Tokens)
      BY <1>2, <1>3, <1>5
    <3> HIDE DEF L, r
    <3>2. Parsed(Words(LineAt(p)).words) = r
      BY <2>2, <2>4, <3>1, StartOfLine
    <3>3. QED
      BY <3>2 DEF r
  <2>6. QED
    BY <1>7, <2>5 DEF Known
<1>9. CASE ~w.acknowledged
  <2>1. Accepts(LineAt(w.from)) /\ ~written[i].acknowledged
    BY <1>4, <1>9
  <2>2. PICK c : Fragment(written[i], EndOf(stream, written, i), c)
    BY <2>1, TornLeavesAFragment
  <2>3. CASE i = Len(written)
    <3>1. Parsed(Words(LineAt(w.from)).words) = w.record
      BY <2>1, <2>2, <2>3, AloneMakesNoRecord
    <3>2. QED
      BY <1>4, <1>7, <3>1 DEF Known
  <2>4. CASE i # Len(written)
    <3>1. i < Len(written) /\ i + 1 \in 1..Len(written)
      BY <1>2, <2>4
    <3>2. LineEnd(p) > end /\ LineEnd(p) \in Nat /\ p < end
      <4>1. LineEnd(w.from) > end /\ w.from < end
        BY <2>2, FragmentLine
      <4>2. LineEnd(p) \in (p + 1)..(Len(stream) + 1)
        BY <1>2, LineEndIs
      <4>3. LineEnd(p) \in Nat
        BY <1>2, <4>2
      <4>4. QED
        BY <1>4, <4>1, <4>3
    <3>3. end \in tears
      BY <1>2, <1>9 DEF OnMedium
    <3>4. g.from = p /\ g.to = LineEnd(p)
      BY DEF ReadAs
    <3> HIDE DEF g
    <3>5. \A x \in Nat : x \in tears /\ p < x /\ x < LineEnd(p) => x \in Tears(g)
      BY <1>2, <3>2, <3>4 DEF Tears
    <3>6. end \in Tears(g)
      BY <1>2, <3>2, <3>3, <3>5
    <3>7. CASE Broken \in ToSet(written[i + 1].record.texts)
      <4>1. written[i + 1] \in ToSet(written)
        <5>1. DOMAIN written = 1..Len(written)
          BY LenProperties DEF StreamInv, StreamIs
        <5>2. QED
          BY <3>1, <5>1 DEF ToSet
      <4>2. written[i + 1].from \in Tears(g)
        BY <1>2, <3>1, <3>6
      <4>3. BreakBehindTear(g)
        BY <3>7, <4>1, <4>2 DEF BreakBehindTear
      <4>4. QED
        BY <4>3 DEF Known, g
    <3>8. CASE Broken \notin ToSet(written[i + 1].record.texts) /\ written[i + 1].acknowledged
      BY <2>1, <2>2, <3>1, <3>8, WholeBehindTearIsRefused
    <3>9. CASE Broken \notin ToSet(written[i + 1].record.texts) /\ ~written[i + 1].acknowledged
      <4> DEFINE last == EndOf(stream, written, i + 1)
      <4>1. last \in tears /\ end < last /\ last < LineEnd(w.from)
        BY <2>2, <3>1, <3>9, TornBehindTear
      <4>2. last \in Nat
        <5>1. tears \subseteq Nat
          BY DEF StreamInv, StreamIs
        <5>2. QED
          BY <4>1, <5>1
      <4>3. last \in Tears(g) /\ end # last
        <5> HIDE DEF last, end
        <5>1. p < last /\ last < LineEnd(p) /\ end # last
          BY <1>2, <1>4, <3>2, <4>1, <4>2
        <5>2. QED
          BY <3>5, <4>1, <4>2, <5>1
      <4> HIDE DEF last, end
      <4>4. Cardinality(Tears(g)) >= 2
        BY <1>2, <3>2, <3>4, <3>6, <4>3, TwoTears
      <4>5. QED
        BY <4>4 DEF Known, g
    <3>10. QED
      BY <3>7, <3>8, <3>9
  <2>5. QED
    BY <2>3, <2>4
<1>10. QED
  BY <1>8, <1>9

\* An acknowledged write behind no tear is a line of its own and accepted.
LEMMA AcknowledgedIsAccepted ==
  ASSUME StreamInv, NEW i \in 1..Len(written), written[i].acknowledged,
         Broken \notin ToSet(written[i].record.texts), ~BehindTear(written[i])
  PROVE  LET p == written[i].from IN
         /\ p \in 0..(Len(stream) - 1) /\ (p = 0 \/ stream[p] = Newline)
         /\ Accepts(LineAt(p)) /\ Parsed(Words(LineAt(p)).words) = written[i].record
<1> DEFINE w == written[i]
           L == Line(w.record)
           end == EndOf(stream, written, i)
           p == w.from
<1>1. /\ w \in EntryType /\ p \in Nat /\ end \in Nat /\ Len(stream) \in Nat
      /\ stream \in Seq(Tokens) /\ OnMedium(stream, w, end, tears) /\ Len(written) \in Nat
  BY EntryOnMedium DEF StreamInv, StreamIs
<1>2. w.record \in RecordType /\ LineIs(w.record, L)
  BY <1>1, EntryLine
<1>3. PICK b : BreaksAt(w.record, L, b)
  <2> HIDE DEF L, w
  <2>1. QED
    BY <1>2, LineBreaks
<1>4. b = 17 /\ Len(L) = 17
  BY <1>3 DEF BreaksAt
<1>5. L[17] = Newline
  <2>1. L[Len(L)] = Newline
    BY <1>2 DEF LineIs
  <2>2. QED
    BY <1>4, <2>1
<1>6. IsValid(w.record) /\ end = p + 17 /\ end <= Len(stream) /\ \A q \in 1..17 : stream[p + q] = L[q]
  <2>1. /\ IsValid(w.record) /\ end = p + Len(L) /\ end <= Len(stream)
        /\ \A q \in 1..Len(L) : stream[p + q] = L[q]
    BY <1>1 DEF OnMedium, Whole
  <2> HIDE DEF L, w, end, p
  <2>2. QED
    BY <1>4, <2>1
<1>7. p = 0 \/ stream[p] = Newline
  <2>1. CASE i = 1
    <3>1. Len(written) > 0
      BY <1>1
    <3>2. written[1].from = 0
      BY <3>1 DEF StreamInv, StreamIs
    <3>3. QED
      BY <2>1, <3>2
  <2>2. CASE i # 1
    <3> DEFINE j == i - 1
    <3>1. j \in 1..Len(written) /\ j < Len(written) /\ j + 1 = i
      BY <1>1, <2>2
    <3> HIDE DEF j
    <3> DEFINE v == written[j]
               M == Line(v.record)
    <3>2. v \in EntryType /\ v.from \in Nat /\ OnMedium(stream, v, p, tears)
      <4>1. /\ v \in EntryType /\ v.from \in Nat /\ OnMedium(stream, v, EndOf(stream, written, j), tears)
            /\ written[j + 1].from = EndOf(stream, written, j)
        BY <3>1, EntryOnMedium
      <4>2. EndOf(stream, written, j) = p
        BY <3>1, <4>1
      <4>3. QED
        BY <4>1, <4>2
    <3>3. CASE v.acknowledged
      <4>1. LineIs(v.record, M)
        BY <3>2, EntryLine
      <4>2. Len(M) \in Nat /\ Len(M) >= 17 /\ M[Len(M)] = Newline
        BY <4>1 DEF LineIs
      <4>3. p = v.from + Len(M) /\ \A q \in 1..Len(M) : stream[v.from + q] = M[q]
        BY <3>2, <3>3 DEF OnMedium, Whole
      <4> HIDE DEF M, v, p
      <4>4. Len(M) \in 1..Len(M)
        BY <4>2
      <4>5. stream[p] = Newline
        BY <4>2, <4>3, <4>4
      <4>6. QED
        BY <4>5
    <3>4. CASE ~v.acknowledged
      <4>1. p \in tears
        BY <3>2, <3>4 DEF OnMedium
      <4>2. QED
        BY <4>1 DEF BehindTear
    <3>5. QED
      BY <3>3, <3>4
  <2>3. QED
    BY <2>1, <2>2
<1>8. Accepts(LineAt(p)) /\ Parsed(Words(LineAt(p)).words) = w.record
  <2> HIDE DEF L, w, end, p
  <2>a. p \in Nat /\ Len(stream) \in Nat /\ end = p + 17 /\ end <= Len(stream)
    BY <1>1, <1>6
  <2>1. p \in 0..(Len(stream) - 1) /\ p + 16 <= Len(stream)
    BY <2>a
  <2>2. (\A q \in 1..16 : stream[p + q] = L[q]) /\ stream[p + 17] = Newline
    <3>1. 17 \in 1..17 /\ \A q \in 1..16 : q \in 1..17
      OBVIOUS
    <3>2. QED
      BY <1>5, <1>6, <3>1
  <2> DEFINE r == w.record
  <2>3. /\ r \in RecordType /\ LineIs(r, L) /\ BreaksAt(r, L, b) /\ stream \in Seq(Tokens)
        /\ IsValid(r) /\ b = 17
    BY <1>1, <1>2, <1>3, <1>4, <1>6
  <2> HIDE DEF r
  <2>4. Parsed(Words(LineAt(p)).words) = r /\ (IsValid(r) => Accepts(LineAt(p)))
    BY <2>1, <2>2, <2>3, StartOfLine
  <2>5. QED
    BY <2>3, <2>4 DEF r
<1>9. p \in 0..(Len(stream) - 1)
  <2> HIDE DEF w, end, p
  <2>1. p \in Nat /\ Len(stream) \in Nat /\ end = p + 17 /\ end <= Len(stream)
    BY <1>1, <1>6
  <2>2. QED
    BY <2>1
<1>10. QED
  BY <1>7, <1>8, <1>9

-----------------------------------------------------------------------------
(* What has been read                                                      *)

RestType ==
  [numbers : [1..9 -> Int \union {NotFinite}],
   texts : [1..6 -> Texts \union {Magic} \union WordTokens]]

ReadType == [record : RestType, from : Nat, to : Nat]

LEMMA ParsedIsTyped ==
  ASSUME NEW line \in Seq(Tokens), Accepts(line)
  PROVE  Parsed(Words(line).words) \in RestType
<1> DEFINE w == Words(line).words
<1>1. w \in Seq(WordTokens)
  <2>1. PICK g : Lexes(line, g) /\ Words(line) = g[Len(line)]
    BY WordsAreLexed
  <2>2. Len(line) \in 0..Len(line)
    BY LenProperties
  <2>3. g[Len(line)] \in Lexed
    BY <2>1, <2>2 DEF Lexes
  <2>4. QED
    BY <2>1, <2>3 DEF Lexed
<1>2. Len(w) = 16 /\ \A i \in 2..10 : w[i][1] = "number"
  BY DEF Accepts
<1> HIDE DEF w
<1>3. \A i \in 1..16 : w[i] \in WordTokens
  BY <1>1, <1>2, ElementOfSeq
<1>4. \A x \in WordTokens : x[1] = "number" => x[2] \in Int \union {NotFinite}
  BY TokenKinds DEF WordTokens, Tokens
<1>5. \A x \in WordTokens : TextOf(x) \in Texts \union {Magic} \union WordTokens
  BY TokenKinds DEF WordTokens, Tokens, TextOf
<1>6. \A i \in 1..9 : w[i + 1][2] \in Int \union {NotFinite}
  <2> TAKE i \in 1..9
  <2>1. i + 1 \in 2..10 /\ i + 1 \in 1..16
    OBVIOUS
  <2>2. QED
    BY <1>2, <1>3, <1>4, <2>1
<1>7. \A i \in 1..6 : TextOf(w[i + 10]) \in Texts \union {Magic} \union WordTokens
  <2> TAKE i \in 1..6
  <2>1. i + 10 \in 1..16
    OBVIOUS
  <2>2. QED
    BY <1>3, <1>5, <2>1
<1> HIDE DEF WordTokens
<1>8. Parsed(w) \in RestType
  BY <1>6, <1>7 DEF Parsed, RestType
<1>9. QED
  BY <1>8 DEF w

StartsLine(p) == p = 0 \/ stream[p] = Newline

\* Behind the read position every line that is accepted has been read, in the
\* order of the lines, and the last of them is the caller's record.
ReadSoFar ==
  /\ at = 0 \/ at > Len(stream) \/ stream[at] = Newline
  /\ \A i \in 1..Len(read) : read[i].to <= at
  /\ \A i, j \in 1..Len(read) : i < j => read[i].to <= read[j].from
  /\ \A p \in 0..(Len(stream) - 1) :
       p < at /\ StartsLine(p) /\ Accepts(LineAt(p)) =>
         \E i \in 1..Len(read) : read[i] = ReadAs(p)
  /\ record = IF read = <<>> THEN NoRecord ELSE Last(read).record

ReadInv ==
  /\ at \in Nat /\ read \in Seq(ReadType)
  /\ phase = "reading" => ReadSoFar
  /\ \A g \in ToSet(read) : Known(g)

\* What was known of a record that was read is not forgotten.
LEMMA KnownStays ==
  ASSUME tears \subseteq tears', ToSet(written) \subseteq ToSet(written')
  PROVE  \A g \in ReadType : Known(g) => Known(g)'
<1> SUFFICES ASSUME NEW g \in ReadType, Known(g) PROVE Known(g)'
  OBVIOUS
<1>1. g.from \in Nat /\ g.to \in Nat
  BY DEF ReadType
<1>2. Tears(g) \subseteq Tears(g)'
  BY DEF Tears
<1>3. CASE WasWritten(g)
  BY <1>3 DEF WasWritten, Known
<1>4. CASE BreakBehindTear(g)
  BY <1>2, <1>4 DEF BreakBehindTear, Known
<1>5. CASE Cardinality(Tears(g)) >= 2
  <2> DEFINE S == Tears(g)
             T == Tears(g)'
  <2>1. IsFiniteSet(T)
    <3>1. g.from + 1 \in Int /\ g.to - 1 \in Int
      BY <1>1
    <3>2. IsFiniteSet((g.from + 1)..(g.to - 1))
      BY <3>1, FS_Interval
    <3>3. T \subseteq (g.from + 1)..(g.to - 1)
      BY DEF Tears
    <3> HIDE DEF T
    <3>4. QED
      BY <3>2, <3>3, FS_Subset
  <2>2. S \subseteq T /\ Cardinality(S) >= 2
    BY <1>2, <1>5
  <2>3. Cardinality(T) >= 2
    <3> HIDE DEF S, T
    <3>1. IsFiniteSet(S) /\ Cardinality(S) <= Cardinality(T)
      BY <2>1, <2>2, FS_Subset
    <3>2. Cardinality(S) \in Nat /\ Cardinality(T) \in Nat
      BY <2>1, <3>1, FS_CardinalityType
    <3>3. QED
      BY <2>2, <3>1, <3>2
  <2>4. Cardinality(Tears(g)') >= 2
    BY <2>3
  <2>5. QED
    BY <2>4 DEF Known
<1>6. QED
  BY <1>3, <1>4, <1>5 DEF Known

\* Reading one line keeps all that was read, and adds the line if accepted.
LEMMA ReadKeepsReadSoFar ==
  ASSUME StreamInv, ReadInv, ReadChampionRecord
  PROVE  ReadInv'
<1> DEFINE e == LineEnd(at)
           x == ReadAs(at)
           k == Len(read)
<1>1. /\ phase = "reading" /\ at < Len(stream) /\ at' = e
      /\ UNCHANGED <<stream, phase, written, tears>>
  BY DEF ReadChampionRecord
<1>2. /\ stream \in Seq(Tokens) /\ Len(stream) \in Nat /\ at \in Nat /\ k \in Nat
      /\ read \in Seq(ReadType) /\ ReadSoFar /\ \A g \in ToSet(read) : Known(g)
  BY <1>1, LenProperties DEF ReadInv, StreamInv, StreamIs
<1>3. at \in 0..(Len(stream) - 1)
  BY <1>1, <1>2
<1>4. /\ e \in (at + 1)..(Len(stream) + 1)
      /\ \A q \in (at + 1)..(e - 1) : stream[q] # Newline
      /\ e <= Len(stream) => stream[e] = Newline
      /\ LineAt(at) \in Seq(Tokens)
  BY <1>2, <1>3, LineEndIs
<1>5. StartsLine(at)
  BY <1>1, <1>2 DEF ReadSoFar, StartsLine
<1>6. /\ \A g \in ReadType : Known(g) => Known(g)'
  <2>1. tears \subseteq tears' /\ ToSet(written) \subseteq ToSet(written')
    BY <1>1 DEF ToSet
  <2>2. QED
    BY <2>1, KnownStays
<1>7. /\ \A p \in Nat : ReadAs(p)' = ReadAs(p)
      /\ \A p \in Nat : LineAt(p)' = LineAt(p)
      /\ \A p \in Nat : StartsLine(p)' = StartsLine(p)
  BY <1>1 DEF ReadAs, LineAt, LineEnd, StartsLine
<1>8. \A p \in Nat : Accepts(LineAt(p))' = Accepts(LineAt(p))
  BY <1>1 DEF LineAt, LineEnd, Accepts, Words
<1>9. e \in Nat /\ at < e /\ (e > Len(stream) \/ stream[e] = Newline)
  BY <1>2, <1>4
<1>10. ASSUME NEW p \in 0..(Len(stream) - 1), p < e, StartsLine(p)
       PROVE  p < at \/ p = at
  <2>1. SUFFICES ASSUME p > at PROVE FALSE
    BY <1>2
  <2>2. p \in (at + 1)..(e - 1) /\ p # 0
    BY <1>2, <1>9, <1>10, <2>1
  <2>3. QED
    BY <1>4, <1>10, <2>2 DEF StartsLine
<1>11. CASE Accepts(LineAt(at))
  <2>1. /\ x.record = Parsed(Words(LineAt(at)).words) /\ x.from = at /\ x.to = e
        /\ x = [record |-> Parsed(Words(LineAt(at)).words), from |-> at, to |-> e]
    BY DEF ReadAs
  <2>2. record' = x.record /\ read' = Append(read, x)
    BY <1>11, <2>1 DEF ReadChampionRecord
  <2>3. x \in ReadType
    <3>1. Parsed(Words(LineAt(at)).words) \in RestType
      BY <1>4, <1>11, ParsedIsTyped
    <3> HIDE DEF e, x
    <3>2. QED
      BY <1>2, <1>9, <2>1, <3>1 DEF ReadType
  <2>4. Known(x)
    BY <1>3, <1>5, <1>11, AcceptedIsKnown DEF StartsLine
  <2> HIDE DEF x, e
  <2>5. /\ read' \in Seq(ReadType) /\ read' # <<>> /\ Len(read') = k + 1
        /\ (\A i \in 1..k : read'[i] = read[i]) /\ read'[k + 1] = x
    BY <1>2, <2>2, <2>3, AppendProperties
  <2>6. ASSUME NEW i \in 1..(k + 1)
        PROVE  read'[i].to <= e /\ (read'[i] = x \/ read'[i] \in ToSet(read))
    <3>1. CASE i = k + 1
      <4>1. x.to <= e
        BY <1>9, <2>1
      <4>2. read'[i] = x
        BY <2>5, <3>1
      <4>3. QED
        BY <4>1, <4>2
    <3>2. CASE i # k + 1
      <4>1. i \in 1..k
        BY <1>2, <3>2
      <4>2. read[i] \in ReadType /\ read[i].to <= at /\ read'[i] = read[i]
        BY <1>2, <2>5, <4>1, ElementOfSeq DEF ReadSoFar
      <4>3. read[i].to \in Nat /\ read[i] \in ToSet(read)
        <5>1. DOMAIN read = 1..k
          BY <1>2, LenProperties
        <5>2. QED
          BY <4>1, <4>2, <5>1 DEF ReadType, ToSet
      <4>4. QED
        BY <1>2, <1>9, <4>2, <4>3
    <3>3. QED
      BY <3>1, <3>2
  <2>7. ASSUME NEW i \in 1..(k + 1), NEW j \in 1..(k + 1), i < j
        PROVE  read'[i].to <= read'[j].from
    <3>1. i \in 1..k /\ read'[i] = read[i] /\ read[i].to <= at
      <4>1. i \in 1..k
        BY <1>2, <2>7
      <4>2. QED
        BY <1>2, <2>5, <4>1 DEF ReadSoFar
    <3>2. CASE j = k + 1
      BY <2>1, <2>5, <3>1, <3>2
    <3>3. CASE j # k + 1
      <4>1. j \in 1..k /\ read'[j] = read[j]
        BY <1>2, <2>5, <3>3
      <4>2. QED
        BY <1>2, <2>7, <3>1, <4>1 DEF ReadSoFar
    <3>4. QED
      BY <3>2, <3>3
  <2>8. ASSUME NEW p \in 0..(Len(stream) - 1), p < e, StartsLine(p), Accepts(LineAt(p))
        PROVE  \E i \in 1..(k + 1) : read'[i] = ReadAs(p)
    <3>1. CASE p < at
      <4>1. PICK i \in 1..k : read[i] = ReadAs(p)
        BY <1>2, <2>8, <3>1 DEF ReadSoFar
      <4>2. i \in 1..(k + 1) /\ read'[i] = ReadAs(p)
        BY <1>2, <2>5, <4>1
      <4>3. QED
        BY <4>2
    <3>2. CASE p = at
      <4>1. k + 1 \in 1..(k + 1) /\ read'[k + 1] = ReadAs(p)
        BY <1>2, <2>5, <3>2 DEF x
      <4>2. QED
        BY <4>1
    <3>3. QED
      BY <1>10, <2>8, <3>1, <3>2
  <2>9. record' = IF read' = <<>> THEN NoRecord ELSE Last(read').record
    BY <1>2, <2>2, <2>5 DEF Last
  <2>10. ReadSoFar'
    <3>1. /\ at' = 0 \/ at' > Len(stream') \/ stream'[at'] = Newline
      BY <1>1, <1>9 DEF e
    <3>2. \A i \in 1..Len(read') : read'[i].to <= at'
      BY <1>1, <2>5, <2>6 DEF e
    <3>3. \A i, j \in 1..Len(read') : i < j => read'[i].to <= read'[j].from
      BY <2>5, <2>7
    <3>4. ASSUME NEW p \in 0..(Len(stream') - 1), p < at', StartsLine(p)', Accepts(LineAt(p))'
          PROVE  \E i \in 1..Len(read') : read'[i] = ReadAs(p)'
      <4>1. p \in Nat /\ p \in 0..(Len(stream) - 1) /\ p < e
        BY <1>1, <1>2, <3>4 DEF e
      <4>2. StartsLine(p) /\ Accepts(LineAt(p)) /\ ReadAs(p)' = ReadAs(p)
        BY <1>7, <1>8, <3>4, <4>1
      <4>3. QED
        BY <2>5, <2>8, <4>1, <4>2
    <3>5. QED
      BY <2>9, <3>1, <3>2, <3>3, <3>4 DEF ReadSoFar
  <2>11. at' \in Nat /\ read' \in Seq(ReadType)
    BY <1>1, <1>9, <2>5 DEF e
  <2>12. ASSUME NEW g \in ToSet(read') PROVE Known(g)'
    <3>1. PICK i \in 1..(k + 1) : read'[i] = g
      <4>1. DOMAIN read' = 1..(k + 1)
        BY <2>5, LenProperties
      <4>2. QED
        BY <4>1 DEF ToSet
    <3>2. g = x \/ g \in ToSet(read)
      BY <2>6, <3>1
    <3>3. Known(g) /\ g \in ReadType
      <4>1. ToSet(read) \subseteq ReadType
        BY <1>2, LenProperties DEF ToSet
      <4>2. QED
        BY <1>2, <2>3, <2>4, <3>2, <4>1
    <3>4. QED
      BY <1>6, <3>3
  <2>13. QED
    BY <2>10, <2>11, <2>12 DEF ReadInv
<1>12. CASE ~Accepts(LineAt(at))
  <2>1. record' = record /\ read' = read
    BY <1>12 DEF ReadChampionRecord
  <2>2. ASSUME NEW g \in ToSet(read') PROVE Known(g)'
    <3>1. g \in ToSet(read)
      BY <2>1
    <3>2. ToSet(read) \subseteq ReadType
      BY <1>2, LenProperties DEF ToSet
    <3>3. QED
      BY <1>2, <1>6, <3>1, <3>2
  <2> HIDE DEF e
  <2>3. ReadSoFar'
    <3>1. /\ at' = 0 \/ at' > Len(stream') \/ stream'[at'] = Newline
      BY <1>1, <1>9 DEF e
    <3>2. \A i \in 1..Len(read') : read'[i].to <= at'
      <4> TAKE i \in 1..Len(read')
      <4>1. i \in 1..k /\ read[i].to <= at /\ read[i] \in ReadType
        BY <1>2, <2>1, ElementOfSeq DEF ReadSoFar
      <4>2. read[i].to \in Nat
        BY <4>1 DEF ReadType
      <4>3. read[i].to <= e
        BY <1>2, <1>9, <4>1, <4>2
      <4>4. QED
        BY <1>1, <2>1, <4>3 DEF e
    <3>3. \A i, j \in 1..Len(read') : i < j => read'[i].to <= read'[j].from
      BY <1>2, <2>1 DEF ReadSoFar
    <3>4. ASSUME NEW p \in 0..(Len(stream') - 1), p < at', StartsLine(p)', Accepts(LineAt(p))'
          PROVE  \E i \in 1..Len(read') : read'[i] = ReadAs(p)'
      <4>1. p \in Nat /\ p \in 0..(Len(stream) - 1) /\ p < e
        BY <1>1, <1>2, <3>4 DEF e
      <4>2. StartsLine(p) /\ Accepts(LineAt(p)) /\ ReadAs(p)' = ReadAs(p)
        BY <1>7, <1>8, <3>4, <4>1
      <4>3. p < at
        BY <1>10, <1>12, <4>1, <4>2
      <4>4. QED
        BY <1>2, <2>1, <4>1, <4>2, <4>3 DEF ReadSoFar
    <3>5. QED
      BY <1>2, <2>1, <3>1, <3>2, <3>3, <3>4 DEF ReadSoFar
  <2>4. at' \in Nat /\ read' \in Seq(ReadType)
    BY <1>1, <1>2, <1>9, <2>1 DEF e
  <2>5. QED
    BY <2>2, <2>3, <2>4 DEF ReadInv
<1>13. QED
  BY <1>11, <1>12

LEMMA ReadInvHolds ==
  /\ StoreInit => ReadInv
  /\ StreamInv /\ ReadInv /\ [StoreNext]_storeVars => ReadInv'
<1>1. ASSUME StoreInit PROVE ReadInv
  <2>1. read = <<>> /\ at = 0 /\ phase = "writing"
    BY <1>1 DEF StoreInit
  <2>2. <<>> \in Seq(ReadType) /\ ToSet(<<>>) = {}
    BY EmptySeq DEF ToSet
  <2>3. read \in Seq(ReadType) /\ ToSet(read) = {}
    BY <2>1, <2>2, Zenon
  <2>4. QED
    BY <2>1, <2>3 DEF ReadInv
<1>2. ASSUME StreamInv, ReadInv, [StoreNext]_storeVars PROVE ReadInv'
  <2>1. ASSUME tears \subseteq tears', ToSet(written) \subseteq ToSet(written'), read' = read
        PROVE  \A g \in ToSet(read') : Known(g)'
    <3>1. \A g \in ReadType : Known(g) => Known(g)'
      BY <2>1, KnownStays
    <3>2. ToSet(read) \subseteq ReadType /\ \A g \in ToSet(read) : Known(g)
      BY <1>2, LenProperties DEF ReadInv, ToSet
    <3>3. QED
      BY <2>1, <3>1, <3>2
  <2>2. ASSUME NEW r \in Records, WriteChampionRecord(r) \/ TornWrite(r)
        PROVE  ReadInv'
    <3>1. /\ \E e \in EntryType : written' = Append(written, e)
          /\ tears \subseteq tears' /\ UNCHANGED <<at, read>> /\ phase' # "reading"
      <4>1. Len(stream) \in Nat
        BY <1>2, LenProperties DEF StreamInv, StreamIs
      <4>2. \A a \in BOOLEAN : Entry(r, Len(stream), a) \in EntryType
        BY <4>1 DEF Entry, EntryType
      <4>3. QED
        BY <2>2, <4>2 DEF WriteChampionRecord, TornWrite
    <3>2. ToSet(written) \subseteq ToSet(written')
      <4>1. PICK e \in EntryType : written' = Append(written, e)
        BY <3>1
      <4>2. written \in Seq(EntryType) /\ Len(written) \in Nat
        BY <1>2, LenProperties DEF StreamInv, StreamIs
      <4>3. /\ written' \in Seq(EntryType) /\ Len(written') = Len(written) + 1
            /\ \A i \in 1..Len(written) : written'[i] = written[i]
        BY <4>1, <4>2, AppendProperties
      <4>4. DOMAIN written = 1..Len(written) /\ DOMAIN written' = 1..Len(written')
        BY <4>2, <4>3, LenProperties
      <4>5. \A i \in DOMAIN written : i \in DOMAIN written' /\ written'[i] = written[i]
        BY <4>2, <4>3, <4>4
      <4>6. QED
        BY <4>5 DEF ToSet
    <3>3. \A g \in ToSet(read') : Known(g)'
      BY <2>1, <3>1, <3>2
    <3>4. QED
      BY <1>2, <3>1, <3>3 DEF ReadInv
  <2>3. CASE Restart
    <3>1. read' = <<>> /\ at' = 0 /\ record' = NoRecord /\ UNCHANGED <<stream, written, tears>>
      BY <2>3 DEF Restart
    <3>2. <<>> \in Seq(ReadType) /\ ToSet(<<>>) = {} /\ Len(<<>>) = 0
      BY EmptySeq DEF ToSet
    <3>3. read' \in Seq(ReadType) /\ ToSet(read') = {} /\ Len(read') = 0
      BY <3>1, <3>2, Zenon
    <3>4. ReadSoFar'
      BY <3>1, <3>3 DEF ReadSoFar
    <3>5. QED
      BY <3>1, <3>3, <3>4 DEF ReadInv
  <2>4. CASE ReadChampionRecord
    BY <1>2, <2>4, ReadKeepsReadSoFar
  <2>5. CASE Resume
    <3>1. UNCHANGED <<at, read, written, tears>> /\ phase' # "reading"
      BY <2>5 DEF Resume
    <3>2. \A g \in ToSet(read') : Known(g)'
      BY <2>1, <3>1
    <3>3. QED
      BY <1>2, <3>1, <3>2 DEF ReadInv
  <2>6. CASE UNCHANGED storeVars
    <3>1. UNCHANGED <<stream, phase, at, record, read, written, tears>>
      BY <2>6 DEF storeVars
    <3>2. \A g \in ToSet(read') : Known(g)'
      BY <2>1, <3>1
    <3>3. ReadSoFar => ReadSoFar'
      BY <3>1 DEF ReadSoFar, StartsLine, ReadAs, LineAt, LineEnd
    <3>4. QED
      BY <1>2, <3>1, <3>2, <3>3 DEF ReadInv
  <2>7. QED
    BY <1>2, <2>2, <2>3, <2>4, <2>5, <2>6 DEF StoreNext
<1>3. QED
  BY <1>1, <1>2

\* What the store holds, and what has been read of it, in every reachable
\* state: writes lie one behind the other on the medium, each whole or torn
\* (WriteChampionRecord), and behind the read position every acceptable line
\* has been read, in order, and nothing that is not known (ReadChampionRecord).
THEOREM StoreIsRead == StoreSpec => [](StreamInv /\ ReadInv)
<1>1. StoreInit => StreamInv /\ ReadInv
  BY StreamInvHolds, ReadInvHolds
<1>2. StreamInv /\ ReadInv /\ [StoreNext]_storeVars => (StreamInv /\ ReadInv)'
  BY StreamInvHolds, ReadInvHolds
<1>3. QED
  BY <1>1, <1>2, PTL DEF StoreSpec

\* A write that returned true is found again after every restart, whatever is
\* torn or broken on the medium besides it: ReadChampionRecord passes over a
\* line it refuses and goes on with the next.
THEOREM AcknowledgedIsRead == StoreSpec => []AcknowledgedAreRead
<1>1. ASSUME StreamInv, ReadInv PROVE AcknowledgedAreRead
  <2> SUFFICES ASSUME phase = "reading", at >= Len(stream)
               PROVE  /\ \A w \in ToSet(written) :
                           w.acknowledged /\ Broken \notin ToSet(w.record.texts) /\ ~BehindTear(w) =>
                             \E g \in ToSet(read) : g.record = w.record /\ g.from = w.from
                      /\ \A i, j \in DOMAIN read : i < j => read[i].to <= read[j].from
                      /\ record = IF read = <<>> THEN NoRecord ELSE Last(read).record
    BY DEF AcknowledgedAreRead
  <2>1. ReadSoFar /\ DOMAIN read = 1..Len(read) /\ at \in Nat
    BY <1>1, LenProperties DEF ReadInv
  <2>2. DOMAIN written = 1..Len(written) /\ Len(stream) \in Nat
    BY <1>1, LenProperties DEF StreamInv, StreamIs
  <2>3. ASSUME NEW w \in ToSet(written),
               w.acknowledged, Broken \notin ToSet(w.record.texts), ~BehindTear(w)
        PROVE  \E g \in ToSet(read) : g.record = w.record /\ g.from = w.from
    <3>1. PICK i \in 1..Len(written) : w = written[i]
      BY <2>2 DEF ToSet
    <3> DEFINE p == w.from
    <3>2. /\ p \in 0..(Len(stream) - 1) /\ (p = 0 \/ stream[p] = Newline)
          /\ Accepts(LineAt(p)) /\ Parsed(Words(LineAt(p)).words) = w.record
      BY <1>1, <2>3, <3>1, AcknowledgedIsAccepted
    <3> HIDE DEF p
    <3>3. p < at /\ StartsLine(p)
      BY <2>1, <2>2, <3>2 DEF StartsLine
    <3>4. PICK k \in 1..Len(read) : read[k] = ReadAs(p)
      BY <2>1, <3>2, <3>3 DEF ReadSoFar
    <3>5. read[k] \in ToSet(read)
      BY <2>1, <3>4 DEF ToSet
    <3>6. read[k].record = w.record /\ read[k].from = w.from
      BY <3>2, <3>4 DEF ReadAs, p
    <3>7. QED
      BY <3>5, <3>6
  <2>4. \A i, j \in DOMAIN read : i < j => read[i].to <= read[j].from
    BY <2>1 DEF ReadSoFar
  <2>5. record = IF read = <<>> THEN NoRecord ELSE Last(read).record
    BY <2>1 DEF ReadSoFar
  <2>6. QED
    BY <2>3, <2>4, <2>5
<1>2. QED
  BY <1>1, StoreIsRead, PTL

\* One torn write on a line makes no record that nobody wrote.
THEOREM OneTearIsNoRecord == StoreSpec => []OneTearMakesNoRecord
<1>1. ReadInv => OneTearMakesNoRecord
  BY DEF ReadInv, Known, OneTearMakesNoRecord
<1>2. QED
  BY <1>1, StoreIsRead, PTL
====
