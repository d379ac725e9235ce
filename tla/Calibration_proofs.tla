------------------------- MODULE Calibration_proofs -------------------------
(***************************************************************************)
(* What the bands of a calibration answer, for every list of points, every *)
(* evidence and policy, every buffer and whatever the buffer held before.  *)
(***************************************************************************)
EXTENDS Calibration, OrderLemmas

LEMMA FirstIsLeast ==
  ASSUME NEW S, S \subseteq Nat, S # {}
  PROVE  First(S) \in S /\ \A j \in S : First(S) <= j
  BY LeastNatural DEF First

-----------------------------------------------------------------------------
(* The choice at one point                                                 *)

LEMMA EvidenceType ==
  ASSUME NEW evidence \in Evidences
  PROVE  /\ DOMAIN evidence \subseteq Nat
         /\ IsFiniteSet(DOMAIN evidence)
         /\ \A i \in DOMAIN evidence :
              evidence[i] \in [id : Nat, samples : Nat, total : Int, correct : BOOLEAN]
<1> DEFINE E == [id : Nat, samples : Nat, total : Int, correct : BOOLEAN]
<1>1. evidence \in Seq(E)
  BY EvidencesAssumption
<1> HIDE DEF E
<1>2. DOMAIN evidence = 1..Len(evidence) /\ Len(evidence) \in Nat
      /\ \A i \in DOMAIN evidence : evidence[i] \in E
  BY <1>1
<1>3. IsFiniteSet(DOMAIN evidence)
  BY <1>2, FS_Interval
<1>4. QED
  BY <1>2, <1>3 DEF E

\* A candidate that is eligible has samples behind its mean.
LEMMA EligibleHasSamples ==
  ASSUME NEW evidence \in Evidences, NEW p \in Policies, PolicyValid(p),
         NEW i \in DOMAIN evidence, Eligible(evidence[i], p)
  PROVE  evidence[i].samples \in Nat \ {0} /\ evidence[i].total \in Nat
<1>1. evidence[i] \in [id : Nat, samples : Nat, total : Int, correct : BOOLEAN]
  BY EvidenceType
<1>2. p.minimumSamples \in Int /\ p.minimumSamples > 0
  BY PoliciesAssumption DEF PolicyValid
<1>3. QED
  BY <1>1, <1>2 DEF Eligible

\* Among eligible challengers there is a cheapest.
LEMMA CheapestExists ==
  ASSUME NEW evidence \in Evidences, NEW p \in Policies, PolicyValid(p),
         Challengers(evidence, p) # {}
  PROVE  Cheapest(evidence, Challengers(evidence, p)) # {}
<1> DEFINE S == Challengers(evidence, p)
           R == {ij \in S \X S : Cheaper(evidence[ij[1]], evidence[ij[2]])}
<1>1. S \subseteq DOMAIN evidence
  BY DEF Challengers
<1>2. IsFiniteSet(S)
  BY <1>1, EvidenceType, FS_Subset
<1>3. \A i \in S : evidence[i].samples \in Nat \ {0} /\ evidence[i].total \in Nat
  BY EligibleHasSamples DEF Challengers
<1>4. \A i, j \in S : <<i, j>> \in R <=> Cheaper(evidence[i], evidence[j])
  OBVIOUS
<1>5. ASSUME NEW i \in S, NEW j \in S, Cheaper(evidence[i], evidence[j])
      PROVE  ~Cheaper(evidence[j], evidence[i])
  <2>1. /\ evidence[i].total * evidence[j].samples \in Int
        /\ evidence[j].total * evidence[i].samples \in Int
    BY <1>3
  <2>2. QED
    BY <1>5, <2>1 DEF Cheaper
<1>6. ASSUME NEW i \in S, NEW j \in S, NEW k \in S,
             Cheaper(evidence[i], evidence[j]), Cheaper(evidence[j], evidence[k])
      PROVE  Cheaper(evidence[i], evidence[k])
  <2>1. ~Cheaper(evidence[k], evidence[j])
    BY <1>5, <1>6
  <2>2. QED
    BY <1>3, <1>6, <2>1, QuotientOrder DEF Cheaper
<1>7. S # {}
  OBVIOUS
<1> HIDE DEF R, S
<1>8. \E i \in S : \A j \in S : <<j, i>> \notin R
  BY <1>2, <1>4, <1>5, <1>6, <1>7, MinimalExists
<1>9. \E i \in S : \A j \in S : ~Cheaper(evidence[j], evidence[i])
  BY <1>4, <1>8
<1>10. QED
  BY <1>9 DEF Cheapest, S

\* An optimisation is only chosen when it is eligible and cheaper than an
\* eligible baseline.
LEMMA ChoicePaysOff ==
  ASSUME NEW evidence \in Evidences, NEW p \in Policies,
         ChooseNetBenefitChampion(evidence, p).champion # Baseline
  PROVE  \E c, b \in DOMAIN evidence :
           /\ evidence[c].id = ChooseNetBenefitChampion(evidence, p).champion
           /\ Eligible(evidence[c], p)
           /\ evidence[b].id = Baseline
           /\ Eligible(evidence[b], p)
           /\ Cheaper(evidence[c], evidence[b])
<1> DEFINE S == Challengers(evidence, p)
           b == First(Baselines(evidence))
           c == First(Cheapest(evidence, S))
<1>1. /\ PolicyValid(p) /\ Baselines(evidence) # {}
      /\ Eligible(evidence[b], p) /\ S # {}
      /\ Cheaper(evidence[c], evidence[b])
      /\ ChooseNetBenefitChampion(evidence, p).champion = evidence[c].id
  BY DEF ChooseNetBenefitChampion, Choice
<1>2. DOMAIN evidence \subseteq Nat
  BY EvidenceType
<1>3. b \in Baselines(evidence)
  BY <1>1, <1>2, FirstIsLeast DEF Baselines
<1>4. c \in Cheapest(evidence, S)
  BY <1>1, <1>2, FirstIsLeast, CheapestExists DEF Cheapest, Challengers
<1>5. QED
  BY <1>1, <1>3, <1>4 DEF Baselines, Cheapest, Challengers

LEMMA ChampionIsId ==
  ASSUME NEW evidence \in Evidences, NEW p \in Policies
  PROVE  ChooseNetBenefitChampion(evidence, p).champion \in Nat
<1>1. CASE ChooseNetBenefitChampion(evidence, p).champion = Baseline
  BY <1>1 DEF Baseline
<1>2. CASE ChooseNetBenefitChampion(evidence, p).champion # Baseline
  BY <1>2, ChoicePaysOff, EvidenceType
<1>3. QED
  BY <1>1, <1>2

-----------------------------------------------------------------------------
(* Types                                                                   *)

THEOREM TypeCorrect == Spec => []TypeOK
<1>1. Init => TypeOK
  BY CapacityAssumption DEF Init, TypeOK, Band, Baseline, Issues
<1>2. TypeOK /\ [Next]_vars => TypeOK'
  <2> SUFFICES ASSUME TypeOK, [Next]_vars PROVE TypeOK'
    OBVIOUS
  <2> USE DEF TypeOK
  <2>1. ASSUME NEW p \in Policies, Start(p) PROVE TypeOK'
    BY <2>1, CapacityAssumption DEF Start, Baseline, Issues
  <2>2. ASSUME NEW point \in Points, RejectPoint(point) PROVE TypeOK'
    BY <2>2 DEF RejectPoint, PointIssue, Issues
  <2>3. ASSUME NEW point \in Points, RunOutOfBands(point) PROVE TypeOK'
    BY <2>3 DEF RunOutOfBands, Issues
  <2>4. ASSUME NEW point \in Points, OpenBand(point) PROVE TypeOK'
    <3>1. ChampionAt(point) \in Nat
      BY ChampionIsId DEF ChampionAt, Points
    <3>2. written' \in 0..Capacity
      BY <2>4, CapacityAssumption DEF OpenBand
    <3>3. bands' \in [1..Capacity -> [maximum : Sizes \union {0}, champion : Nat]]
      BY <2>4, <3>1, CapacityAssumption DEF OpenBand, Band, Points
    <3>4. points' \in Seq(Points) /\ reported' \in Nat
      BY <2>4 DEF OpenBand
    <3>5. QED
      BY <2>4, <3>1, <3>2, <3>3, <3>4 DEF OpenBand
  <2>5. ASSUME NEW point \in Points, ExtendBand(point) PROVE TypeOK'
    <3>1. bands' \in [1..Capacity -> [maximum : Sizes \union {0}, champion : Nat]]
      BY <2>5, CapacityAssumption DEF ExtendBand, Points
    <3>2. points' \in Seq(Points) /\ reported' \in Nat
      BY <2>5 DEF ExtendBand
    <3>3. QED
      BY <2>5, <3>1, <3>2 DEF ExtendBand
  <2>6. CASE Finish
    BY <2>6 DEF Finish, Issues
  <2>7. CASE UNCHANGED vars
    BY <2>7 DEF vars
  <2>8. QED
    BY <2>1, <2>2, <2>3, <2>4, <2>5, <2>6, <2>7 DEF Next
<1>3. QED
  BY <1>1, <1>2, PTL DEF Spec

-----------------------------------------------------------------------------
(* The bands and the points they stand for                                 *)

PointsAscend ==
  \A i, j \in DOMAIN points : i < j => points[i].size < points[j].size

BandsAscend ==
  \A j, k \in 1..written : j < k => bands[j].maximum < bands[k].maximum

\* The last band ends at the last point and names the champion before.
LastBand ==
  /\ written = 0 <=> points = <<>>
  /\ written # 0 => /\ bands[written].maximum = points[Len(points)].size
                    /\ bands[written].champion = previous

\* Band k answers for point i.
Holds(k, i) ==
  /\ points[i].size <= bands[k].maximum
  /\ k # 1 => bands[k - 1].maximum < points[i].size
  /\ bands[k].champion = ChampionAt(points[i])

EveryPointHasItsBand == \A i \in DOMAIN points : \E k \in 1..written : Holds(k, i)

BandsEndAtPoints ==
  \A k \in 1..written : \E i \in DOMAIN points : points[i].size = bands[k].maximum

IInv ==
  /\ TypeOK
  /\ BandsAreCanonical
  /\ BandsAscend
  /\ PointsAscend
  /\ LastBand
  /\ EveryPointHasItsBand
  /\ BandsEndAtPoints

\* What both ways of taking a point into the bands do to the points.
LEMMA TakenPoint ==
  ASSUME TypeOK, PointsAscend, NEW point \in Points, PointIssue(point) = "None",
         points' = Append(points, point)
  PROVE  /\ Len(points) \in Nat
         /\ DOMAIN points = 1..Len(points)
         /\ DOMAIN points' = 1..(Len(points) + 1)
         /\ Len(points') = Len(points) + 1
         /\ points'[Len(points) + 1] = point
         /\ \A i \in DOMAIN points : /\ points'[i] = points[i]
                                     /\ points[i].size \in Nat
                                     /\ points[i].size < point.size
         /\ point.size \in Nat
         /\ PointsAscend'
<1>1. points \in Seq(Points)
  BY DEF TypeOK
<1>2. /\ Len(points) \in Nat
      /\ DOMAIN points = 1..Len(points)
      /\ DOMAIN points' = 1..(Len(points) + 1)
      /\ Len(points') = Len(points) + 1
      /\ points'[Len(points) + 1] = point
      /\ \A i \in DOMAIN points : points'[i] = points[i] /\ points[i] \in Points
  BY <1>1
<1>3. /\ \A i \in DOMAIN points : points[i].size \in Nat
      /\ point.size \in Nat
  BY <1>2, SizesAssumption DEF Points
<1>4. ASSUME NEW i \in DOMAIN points PROVE points[i].size < point.size
  <2>1. points # <<>> /\ Len(points) \in DOMAIN points
    BY <1>2
  <2>2. ~(point.size <= points[Len(points)].size)
    BY <2>1 DEF PointIssue
  <2>3. i = Len(points) \/ points[i].size < points[Len(points)].size
    BY <1>2, <2>1 DEF PointsAscend
  <2>4. QED
    BY <1>3, <2>1, <2>2, <2>3
<1>5. PointsAscend'
  <2>1. SUFFICES ASSUME NEW i \in DOMAIN points', NEW j \in DOMAIN points', i < j
                 PROVE  points'[i].size < points'[j].size
    BY DEF PointsAscend
  <2>2. i \in DOMAIN points
    BY <1>2, <2>1
  <2>3. CASE j = Len(points) + 1
    BY <1>2, <1>4, <2>2, <2>3
  <2>4. CASE j \in DOMAIN points
    BY <1>2, <2>1, <2>2, <2>4 DEF PointsAscend
  <2>5. QED
    BY <1>2, <2>3, <2>4
<1>6. QED
  BY <1>2, <1>3, <1>4, <1>5

LEMMA OpenBandKeeps ==
  ASSUME IInv, TypeOK', NEW point \in Points, OpenBand(point)
  PROVE  IInv'
<1> DEFINE n == Len(points) + 1
           k == written + 1
<1>1. /\ PointIssue(point) = "None" /\ points' = Append(points, point)
      /\ policy' = policy /\ written' = k /\ written < Capacity
      /\ previous' = ChampionAt(point)
      /\ bands' = [bands EXCEPT ![k] = Band(point.size, ChampionAt(point))]
  BY DEF OpenBand
<1>2. /\ Len(points) \in Nat /\ DOMAIN points = 1..Len(points)
      /\ DOMAIN points' = 1..n /\ Len(points') = n /\ points'[n] = point
      /\ \A i \in DOMAIN points : /\ points'[i] = points[i]
                                  /\ points[i].size \in Nat
                                  /\ points[i].size < point.size
      /\ point.size \in Nat
      /\ PointsAscend'
  BY <1>1, TakenPoint DEF IInv
<1>0. \A j, i : Holds(j, i)' <=>
        /\ points'[i].size <= bands'[j].maximum
        /\ j # 1 => bands'[j - 1].maximum < points'[i].size
        /\ bands'[j].champion = ChampionAt(points'[i])
  BY <1>1 DEF Holds, ChampionAt
<1>3. written \in Nat /\ k \in 1..Capacity
  BY <1>1, CapacityAssumption DEF IInv, TypeOK
<1>4. /\ bands'[k].maximum = point.size
      /\ bands'[k].champion = ChampionAt(point)
      /\ \A j \in 1..written : bands'[j] = bands[j]
  BY <1>1, <1>3, CapacityAssumption DEF IInv, TypeOK, Band
<1>5. written # 0 => /\ bands[written].maximum < point.size
                     /\ bands[written].champion # ChampionAt(point)
  <2>1. SUFFICES ASSUME written # 0
                 PROVE  /\ bands[written].maximum < point.size
                        /\ bands[written].champion # ChampionAt(point)
    OBVIOUS
  <2>2. points # <<>> /\ Len(points) \in DOMAIN points
    BY <1>2, <2>1 DEF IInv, LastBand
  <2>3. ChampionAt(point) # previous
    BY <2>1 DEF OpenBand, OpensBand
  <2>4. QED
    BY <1>2, <2>1, <2>2, <2>3 DEF IInv, LastBand
<1>6. BandsAreCanonical'
  <2>1. SUFFICES ASSUME NEW j \in 2..k
                 PROVE  /\ bands'[j - 1].maximum < bands'[j].maximum
                        /\ bands'[j - 1].champion # bands'[j].champion
    BY <1>1 DEF BandsAreCanonical
  <2>2. CASE j = k
    BY <1>3, <1>4, <1>5, <2>2
  <2>3. CASE j \in 2..written
    BY <1>3, <1>4, <2>3 DEF IInv, BandsAreCanonical
  <2>4. QED
    BY <1>3, <2>2, <2>3
<1>7. LastBand'
  BY <1>1, <1>2, <1>3, <1>4 DEF LastBand
<1>8. EveryPointHasItsBand'
  <2>1. SUFFICES ASSUME NEW i \in 1..n PROVE \E j \in 1..k : Holds(j, i)'
    BY <1>1, <1>2 DEF EveryPointHasItsBand
  <2>2. CASE i = n
    <3>1. k # 1 => bands'[k - 1].maximum < point.size
      BY <1>3, <1>4, <1>5
    <3>2. k \in 1..k /\ point.size <= bands'[k].maximum
      BY <1>2, <1>3, <1>4
    <3>3. QED
      BY <1>0, <1>2, <1>4, <2>2, <3>1, <3>2
  <2>3. CASE i \in DOMAIN points
    <3>1. PICK j \in 1..written : Holds(j, i)
      BY <2>3 DEF IInv, EveryPointHasItsBand
    <3>2. bands'[j] = bands[j] /\ (j # 1 => bands'[j - 1] = bands[j - 1])
      BY <1>3, <1>4
    <3>3. Holds(j, i)'
      BY <1>0, <1>2, <2>3, <3>1, <3>2 DEF Holds
    <3>4. QED
      BY <1>3, <3>3
  <2>4. QED
    BY <1>2, <2>2, <2>3
<1>9. BandsEndAtPoints'
  <2>1. SUFFICES ASSUME NEW j \in 1..k
                 PROVE  \E i \in 1..n : points'[i].size = bands'[j].maximum
    BY <1>1, <1>2 DEF BandsEndAtPoints
  <2>2. CASE j = k
    BY <1>2, <1>4, <2>2
  <2>3. CASE j \in 1..written
    <3>1. PICK i \in DOMAIN points : points[i].size = bands[j].maximum
      BY <2>3 DEF IInv, BandsEndAtPoints
    <3>2. QED
      BY <1>2, <1>4, <2>3, <3>1
  <2>4. QED
    BY <1>3, <2>2, <2>3
<1>10. BandsAscend'
  <2>1. SUFFICES ASSUME NEW j \in 1..k, NEW h \in 1..k, j < h
                 PROVE  bands'[j].maximum < bands'[h].maximum
    BY <1>1 DEF BandsAscend
  <2>2. j \in 1..written /\ bands'[j] = bands[j]
    BY <1>3, <1>4, <2>1
  <2>3. CASE h = k
    <3>1. PICK i \in DOMAIN points : points[i].size = bands[j].maximum
      BY <2>2 DEF IInv, BandsEndAtPoints
    <3>2. QED
      BY <1>2, <1>4, <2>2, <2>3, <3>1
  <2>4. CASE h # k
    BY <1>3, <1>4, <2>1, <2>2, <2>4 DEF IInv, BandsAscend
  <2>5. QED
    BY <2>3, <2>4
<1>11. QED
  BY <1>2, <1>6, <1>7, <1>8, <1>9, <1>10 DEF IInv

LEMMA ExtendBandKeeps ==
  ASSUME IInv, TypeOK', NEW point \in Points, ExtendBand(point)
  PROVE  IInv'
<1> DEFINE n == Len(points) + 1
<1>1. /\ PointIssue(point) = "None" /\ points' = Append(points, point)
      /\ policy' = policy /\ written' = written /\ previous' = previous
      /\ bands' = [bands EXCEPT ![written].maximum = point.size]
      /\ written # 0 /\ ChampionAt(point) = previous
  BY DEF ExtendBand, OpensBand
<1>2. /\ Len(points) \in Nat /\ DOMAIN points = 1..Len(points)
      /\ DOMAIN points' = 1..n /\ Len(points') = n /\ points'[n] = point
      /\ \A i \in DOMAIN points : /\ points'[i] = points[i]
                                  /\ points[i].size \in Nat
                                  /\ points[i].size < point.size
      /\ point.size \in Nat
      /\ PointsAscend'
  BY <1>1, TakenPoint DEF IInv
<1>0. \A j, i : Holds(j, i)' <=>
        /\ points'[i].size <= bands'[j].maximum
        /\ j # 1 => bands'[j - 1].maximum < points'[i].size
        /\ bands'[j].champion = ChampionAt(points'[i])
  BY <1>1 DEF Holds, ChampionAt
<1>3. written \in 1..Capacity
  BY <1>1, CapacityAssumption DEF IInv, TypeOK
<1>4. Len(points) \in DOMAIN points /\ bands[written].maximum = points[Len(points)].size
      /\ bands[written].champion = previous
  BY <1>1, <1>2 DEF IInv, LastBand
<1>5. /\ bands'[written].maximum = point.size
      /\ bands'[written].champion = previous
      /\ \A j \in 1..written : j # written => bands'[j] = bands[j]
  BY <1>1, <1>3, <1>4, CapacityAssumption DEF IInv, TypeOK
<1>6. BandsAreCanonical'
  <2>1. SUFFICES ASSUME NEW j \in 2..written
                 PROVE  /\ bands'[j - 1].maximum < bands'[j].maximum
                        /\ bands'[j - 1].champion # bands'[j].champion
    BY <1>1 DEF BandsAreCanonical
  <2>2. /\ bands[j - 1].maximum < bands[j].maximum
        /\ bands[j - 1].champion # bands[j].champion
        /\ bands'[j - 1] = bands[j - 1]
    BY <1>3, <1>5 DEF IInv, BandsAreCanonical
  <2>3. CASE j = written
    <3>1. PICK i \in DOMAIN points : points[i].size = bands[j - 1].maximum
      BY <1>3 DEF IInv, BandsEndAtPoints
    <3>2. QED
      BY <1>2, <1>4, <1>5, <2>2, <2>3, <3>1
  <2>4. CASE j # written
    BY <1>3, <1>5, <2>2, <2>4
  <2>5. QED
    BY <2>3, <2>4
<1>7. LastBand'
  BY <1>1, <1>2, <1>3, <1>5 DEF LastBand
<1>8. EveryPointHasItsBand'
  <2>1. SUFFICES ASSUME NEW i \in 1..n PROVE \E j \in 1..written : Holds(j, i)'
    BY <1>1, <1>2 DEF EveryPointHasItsBand
  <2>2. CASE i = n
    <3>1. written # 1 => /\ bands'[written - 1].maximum < point.size
      <4>1. SUFFICES ASSUME written # 1 PROVE bands'[written - 1].maximum < point.size
        OBVIOUS
      <4>2. PICK m \in DOMAIN points : points[m].size = bands[written - 1].maximum
        BY <1>3, <4>1 DEF IInv, BandsEndAtPoints
      <4>3. QED
        BY <1>2, <1>3, <1>5, <4>1, <4>2
    <3>2. written \in 1..written /\ point.size <= bands'[written].maximum
      BY <1>2, <1>3, <1>5
    <3>3. QED
      BY <1>0, <1>1, <1>2, <1>5, <2>2, <3>1, <3>2
  <2>3. CASE i \in DOMAIN points
    <3>1. PICK j \in 1..written : Holds(j, i)
      BY <2>3 DEF IInv, EveryPointHasItsBand
    <3>2. j # 1 => bands'[j - 1] = bands[j - 1]
      BY <1>3, <1>5
    <3>3. /\ points[i].size <= bands'[j].maximum
          /\ bands'[j].champion = bands[j].champion
      <4>1. CASE j = written
        BY <1>2, <1>4, <1>5, <2>3, <4>1
      <4>2. CASE j # written
        BY <1>3, <1>5, <3>1, <4>2 DEF Holds
      <4>3. QED
        BY <4>1, <4>2
    <3>4. Holds(j, i)'
      BY <1>0, <1>2, <2>3, <3>1, <3>2, <3>3 DEF Holds
    <3>5. QED
      BY <3>4
  <2>4. QED
    BY <1>2, <2>2, <2>3
<1>9. BandsEndAtPoints'
  <2>1. SUFFICES ASSUME NEW j \in 1..written
                 PROVE  \E i \in 1..n : points'[i].size = bands'[j].maximum
    BY <1>1, <1>2 DEF BandsEndAtPoints
  <2>2. CASE j = written
    BY <1>2, <1>5, <2>2
  <2>3. CASE j # written
    <3>1. PICK i \in DOMAIN points : points[i].size = bands[j].maximum
      BY DEF IInv, BandsEndAtPoints
    <3>2. QED
      BY <1>2, <1>5, <2>3, <3>1
  <2>4. QED
    BY <2>2, <2>3
<1>10. BandsAscend'
  <2>1. SUFFICES ASSUME NEW j \in 1..written, NEW h \in 1..written, j < h
                 PROVE  bands'[j].maximum < bands'[h].maximum
    BY <1>1 DEF BandsAscend
  <2>2. j \in 1..written /\ bands'[j] = bands[j]
    BY <1>3, <1>5, <2>1
  <2>3. CASE h = written
    <3>1. PICK i \in DOMAIN points : points[i].size = bands[j].maximum
      BY <2>2 DEF IInv, BandsEndAtPoints
    <3>2. QED
      BY <1>2, <1>5, <2>2, <2>3, <3>1
  <2>4. CASE h # written
    BY <1>3, <1>5, <2>1, <2>2, <2>4 DEF IInv, BandsAscend
  <2>5. QED
    BY <2>3, <2>4
<1>11. QED
  BY <1>2, <1>6, <1>7, <1>8, <1>9, <1>10 DEF IInv

LEMMA Inductive == Spec => []IInv
<1>1. Init => IInv
  <2>1. Init => TypeOK
    BY CapacityAssumption DEF Init, TypeOK, Band, Baseline, Issues
  <2>2. QED
    BY <2>1 DEF Init, IInv, BandsAreCanonical, BandsAscend, PointsAscend, LastBand,
                EveryPointHasItsBand, BandsEndAtPoints
<1>2. IInv /\ TypeOK' /\ [Next]_vars => IInv'
  <2> SUFFICES ASSUME IInv, TypeOK', [Next]_vars PROVE IInv'
    OBVIOUS
  <2>1. ASSUME NEW p \in Policies, Start(p) PROVE IInv'
    BY <2>1 DEF Start, IInv, BandsAreCanonical, BandsAscend, PointsAscend, LastBand,
                EveryPointHasItsBand, BandsEndAtPoints
  <2>2. ASSUME UNCHANGED <<bands, points, written, previous, policy>> PROVE IInv'
    BY <2>2 DEF IInv, BandsAreCanonical, BandsAscend, PointsAscend, LastBand, Holds,
                ChampionAt, EveryPointHasItsBand, BandsEndAtPoints
  <2>3. ASSUME NEW point \in Points, RejectPoint(point) PROVE IInv'
    BY <2>2, <2>3 DEF RejectPoint
  <2>4. ASSUME NEW point \in Points, RunOutOfBands(point) PROVE IInv'
    BY <2>2, <2>4 DEF RunOutOfBands
  <2>5. CASE Finish
    BY <2>2, <2>5 DEF Finish
  <2>6. CASE UNCHANGED vars
    BY <2>2, <2>6 DEF vars
  <2>7. QED
    BY <2>1, <2>3, <2>4, <2>5, <2>6, OpenBandKeeps, ExtendBandKeeps DEF Next
<1>3. QED
  BY <1>1, <1>2, TypeCorrect, PTL DEF Spec

\* No table the loop writes has a needless band or fails its validation.
THEOREM CanonicalBands == Spec => []BandsAreCanonical
<1>1. IInv => BandsAreCanonical
  BY DEF IInv
<1>2. QED
  BY <1>1, Inductive, PTL

-----------------------------------------------------------------------------
(* The lookup                                                              *)

\* The first band that reaches a size is the band of the first measured point
\* the size has not outgrown, because bands end at points.
LEMMA LookupFollowsPoints ==
  ASSUME IInv, NEW size \in Nat, NEW fallback
  PROVE  SelectCrossoverChampion(Table, size, fallback) =
           IF MeasuredFrom(size) = {} THEN fallback
           ELSE ChampionAt(points[First(MeasuredFrom(size))])
<1> DEFINE fitting == {k \in DOMAIN Table : size <= Table[k].maximum}
<1>1. /\ written \in 0..Capacity /\ written \in Nat
      /\ Len(points) \in Nat /\ DOMAIN points = 1..Len(points)
      /\ \A i \in DOMAIN points : points[i].size \in Nat
  <2>1. points \in Seq(Points) /\ written \in 0..Capacity
    BY DEF IInv, TypeOK
  <2>2. \A p \in Points : p.size \in Nat
    BY SizesAssumption DEF Points
  <2>3. QED
    BY <2>1, <2>2, CapacityAssumption
<1>2. /\ DOMAIN Table = 1..written
      /\ \A k \in 1..written : Table[k] = bands[k] /\ Table[k].maximum \in Nat
  <2>1. \A k \in 1..written : k \in 1..Capacity
    BY <1>1, CapacityAssumption
  <2>2. \A k \in 1..written : bands[k].maximum \in Nat
    <3>1. bands \in [1..Capacity -> [maximum : Sizes \union {0}, champion : Nat]]
      BY DEF IInv, TypeOK
    <3>2. \A k \in 1..Capacity : bands[k].maximum \in Sizes \union {0}
      BY <3>1
    <3>3. Sizes \union {0} \subseteq Nat
      BY SizesAssumption
    <3>4. QED
      BY <2>1, <3>2, <3>3
  <2>3. QED
    BY <2>2 DEF Table
<1>3. fitting \subseteq Nat /\ MeasuredFrom(size) \subseteq Nat
  BY <1>1, <1>2 DEF MeasuredFrom
<1>4. ASSUME NEW k \in fitting PROVE MeasuredFrom(size) # {}
  <2>1. PICK i \in DOMAIN points : points[i].size = bands[k].maximum
    BY <1>2, <1>4 DEF IInv, BandsEndAtPoints
  <2>2. QED
    BY <1>2, <2>1 DEF MeasuredFrom
<1>5. CASE MeasuredFrom(size) = {}
  BY <1>4, <1>5 DEF SelectCrossoverChampion
<1>6. CASE MeasuredFrom(size) # {}
  <2> DEFINE i == First(MeasuredFrom(size))
  <2>1. /\ i \in DOMAIN points /\ size <= points[i].size
        /\ \A j \in DOMAIN points : size <= points[j].size => i <= j
    BY <1>3, <1>6, FirstIsLeast DEF MeasuredFrom
  <2>2. PICK k \in 1..written : Holds(k, i)
    BY <2>1 DEF IInv, EveryPointHasItsBand
  <2> HIDE DEF i
  <2>3. k \in fitting
    BY <1>1, <1>2, <2>1, <2>2 DEF Holds
  <2>4. BandsValid(Table)
    <3>1. Len(Table) = written /\ Table # <<>>
      BY <1>1, <1>2 DEF Table
    <3>2. QED
      BY <1>1, <1>2, <3>1 DEF BandsValid, IInv, BandsAreCanonical
  <2>5. ASSUME NEW j \in fitting PROVE k <= j
    <3>1. SUFFICES ASSUME j < k PROVE FALSE
      BY <1>1, <1>2
    <3>2. PICK m \in DOMAIN points : points[m].size = bands[j].maximum
      BY <1>2 DEF IInv, BandsEndAtPoints
    <3>3. i <= m
      BY <1>2, <2>1, <3>2
    <3>4. points[i].size <= points[m].size
      BY <1>1, <2>1, <3>2, <3>3 DEF IInv, PointsAscend
    <3>5. k # 1 /\ bands[k - 1].maximum < points[i].size
      BY <1>1, <1>2, <2>2, <3>1 DEF Holds
    <3>6. bands[j].maximum <= bands[k - 1].maximum
      BY <1>1, <1>2, <3>1, <3>5 DEF IInv, BandsAscend
    <3>7. QED
      BY <1>1, <1>2, <2>1, <3>2, <3>4, <3>5, <3>6
  <2>6. First(fitting) = k
    <3>1. First(fitting) \in fitting /\ First(fitting) <= k
      BY <1>3, <2>3, FirstIsLeast
    <3>2. QED
      BY <1>1, <1>2, <2>5, <3>1
  <2>7. SelectCrossoverChampion(Table, size, fallback) = bands[k].champion
    BY <1>2, <2>3, <2>4, <2>6 DEF SelectCrossoverChampion
  <2>8. QED
    BY <1>6, <2>2, <2>7 DEF Holds, i
<1>7. QED
  BY <1>5, <1>6

\* Compressing the points into bands loses nothing, on success, after a failure
\* in the middle, and whatever an earlier calibration left in the buffer.
THEOREM LookupIsExact == Spec => []LookupIsNextMeasured
<1>1. IInv => LookupIsNextMeasured
  BY LookupFollowsPoints, SizesAssumption DEF LookupIsNextMeasured
<1>2. QED
  BY <1>1, Inductive, PTL

\* What the lookup answers at a measured size was worth choosing there.
THEOREM AnswersWereEarned == Spec => []AnswersPayOff
<1>1. IInv => AnswersPayOff
  <2>1. SUFFICES ASSUME IInv, NEW i \in DOMAIN points,
                        SelectCrossoverChampion(Table, points[i].size, Baseline) # Baseline
                 PROVE  LET answer   == SelectCrossoverChampion(Table, points[i].size, Baseline)
                            evidence == points[i].candidates
                        IN  \E c, b \in DOMAIN evidence :
                              /\ evidence[c].id = answer /\ evidence[b].id = Baseline
                              /\ Eligible(evidence[c], policy) /\ Eligible(evidence[b], policy)
                              /\ Cheaper(evidence[c], evidence[b])
    BY DEF AnswersPayOff, Eligible
  <2>2. /\ points \in Seq(Points) /\ policy \in Policies
    BY <2>1 DEF IInv, TypeOK
  <2>3. /\ DOMAIN points \subseteq Nat /\ points[i] \in Points
        /\ \A j \in DOMAIN points : points[j].size \in Nat
    <3>1. \A p \in Points : p.size \in Nat
      BY SizesAssumption DEF Points
    <3>2. QED
      BY <2>1, <2>2, <3>1
  <2>4. i \in MeasuredFrom(points[i].size) /\ MeasuredFrom(points[i].size) \subseteq Nat
    BY <2>1, <2>3 DEF MeasuredFrom
  <2>5. First(MeasuredFrom(points[i].size)) = i
    <3>1. /\ First(MeasuredFrom(points[i].size)) \in MeasuredFrom(points[i].size)
          /\ First(MeasuredFrom(points[i].size)) <= i
      BY <2>4, FirstIsLeast
    <3>2. QED
      BY <2>1, <2>3, <3>1 DEF MeasuredFrom, IInv, PointsAscend
  <2>6. SelectCrossoverChampion(Table, points[i].size, Baseline) = ChampionAt(points[i])
    BY <2>1, <2>3, <2>4, <2>5, LookupFollowsPoints
  <2>7. points[i].candidates \in Evidences
    BY <2>3 DEF Points
  <2>8. QED
    BY <2>1, <2>2, <2>6, <2>7, ChoicePaysOff DEF ChampionAt
<1>2. QED
  BY <1>1, Inductive, PTL
=============================================================================
