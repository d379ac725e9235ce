---------------------------- MODULE Calibration ----------------------------
(***************************************************************************)
(* Offline calibration (Tuner/Calibration.cpp): a list of workload points, *)
(* each with the evidence measured at one workload size, is compressed     *)
(* into crossover bands in a buffer the caller owns, and the run-time      *)
(* lookup (Tuner/Context.cpp) answers workload sizes from those bands.     *)
(*                                                                         *)
(* BuildCrossoverCalibration reads its points one by one and returns from  *)
(* the middle of the list on a bad one, with the buffer partly written.    *)
(* The model takes one step per point, chosen when the loop reaches it;    *)
(* `points` is what the loop has put into the bands so far.  The buffer is *)
(* reused: what an earlier calibration left behind stays in it.            *)
(***************************************************************************)
EXTENDS NetBenefit

CONSTANTS
  Sizes,         \* workload sizes
  Evidences,     \* candidate lists that may be measured at a size
  Policies,      \* policies a calibration may use
  Capacity,      \* output.size()
  MaxPoints      \* bound of the model on the points of one calibration

ASSUME SizesAssumption == Sizes \subseteq Nat
ASSUME EvidencesAssumption ==
  Evidences \subseteq Seq([id : Nat, samples : Nat, total : Int, correct : BOOLEAN])
ASSUME PoliciesAssumption ==
  Policies \subseteq [minimumSamples : Int, minimumAbsoluteGain : Int,
                      minimumRelativePercent : Int]
ASSUME CapacityAssumption == Capacity \in Nat
ASSUME MaxPointsAssumption == MaxPoints \in Nat

VARIABLES
  bands,      \* the caller's buffer
  points,     \* the workload points the written bands stand for
  reported,   \* result.workload_points
  written,    \* result.bands_written
  previous,   \* previous_champion
  issue,      \* result.issue; "Running" before the call returns
  policy      \* the policy of the call

vars == <<bands, points, reported, written, previous, issue, policy>>

Issues == {"Running", "None", "EmptyEvidence", "UnsortedWorkload",
           "DuplicateCandidate", "MissingBaseline", "OutputTooSmall"}

Points == [size : Sizes, candidates : Evidences]

Band(size, id) == [maximum |-> size, champion |-> id]

Init ==
  /\ bands = [k \in 1..Capacity |-> Band(0, Baseline)]
  /\ points = <<>>
  /\ reported = 0
  /\ written = 0
  /\ previous = Baseline
  /\ issue = "None"
  /\ policy \in Policies

ChampionAt(point) ==
  ChooseNetBenefitChampion(point.candidates, policy).champion

-----------------------------------------------------------------------------
(* The lookup                                                              *)

\* ValidateCrossoverBands: at least one band, maxima strictly increasing.
BandsValid(table) ==
  /\ table # <<>>
  /\ \A k \in 2..Len(table) : table[k - 1].maximum < table[k].maximum

SelectCrossoverChampion(table, size, fallback) ==
  LET fitting == {k \in DOMAIN table : size <= table[k].maximum}
  IN  IF BandsValid(table) /\ fitting # {}
      THEN table[First(fitting)].champion ELSE fallback

\* What the caller hands to the lookup: the bands the result says are written.
Table == [k \in 1..written |-> bands[k]]

-----------------------------------------------------------------------------
(* BuildCrossoverCalibration                                               *)

\* ValidateCandidates reports, in list order, an id met before.
HasDuplicate(candidates) ==
  \E i, j \in DOMAIN candidates : i < j /\ candidates[i].id = candidates[j].id

\* (fault) consecutive points may have the same workload size.
PointIssueUnlessDecreasing(point) ==
  IF points # <<>> /\ point.size < points[Len(points)].size
    THEN "UnsortedWorkload"
  ELSE IF point.candidates = <<>> THEN "EmptyEvidence"
  ELSE IF HasDuplicate(point.candidates) THEN "DuplicateCandidate"
  ELSE IF Baselines(point.candidates) = {} THEN "MissingBaseline"
  ELSE "None"

\* What is wrong with the next point, in the order the code looks.
PointIssue(point) ==
  IF points # <<>> /\ point.size <= points[Len(points)].size
    THEN "UnsortedWorkload"
  ELSE IF point.candidates = <<>> THEN "EmptyEvidence"
  ELSE IF HasDuplicate(point.candidates) THEN "DuplicateCandidate"
  ELSE IF Baselines(point.candidates) = {} THEN "MissingBaseline"
  ELSE "None"

\* A new call: the result starts from zero, the buffer is what it was.
Start(p) ==
  /\ issue # "Running"
  /\ policy' = p
  /\ points' = <<>>
  /\ reported' = 0
  /\ written' = 0
  /\ previous' = Baseline
  /\ issue' = "Running"
  /\ UNCHANGED bands

\* Returns with the counts reached so far.
RejectPoint(point) ==
  /\ issue = "Running"
  /\ PointIssue(point) # "None"
  /\ issue' = PointIssue(point)
  /\ UNCHANGED <<bands, points, reported, written, previous, policy>>

\* A point opens a band unless the champion of the band before it wins again.
OpensBand(point) == written = 0 \/ ChampionAt(point) # previous

\* The point is counted before the room for its band is checked.
RunOutOfBands(point) ==
  /\ issue = "Running"
  /\ PointIssue(point) = "None"
  /\ OpensBand(point)
  /\ written >= Capacity
  /\ reported' = reported + 1
  /\ issue' = "OutputTooSmall"
  /\ UNCHANGED <<bands, points, written, previous, policy>>

\* (fault) the room for a band is not checked.
OpenBandAnyway(point) ==
  /\ issue = "Running"
  /\ Len(points) < MaxPoints
  /\ PointIssue(point) = "None"
  /\ OpensBand(point)
  /\ bands' = [bands EXCEPT ![written + 1] = Band(point.size, ChampionAt(point))]
  /\ points' = Append(points, point)
  /\ reported' = reported + 1
  /\ written' = written + 1
  /\ previous' = ChampionAt(point)
  /\ UNCHANGED <<issue, policy>>

OpenBand(point) ==
  /\ issue = "Running"
  /\ Len(points) < MaxPoints
  /\ PointIssue(point) = "None"
  /\ OpensBand(point)
  /\ written < Capacity
  /\ bands' = [bands EXCEPT ![written + 1] = Band(point.size, ChampionAt(point))]
  /\ points' = Append(points, point)
  /\ reported' = reported + 1
  /\ written' = written + 1
  /\ previous' = ChampionAt(point)
  /\ UNCHANGED <<issue, policy>>

\* (fault) a point won by the champion of the last band is skipped.
SkipPoint(point) ==
  /\ issue = "Running"
  /\ Len(points) < MaxPoints
  /\ PointIssue(point) = "None"
  /\ ~OpensBand(point)
  /\ points' = Append(points, point)
  /\ reported' = reported + 1
  /\ UNCHANGED <<bands, written, previous, issue, policy>>

ExtendBand(point) ==
  /\ issue = "Running"
  /\ Len(points) < MaxPoints
  /\ PointIssue(point) = "None"
  /\ ~OpensBand(point)
  /\ bands' = [bands EXCEPT ![written].maximum = point.size]
  /\ points' = Append(points, point)
  /\ reported' = reported + 1
  /\ UNCHANGED <<written, previous, issue, policy>>

\* No point is left.
Finish ==
  /\ issue = "Running"
  /\ issue' = IF points = <<>> THEN "EmptyEvidence" ELSE "None"
  /\ UNCHANGED <<bands, points, reported, written, previous, policy>>

Next ==
  \/ \E p \in Policies : Start(p)
  \/ \E point \in Points : \/ RejectPoint(point)
                           \/ RunOutOfBands(point)
                           \/ OpenBand(point)
                           \/ ExtendBand(point)
  \/ Finish

Spec == Init /\ [][Next]_vars

-----------------------------------------------------------------------------
(* Properties                                                              *)

TypeOK ==
  /\ bands \in [1..Capacity -> [maximum : Sizes \union {0}, champion : Nat]]
  /\ points \in Seq(Points)
  /\ reported \in Nat
  /\ written \in 0..Capacity
  /\ previous \in Nat
  /\ issue \in Issues
  /\ policy \in Policies

\* The measured points a workload of the given size has not outgrown.
MeasuredFrom(size) == {i \in DOMAIN points : size <= points[i].size}

\* A lookup in the written bands, whether the calibration succeeded, stopped
\* in the middle or is still running, gives the net-benefit choice of the next
\* measured size: compression loses no crossover and stale bands never answer.
\* Above the last measured size it gives the caller's fallback.
LookupIsNextMeasured ==
  \A size \in Sizes, fallback \in {0, 1} :
    SelectCrossoverChampion(Table, size, fallback) =
      IF MeasuredFrom(size) = {} THEN fallback
      ELSE ChampionAt(points[First(MeasuredFrom(size))])

\* The bands are the fewest that can say this: maxima grow strictly and
\* neighbours disagree, so ValidateCrossoverBands accepts every table written.
BandsAreCanonical ==
  \A k \in 2..written : /\ bands[k - 1].maximum < bands[k].maximum
                        /\ bands[k - 1].champion # bands[k].champion

\* docs/ARCHITECTURE.md: "An optimisation that is slower, too noisy, incorrect,
\* or below the configured benefit threshold is disabled."  At a measured size
\* the lookup never answers an optimisation whose evidence there is incorrect
\* or under-sampled, or costs as much as the baseline or more.
AnswersPayOff ==
  \A n \in DOMAIN points :
    LET answer   == SelectCrossoverChampion(Table, points[n].size, Baseline)
        evidence == points[n].candidates
    IN  answer # Baseline =>
          \E c, b \in DOMAIN evidence :
            /\ evidence[c].id = answer /\ evidence[b].id = Baseline
            /\ \A i \in {b, c} : /\ evidence[i].correct
                               /\ evidence[i].samples >= policy.minimumSamples
            /\ Cheaper(evidence[c], evidence[b])
=============================================================================
