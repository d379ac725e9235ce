---------------------------- MODULE FrameKernels ----------------------------
(***************************************************************************)
(* The kernels a consumer decides with in a frame.  A choice runs a filter *)
(* (FilterUnitIndices or FilterValidPlacements) into a buffer of indices,  *)
(* again with a larger one when it was too small, and SelectBestScore over *)
(* the scores of what the filter left; an estimate runs                    *)
(* EstimateContinuousExchange.  Everything they are given is the caller's. *)
(***************************************************************************)
EXTENDS Integers, Sequences, FiniteSets

CONSTANTS
  Questions,      \* choices callers make, of a target or of a site
  Battles,        \* pairs of groups callers compare
  Combatants,     \* the units of groups
  AnyType,        \* kAnyConsumerType
  Word,           \* grid sizes are below it: 2^32
  NotFinite       \* NaN or an infinity

UnitView == [flags : SUBSET STRING, type : Nat, health : Int, x : Int, y : Int, radius : Int]

UnitFilter ==
  [required : SUBSET STRING, excluded : SUBSET STRING, type : Nat \union {AnyType}, health : Int]

GridView == [width : 0 .. Word - 1, height : 0 .. Word - 1, stride : 0 .. Word - 1, values : Seq(Nat)]

SelectionPolicy == [goal : {"Maximize", "Minimize"}, tie : {"First", "Last"}]

Scores == Seq(Int \union {NotFinite})

TargetQuestion ==
  [kind : {"target"}, candidates : Seq(UnitView), filter : UnitFilter, room : Nat,
   scores : Scores, policy : SelectionPolicy, mask : {"none", "filtered", "all"},
   source : [x : Int, y : Int, radius : Int], range : Int]

SiteQuestion ==
  [kind : {"site"}, candidates : Seq([x : 0 .. Word - 1, y : 0 .. Word - 1]),
   grid : GridView, footprint : GridView, room : Nat,
   scores : Scores, policy : SelectionPolicy, mask : {"none"}]

Combatant == [health : Int \union {NotFinite}, dps : Int \union {NotFinite}]

ASSUME WordAssumption == Word \in Nat \ {0}
ASSUME CombatantsAssumption == Combatants \subseteq Combatant
ASSUME BattlesAssumption == Battles \subseteq Seq(Combatant) \X Seq(Combatant)
\* The caller has a score for every candidate.
ASSUME QuestionsAssumption ==
  \A q \in Questions : /\ q \in TargetQuestion \/ q \in SiteQuestion
                       /\ Len(q.scores) >= Len(q.candidates)

VARIABLE decision   \* the choice under way or made, the estimate, or Undecided

Undecided == [phase |-> "undecided"]

-----------------------------------------------------------------------------
(* Filters                                                                 *)

Matches(unit, filter) ==
  /\ filter.required \subseteq unit.flags
  /\ filter.excluded \intersect unit.flags = {}
  /\ filter.type = AnyType \/ unit.type = filter.type
  /\ unit.health >= filter.health

\* values is the row-major storage of a mask or a grid.
ShapeFits(view) ==
  /\ view.width # 0 /\ view.height # 0 /\ view.stride >= view.width
  /\ Len(view.values) >= view.height * view.stride

Cell(view, x, y) == view.values[y * view.stride + x + 1]

\* (fault) the last row and column are not used.
CanPlaceInside(grid, footprint, anchor) ==
  /\ ShapeFits(grid) /\ ShapeFits(footprint)
  /\ anchor.x < grid.width - footprint.width
  /\ anchor.y < grid.height - footprint.height
  /\ \A x \in 0 .. footprint.width - 1, y \in 0 .. footprint.height - 1 :
       Cell(footprint, x, y) # 0 => Cell(grid, anchor.x + x, anchor.y + y) # 0

\* The differences are unsigned.
CanPlaceMask(grid, footprint, anchor) ==
  /\ ShapeFits(grid) /\ ShapeFits(footprint)
  /\ footprint.width <= grid.width /\ footprint.height <= grid.height
  /\ anchor.x <= (grid.width - footprint.width) % Word
  /\ anchor.y <= (grid.height - footprint.height) % Word
  /\ \A x \in 0 .. footprint.width - 1, y \in 0 .. footprint.height - 1 :
       Cell(footprint, x, y) # 0 => Cell(grid, anchor.x + x, anchor.y + y) # 0

Fits(q, i) ==
  IF q.kind = "target" THEN Matches(q.candidates[i], q.filter)
                       ELSE CanPlaceMask(q.grid, q.footprint, q.candidates[i])

Refusal(q) ==
  IF q.kind = "site" /\ ~ShapeFits(q.grid) THEN "InvalidGrid"
  ELSE IF q.kind = "site" /\ ~ShapeFits(q.footprint) THEN "InvalidFootprint"
  ELSE "Ok"

\* One pass: what fits is counted, and its index written while there is room.
Filtered(q, room) ==
  LET n == Len(q.candidates)
      pass[i \in 0..n] ==
        IF i = 0 THEN [required |-> 0, output |-> [k \in 1..room |-> 0]]
        ELSE IF ~Fits(q, i) THEN pass[i - 1]
        ELSE [required |-> pass[i - 1].required + 1,
              output   |-> IF pass[i - 1].required < room
                           THEN [pass[i - 1].output EXCEPT ![pass[i - 1].required + 1] = i]
                           ELSE pass[i - 1].output]
      done == IF Refusal(q) = "Ok" THEN pass[n] ELSE [required |-> 0, output |-> <<>>]
  IN  [phase |-> "filtered", choice |-> q, required |-> done.required,
       output |-> done.output,
       status |-> IF Refusal(q) # "Ok" THEN Refusal(q)
                  ELSE IF done.required > room THEN "OutputTooSmall" ELSE "Ok"]

Filter(q) == decision = Undecided /\ decision' = Filtered(q, q.room)

Retry ==
  /\ decision.phase = "filtered" /\ decision.status = "OutputTooSmall"
  /\ decision' = Filtered(decision.choice, decision.required)

-----------------------------------------------------------------------------
(* Selection                                                               *)

\* Negative radii and ranges are in range of nothing.
WithinEdgeRange(source, target, range) ==
  LET effective == source.radius + target.radius + range
      dx == source.x - target.x
      dy == source.y - target.y
  IN  /\ source.radius >= 0 /\ target.radius >= 0 /\ range >= 0
      /\ dx * dx + dy * dy <= effective * effective

Eligible(q, i) == q.kind = "target" => WithinEdgeRange(q.source, q.candidates[i], q.range)

SelectBestScore(scores, eligible, policy) ==
  LET Better(score, best) ==
        \/ IF policy.goal = "Maximize" THEN score > best ELSE score < best
        \/ score = best /\ policy.tie = "Last"
      pass[i \in 0 .. Len(scores)] ==
        IF i = 0 THEN 0
        ELSE IF eligible # <<>> /\ ~eligible[i] THEN pass[i - 1]
        ELSE IF scores[i] = NotFinite THEN pass[i - 1]
        ELSE IF pass[i - 1] = 0 \/ Better(scores[i], scores[pass[i - 1]]) THEN i
        ELSE pass[i - 1]
  IN  IF eligible # <<>> /\ Len(eligible) # Len(scores)
      THEN [status |-> "LengthMismatch", index |-> 0]
      ELSE [status |-> IF pass[Len(scores)] = 0 THEN "NoCandidate" ELSE "Ok",
            index  |-> pass[Len(scores)]]

\* The caller scores what the filter left.  Its mask is over that, over all
\* candidates, or there is none.
Select ==
  LET q        == decision.choice
      scores   == [k \in 1 .. decision.required |-> q.scores[decision.output[k]]]
      eligible == CASE q.mask = "none" -> <<>>
                    [] q.mask = "filtered" ->
                         [k \in 1 .. decision.required |-> Eligible(q, decision.output[k])]
                    [] q.mask = "all" -> [i \in DOMAIN q.candidates |-> Eligible(q, i)]
      best     == SelectBestScore(scores, eligible, q.policy)
  IN  /\ decision.phase = "filtered" /\ decision.status = "Ok"
      /\ decision' = [phase |-> "chosen", choice |-> q, status |-> best.status,
                      chosen |-> IF best.status = "Ok" THEN decision.output[best.index] ELSE 0]

-----------------------------------------------------------------------------
(* Exchange                                                                *)

Valid(c) == NotFinite \notin {c.health, c.dps} /\ c.health >= 0 /\ c.dps >= 0

\* The dead do not shoot.  Doubles hold any sum of floats.
AggregateCombatants(group) ==
  LET pass[i \in 0 .. Len(group)] ==
        IF i = 0 THEN [health |-> 0, dps |-> 0]
        ELSE IF group[i].health = 0 THEN pass[i - 1]
        ELSE [health |-> pass[i - 1].health + group[i].health,
              dps    |-> pass[i - 1].dps + group[i].dps]
  IN  pass[Len(group)]

\* Seconds as a fraction; a denominator of zero is an infinite time.
SecondsToClear(health, dps) ==
  IF health <= 0 THEN <<0, 1>> ELSE IF dps > 0 THEN <<health, dps>> ELSE <<1, 0>>

Shorter(s, t) == s[1] * t[2] < t[1] * s[2]

\* (fault) each side is divided by its own fire.
EstimateByOwnFire(a, b) ==
  LET sideA == AggregateCombatants(a)
      sideB == AggregateCombatants(b)
      clearB == SecondsToClear(sideB.health, sideB.dps)
      clearA == SecondsToClear(sideA.health, sideA.dps)
  IN  IF \E c \in {a[i] : i \in DOMAIN a} \union {b[i] : i \in DOMAIN b} : ~Valid(c)
      THEN "InvalidInput"
      ELSE IF Shorter(clearB, clearA) THEN "SideAPrevails"
      ELSE IF Shorter(clearA, clearB) THEN "SideBPrevails"
      ELSE IF clearA[2] = 0 THEN "Stalemate" ELSE "MutualDestruction"

EstimateContinuousExchange(a, b) ==
  LET sideA == AggregateCombatants(a)
      sideB == AggregateCombatants(b)
      clearB == SecondsToClear(sideB.health, sideA.dps)
      clearA == SecondsToClear(sideA.health, sideB.dps)
  IN  IF \E c \in {a[i] : i \in DOMAIN a} \union {b[i] : i \in DOMAIN b} : ~Valid(c)
      THEN "InvalidInput"
      ELSE IF Shorter(clearB, clearA) THEN "SideAPrevails"
      ELSE IF Shorter(clearA, clearB) THEN "SideBPrevails"
      ELSE IF clearA[2] = 0 THEN "Stalemate" ELSE "MutualDestruction"

Estimate(battle) ==
  /\ decision = Undecided
  /\ decision' = [phase |-> "estimated", battle |-> battle,
                  outcome |-> EstimateContinuousExchange(battle[1], battle[2])]

\* The frame is over.
Forget == decision # Undecided /\ decision' = Undecided

FrameNext ==
  \/ \E q \in Questions : Filter(q)
  \/ \E battle \in Battles : Estimate(battle)
  \/ Retry \/ Select \/ Forget

-----------------------------------------------------------------------------
(* Properties                                                              *)

\* What a choice is among, stated without the kernels' loops and indices.
OnGrid(q, i, p) ==
  LET at == [x |-> q.candidates[i].x + p[1], y |-> q.candidates[i].y + p[2]]
  IN  /\ at.x < q.grid.width /\ at.y < q.grid.height
      /\ Cell(q.footprint, p[1], p[2]) # 0 => Cell(q.grid, at.x, at.y) # 0

Suitable(q) ==
  {i \in DOMAIN q.candidates :
     IF q.kind = "target" THEN Matches(q.candidates[i], q.filter)
     ELSE \A p \in (0 .. q.footprint.width - 1) \X (0 .. q.footprint.height - 1) : OnGrid(q, i, p)}

Proper(q) ==
  {i \in Suitable(q) : q.scores[i] # NotFinite /\ (q.mask # "none" => Eligible(q, i))}

\* docs/COMPUTE.md: equal-score tie behaviour is explicit.  Through filter,
\* retry and selection, whatever the size of the first buffer, the candidate
\* chosen is the best of all that are suitable, the first or the last such as
\* the policy says; none is chosen only when there is none, or when the mask
\* does not belong to the scores.
ChoiceIsBest ==
  /\ decision.phase = "chosen" =>
       LET q == decision.choice
           c == decision.chosen
       IN  CASE decision.status = "Ok" ->
                  /\ c \in Proper(q)
                  /\ \A i \in Proper(q) \ {c} :
                       \/ IF q.policy.goal = "Maximize" THEN q.scores[c] > q.scores[i]
                                                        ELSE q.scores[c] < q.scores[i]
                       \/ q.scores[c] = q.scores[i] /\ (IF q.policy.tie = "Last" THEN i < c ELSE c < i)
             [] decision.status = "NoCandidate" -> Proper(q) = {}
             [] OTHER -> q.mask = "all" /\ Suitable(q) # DOMAIN q.candidates
  /\ decision.phase = "filtered" /\ decision.status = "OutputTooSmall" =>
       Filtered(decision.choice, decision.required).status = "Ok"

Mirrored(outcome) ==
  CASE outcome = "SideAPrevails" -> "SideBPrevails"
    [] outcome = "SideBPrevails" -> "SideAPrevails"
    [] OTHER -> outcome

Rank(outcome) ==
  CASE outcome = "SideAPrevails" -> 2 [] outcome = "SideBPrevails" -> 0 [] OTHER -> 1

\* The estimate has no side: exchanged groups exchange the outcome.  A unit
\* more never makes a side fare worse, and who has nobody left does not prevail.
ReinforcementNeverHurts ==
  decision.phase = "estimated" /\ decision.outcome # "InvalidInput" =>
    LET a == decision.battle[1]
        b == decision.battle[2]
    IN  /\ EstimateContinuousExchange(b, a) = Mirrored(decision.outcome)
        /\ \A c \in Combatants :
             Valid(c) => Rank(EstimateContinuousExchange(Append(a, c), b)) >= Rank(decision.outcome)
        /\ AggregateCombatants(a).health = 0 => decision.outcome # "SideAPrevails"
=============================================================================
