-------------------------- MODULE SpatialDispatch ---------------------------
(***************************************************************************)
(* The grid behind the strategy layer (kernel/hot/SpatialStrategy.hpp): a  *)
(* consumer keeps the coordinate buffer of the present frame, rebuilds the *)
(* grid from it, lets ChooseSpatialQueryStrategy pick between the grid and *)
(* RadiusQueryBruteForce, and runs what was picked.  The choice is a plain *)
(* value computed from the point count and the readiness of that moment;   *)
(* the grid may be rebuilt, refused a buffer or resized before it is run.  *)
(***************************************************************************)
EXTENDS SpatialGrid

CONSTANTS
  Questions,   \* the queries put through the strategy layer
  Profiles     \* crossover profiles in force when a choice is made

ASSUME QuestionsAssumption == Questions \subseteq Queries
ASSUME ProfilesAssumption == Profiles \subseteq [inputOrder : Nat, unordered : Nat]

VARIABLES
  frame,   \* the consumer's coordinate buffer
  choice   \* the strategy picked and not run yet, or Unmade

dispatchVars == <<cellSize, cells, touched, pointCount, activeCells, ready, reply,
                  frame, choice>>

Unmade == [strategy |-> "Unmade"]

ChooseSpatialQueryStrategy(points, inputOrder, gridReady, profile) ==
  IF gridReady /\ inputOrder /\ points >= profile.inputOrder THEN "GridInputOrder"
  ELSE IF gridReady /\ ~inputOrder /\ points >= profile.unordered THEN "GridUnordered"
  ELSE "BruteForce"

\* RadiusQueryBruteForce over the buffer itself.
SearchBuffer(xy, q) ==
  IF ValidateCoordinates(xy) # "Ok" THEN Refuse(ValidateCoordinates(xy))
  ELSE BruteForce(Entries(xy), q)

\* What running a choice answers when it is run now.
Outcome(c) == IF c.strategy = "BruteForce" THEN SearchBuffer(frame, c.query)
              ELSE QueryResult(c.query)

-----------------------------------------------------------------------------
DispatchInit == Init /\ frame = <<>> /\ choice = Unmade

\* The next frame arrives and the grid is rebuilt from it, or refuses it.
Frame(xy) == Rebuild(xy) /\ frame' = xy /\ UNCHANGED choice

Resize(s) == SetCellSize(s) /\ UNCHANGED <<frame, choice>>

Ask(q) == AskQuery(q) /\ UNCHANGED <<frame, choice>>

Choose(q, profile) ==
  /\ choice' = [query |-> q,
                strategy |-> ChooseSpatialQueryStrategy(PointCount(frame),
                               q.order = "InputOrder", ready, profile)]
  /\ UNCHANGED <<cellSize, cells, touched, pointCount, activeCells, ready, reply, frame>>

\* A grid strategy asks the grid; brute force leaves the grid alone.
Execute ==
  /\ choice # Unmade
  /\ \/ choice.strategy # "BruteForce" /\ AskQuery(choice.query)
     \/ choice.strategy = "BruteForce" /\ UNCHANGED vars
  /\ choice' = Unmade
  /\ UNCHANGED frame

DispatchNext ==
  \/ \E xy \in Buffers : Frame(xy)
  \/ \E s \in CellSizes : Resize(s)
  \/ \E q \in Queries : Ask(q)
  \/ \E q \in Questions, profile \in Profiles : Choose(q, profile)
  \/ Execute

DispatchSpec == DispatchInit /\ [][DispatchNext]_dispatchVars

-----------------------------------------------------------------------------
\* Two answers say the same: status and count, and on success the indices, in
\* the same order when the query asked for input order.
SameAnswer(r, s, q) ==
  /\ r.status = s.status /\ r.written = s.written /\ r.required = s.required
  /\ r.status = "Ok" => IF q.order = "InputOrder" THEN r.out = s.out
                                                  ELSE ToSet(r.out) = ToSet(s.out)

\* docs/HOT_KERNELS.md makes the grid a champion over the brute-force
\* baseline, so a choice may change the cost of an answer and never the
\* answer: however late a choice is run, after rebuilds, refused buffers and
\* resizes, it answers for the buffer the consumer has now, or refuses because
\* the grid lost readiness or the area leaves its cells.
AnswersTheFrame ==
  choice # Unmade =>
    \/ SameAnswer(Outcome(choice), SearchBuffer(frame, choice.query), choice.query)
    \/ choice.strategy # "BruteForce" /\ ~ready /\ Outcome(choice) = Refuse("NotReady")
    \/ /\ choice.strategy # "BruteForce" /\ ~AreaFits(choice.query)
       /\ Outcome(choice) = Refuse("InvalidQuery")
=============================================================================
