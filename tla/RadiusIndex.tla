---------------------------- MODULE RadiusIndex -----------------------------
(***************************************************************************)
(* What the library promises of a radius-query index                       *)
(* (include/sc2opt/kernel/hot/SpatialGrid.hpp): it either holds exactly    *)
(* the points of the last buffer it accepted or is not ready, and a query  *)
(* it answers gets the brute-force answer over those points.               *)
(***************************************************************************)
EXTENDS RadiusSearch

CONSTANTS
  Buffers, Queries,
  NotReady,        \* the index holds no points to query
  Low, High        \* every area within Low..High can be queried

VARIABLES
  indexed,   \* the set of points held, or NotReady
  reply      \* what the last call returned

indexVars == <<indexed, reply>>

Idle == [op |-> "None"]

\* The order of an unordered answer, and the partial contents of a buffer
\* that proved too small, are not promised.
Matches(r, truth, q) ==
  /\ r.status = truth.status
  /\ r.written = truth.written
  /\ r.required = truth.required
  /\ r.status = "Ok" =>
       IF q.order = "InputOrder" THEN r.out = truth.out
                                 ELSE ToSet(r.out) = ToSet(truth.out) /\ Len(r.out) = r.written

Init ==
  /\ indexed = NotReady
  /\ reply = Idle

\* A configuration call may keep the points or drop all of them.
Configure ==
  /\ reply'.op = "SetCellSize"
  /\ indexed' \in {indexed, NotReady}
  /\ \E s \in {"Ok", "InvalidCellSize"} :
       /\ s = "InvalidCellSize" => indexed' = NotReady
       /\ reply' = [op |-> "SetCellSize", status |-> s]

\* A rebuild replaces the points or, when it fails, leaves none to query.
Replace(xy) ==
  \/ /\ reply' = [op |-> "Rebuild", status |-> "Ok"]
     /\ ValidateCoordinates(xy) = "Ok"
     /\ indexed' = Entries(xy)
  \/ /\ \E s \in Statuses \ {"Ok"} : reply' = [op |-> "Rebuild", status |-> s]
     /\ indexed' = NotReady

WithinReach(q) ==
  \A v \in {Round(q.x - q.radius), Round(q.x + q.radius),
           Round(q.y - q.radius), Round(q.y + q.radius)} : v \in Low..High

\* A query changes nothing and answers like brute force, unless the index
\* is not ready or the queried area leaves Low..High.
Answer(q) ==
  LET r == reply'.result
  IN  /\ reply'.op = "Query" /\ reply'.query = q
      /\ UNCHANGED indexed
      /\ reply' = [op |-> "Query", query |-> q, result |-> r]
      /\ \/ indexed = NotReady /\ r = Refuse("NotReady")
         \/ indexed # NotReady /\ Matches(r, BruteForce(indexed, q), q)
         \/ /\ indexed # NotReady /\ ValidQuery(q) /\ ~WithinReach(q)
            /\ r = Refuse("InvalidQuery")

Next ==
  \/ Configure
  \/ \E xy \in Buffers : Replace(xy)
  \/ \E q \in Queries : Answer(q)

Spec == Init /\ [][Next]_indexVars
=============================================================================
