---------------------------- MODULE RadiusSearch ----------------------------
(***************************************************************************)
(* What a radius query over a flat coordinate buffer [x0,y0,x1,y1,...] is: *)
(* coordinate validation, the query's own validation, the inside test, the *)
(* way results reach the caller's buffer, and the O(n) brute-force query   *)
(* (Kernel/Hot/SpatialGrid.cpp, lines 31-91).  Both the grid and the       *)
(* abstract index are written with these operators.                        *)
(*                                                                         *)
(* Coordinates are integers in some unit; every float operation of the     *)
(* code is the integer operation followed by Round, so that the module     *)
(* covers exact arithmetic (Round the identity) as well as a float format  *)
(* of a few significant bits.                                              *)
(***************************************************************************)
EXTENDS Integers, Sequences, FiniteSets, SequencesExt

CONSTANTS
  NonFinite,   \* a NaN or an infinity
  Round(_),    \* rounding of one float operation
  MaxPoints    \* the largest number of points an index type can number

ASSUME NonFiniteAssumption == NonFinite \notin Int
ASSUME MaxPointsAssumption == MaxPoints \in Nat

\* Arithmetic in which no float operation loses anything.
ExactArithmetic == \A v \in Int : Round(v) = v

Coordinates == Int \union {NonFinite}
Boundaries  == {"Inclusive", "Strict"}
Orders      == {"Unordered", "InputOrder"}

\* A point as the grid stores it: its coordinates and its input index.
Entry == [x : Int, y : Int, index : Nat]

Query == [x : Coordinates, y : Coordinates, radius : Coordinates,
          capacity : Nat, order : Orders, boundary : Boundaries]

Statuses == {"Ok", "NotReady", "InvalidCellSize", "InvalidCoordinateCount",
             "TooManyPoints", "NonFiniteCoordinate", "InvalidQuery",
             "OutputTooSmall"}

ValidateCoordinates(xy) ==
  IF Len(xy) % 2 # 0 THEN "InvalidCoordinateCount"
  ELSE IF Len(xy) \div 2 > MaxPoints THEN "TooManyPoints"
  ELSE IF \E k \in 1..Len(xy) : xy[k] = NonFinite THEN "NonFiniteCoordinate"
  ELSE "Ok"

PointCount(xy) == Len(xy) \div 2

EntryAt(xy, i) == [x |-> xy[2*i + 1], y |-> xy[2*i + 2], index |-> i]

\* The points of a buffer that passed ValidateCoordinates.
Entries(xy) == {EntryAt(xy, i) : i \in 0 .. PointCount(xy) - 1}

ValidQuery(q) ==
  /\ q.x # NonFinite
  /\ q.y # NonFinite
  /\ q.radius # NonFinite
  /\ q.radius >= 0

DistanceSquared(e, q) ==
  LET dx == Round(e.x - q.x)
      dy == Round(e.y - q.y)
  IN  Round(Round(dx * dx) + Round(dy * dy))

Inside(e, q) ==
  LET limit == Round(q.radius * q.radius)
  IN  IF q.boundary = "Inclusive" THEN DistanceSquared(e, q) <= limit
                                  ELSE DistanceSquared(e, q) < limit

-----------------------------------------------------------------------------
(* Results.  out is the part of the caller's buffer the call wrote.        *)

Refuse(status) == [status |-> status, written |-> 0, required |-> 0, out |-> <<>>]

IndexBefore(e, f) == e.index < f.index

Indices(es) == [k \in 1..Len(es) |-> es[k].index]

\* The members of a set one by one, each before those it precedes.  (SortSeq
\* says the same, but the provers cannot look into module TLC.)
Arranged(set, Precedes(_, _)) ==
  CHOOSE s \in [1 .. Cardinality(set) -> set] :
    \A i, j \in 1 .. Cardinality(set) : i < j => Precedes(s[i], s[j])

\* The indices of a set of hits in input order.
InInputOrder(hits) == Indices(Arranged(hits, IndexBefore))

\* (fault) counting stops at the first hit that does not fit.
DeliverStopping(hits, scanned, final, capacity) ==
  IF Cardinality(hits) > capacity
  THEN [status |-> "OutputTooSmall", written |-> 0, required |-> capacity + 1,
        out |-> SubSeq(scanned, 1, capacity)]
  ELSE [status |-> "Ok", written |-> Cardinality(hits),
        required |-> Cardinality(hits), out |-> final]

\* Hits are written while they fit and counted when they do not: scanned is
\* the order in which they are found, final what the buffer holds on success.
Deliver(hits, scanned, final, capacity) ==
  LET required == Cardinality(hits)
  IN  IF required > capacity
      THEN [status |-> "OutputTooSmall", written |-> 0, required |-> required,
            out |-> SubSeq(scanned, 1, capacity)]
      ELSE [status |-> "Ok", written |-> required, required |-> required,
            out |-> final]

\* RadiusQueryBruteForce over points already validated.
BruteForce(points, q) ==
  IF ~ValidQuery(q) THEN Refuse("InvalidQuery")
  ELSE LET hits == {e \in points : Inside(e, q)}
       IN  Deliver(hits, InInputOrder(hits), InInputOrder(hits), q.capacity)
=============================================================================
