---------------------------- MODULE SpatialGrid -----------------------------
(***************************************************************************)
(* SpatialGrid2D (Kernel/Hot/SpatialGrid.cpp): a uniform hash grid over a  *)
(* coordinate buffer.  The unordered map of buckets is a function from     *)
(* every cell key to the set of entries in its bucket (an absent key and   *)
(* an emptied bucket are the same to every operation; a bucket's entries   *)
(* are in index order because Rebuild inserts them so).                    *)
(*                                                                         *)
(* Failures keep buckets and touched keys, only the flags are reset: what  *)
(* a later Rebuild must still clear is part of the state.                  *)
(***************************************************************************)
EXTENDS RadiusSearch

CONSTANTS
  Buffers,           \* coordinate buffers callers pass to Rebuild
  Queries,           \* queries callers ask
  CellSizes,         \* arguments callers pass to SetCellSize
  InitialCellSize,   \* cell_size_ = 4.0 in a new grid
  CellMin, CellMax,  \* the int32 range of a cell coordinate
  NotReady           \* stands for the points of a grid that is not ready

ASSUME BuffersAssumption == Buffers \subseteq Seq(Coordinates)
ASSUME QueriesAssumption == Queries \subseteq Query
ASSUME CellSizesAssumption == CellSizes \subseteq Coordinates
ASSUME InitialCellSizeAssumption == InitialCellSize \in Nat \ {0}
ASSUME NotReadyAssumption ==
  \A xy \in Buffers : ValidateCoordinates(xy) = "Ok" => Entries(xy) # NotReady
ASSUME CellRangeAssumption ==
  CellMin \in Int /\ CellMax \in Int /\ CellMin <= 0 /\ 0 <= CellMax

VARIABLES
  cellSize,      \* cell_size_
  cells,         \* cells_: key -> entries of its bucket
  touched,       \* touched_cells_, as a set
  pointCount,    \* point_count_
  activeCells,   \* active_cell_count_
  ready,         \* ready_
  reply          \* what the last call returned

grid == <<cellSize, cells, touched, pointCount, activeCells, ready>>
vars == <<cellSize, cells, touched, pointCount, activeCells, ready, reply>>

CellRange == CellMin .. CellMax
Keys == CellRange \X CellRange

ValidCellSize(s) == s # NonFinite /\ s > 0

\* CellCoord: the floor of the quotient, and whether an int32 holds it.
CellCoord(v) == v \div cellSize
CellFits(v)  == CellCoord(v) \in CellRange

KeyOf(e) == <<CellCoord(e.x), CellCoord(e.y)>>

EmptyBuckets == [k \in Keys |-> {}]

Init ==
  /\ cellSize = InitialCellSize
  /\ cells = EmptyBuckets
  /\ touched = {}
  /\ pointCount = 0
  /\ activeCells = 0
  /\ ready = FALSE
  /\ reply = [op |-> "None"]

-----------------------------------------------------------------------------
(* SetCellSize                                                             *)

\* (fault) the failure path also forgets which buckets are occupied.
UnreadyForgetting ==
  /\ ready' = FALSE
  /\ pointCount' = 0
  /\ activeCells' = 0
  /\ touched' = {}
  /\ UNCHANGED <<cellSize, cells>>

\* (fault) the failure path resets the counters only.
UnreadyCountsOnly ==
  /\ pointCount' = 0
  /\ activeCells' = 0
  /\ UNCHANGED <<ready, cellSize, cells, touched>>

\* The shared failure path: no points to query, buckets left as they are.
Unready ==
  /\ ready' = FALSE
  /\ pointCount' = 0
  /\ activeCells' = 0
  /\ UNCHANGED <<cellSize, cells, touched>>

SetInvalidCellSize(s) ==
  /\ ~ValidCellSize(s)
  /\ Unready
  /\ reply' = [op |-> "SetCellSize", status |-> "InvalidCellSize"]

ChangeCellSize(s) ==
  /\ ValidCellSize(s) /\ s # cellSize
  /\ cellSize' = s
  /\ cells' = EmptyBuckets
  /\ touched' = {}
  /\ pointCount' = 0
  /\ activeCells' = 0
  /\ ready' = FALSE
  /\ reply' = [op |-> "SetCellSize", status |-> "Ok"]

KeepCellSize(s) ==
  /\ ValidCellSize(s) /\ s = cellSize
  /\ reply' = [op |-> "SetCellSize", status |-> "Ok"]
  /\ UNCHANGED grid

SetCellSize(s) == SetInvalidCellSize(s) \/ ChangeCellSize(s) \/ KeepCellSize(s)

-----------------------------------------------------------------------------
(* Rebuild                                                                 *)

PlacesFit(xy) == \A e \in Entries(xy) : CellFits(e.x) /\ CellFits(e.y)

RebuildStatus(xy) ==
  IF ValidateCoordinates(xy) # "Ok" THEN ValidateCoordinates(xy)
  ELSE IF ~ValidCellSize(cellSize) THEN "InvalidCellSize"
  ELSE IF ~PlacesFit(xy) THEN "NonFiniteCoordinate"
  ELSE "Ok"

RejectBuffer(xy) ==
  /\ RebuildStatus(xy) # "Ok"
  /\ Unready
  /\ reply' = [op |-> "Rebuild", status |-> RebuildStatus(xy)]

\* The buckets once every touched one is cleared.
Cleared == [k \in Keys |-> IF k \in touched THEN {} ELSE cells[k]]

\* The keys whose bucket the insertions find empty, each pushed on the
\* touched list by the first point of its cell.
NewlyOccupied(points) ==
  {k \in Keys : Cleared[k] = {} /\ \E e \in points : KeyOf(e) = k}

AcceptBuffer(xy) ==
  LET points == Entries(xy)
  IN  /\ RebuildStatus(xy) = "Ok"
      /\ cells' = [k \in Keys |-> Cleared[k] \union {e \in points : KeyOf(e) = k}]
      /\ touched' = NewlyOccupied(points)
      /\ pointCount' = PointCount(xy)
      /\ activeCells' = Cardinality(NewlyOccupied(points))
      /\ ready' = TRUE
      /\ reply' = [op |-> "Rebuild", status |-> "Ok"]
      /\ UNCHANGED cellSize

Rebuild(xy) == RejectBuffer(xy) \/ AcceptBuffer(xy)

-----------------------------------------------------------------------------
(* Query                                                                   *)

\* The square of cells the query scans, as corner coordinates.
LowCorner(v, q)  == Round(v - q.radius)
HighCorner(v, q) == Round(v + q.radius)

AreaFits(q) ==
  /\ CellFits(LowCorner(q.x, q)) /\ CellFits(HighCorner(q.x, q))
  /\ CellFits(LowCorner(q.y, q)) /\ CellFits(HighCorner(q.y, q))

\* (fault) the scan leaves out the last column and row.
ScannedKeysHalfOpen(q) ==
  (CellCoord(LowCorner(q.x, q)) .. CellCoord(HighCorner(q.x, q)) - 1)
    \X (CellCoord(LowCorner(q.y, q)) .. CellCoord(HighCorner(q.y, q)) - 1)

ScannedKeys(q) ==
  (CellCoord(LowCorner(q.x, q)) .. CellCoord(HighCorner(q.x, q)))
    \X (CellCoord(LowCorner(q.y, q)) .. CellCoord(HighCorner(q.y, q)))

Hits(q) == {e \in UNION {cells[k] : k \in ScannedKeys(q)} : Inside(e, q)}

\* Buckets are scanned by column, then row, then in insertion order.
ScannedBefore(e, f) ==
  \/ CellCoord(e.x) < CellCoord(f.x)
  \/ CellCoord(e.x) = CellCoord(f.x) /\ CellCoord(e.y) < CellCoord(f.y)
  \/ KeyOf(e) = KeyOf(f) /\ e.index < f.index

InScanOrder(hits) == Indices(Arranged(hits, ScannedBefore))

\* (fault) a grid that is not ready is scanned anyway.
QueryResultUnchecked(q) ==
  IF ~ValidQuery(q) \/ ~AreaFits(q) THEN Refuse("InvalidQuery")
  ELSE Deliver(Hits(q), InScanOrder(Hits(q)), InInputOrder(Hits(q)), q.capacity)

QueryResult(q) ==
  IF ~ready THEN Refuse("NotReady")
  ELSE IF ~ValidQuery(q) \/ ~AreaFits(q) THEN Refuse("InvalidQuery")
  ELSE LET hits  == Hits(q)
           final == IF q.order = "InputOrder" THEN InInputOrder(hits)
                                              ELSE InScanOrder(hits)
       IN  Deliver(hits, InScanOrder(hits), final, q.capacity)

AskQuery(q) ==
  /\ reply' = [op |-> "Query", query |-> q, result |-> QueryResult(q)]
  /\ UNCHANGED grid

-----------------------------------------------------------------------------
Next ==
  \/ \E s \in CellSizes : SetCellSize(s)
  \/ \E xy \in Buffers : Rebuild(xy)
  \/ \E q \in Queries : AskQuery(q)

Spec == Init /\ [][Next]_vars

-----------------------------------------------------------------------------
(* Properties                                                              *)

\* The fields of the grid hold what their C++ types and the int32 key range
\* allow; pointCount_ and active_cell_count_ are counts.
TypeOK ==
  /\ cellSize \in Nat \ {0}
  /\ cells \in [Keys -> SUBSET Entry]
  /\ touched \subseteq Keys
  /\ pointCount \in Nat
  /\ activeCells \in Nat
  /\ ready \in BOOLEAN

\* Every entry lies in the bucket of its own cell, so a query that scans the
\* cell finds it.
EntriesInTheirCell == \A k \in Keys : \A e \in cells[k] : KeyOf(e) = k

\* A bucket with entries is on the touched list, ready or not: otherwise the
\* next Rebuild would not clear it and a failed call's leftovers would be
\* answered as points of a later buffer.
NoLeakedBucket == \A k \in Keys : cells[k] # {} => k \in touched

\* ActiveCellCount(), which strategy selection reads, counts every occupied
\* cell exactly once.
ActiveCellsExact ==
  ready => activeCells = Cardinality({k \in Keys : cells[k] # {}})

Stored == UNION {cells[k] : k \in Keys}

\* A ready grid holds one entry for each index below PointCount() and no
\* other: nothing of an earlier buffer, nothing twice.
EachPointOnce ==
  ready => /\ {e.index : e \in Stored} = 0 .. pointCount - 1
           /\ \A e, f \in Stored : e.index = f.index => e = f

\* A grid, after any mixture of failing and succeeding calls, is a sound hash
\* index: the parts above, which are inductive only together.
GridInv ==
  /\ TypeOK
  /\ EntriesInTheirCell
  /\ NoLeakedBucket
  /\ ActiveCellsExact
  /\ EachPointOnce

\* docs/PROOF_AND_OUTPUTS.md: "spatial-grid exact InputOrder equivalence
\* against brute force".  A query that is answered returns the status, counts
\* and, on success, the indices brute force returns over the stored points.
InputOrderEquivalence ==
  /\ reply.op = "Query"
  /\ reply.query.order = "InputOrder"
  /\ reply.result.status \in {"Ok", "OutputTooSmall"}
  => LET truth == BruteForce(Stored, reply.query)
     IN  /\ reply.result.status = truth.status
         /\ reply.result.required = truth.required
         /\ reply.result.status = "Ok" => reply.result.out = truth.out

\* The retry protocol of OutputTooSmall: asking the same question again with
\* a buffer of the size the refusal named is answered in full.
RetryFits ==
  [][ /\ reply.op = "Query" /\ reply'.op = "Query"
      /\ reply.result.status = "OutputTooSmall"
      /\ reply'.query = [reply.query EXCEPT !.capacity = reply.result.required]
      => reply'.result.status = "Ok" ]_vars

\* The abstract index the grid stands for.
Index == INSTANCE RadiusIndex WITH
  indexed <- IF ready THEN Stored ELSE NotReady,
  Low <- CellMin, High <- CellMax

\* The grid is a radius index: whatever mixture of failed and successful
\* calls went before, it holds the last accepted buffer or refuses, and every
\* answer is the brute-force answer.
ImplementsRadiusIndex == Index!Spec
=============================================================================
