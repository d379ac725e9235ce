----------------------------- MODULE Influence ------------------------------
(***************************************************************************)
(* Radial influence stamped on a float grid (Kernel/Compute/Influence.cpp):*)
(* the reference scans the whole view, the bounded candidate only the      *)
(* square around the disc.  The specification Spec runs the candidate; the *)
(* specification Reference, over the same variables, is what it promises.  *)
(*                                                                         *)
(* Positions and radii count units, Unit of them to a cell; Unit stands    *)
(* for a power of two, so that a square rounds like a length.  The test of *)
(* a cell is float arithmetic: every result is rounded, and infinite from  *)
(* Infinite on.  The square around the disc is computed in double, which   *)
(* is exact here.  A cell of the grid is the sequence of what was added to *)
(* it: float addition depends on the order.                                *)
(***************************************************************************)
EXTENDS Integers, Sequences, FiniteSets

CONSTANTS
  Size,           \* cells of the storage that views are laid over
  Views,          \* the shapes callers pass
  Specs,          \* the stamps callers pass
  Unit,           \* units of length in a cell
  Round(_),       \* rounding of a length or a square to the nearest float
  Infinite,       \* the least that overflows a float; stands for infinity
  MaxAdditions    \* bound on the additions to one cell

Memory == 0 .. Size - 1
Boundaries == {"Strict", "Inclusive"}

View == [width : Nat, height : Nat, stride : Nat]

\* finite is FALSE when a number of the stamp is NaN or infinite; falloff
\* names its inner and outer values.
RadialSpec == [x : Int, y : Int, inner : Int, outer : Int, boundary : Boundaries,
               falloff : STRING, finite : BOOLEAN]

ASSUME SizeAssumption == Size \in Nat
ASSUME ViewsAssumption == Views \subseteq View
ASSUME SpecsAssumption == Specs \subseteq RadialSpec
ASSUME UnitAssumption == Unit \in Nat \ {0}
ASSUME MaxAdditionsAssumption == MaxAdditions \in Nat
ASSUME InfiniteAssumption == Infinite \in Nat \ {0}

\* Rounding is monotone, leaves floats alone and does not overflow below
\* Infinite.
ASSUME RoundAssumption ==
  \A v \in 0 .. Infinite - 1 :
    /\ Round(v) \in 0 .. Infinite - 1
    /\ Round(Round(v)) = Round(v)
    /\ \A w \in 0 .. v : Round(w) <= Round(v)

Magnitude(v) == IF v < 0 THEN -v ELSE v
IsFloat(v)   == Magnitude(v) < Infinite /\ Round(Magnitude(v)) = Magnitude(v)

\* Stamps are given in floats, and the positions of the cells are floats, as in
\* a grid of up to 2^24 cells a side.
ASSUME FloatsAssumption ==
  /\ \A s \in Specs : \A v \in {s.x, s.y, s.inner, s.outer} : IsFloat(v)
  /\ \A view \in Views : \A n \in 0 .. view.width + view.height : IsFloat(n * Unit)

VARIABLES
  grid,     \* what was added to each cell of the storage, oldest first
  request,  \* the view and the stamp of the last call; any before the first
  result    \* what it returned

vars == <<grid, request, result>>

Request == [view : Views, spec : Specs]
Status  == {"Ok", "InvalidGrid", "InvalidSpec"}

Init ==
  /\ grid = [c \in Memory |-> <<>>]
  /\ request \in Request
  /\ result = [status |-> "Ok", touched |-> 0]

-----------------------------------------------------------------------------
(* Validation                                                              *)

\* (fault) Rows may overlap.
GridShapeFitsAnyStride(view) ==
  /\ view.width # 0 /\ view.height # 0
  /\ view.height * view.stride <= Size

GridShapeFits(view) ==
  /\ view.width # 0 /\ view.height # 0
  /\ view.width <= view.stride
  /\ view.height * view.stride <= Size

ValidSpec(s) == s.finite /\ 0 <= s.inner /\ s.inner <= s.outer

-----------------------------------------------------------------------------
(* One cell                                                                *)

Float(v) == IF v < Infinite THEN Round(v) ELSE Infinite

Square(length) == Float(length * length)

\* How far cell n of an axis is from the centre, and the float of it.
Gap(n, center)          == Magnitude(n * Unit - center)
AxisDistance(n, center) == Float(Gap(n, center))

DistanceSquared(p, s) ==
  Float(Square(AxisDistance(p[1], s.x)) + Square(AxisDistance(p[2], s.y)))

Inside(p, s) ==
  IF s.boundary = "Inclusive" THEN DistanceSquared(p, s) <= Square(s.outer)
                              ELSE DistanceSquared(p, s) <  Square(s.outer)

\* The addition to a cell: the inner value (at 0) or, in the ring, the value
\* at its distance.
Addition(p, s) ==
  LET flat == DistanceSquared(p, s) <= Square(s.inner) \/ s.outer = s.inner
  IN  [of |-> s, at |-> IF flat THEN 0 ELSE DistanceSquared(p, s)]

Index(view, p) == p[2] * view.stride + p[1]

-----------------------------------------------------------------------------
(* The cells scanned                                                       *)

ReferenceScan(view, s) == (0 .. view.width - 1) \X (0 .. view.height - 1)

Floor(length)   == length \div Unit
Ceiling(length) == -((-length) \div Unit)

Clamp(n, last) == IF n < 0 THEN 0 ELSE IF n > last THEN last ELSE n

\* One axis of the square around the disc: empty when it misses the grid.
Reach(center, outer, last) ==
  LET low  == Floor(center - outer)
      high == Ceiling(center + outer)
  IN  IF high < 0 \/ low > last THEN {} ELSE Clamp(low, last) .. Clamp(high, last)

\* (fault) A square that begins in the last column misses the grid.
BoundedScanShort(view, s) ==
  IF Floor(s.x - s.outer) >= view.width - 1
  THEN {}
  ELSE Reach(s.x, s.outer, view.width - 1) \X Reach(s.y, s.outer, view.height - 1)

BoundedScan(view, s) ==
  Reach(s.x, s.outer, view.width - 1) \X Reach(s.y, s.outer, view.height - 1)

-----------------------------------------------------------------------------
(* The calls                                                               *)

Touched(scan, s) == {p \in scan : Inside(p, s)}

Room == \A c \in Memory : Len(grid[c]) < MaxAdditions

\* Every scanned cell inside the disc is added to once.
Stamp(q, scan) ==
  LET touched == Touched(scan, q.spec)
  IN  /\ request' = q
      /\ GridShapeFits(q.view) /\ ValidSpec(q.spec)
      /\ Room
      /\ grid' = [c \in Memory |->
                   IF \E p \in touched : Index(q.view, p) = c
                   THEN Append(grid[c], Addition(CHOOSE p \in touched :
                                                   Index(q.view, p) = c, q.spec))
                   ELSE grid[c]]
      /\ result' = [status |-> "Ok", touched |-> Cardinality(touched)]

Refuse(q) ==
  /\ request' = q
  /\ ~GridShapeFits(q.view) \/ ~ValidSpec(q.spec)
  /\ result' = [status |-> IF GridShapeFits(q.view) THEN "InvalidSpec"
                                                    ELSE "InvalidGrid",
                touched |-> 0]
  /\ UNCHANGED grid

ApplyRadialInfluenceReference(q) ==
  Refuse(q) \/ Stamp(q, ReferenceScan(q.view, q.spec))

ApplyRadialInfluenceBounded(q) ==
  Refuse(q) \/ Stamp(q, BoundedScan(q.view, q.spec))

Next == \E q \in Request : ApplyRadialInfluenceBounded(q)
Spec == Init /\ [][Next]_vars

ReferenceNext == \E q \in Request : ApplyRadialInfluenceReference(q)
Reference == Init /\ [][ReferenceNext]_vars
-----------------------------------------------------------------------------
(* Properties                                                              *)

\* Types; no more cells are touched than the storage has.
TypeOK ==
  /\ grid \in [Memory -> Seq([of : Specs, at : 0..Infinite])]
  /\ request \in Request
  /\ result \in [status : Status, touched : 0..Size]

\* Cells further than the radius along an axis, whose distance rounds or
\* overflows onto the radius: the reference touches them.
RoundedOntoRim(q) ==
  {p \in ReferenceScan(q.view, q.spec) :
     /\ q.spec.boundary = "Inclusive"
     /\ DistanceSquared(p, q.spec) = Square(q.spec.outer)
     /\ Gap(p[1], q.spec.x) > q.spec.outer \/ Gap(p[2], q.spec.y) > q.spec.outer}

\* A call of the reference that misses some of these cells.
ReferenceUpToRim(q) ==
  \/ Refuse(q)
  \/ \E lost \in SUBSET RoundedOntoRim(q) :
       Stamp(q, ReferenceScan(q.view, q.spec) \ lost)

\* Every call of the candidate does what the reference does, same cells, same
\* additions, same count, but may miss cells that float arithmetic alone puts
\* on the rim of an inclusive disc.  ("Semantics must remain equivalent",
\* Influence.hpp, line 38, does not make that exception.)
BoundedImplementsReference ==
  Init /\ [][\E q \in Request : q = request' /\ ReferenceUpToRim(q)]_vars

Changed == {c \in Memory : grid'[c] # grid[c]}

\* A call adds once to each cell it counts, writes nothing into the padding of
\* the rows, and writes nothing at all when it refuses.
EachCellOnce ==
  [][ /\ Cardinality(Changed) = result'.touched
      /\ \A c \in Changed :
           /\ Len(grid'[c]) = Len(grid[c]) + 1
           /\ \E p \in ReferenceScan(request'.view, request'.spec) :
                c = Index(request'.view, p)
      /\ result'.status # "Ok" => UNCHANGED grid ]_vars
=============================================================================
