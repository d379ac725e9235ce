------------------------- MODULE SpatialGrid_proofs -------------------------
(***************************************************************************)
(* Proofs about SpatialGrid and the strategy layer in front of it, for all *)
(* buffers, queries, cell sizes and crossover profiles.                    *)
(***************************************************************************)
EXTENDS SpatialDispatch, OrderLemmas, FiniteSetTheorems, TLAPS

LEMMA KeysFinite == IsFiniteSet(Keys)
  BY FS_Interval, FS_Product, CellRangeAssumption DEF Keys, CellRange

LEMMA CardinalityOfKeys ==
  ASSUME NEW S, S \subseteq Keys PROVE Cardinality(S) \in Nat
  BY KeysFinite, FS_Subset, FS_CardinalityType

\* A buffer that passes validation decodes into entries with integer
\* coordinates, numbered 0 .. PointCount(xy) - 1 without repetition.
LEMMA EntriesType ==
  ASSUME NEW xy \in Buffers, ValidateCoordinates(xy) = "Ok"
  PROVE  /\ PointCount(xy) \in Nat
         /\ Entries(xy) \subseteq Entry
         /\ {e.index : e \in Entries(xy)} = 0 .. PointCount(xy) - 1
         /\ \A e, f \in Entries(xy) : e.index = f.index => e = f
<1>1. /\ xy \in Seq(Coordinates) /\ Len(xy) \in Nat
      /\ Len(xy) = 2 * PointCount(xy) /\ PointCount(xy) \in Nat
  <2>1. xy \in Seq(Coordinates)
    BY BuffersAssumption
  <2>2. Len(xy) \in Nat
    BY <2>1
  <2>3. Len(xy) % 2 = 0
    BY DEF ValidateCoordinates
  <2>4. QED
    BY <2>1, <2>2, <2>3 DEF PointCount
<1>2. \A k \in 1..Len(xy) : xy[k] \in Int
  <2>1. \A k \in 1..Len(xy) : xy[k] # NonFinite
    BY DEF ValidateCoordinates
  <2>2. \A k \in 1..Len(xy) : xy[k] \in Coordinates
    BY <1>1
  <2>3. QED
    BY <2>1, <2>2 DEF Coordinates
<1>3. ASSUME NEW i \in 0 .. PointCount(xy) - 1
      PROVE  EntryAt(xy, i) \in Entry /\ EntryAt(xy, i).index = i
  <2>1. 2*i + 1 \in 1..Len(xy) /\ 2*i + 2 \in 1..Len(xy) /\ i \in Nat
    BY <1>1
  <2>2. QED
    BY <2>1, <1>2 DEF EntryAt, Entry
<1>4. QED
  BY <1>1, <1>3 DEF Entries

-----------------------------------------------------------------------------
(* The invariant                                                           *)

LEMMA InitGridInv == Init => GridInv
<1> SUFFICES ASSUME Init PROVE GridInv
  OBVIOUS
<1>1. TypeOK
  BY InitialCellSizeAssumption DEF Init, TypeOK, EmptyBuckets
<1>2. EntriesInTheirCell /\ NoLeakedBucket
  BY DEF Init, EmptyBuckets, EntriesInTheirCell, NoLeakedBucket
<1>3. ActiveCellsExact /\ EachPointOnce
  BY DEF Init, ActiveCellsExact, EachPointOnce
<1>4. QED
  BY <1>1, <1>2, <1>3 DEF GridInv

\* The failure path keeps the buckets and the list that says which of them
\* to clear.
LEMMA UnreadyKeeps == GridInv /\ Unready => GridInv'
<1> SUFFICES ASSUME GridInv, Unready PROVE GridInv'
  OBVIOUS
<1> USE DEF GridInv, Unready
<1>1. TypeOK'
  BY DEF TypeOK
<1>2. EntriesInTheirCell'
  BY DEF EntriesInTheirCell, KeyOf, CellCoord
<1>3. NoLeakedBucket'
  BY DEF NoLeakedBucket
<1>4. ActiveCellsExact' /\ EachPointOnce'
  BY DEF ActiveCellsExact, EachPointOnce
<1>5. QED
  BY <1>1, <1>2, <1>3, <1>4

LEMMA SetCellSizeKeeps ==
  ASSUME NEW s \in CellSizes, GridInv, SetCellSize(s) PROVE GridInv'
<1>1. CASE SetInvalidCellSize(s)
  BY <1>1, UnreadyKeeps DEF SetInvalidCellSize
<1>2. CASE KeepCellSize(s)
  <2>1. UNCHANGED grid
    BY <1>2 DEF KeepCellSize
  <2>2. QED
    BY <2>1 DEF grid, GridInv, TypeOK, EntriesInTheirCell, NoLeakedBucket,
                ActiveCellsExact, EachPointOnce, Stored, KeyOf, CellCoord
<1>3. CASE ChangeCellSize(s)
  <2>1. s \in Nat \ {0}
    BY <1>3, CellSizesAssumption DEF ChangeCellSize, ValidCellSize, Coordinates
  <2>2. TypeOK'
    BY <1>3, <2>1 DEF ChangeCellSize, TypeOK, EmptyBuckets
  <2>3. EntriesInTheirCell' /\ NoLeakedBucket'
    BY <1>3 DEF ChangeCellSize, EmptyBuckets, EntriesInTheirCell, NoLeakedBucket
  <2>4. ActiveCellsExact' /\ EachPointOnce'
    BY <1>3 DEF ChangeCellSize, ActiveCellsExact, EachPointOnce
  <2>5. QED
    BY <2>2, <2>3, <2>4 DEF GridInv
<1>4. QED
  BY <1>1, <1>2, <1>3 DEF SetCellSize

\* An accepted buffer's points are all that is stored afterwards.
LEMMA AcceptStores ==
  ASSUME NEW xy \in Buffers, GridInv, AcceptBuffer(xy)
  PROVE  /\ ValidateCoordinates(xy) = "Ok"
         /\ \A k \in Keys : cells'[k] = {e \in Entries(xy) : KeyOf(e) = k}
         /\ \A e \in Entries(xy) : KeyOf(e) \in Keys
         /\ Stored' = Entries(xy)
<1>1. RebuildStatus(xy) = "Ok"
  BY DEF AcceptBuffer
<1>2. ValidateCoordinates(xy) = "Ok" /\ PlacesFit(xy)
  BY <1>1 DEF RebuildStatus
<1>3. \A k \in Keys : Cleared[k] = {}
  BY DEF GridInv, NoLeakedBucket, Cleared
<1>4. \A k \in Keys : cells'[k] = {e \in Entries(xy) : KeyOf(e) = k}
  BY <1>3 DEF AcceptBuffer
<1>5. \A e \in Entries(xy) : KeyOf(e) \in Keys
  BY <1>2 DEF PlacesFit, CellFits, KeyOf, Keys
<1>6. Stored' = Entries(xy)
  BY <1>4, <1>5 DEF Stored
<1>7. QED
  BY <1>2, <1>4, <1>5, <1>6

LEMMA RebuildKeeps ==
  ASSUME NEW xy \in Buffers, GridInv, Rebuild(xy) PROVE GridInv'
<1>1. CASE RejectBuffer(xy)
  BY <1>1, UnreadyKeeps DEF RejectBuffer
<1>2. CASE AcceptBuffer(xy)
  <2>1. /\ ValidateCoordinates(xy) = "Ok"
        /\ \A k \in Keys : cells'[k] = {e \in Entries(xy) : KeyOf(e) = k}
        /\ Stored' = Entries(xy)
    BY <1>2, AcceptStores
  <2>2. /\ PointCount(xy) \in Nat
        /\ Entries(xy) \subseteq Entry
        /\ {e.index : e \in Entries(xy)} = 0 .. PointCount(xy) - 1
        /\ \A e, f \in Entries(xy) : e.index = f.index => e = f
    BY <2>1, EntriesType
  <2>3. /\ cellSize' = cellSize
        /\ touched' = NewlyOccupied(Entries(xy))
        /\ pointCount' = PointCount(xy)
        /\ activeCells' = Cardinality(NewlyOccupied(Entries(xy)))
        /\ ready' = TRUE
    BY <1>2 DEF AcceptBuffer
  <2>4. NewlyOccupied(Entries(xy)) = {k \in Keys : cells'[k] # {}}
    <3>1. \A k \in Keys : Cleared[k] = {}
      BY DEF GridInv, NoLeakedBucket, Cleared
    <3>2. QED
      BY <3>1, <2>1 DEF NewlyOccupied
  <2>5. cells' \in [Keys -> SUBSET Entry]
    <3>1. cells' = [k \in Keys |-> cells'[k]]
      BY <1>2 DEF AcceptBuffer
    <3>2. \A k \in Keys : cells'[k] \in SUBSET Entry
      BY <2>1, <2>2
    <3>3. QED
      BY <3>1, <3>2
  <2>6. TypeOK'
    BY <2>2, <2>3, <2>5, CardinalityOfKeys DEF GridInv, TypeOK, NewlyOccupied
  <2>7. EntriesInTheirCell'
    BY <2>1, <2>3 DEF EntriesInTheirCell, KeyOf, CellCoord
  <2>8. NoLeakedBucket' /\ ActiveCellsExact'
    BY <2>3, <2>4 DEF NoLeakedBucket, ActiveCellsExact
  <2>9. EachPointOnce'
    BY <2>1, <2>2, <2>3 DEF EachPointOnce
  <2>10. QED
    BY <2>6, <2>7, <2>8, <2>9 DEF GridInv
<1>3. QED
  BY <1>1, <1>2 DEF Rebuild

LEMMA StutterKeeps == GridInv /\ UNCHANGED grid => GridInv'
  BY DEF grid, GridInv, TypeOK, EntriesInTheirCell, NoLeakedBucket,
         ActiveCellsExact, EachPointOnce, Stored, KeyOf, CellCoord

\* The structural invariant of the grid: types, every entry in its own cell,
\* no bucket outside the touched list, exact cell and point counts.
THEOREM GridInvariant == Spec => []GridInv
<1>1. Init => GridInv
  BY InitGridInv
<1>2. GridInv /\ [Next]_vars => GridInv'
  <2> SUFFICES ASSUME GridInv, [Next]_vars PROVE GridInv'
    OBVIOUS
  <2>1. ASSUME NEW s \in CellSizes, SetCellSize(s) PROVE GridInv'
    BY <2>1, SetCellSizeKeeps
  <2>2. ASSUME NEW xy \in Buffers, Rebuild(xy) PROVE GridInv'
    BY <2>2, RebuildKeeps
  <2>3. ASSUME NEW q \in Queries, AskQuery(q) PROVE GridInv'
    BY <2>3, StutterKeeps DEF AskQuery
  <2>4. CASE UNCHANGED vars
    BY <2>4, StutterKeeps DEF vars, grid
  <2>5. QED
    BY <2>1, <2>2, <2>3, <2>4 DEF Next
<1>3. QED
  BY <1>1, <1>2, PTL DEF Spec

\* The grid's fields keep their types, for every buffer and cell size.
THEOREM TypeCorrect == Spec => []TypeOK
<1>1. GridInv => TypeOK
  BY DEF GridInv
<1>2. QED
  BY <1>1, GridInvariant, PTL

\* A ready grid holds each point of the last accepted buffer exactly once,
\* whatever failed calls and cell sizes came before.
THEOREM EachPointIndexedOnce == Spec => []EachPointOnce
<1>1. GridInv => EachPointOnce
  BY DEF GridInv
<1>2. QED
  BY <1>1, GridInvariant, PTL

-----------------------------------------------------------------------------
(* Exact arithmetic: the scan finds what brute force finds.                *)

LEMMA QuotientMonotone ==
  ASSUME NEW a \in Int, NEW b \in Int, NEW s \in Int, s > 0, a <= b
  PROVE  a \div s \in Int /\ a \div s <= b \div s
<1> DEFINE qa == a \div s
           qb == b \div s
<1>1. qa \in Int /\ s * qa <= a /\ a < s * qa + s
  OBVIOUS
<1>2. qb \in Int /\ s * qb <= b /\ b < s * qb + s
  OBVIOUS
<1> HIDE DEF qa, qb
<1>3. ASSUME qa > qb PROVE FALSE
  <2>1. s * qa >= s * (qb + 1)
    BY <1>1, <1>2, <1>3
  <2>2. QED
    BY <1>1, <1>2, <2>1
<1>4. QED
  BY <1>1, <1>2, <1>3 DEF qa, qb

LEMMA WithinRadius ==
  ASSUME NEW d \in Int, NEW r \in Int, r >= 0, d * d <= r * r
  PROVE  -r <= d /\ d <= r
<1>1. ASSUME d > r PROVE FALSE
  <2>1. d * d > r * r
    BY <1>1
  <2>2. QED
    BY <2>1
<1>2. ASSUME -d > r PROVE FALSE
  <2>1. d * d > r * r
    BY <1>2
  <2>2. QED
    BY <2>1
<1>3. QED
  BY <1>1, <1>2

LEMMA SquareNatural == ASSUME NEW d \in Int PROVE d * d \in Int /\ d * d >= 0
<1>1. CASE d >= 0
  BY <1>1
<1>2. CASE d < 0
  BY <1>2
<1>3. QED
  BY <1>1, <1>2

\* A point inside the circle is inside its bounding square.
LEMMA InsideSquare ==
  ASSUME ExactArithmetic, NEW q \in Query, ValidQuery(q),
         NEW e \in Entry, Inside(e, q)
  PROVE  /\ q.x - q.radius <= e.x /\ e.x <= q.x + q.radius
         /\ q.y - q.radius <= e.y /\ e.y <= q.y + q.radius
<1>1. /\ q.x \in Int /\ q.y \in Int /\ q.radius \in Int /\ q.radius >= 0
      /\ e.x \in Int /\ e.y \in Int
  BY DEF Query, Coordinates, ValidQuery, Entry
<1> DEFINE dx == e.x - q.x
           dy == e.y - q.y
           rr == q.radius * q.radius
<1>2. dx \in Int /\ dy \in Int /\ rr \in Int
  BY <1>1
<1>3. Round(dx) = dx /\ Round(dy) = dy /\ Round(rr) = rr
  BY <1>2 DEF ExactArithmetic
<1>4. /\ dx * dx \in Int /\ dx * dx >= 0
      /\ dy * dy \in Int /\ dy * dy >= 0
  BY <1>2, SquareNatural
<1>5. DistanceSquared(e, q) = dx * dx + dy * dy
  <2>1. /\ Round(dx * dx) = dx * dx /\ Round(dy * dy) = dy * dy
        /\ Round(dx * dx + dy * dy) = dx * dx + dy * dy
    BY <1>4 DEF ExactArithmetic
  <2>2. QED
    BY <1>3, <2>1 DEF DistanceSquared
<1>6. DistanceSquared(e, q) <= rr
  <2>1. DistanceSquared(e, q) \in Int
    BY <1>4, <1>5
  <2>2. QED
    BY <1>2, <1>3, <2>1 DEF Inside
<1>7. dx * dx <= rr /\ dy * dy <= rr
  BY <1>2, <1>4, <1>5, <1>6
<1>8. /\ -q.radius <= dx /\ dx <= q.radius
      /\ -q.radius <= dy /\ dy <= q.radius
  BY <1>1, <1>2, <1>7, WithinRadius
<1>9. QED
  BY <1>1, <1>8

LEMMA HitsExact ==
  ASSUME ExactArithmetic, GridInv, NEW q \in Query, ValidQuery(q), AreaFits(q)
  PROVE  Hits(q) = {e \in Stored : Inside(e, q)}
<1>1. /\ q.x \in Int /\ q.y \in Int /\ q.radius \in Int
      /\ cellSize \in Int /\ cellSize > 0
  BY DEF Query, Coordinates, ValidQuery, GridInv, TypeOK
<1>2. /\ LowCorner(q.x, q) = q.x - q.radius /\ HighCorner(q.x, q) = q.x + q.radius
      /\ LowCorner(q.y, q) = q.y - q.radius /\ HighCorner(q.y, q) = q.y + q.radius
  BY <1>1 DEF LowCorner, HighCorner, ExactArithmetic
<1>3. ScannedKeys(q) \subseteq Keys
  BY CellRangeAssumption DEF AreaFits, CellFits, ScannedKeys, Keys, CellRange
<1>4. ASSUME NEW e \in Stored, Inside(e, q)
      PROVE  e \in UNION {cells[k] : k \in ScannedKeys(q)}
  <2>1. PICK k \in Keys : e \in cells[k]
    BY DEF Stored
  <2>2. e \in Entry /\ e.x \in Int /\ e.y \in Int
    BY <2>1 DEF GridInv, TypeOK, Entry
  <2>3. k = KeyOf(e)
    BY <2>1 DEF GridInv, EntriesInTheirCell
  <2>4. /\ q.x - q.radius <= e.x /\ e.x <= q.x + q.radius
        /\ q.y - q.radius <= e.y /\ e.y <= q.y + q.radius
    BY <1>4, <2>2, InsideSquare
  <2>5. CellCoord(e.x) \in CellCoord(LowCorner(q.x, q)) .. CellCoord(HighCorner(q.x, q))
    BY <1>1, <1>2, <2>2, <2>4, QuotientMonotone DEF CellCoord
  <2>6. CellCoord(e.y) \in CellCoord(LowCorner(q.y, q)) .. CellCoord(HighCorner(q.y, q))
    BY <1>1, <1>2, <2>2, <2>4, QuotientMonotone DEF CellCoord
  <2>7. QED
    BY <2>1, <2>3, <2>5, <2>6 DEF KeyOf, ScannedKeys
<1>5. QED
  BY <1>3, <1>4 DEF Hits, Stored

LEMMA AskAnswersExactly ==
  ASSUME ExactArithmetic, GridInv, NEW q \in Queries, AskQuery(q)
  PROVE  InputOrderEquivalence'
<1>1. q \in Query
  BY QueriesAssumption
<1>2. Stored' = Stored
  BY DEF AskQuery, grid, Stored
<1>3. reply'.query = q /\ reply'.result = QueryResult(q)
  BY DEF AskQuery
<1>4. SUFFICES ASSUME q.order = "InputOrder",
                      QueryResult(q).status \in {"Ok", "OutputTooSmall"}
               PROVE  /\ QueryResult(q).status = BruteForce(Stored, q).status
                      /\ QueryResult(q).required = BruteForce(Stored, q).required
                      /\ QueryResult(q).status = "Ok"
                           => QueryResult(q).out = BruteForce(Stored, q).out
  BY <1>2, <1>3 DEF InputOrderEquivalence
<1>5. ready /\ ValidQuery(q) /\ AreaFits(q)
  BY <1>4 DEF QueryResult, Refuse
<1>6. Hits(q) = {e \in Stored : Inside(e, q)}
  BY <1>1, <1>5, HitsExact
<1> DEFINE hits == {e \in Stored : Inside(e, q)}
<1>7. QueryResult(q) = Deliver(hits, InScanOrder(hits), InInputOrder(hits), q.capacity)
  BY <1>4, <1>5, <1>6 DEF QueryResult
<1>8. BruteForce(Stored, q) = Deliver(hits, InInputOrder(hits), InInputOrder(hits), q.capacity)
  BY <1>5 DEF BruteForce
<1> HIDE DEF hits
<1>9. QED
  BY <1>7, <1>8 DEF Deliver

\* With arithmetic that loses nothing, every query the grid answers in input
\* order returns the status, the counts and the indices of brute force.
THEOREM ExactGridEqualsBruteForce ==
  ASSUME ExactArithmetic PROVE Spec => []InputOrderEquivalence
<1>1. Init => InputOrderEquivalence
  BY DEF Init, InputOrderEquivalence
<1>2. GridInv /\ InputOrderEquivalence /\ [Next]_vars => InputOrderEquivalence'
  <2> SUFFICES ASSUME GridInv, InputOrderEquivalence, [Next]_vars
               PROVE  InputOrderEquivalence'
    OBVIOUS
  <2>1. ASSUME NEW s \in CellSizes, SetCellSize(s) PROVE InputOrderEquivalence'
    BY <2>1 DEF SetCellSize, SetInvalidCellSize, ChangeCellSize, KeepCellSize,
                InputOrderEquivalence
  <2>2. ASSUME NEW xy \in Buffers, Rebuild(xy) PROVE InputOrderEquivalence'
    BY <2>2 DEF Rebuild, RejectBuffer, AcceptBuffer, InputOrderEquivalence
  <2>3. ASSUME NEW q \in Queries, AskQuery(q) PROVE InputOrderEquivalence'
    BY <2>3, AskAnswersExactly
  <2>4. CASE UNCHANGED vars
    <3>1. Stored' = Stored /\ reply' = reply
      BY <2>4 DEF vars, Stored
    <3>2. QED
      BY <3>1 DEF InputOrderEquivalence
  <2>5. QED
    BY <2>1, <2>2, <2>3, <2>4 DEF Next
<1>3. QED
  BY <1>1, <1>2, GridInvariant, PTL DEF Spec

-----------------------------------------------------------------------------
(* Hits arranged in an order                                               *)

\* The indices of hits numbered without omission are those of all hits.
LEMMA IndicesOfAll ==
  ASSUME NEW hits, hits \subseteq Entry, NEW n \in Nat, NEW s \in [1 .. n -> hits],
         \A e \in hits : \E i \in 1 .. n : s[i] = e
  PROVE  Len(Indices(s)) = n /\ ToSet(Indices(s)) = {e.index : e \in hits}
<1>1. s \in Seq(hits) /\ Len(s) = n /\ DOMAIN s = 1 .. n
  OBVIOUS
<1>2. Indices(s) = [k \in 1 .. n |-> s[k].index]
  BY <1>1 DEF Indices
<1>3. \A k \in 1 .. n : s[k].index \in Nat
  BY DEF Entry
<1>4. Indices(s) \in Seq(Nat) /\ Len(Indices(s)) = n /\ DOMAIN Indices(s) = 1 .. n
  BY <1>2, <1>3
<1>5. ToSet(Indices(s)) = {s[k].index : k \in 1 .. n}
  BY <1>2, <1>4 DEF ToSet
<1>6. QED
  BY <1>4, <1>5

Distinct(hits) == \A e, f \in hits : e.index = f.index => e = f

LEMMA InputOrderCovers ==
  ASSUME NEW hits, IsFiniteSet(hits), hits \subseteq Entry, Distinct(hits)
  PROVE  /\ Len(InInputOrder(hits)) = Cardinality(hits)
         /\ ToSet(InInputOrder(hits)) = {e.index : e \in hits}
<1> DEFINE n == Cardinality(hits)
           R == {p \in hits \X hits : IndexBefore(p[1], p[2])}
           s == Arranged(hits, IndexBefore)
<1>1. n \in Nat
  BY FS_CardinalityType
<1>2. \A e \in hits : e.index \in Nat
  BY DEF Entry
<1>3. \A e, f \in hits : <<e, f>> \in R <=> e.index < f.index
  BY DEF IndexBefore
<1> HIDE DEF R
<1>4. /\ \A e \in hits : <<e, e>> \notin R
      /\ \A e, f, g \in hits : <<e, f>> \in R /\ <<f, g>> \in R => <<e, g>> \in R
      /\ \A e, f \in hits : e # f => <<e, f>> \in R \/ <<f, e>> \in R
  BY <1>2, <1>3 DEF Distinct
<1>5. \E t \in [1 .. n -> hits] : \A i, j \in 1 .. n : i < j => <<t[i], t[j]>> \in R
  BY <1>4, ArrangementExists
<1>6. \E t \in [1 .. n -> hits] : \A i, j \in 1 .. n : i < j => IndexBefore(t[i], t[j])
  BY <1>3, <1>5 DEF IndexBefore
<1>7. s \in [1 .. n -> hits] /\ \A i, j \in 1 .. n : i < j => IndexBefore(s[i], s[j])
  BY <1>6 DEF Arranged
<1> HIDE DEF s
<1>8. \A i, j \in 1 .. n : i < j => <<s[i], s[j]>> \in R
  BY <1>3, <1>7 DEF IndexBefore
<1>9. \A e \in hits : \E i \in 1 .. n : s[i] = e
  <2>1. \A e \in hits : <<e, e>> \notin R
    BY <1>4
  <2>2. \A t \in [1 .. n -> hits] :
          (\A i, j \in 1 .. n : i < j => <<t[i], t[j]>> \in R)
            => \A e \in hits : \E i \in 1 .. n : t[i] = e
    BY <2>1, ArrangementCovers
  <2> HIDE DEF n
  <2>3. QED
    BY <2>2, <1>7, <1>8
<1>10. Len(Indices(s)) = n /\ ToSet(Indices(s)) = {e.index : e \in hits}
  <2> HIDE DEF n
  <2>1. QED
    BY <1>1, <1>7, <1>9, IndicesOfAll
<1>11. QED
  BY <1>10 DEF InInputOrder, s

LEMMA ScanOrderCovers ==
  ASSUME cellSize \in Nat \ {0},
         NEW hits, IsFiniteSet(hits), hits \subseteq Entry, Distinct(hits)
  PROVE  /\ Len(InScanOrder(hits)) = Cardinality(hits)
         /\ ToSet(InScanOrder(hits)) = {e.index : e \in hits}
<1> DEFINE n == Cardinality(hits)
           R == {p \in hits \X hits : ScannedBefore(p[1], p[2])}
           s == Arranged(hits, ScannedBefore)
<1>1. n \in Nat
  BY FS_CardinalityType
<1>2. \A e \in hits : e.index \in Nat /\ CellCoord(e.x) \in Int /\ CellCoord(e.y) \in Int
  BY DEF Entry, CellCoord
<1>3. \A e, f \in hits : <<e, f>> \in R <=> ScannedBefore(e, f)
  OBVIOUS
<1> HIDE DEF R
<1>4. /\ \A e \in hits : <<e, e>> \notin R
      /\ \A e, f, g \in hits : <<e, f>> \in R /\ <<f, g>> \in R => <<e, g>> \in R
      /\ \A e, f \in hits : e # f => <<e, f>> \in R \/ <<f, e>> \in R
  BY <1>2, <1>3 DEF Distinct, ScannedBefore, KeyOf
<1>5. \E t \in [1 .. n -> hits] : \A i, j \in 1 .. n : i < j => <<t[i], t[j]>> \in R
  BY <1>4, ArrangementExists
<1>6. \E t \in [1 .. n -> hits] : \A i, j \in 1 .. n : i < j => ScannedBefore(t[i], t[j])
  BY <1>3, <1>5
<1>7. s \in [1 .. n -> hits] /\ \A i, j \in 1 .. n : i < j => ScannedBefore(s[i], s[j])
  BY <1>6 DEF Arranged
<1> HIDE DEF s
<1>8. \A i, j \in 1 .. n : i < j => <<s[i], s[j]>> \in R
  BY <1>3, <1>7
<1>9. \A e \in hits : \E i \in 1 .. n : s[i] = e
  <2>1. \A e \in hits : <<e, e>> \notin R
    BY <1>4
  <2>2. \A t \in [1 .. n -> hits] :
          (\A i, j \in 1 .. n : i < j => <<t[i], t[j]>> \in R)
            => \A e \in hits : \E i \in 1 .. n : t[i] = e
    BY <2>1, ArrangementCovers
  <2> HIDE DEF n
  <2>3. QED
    BY <2>2, <1>7, <1>8
<1>10. Len(Indices(s)) = n /\ ToSet(Indices(s)) = {e.index : e \in hits}
  <2> HIDE DEF n
  <2>1. QED
    BY <1>1, <1>7, <1>9, IndicesOfAll
<1>11. QED
  BY <1>10 DEF InScanOrder, s

-----------------------------------------------------------------------------
(* Answers, retries and the abstract index                                 *)

\* A ready grid stores finitely many points with distinct indices, and a scan
\* that stays within the keys finds some of them.
LEMMA HitsArePoints ==
  ASSUME GridInv, ready, NEW q, AreaFits(q)
  PROVE  /\ IsFiniteSet(Stored) /\ Stored \subseteq Entry /\ Distinct(Stored)
         /\ Hits(q) \subseteq Stored
         /\ IsFiniteSet(Hits(q)) /\ Cardinality(Hits(q)) \in Nat
<1>1. Stored \subseteq Entry
  BY DEF GridInv, TypeOK, Stored
<1>2. Distinct(Stored) /\ \A e \in Stored : e.index \in 0 .. pointCount - 1
  BY DEF GridInv, EachPointOnce, Distinct
<1>3. IsFiniteSet(Stored)
  <2> DEFINE f == [e \in Stored |-> e.index]
  <2>1. f \in [Stored -> 0 .. pointCount - 1]
    BY <1>2
  <2>2. \A e, g \in Stored : f[e] = f[g] => e = g
    BY <1>2 DEF Distinct
  <2> HIDE DEF f
  <2>3. f \in Injection(Stored, 0 .. pointCount - 1)
    BY <2>1, <2>2 DEF Injection, IsInjective
  <2>4. IsFiniteSet(0 .. pointCount - 1)
    BY FS_Interval DEF GridInv, TypeOK
  <2>5. QED
    BY <2>3, <2>4, FS_Injection
<1>4. ScannedKeys(q) \subseteq Keys
  <2>1. /\ CellCoord(LowCorner(q.x, q)) \in CellRange /\ CellCoord(HighCorner(q.x, q)) \in CellRange
        /\ CellCoord(LowCorner(q.y, q)) \in CellRange /\ CellCoord(HighCorner(q.y, q)) \in CellRange
    BY DEF AreaFits, CellFits
  <2>2. QED
    BY <2>1, CellRangeAssumption DEF ScannedKeys, Keys, CellRange
<1>5. Hits(q) \subseteq Stored
  BY <1>4 DEF Hits, Stored
<1>6. IsFiniteSet(Hits(q))
  BY <1>3, <1>5, FS_Subset
<1>7. QED
  BY <1>1, <1>2, <1>3, <1>5, <1>6, FS_CardinalityType

\* With exact arithmetic an answered query, in either order, says what brute
\* force says over the stored points.
LEMMA AnswerMatches ==
  ASSUME ExactArithmetic, GridInv, ready, NEW q \in Query, ValidQuery(q), AreaFits(q)
  PROVE  Index!Matches(QueryResult(q), BruteForce(Stored, q), q)
<1> DEFINE hits == {e \in Stored : Inside(e, q)}
           n == Cardinality(hits)
<1>1. Hits(q) = hits
  BY HitsExact
<1>2. IsFiniteSet(hits) /\ hits \subseteq Entry /\ Distinct(hits) /\ n \in Nat
  <2>1. hits \subseteq Stored
    OBVIOUS
  <2>2. QED
    BY <1>1, <2>1, HitsArePoints DEF Distinct
<1> HIDE DEF hits
<1>3. Len(InInputOrder(hits)) = n /\ ToSet(InInputOrder(hits)) = {e.index : e \in hits}
  BY <1>2, InputOrderCovers
<1>4. Len(InScanOrder(hits)) = n /\ ToSet(InScanOrder(hits)) = {e.index : e \in hits}
  BY <1>2, ScanOrderCovers DEF GridInv, TypeOK
<1> DEFINE final == IF q.order = "InputOrder" THEN InInputOrder(hits) ELSE InScanOrder(hits)
<1>5. QueryResult(q) = Deliver(hits, InScanOrder(hits), final, q.capacity)
  BY <1>1 DEF QueryResult
<1>6. BruteForce(Stored, q) = Deliver(hits, InInputOrder(hits), InInputOrder(hits), q.capacity)
  BY DEF BruteForce, hits
<1>7. Len(final) = n /\ ToSet(final) = ToSet(InInputOrder(hits))
      /\ (q.order = "InputOrder" => final = InInputOrder(hits))
  BY <1>3, <1>4
<1> HIDE DEF final, n
<1>8. CASE n > q.capacity
  <2>1. /\ QueryResult(q).status = "OutputTooSmall" /\ BruteForce(Stored, q).status = "OutputTooSmall"
        /\ QueryResult(q).written = 0 /\ BruteForce(Stored, q).written = 0
        /\ QueryResult(q).required = n /\ BruteForce(Stored, q).required = n
    BY <1>5, <1>6, <1>8 DEF Deliver, n
  <2>2. QED
    BY <2>1 DEF Index!Matches
<1>9. CASE ~(n > q.capacity)
  <2>1. /\ QueryResult(q) = [status |-> "Ok", written |-> n, required |-> n, out |-> final]
        /\ BruteForce(Stored, q) = [status |-> "Ok", written |-> n, required |-> n,
                                    out |-> InInputOrder(hits)]
    BY <1>5, <1>6, <1>9 DEF Deliver, n
  <2>2. /\ QueryResult(q).status = "Ok" /\ BruteForce(Stored, q).status = "Ok"
        /\ QueryResult(q).written = n /\ BruteForce(Stored, q).written = n
        /\ QueryResult(q).required = n /\ BruteForce(Stored, q).required = n
        /\ QueryResult(q).out = final /\ BruteForce(Stored, q).out = InInputOrder(hits)
    BY <2>1
  <2>3. Index!ToSet(final) = Index!ToSet(InInputOrder(hits))
    BY <1>7 DEF ToSet, Index!ToSet
  <2>4. QED
    BY <1>7, <2>2, <2>3 DEF Index!Matches
<1>10. QED
  BY <1>8, <1>9

\* The reply of the last query is the answer to it in the present state: only
\* another call, which replies itself, changes the grid.
ReplyIsCurrent ==
  reply.op = "Query" => reply.query \in Queries /\ reply.result = QueryResult(reply.query)

LEMMA ReplyKept == ReplyIsCurrent /\ [Next]_vars => ReplyIsCurrent'
<1> SUFFICES ASSUME ReplyIsCurrent, [Next]_vars PROVE ReplyIsCurrent'
  OBVIOUS
<1>1. ASSUME NEW s \in CellSizes, SetCellSize(s) PROVE reply'.op = "SetCellSize"
  BY <1>1 DEF SetCellSize, SetInvalidCellSize, ChangeCellSize, KeepCellSize
<1>2. ASSUME NEW xy \in Buffers, Rebuild(xy) PROVE reply'.op = "Rebuild"
  BY <1>2 DEF Rebuild, RejectBuffer, AcceptBuffer
<1>3. ASSUME UNCHANGED grid, NEW q PROVE QueryResult(q)' = QueryResult(q)
  BY <1>3 DEF grid, QueryResult, AreaFits, CellFits, CellCoord, Hits, ScannedKeys,
              InScanOrder, Arranged, ScannedBefore, KeyOf
<1>4. ASSUME NEW q \in Queries, AskQuery(q) PROVE ReplyIsCurrent'
  <2>1. reply'.query = q /\ reply'.result = QueryResult(q) /\ UNCHANGED grid
    BY <1>4 DEF AskQuery
  <2>2. QED
    BY <1>3, <2>1 DEF ReplyIsCurrent
<1>5. CASE UNCHANGED vars
  <2>1. UNCHANGED grid /\ reply' = reply
    BY <1>5 DEF vars, grid
  <2>2. QED
    BY <1>3, <2>1 DEF ReplyIsCurrent
<1>6. QED
  BY <1>1, <1>2, <1>4, <1>5 DEF Next, ReplyIsCurrent

\* The abstract index is written with the same search operators.
LEMMA SameSearch ==
  /\ \A xy : Index!ValidateCoordinates(xy) = ValidateCoordinates(xy)
  /\ \A xy : Index!Entries(xy) = Entries(xy)
  /\ \A q : Index!ValidQuery(q) = ValidQuery(q)
  /\ \A status : Index!Refuse(status) = Refuse(status)
  /\ Index!Statuses = Statuses
<1>1. \A xy : Index!ValidateCoordinates(xy) = ValidateCoordinates(xy)
  BY DEF ValidateCoordinates, Index!ValidateCoordinates
<1>2. \A xy : Index!Entries(xy) = Entries(xy)
  BY DEF Entries, Index!Entries, EntryAt, Index!EntryAt, PointCount, Index!PointCount
<1>3. \A q : Index!ValidQuery(q) = ValidQuery(q)
  BY DEF ValidQuery, Index!ValidQuery
<1>4. QED
  BY <1>1, <1>2, <1>3 DEF Refuse, Index!Refuse, Statuses, Index!Statuses

LEMMA SameCounts == \A S : Index!Cardinality(S) = Cardinality(S)
  BY DEF Cardinality, Index!Cardinality

LEMMA SameBruteForce == \A points, q : Index!BruteForce(points, q) = BruteForce(points, q)
<1>1. \A e, q : Index!Inside(e, q) = Inside(e, q)
  BY DEF Inside, Index!Inside, DistanceSquared, Index!DistanceSquared
<1>2. \A hits : Index!InInputOrder(hits) = InInputOrder(hits)
  BY DEF InInputOrder, Index!InInputOrder, Indices, Index!Indices, Arranged, Index!Arranged,
         IndexBefore, Index!IndexBefore, Cardinality, Index!Cardinality
<1>3. \A hits, a, b, c : Index!Deliver(hits, a, b, c) = Deliver(hits, a, b, c)
  BY SameCounts DEF Deliver, Index!Deliver
<1>4. QED
  BY <1>1, <1>2, <1>3, SameSearch DEF BruteForce, Index!BruteForce

\* Asking again with the room the refusal named is enough: no rounding and no
\* call in between makes the second count differ from the first.
THEOREM RetryAlwaysFits == Spec => RetryFits
<1> DEFINE Fits ==
      /\ reply.op = "Query" /\ reply'.op = "Query"
      /\ reply.result.status = "OutputTooSmall"
      /\ reply'.query = [reply.query EXCEPT !.capacity = reply.result.required]
      => reply'.result.status = "Ok"
<1>1. Init => ReplyIsCurrent
  BY DEF Init, ReplyIsCurrent
<1>2. GridInv /\ ReplyIsCurrent /\ [Next]_vars => [Fits]_vars
  <2> SUFFICES ASSUME GridInv, ReplyIsCurrent, Next,
                      reply.op = "Query", reply'.op = "Query",
                      reply.result.status = "OutputTooSmall",
                      reply'.query = [reply.query EXCEPT !.capacity = reply.result.required]
               PROVE  reply'.result.status = "Ok"
    BY DEF vars
  <2> DEFINE q == reply.query
             n == Cardinality(Hits(q))
             r == [q EXCEPT !.capacity = n]
  <2>1. q \in Query /\ reply.result = QueryResult(q)
    BY QueriesAssumption DEF ReplyIsCurrent
  <2>2. ready /\ ValidQuery(q) /\ AreaFits(q)
    BY <2>1 DEF QueryResult, Refuse
  <2>3. n \in Nat
    BY <2>2, HitsArePoints
  <2>4. reply.result.required = n
    BY <2>1, <2>2 DEF QueryResult, Deliver
  <2>5. PICK p \in Queries : AskQuery(p)
    <3>1. \A s \in CellSizes : SetCellSize(s) => reply'.op = "SetCellSize"
      BY DEF SetCellSize, SetInvalidCellSize, ChangeCellSize, KeepCellSize
    <3>2. \A xy \in Buffers : Rebuild(xy) => reply'.op = "Rebuild"
      BY DEF Rebuild, RejectBuffer, AcceptBuffer
    <3>3. QED
      BY <3>1, <3>2 DEF Next
  <2>6. p = r /\ reply'.result = QueryResult(r)
    BY <2>4, <2>5 DEF AskQuery
  <2>7. /\ r.x = q.x /\ r.y = q.y /\ r.radius = q.radius /\ r.boundary = q.boundary
        /\ r.capacity = n
    BY <2>1 DEF Query
  <2> HIDE DEF r
  <2>8. ValidQuery(r) /\ AreaFits(r)
    BY <2>2, <2>7 DEF ValidQuery, AreaFits, LowCorner, HighCorner
  <2>9. Hits(r) = Hits(q)
    BY <2>7 DEF Hits, ScannedKeys, LowCorner, HighCorner, Inside, DistanceSquared
  <2>10. ~(Cardinality(Hits(r)) > r.capacity)
    BY <2>3, <2>7, <2>9
  <2>11. QED
    BY <2>2, <2>6, <2>8, <2>10 DEF QueryResult, Deliver
<1> HIDE DEF Fits
<1>3. Spec => [][Fits]_vars
  BY <1>1, <1>2, ReplyKept, GridInvariant, PTL DEF Spec
<1>4. QED
  BY <1>3 DEF RetryFits, Fits

\* What a ready grid stores are the points of a buffer it accepted.
HoldsABuffer ==
  ready => \E xy \in Buffers : ValidateCoordinates(xy) = "Ok" /\ Stored = Entries(xy)

LEMMA BufferHeld == GridInv /\ HoldsABuffer /\ [Next]_vars => HoldsABuffer'
<1> SUFFICES ASSUME GridInv, HoldsABuffer, [Next]_vars PROVE HoldsABuffer'
  OBVIOUS
<1>1. ASSUME UNCHANGED grid PROVE HoldsABuffer'
  <2>1. Stored' = Stored /\ ready' = ready
    BY <1>1 DEF grid, Stored
  <2>2. QED
    BY <2>1 DEF HoldsABuffer
<1>2. ASSUME NEW s \in CellSizes, SetCellSize(s) PROVE HoldsABuffer'
  BY <1>1, <1>2 DEF SetCellSize, SetInvalidCellSize, ChangeCellSize, KeepCellSize, Unready, HoldsABuffer
<1>3. ASSUME NEW xy \in Buffers, Rebuild(xy) PROVE HoldsABuffer'
  BY <1>3, AcceptStores DEF Rebuild, RejectBuffer, Unready, HoldsABuffer
<1>4. ASSUME NEW q \in Queries, AskQuery(q) PROVE HoldsABuffer'
  BY <1>1, <1>4 DEF AskQuery
<1>5. CASE UNCHANGED vars
  BY <1>1, <1>5 DEF vars, grid
<1>6. QED
  BY <1>2, <1>3, <1>4, <1>5 DEF Next

\* The points of the abstract index.
Indexed == IF ready THEN Stored ELSE NotReady

LEMMA ReadyIsIndexed == HoldsABuffer => (Indexed = NotReady <=> ~ready)
  BY NotReadyAssumption DEF HoldsABuffer, Indexed

LEMMA ConfigureStep ==
  ASSUME NEW s \in CellSizes, SetCellSize(s) PROVE Index!Configure
<1>1. CASE SetInvalidCellSize(s)
  BY <1>1 DEF SetInvalidCellSize, Unready, Index!Configure
<1>2. CASE ChangeCellSize(s)
  BY <1>2 DEF ChangeCellSize, Index!Configure
<1>3. CASE KeepCellSize(s)
  <2>1. Stored' = Stored /\ ready' = ready
    BY <1>3 DEF KeepCellSize, grid, Stored
  <2>2. QED
    BY <1>3, <2>1 DEF KeepCellSize, Index!Configure
<1>4. QED
  BY <1>1, <1>2, <1>3 DEF SetCellSize

LEMMA ReplaceStep ==
  ASSUME GridInv, NEW xy \in Buffers, Rebuild(xy) PROVE Index!Replace(xy)
<1>1. CASE RejectBuffer(xy)
  <2>1. RebuildStatus(xy) \in Statuses \ {"Ok"}
    BY <1>1 DEF RejectBuffer, RebuildStatus, ValidateCoordinates, Statuses
  <2>2. QED
    BY <1>1, <2>1, SameSearch DEF RejectBuffer, Unready, Index!Replace
<1>2. CASE AcceptBuffer(xy)
  <2>1. ValidateCoordinates(xy) = "Ok" /\ Stored' = Entries(xy)
    BY <1>2, AcceptStores
  <2>2. QED
    BY <1>2, <2>1, SameSearch DEF AcceptBuffer, Index!Replace
<1>3. QED
  BY <1>1, <1>2 DEF Rebuild

\* An area within Low..High lies within the keys of every cell size.
LEMMA ReachFits ==
  ASSUME ExactArithmetic, GridInv, NEW q \in Query, ValidQuery(q), Index!WithinReach(q)
  PROVE  AreaFits(q)
<1>1. ASSUME NEW v \in CellMin .. CellMax PROVE CellFits(v)
  <2>1. v \in Int /\ CellMin <= v /\ v <= CellMax /\ cellSize \in Int /\ cellSize >= 1
    BY CellRangeAssumption DEF GridInv, TypeOK
  <2>2. v \div cellSize \in Int /\ cellSize * (v \div cellSize) <= v
        /\ v < cellSize * (v \div cellSize) + cellSize
    BY <2>1
  <2> DEFINE d == v \div cellSize
  <2> HIDE DEF d
  <2>3. d \in Int /\ cellSize * d <= v /\ v < cellSize * d + cellSize
    BY <2>2 DEF d
  <2>4. CASE d >= 0
    <3>1. cellSize * d >= d
      BY <2>1, <2>3, <2>4
    <3>2. QED
      BY <2>1, <2>3, <2>4, <3>1, CellRangeAssumption DEF CellFits, CellCoord, CellRange, d
  <2>5. CASE d < 0
    <3>1. cellSize * (d + 1) <= d + 1
      BY <2>1, <2>3, <2>5
    <3>2. cellSize * (d + 1) = cellSize * d + cellSize
      BY <2>1, <2>3
    <3>3. v < d + 1
      BY <2>1, <2>3, <3>1, <3>2
    <3>4. QED
      BY <2>1, <2>3, <2>5, <3>3, CellRangeAssumption DEF CellFits, CellCoord, CellRange, d
  <2>6. QED
    BY <2>3, <2>4, <2>5
<1>2. QED
  BY <1>1 DEF Index!WithinReach, AreaFits, LowCorner, HighCorner

LEMMA AnswerStep ==
  ASSUME ExactArithmetic, GridInv, HoldsABuffer, NEW q \in Queries, AskQuery(q)
  PROVE  Index!Answer(q)
<1>1. q \in Query
  BY QueriesAssumption
<1>2. /\ reply' = [op |-> "Query", query |-> q, result |-> QueryResult(q)]
      /\ Stored' = Stored /\ ready' = ready
  BY DEF AskQuery, grid, Stored
<1>3. /\ reply'.op = "Query" /\ reply'.query = q /\ reply'.result = QueryResult(q)
      /\ Indexed' = Indexed
  BY <1>2 DEF Indexed
<1>4. CASE ~ready
  <2>1. QueryResult(q) = Refuse("NotReady")
    BY <1>4 DEF QueryResult
  <2>2. QED
    BY <1>2, <1>3, <1>4, <2>1, SameSearch DEF Index!Answer, Indexed
<1>5. CASE ready /\ ~ValidQuery(q)
  <2>1. QueryResult(q) = Refuse("InvalidQuery") /\ BruteForce(Stored, q) = Refuse("InvalidQuery")
    BY <1>5 DEF QueryResult, BruteForce
  <2>2. Index!Matches(QueryResult(q), BruteForce(Stored, q), q)
    BY <2>1 DEF Index!Matches, Refuse
  <2>3. Indexed = Stored /\ Indexed # NotReady
    BY <1>5, ReadyIsIndexed DEF Indexed
  <2>4. QED
    BY <1>2, <1>3, <2>2, <2>3, SameBruteForce DEF Index!Answer, Indexed
<1>6. CASE ready /\ ValidQuery(q) /\ ~AreaFits(q)
  <2>1. QueryResult(q) = Refuse("InvalidQuery")
    BY <1>6 DEF QueryResult
  <2>2. ~Index!WithinReach(q)
    BY <1>1, <1>6, ReachFits
  <2>3. Indexed # NotReady
    BY <1>6, ReadyIsIndexed
  <2>4. QED
    BY <1>2, <1>3, <1>6, <2>1, <2>2, <2>3, SameSearch DEF Index!Answer, Indexed
<1>7. CASE ready /\ ValidQuery(q) /\ AreaFits(q)
  <2>1. Index!Matches(QueryResult(q), BruteForce(Stored, q), q)
    BY <1>1, <1>7, AnswerMatches
  <2>2. Indexed = Stored /\ Indexed # NotReady
    BY <1>7, ReadyIsIndexed DEF Indexed
  <2>3. QED
    BY <1>2, <1>3, <2>1, <2>2, SameBruteForce DEF Index!Answer, Indexed
<1>8. QED
  BY <1>4, <1>5, <1>6, <1>7

\* With arithmetic that loses nothing, the grid is a radius index: each of its
\* steps is a step of the abstract index, which holds the points of the last
\* accepted buffer or refuses, and answers as brute force does.
THEOREM GridIsARadiusIndex ==
  ASSUME ExactArithmetic PROVE Spec => ImplementsRadiusIndex
<1>1. Init => Index!Init /\ HoldsABuffer
  BY DEF Init, Index!Init, Index!Idle, HoldsABuffer
<1>2. GridInv /\ HoldsABuffer /\ [Next]_vars => [Index!Next]_(Index!indexVars)
  <2> SUFFICES ASSUME GridInv, HoldsABuffer, [Next]_vars
               PROVE  [Index!Next]_(Index!indexVars)
    OBVIOUS
  <2>1. CASE UNCHANGED vars
    <3>1. Stored' = Stored /\ ready' = ready /\ reply' = reply
      BY <2>1 DEF vars, Stored
    <3>2. QED
      BY <3>1 DEF Index!indexVars
  <2>2. QED
    BY <2>1, ConfigureStep, ReplaceStep, AnswerStep DEF Next, Index!Next
<1>3. QED
  BY <1>1, <1>2, BufferHeld, GridInvariant, PTL DEF Spec, ImplementsRadiusIndex, Index!Spec

-----------------------------------------------------------------------------
(* The strategy layer.                                                     *)

PickedChoices == [query : Questions,
                  strategy : {"BruteForce", "GridInputOrder", "GridUnordered"}]

\* Why a late choice is harmless: a ready grid holds the consumer's buffer,
\* because a buffer the grid refuses leaves it not ready.
HoldsTheFrame ==
  /\ choice \in PickedChoices \union {Unmade}
  /\ ready => ValidateCoordinates(frame) = "Ok" /\ Stored = Entries(frame)

LEMMA FrameKeeps ==
  ASSUME NEW xy \in Buffers, GridInv, HoldsTheFrame, Frame(xy)
  PROVE  GridInv' /\ HoldsTheFrame'
<1>1. GridInv'
  BY RebuildKeeps DEF Frame
<1>2. CASE RejectBuffer(xy)
  BY <1>1, <1>2 DEF Frame, RejectBuffer, Unready, HoldsTheFrame
<1>3. CASE AcceptBuffer(xy)
  <2>1. ValidateCoordinates(xy) = "Ok" /\ Stored' = Entries(xy)
    BY <1>3, AcceptStores
  <2>2. frame' = xy /\ choice' = choice
    BY DEF Frame
  <2>3. QED
    BY <1>1, <2>1, <2>2 DEF HoldsTheFrame
<1>4. QED
  BY <1>2, <1>3 DEF Frame, Rebuild

LEMMA ResizeKeeps ==
  ASSUME NEW s \in CellSizes, GridInv, HoldsTheFrame, Resize(s)
  PROVE  GridInv' /\ HoldsTheFrame'
<1>1. GridInv'
  BY SetCellSizeKeeps DEF Resize
<1>2. frame' = frame /\ choice' = choice
  BY DEF Resize
<1>3. CASE SetInvalidCellSize(s) \/ ChangeCellSize(s)
  BY <1>1, <1>2, <1>3 DEF SetInvalidCellSize, ChangeCellSize, Unready, HoldsTheFrame
<1>4. CASE KeepCellSize(s)
  <2>1. Stored' = Stored /\ ready' = ready
    BY <1>4 DEF KeepCellSize, grid, Stored
  <2>2. QED
    BY <1>1, <1>2, <2>1 DEF HoldsTheFrame
<1>5. QED
  BY <1>3, <1>4 DEF Resize, SetCellSize

LEMMA QuietKeeps ==
  ASSUME GridInv, HoldsTheFrame, UNCHANGED grid, UNCHANGED frame,
         choice' \in PickedChoices \union {Unmade}
  PROVE  GridInv' /\ HoldsTheFrame'
<1>1. Stored' = Stored /\ ready' = ready
  BY DEF grid, Stored
<1>2. QED
  BY <1>1, StutterKeeps DEF HoldsTheFrame

LEMMA DispatchKeeps ==
  GridInv /\ HoldsTheFrame /\ [DispatchNext]_dispatchVars => GridInv' /\ HoldsTheFrame'
<1> SUFFICES ASSUME GridInv, HoldsTheFrame, [DispatchNext]_dispatchVars
             PROVE  GridInv' /\ HoldsTheFrame'
  OBVIOUS
<1>1. ASSUME NEW q \in Queries, Ask(q) PROVE GridInv' /\ HoldsTheFrame'
  BY <1>1, QuietKeeps DEF Ask, AskQuery, HoldsTheFrame
<1>2. ASSUME NEW q \in Questions, NEW profile \in Profiles, Choose(q, profile)
      PROVE  GridInv' /\ HoldsTheFrame'
  <2>1. choice' \in PickedChoices
    BY <1>2 DEF Choose, ChooseSpatialQueryStrategy, PickedChoices
  <2>2. UNCHANGED grid /\ UNCHANGED frame
    BY <1>2 DEF Choose, grid
  <2>3. QED
    BY <2>1, <2>2, QuietKeeps
<1>3. ASSUME Execute PROVE GridInv' /\ HoldsTheFrame'
  <2>1. UNCHANGED grid /\ UNCHANGED frame /\ choice' = Unmade
    BY <1>3 DEF Execute, AskQuery, vars, grid
  <2>2. QED
    BY <2>1, QuietKeeps
<1>4. CASE UNCHANGED dispatchVars
  <2>1. UNCHANGED grid /\ UNCHANGED frame /\ choice' = choice
    BY <1>4 DEF dispatchVars, grid
  <2>2. QED
    BY <2>1, QuietKeeps DEF HoldsTheFrame
<1>5. QED
  BY <1>1, <1>2, <1>3, <1>4, FrameKeeps, ResizeKeeps DEF DispatchNext

LEMMA ChosenAnswersExactly ==
  ASSUME ExactArithmetic, GridInv, HoldsTheFrame PROVE AnswersTheFrame
<1> SUFFICES ASSUME choice # Unmade,
                    ~(choice.strategy # "BruteForce" /\ ~ready
                        /\ Outcome(choice) = Refuse("NotReady")),
                    ~(choice.strategy # "BruteForce" /\ ~AreaFits(choice.query)
                        /\ Outcome(choice) = Refuse("InvalidQuery"))
             PROVE  SameAnswer(Outcome(choice), SearchBuffer(frame, choice.query), choice.query)
  BY DEF AnswersTheFrame
<1> DEFINE q == choice.query
<1>1. choice \in PickedChoices /\ q \in Query
  BY QuestionsAssumption, QueriesAssumption DEF HoldsTheFrame, PickedChoices
<1>2. CASE Outcome(choice) = SearchBuffer(frame, q)
  BY <1>1, <1>2 DEF SameAnswer
<1>3. CASE choice.strategy # "BruteForce"
  <2>1. Outcome(choice) = QueryResult(q)
    BY <1>3 DEF Outcome
  <2>2. ready
    BY <1>3, <2>1 DEF QueryResult
  <2>3. SearchBuffer(frame, q) = BruteForce(Stored, q)
    BY <2>2 DEF HoldsTheFrame, SearchBuffer
  <2>4. CASE ~ValidQuery(q)
    BY <1>2, <2>1, <2>2, <2>3, <2>4 DEF QueryResult, BruteForce
  <2>5. CASE ValidQuery(q)
    <3>1. AreaFits(q)
      BY <1>3, <2>1, <2>2, <2>5 DEF QueryResult
    <3>2. Index!Matches(QueryResult(q), BruteForce(Stored, q), q)
      BY <1>1, <2>2, <2>5, <3>1, AnswerMatches
    <3>3. QED
      BY <2>1, <2>3, <3>2 DEF Index!Matches, SameAnswer, ToSet, Index!ToSet
  <2>6. QED
    BY <2>4, <2>5
<1>4. QED
  BY <1>2, <1>3 DEF Outcome

\* With arithmetic that loses nothing, a strategy chosen for a query of either
\* order answers for the consumer's present buffer however late it is run, as
\* brute force would, or refuses.
THEOREM ChoicesAnswerTheFrame ==
  ASSUME ExactArithmetic PROVE DispatchSpec => []AnswersTheFrame
<1>1. DispatchInit => GridInv /\ HoldsTheFrame
  BY InitGridInv DEF DispatchInit, Init, HoldsTheFrame
<1>2. GridInv /\ HoldsTheFrame => AnswersTheFrame
  BY ChosenAnswersExactly
<1>3. QED
  BY <1>1, <1>2, DispatchKeeps, PTL DEF DispatchSpec

\* The strategy layer does nothing to the grid that a caller of the grid could
\* not do, so all the above holds of the grid behind it.
THEOREM DispatchUsesTheGrid == DispatchSpec => Spec
<1>1. DispatchInit => Init /\ GridInv /\ HoldsTheFrame
  BY InitGridInv DEF DispatchInit, Init, HoldsTheFrame
<1>2. HoldsTheFrame /\ [DispatchNext]_dispatchVars => [Next]_vars
  <2> SUFFICES ASSUME HoldsTheFrame, [DispatchNext]_dispatchVars PROVE [Next]_vars
    OBVIOUS
  <2>1. CASE Execute
    <3>1. CASE AskQuery(choice.query)
      <4>1. choice.query \in Queries
        BY <2>1, QuestionsAssumption DEF Execute, HoldsTheFrame, PickedChoices
      <4>2. QED
        BY <3>1, <4>1 DEF Next
    <3>2. QED
      BY <2>1, <3>1 DEF Execute
  <2>2. CASE UNCHANGED dispatchVars
    BY <2>2 DEF dispatchVars, vars
  <2>3. ASSUME NEW q \in Questions, NEW profile \in Profiles, Choose(q, profile)
        PROVE  UNCHANGED vars
    BY <2>3 DEF Choose, vars
  <2>4. QED
    BY <2>1, <2>2, <2>3 DEF DispatchNext, Frame, Resize, Ask, Next
<1>3. QED
  BY <1>1, <1>2, DispatchKeeps, PTL DEF DispatchSpec, Spec
=============================================================================
