-------------------------- MODULE Influence_proofs --------------------------
(* For every rounding and every overflow, the bounded stamp is the reference *)
(* stamp but for cells that float arithmetic puts on the rim; it is the      *)
(* reference stamp where there are none.  A call adds once to each cell it   *)
(* counts.                                                                   *)
EXTENDS Influence, FiniteSetTheorems, TLAPS

\* Lengths and squares are exact and no squared radius overflows.
NothingRounds ==
  /\ \A v \in 0 .. Infinite - 1 : Round(v) = v
  /\ \A s \in Specs : s.outer * s.outer < Infinite

\* Callers pass strict boundaries only.
AllStrict == \A s \in Specs : s.boundary = "Strict"

-----------------------------------------------------------------------------
(* Arithmetic                                                              *)

LEMMA SquaresAreNatural == \A a \in Int : a * a \in Nat
<1>1. \A a \in Int : a >= 0 => a * a >= 0
  OBVIOUS
<1>2. \A a \in Int : a <= 0 => a * a >= 0
  OBVIOUS
<1> QED
  BY <1>1, <1>2

LEMMA SquareOrder ==
  ASSUME NEW a \in Int, NEW b \in Nat, a * a <= b * b
  PROVE  -b <= a /\ a <= b
<1>1. ASSUME NEW c \in Nat, c > b PROVE c * c > b * b
  <2>1. PICK k \in Nat \ {0} : c = b + k
    <3>1. c - b \in Nat \ {0} /\ c = b + (c - b)
      BY <1>1
    <3> QED
      BY <3>1
  <2>2. c * c = b * b + (2 * (b * k) + k * k)
    BY <2>1
  <2>3. b * k \in Nat /\ k * k > 0 /\ b * b \in Nat /\ k * k \in Nat
    BY <2>1
  <2> QED
    BY <2>2, <2>3
<1>2. a <= b
  <2>1. SUFFICES ASSUME a > b PROVE FALSE
    OBVIOUS
  <2>2. a \in Nat /\ a * a \in Int /\ b * b \in Int
    BY <2>1
  <2> QED
    BY <1>1, <2>1, <2>2
<1>3. -b <= a
  <2>1. SUFFICES ASSUME -a > b PROVE FALSE
    OBVIOUS
  <2>2. -a \in Nat /\ (-a) * (-a) = a * a /\ a * a \in Int /\ b * b \in Int
    BY <2>1
  <2> QED
    BY <1>1, <2>1, <2>2
<1> QED
  BY <1>2, <1>3

\* Rounding a length down or up to a whole cell does not pass a cell on the
\* way.
LEMMA RoundingKeepsCells ==
  ASSUME NEW a \in Int, NEW n \in Int
  PROVE  /\ Floor(a) \in Int /\ Ceiling(a) \in Int
         /\ a <= n * Unit => Floor(a) <= n
         /\ n * Unit <= a => n <= Ceiling(a)
<1>1. ASSUME NEW b \in Int, NEW m \in Int, b <= m * Unit
      PROVE  b \div Unit \in Int /\ b \div Unit <= m
  <2>1. Unit \in Nat \ {0}
    BY UnitAssumption
  <2>2. /\ b \div Unit \in Int /\ b % Unit \in 0 .. Unit - 1
        /\ b = Unit * (b \div Unit) + (b % Unit)
    BY <2>1
  <2> DEFINE k == b \div Unit
  <2>3. k \in Int /\ Unit * k <= m * Unit
    BY <1>1, <2>1, <2>2
  <2> HIDE DEF k
  <2>4. k <= m
    <3>1. SUFFICES ASSUME k >= m + 1 PROVE FALSE
      BY <2>3
    <3>2. Unit * (k - m) >= Unit
      BY <2>1, <2>3, <3>1
    <3>3. Unit * (k - m) = Unit * k - m * Unit
      BY <2>1, <2>3
    <3> QED
      BY <2>1, <2>3, <3>2, <3>3
  <2> QED
    BY <2>2, <2>4 DEF k
<1>2. a \div Unit \in Int /\ (-a) \div Unit \in Int
  BY UnitAssumption
<1>3. n * Unit <= a => (-a) \div Unit <= -n
  <2>1. (-n) * Unit = -(n * Unit) /\ n * Unit \in Int
    BY UnitAssumption
  <2>2. n * Unit <= a => -a <= (-n) * Unit
    BY <2>1
  <2> QED
    BY <1>1, <2>2
<1> QED
  BY <1>1, <1>2, <1>3 DEF Floor, Ceiling

LEMMA ClampStaysIn ==
  ASSUME NEW n \in Int, NEW last \in Nat
  PROVE  /\ Clamp(n, last) \in 0 .. last
         /\ \A m \in 0 .. last : /\ n <= m => Clamp(n, last) <= m
                                 /\ m <= n => m <= Clamp(n, last)
BY DEF Clamp

-----------------------------------------------------------------------------
(* The square around the disc                                              *)

LEMMA FloatType == \A v \in Nat : Float(v) \in 0 .. Infinite /\ Float(v) \in Nat
<1> SUFFICES ASSUME NEW v \in Nat PROVE Float(v) \in 0 .. Infinite /\ Float(v) \in Nat
  OBVIOUS
<1>1. CASE v < Infinite
  <2>1. Round(v) \in 0 .. Infinite - 1
    BY <1>1, RoundAssumption, InfiniteAssumption
  <2> QED
    BY <1>1, <2>1, InfiniteAssumption DEF Float
<1>2. CASE ~(v < Infinite)
  BY <1>2, InfiniteAssumption DEF Float
<1> QED
  BY <1>1, <1>2

\* A rounded operation is monotone, and leaves its own results alone.
LEMMA FloatIsMonotone ==
  ASSUME NEW a \in Nat, NEW b \in Nat, a <= b PROVE Float(a) <= Float(b)
<1>1. CASE b < Infinite
  <2>1. a < Infinite /\ b \in 0 .. Infinite - 1 /\ a \in 0 .. b
    BY <1>1, InfiniteAssumption
  <2>2. Round(a) <= Round(b)
    BY <2>1, RoundAssumption
  <2> QED
    BY <1>1, <2>1, <2>2 DEF Float
<1>2. CASE ~(b < Infinite)
  <2>1. Float(b) = Infinite
    BY <1>2 DEF Float
  <2> QED
    BY <2>1, FloatType, InfiniteAssumption
<1> QED
  BY <1>1, <1>2

LEMMA FloatIsIdempotent ==
  ASSUME NEW a \in Nat PROVE Float(Float(a)) = Float(a)
<1>1. CASE a < Infinite
  <2>1. Round(a) \in 0 .. Infinite - 1 /\ Round(Round(a)) = Round(a)
    BY <1>1, RoundAssumption, InfiniteAssumption
  <2>2. Round(a) < Infinite
    BY <2>1, InfiniteAssumption
  <2> QED
    BY <1>1, <2>1, <2>2 DEF Float
<1>2. CASE ~(a < Infinite)
  BY <1>2, InfiniteAssumption DEF Float
<1> QED
  BY <1>1, <1>2

LEMMA DistanceType ==
  ASSUME NEW s \in RadialSpec, NEW p \in Nat \X Nat
  PROVE  /\ p[1] * Unit - s.x \in Int /\ p[2] * Unit - s.y \in Int
         /\ Gap(p[1], s.x) \in Nat /\ Gap(p[2], s.y) \in Nat
         /\ AxisDistance(p[1], s.x) \in Nat /\ AxisDistance(p[2], s.y) \in Nat
         /\ Square(AxisDistance(p[1], s.x)) \in Nat
         /\ Square(AxisDistance(p[2], s.y)) \in Nat
         /\ DistanceSquared(p, s) \in 0 .. Infinite
<1>1. p[1] * Unit - s.x \in Int /\ p[2] * Unit - s.y \in Int
  BY UnitAssumption DEF RadialSpec
<1>2. Gap(p[1], s.x) \in Nat /\ Gap(p[2], s.y) \in Nat
  BY <1>1 DEF Gap, Magnitude
<1>3. AxisDistance(p[1], s.x) \in Nat /\ AxisDistance(p[2], s.y) \in Nat
  BY <1>2, FloatType DEF AxisDistance
<1>4. /\ Square(AxisDistance(p[1], s.x)) \in Nat
      /\ Square(AxisDistance(p[2], s.y)) \in Nat
  BY <1>3, FloatType, SquaresAreNatural DEF Square
<1>5. Square(AxisDistance(p[1], s.x)) + Square(AxisDistance(p[2], s.y)) \in Nat
  BY <1>4
<1>6. DistanceSquared(p, s) \in 0 .. Infinite
  BY <1>5, FloatType DEF DistanceSquared
<1> QED
  BY <1>1, <1>2, <1>3, <1>4, <1>6

\* An axis distance beyond the radius squares to no less than the radius does.
LEMMA FarAxis ==
  ASSUME NEW gap \in Nat, NEW r \in Nat, IsFloat(r), gap > r
  PROVE  Square(Float(gap)) >= Square(r)
<1>1. Magnitude(r) = r
  BY DEF Magnitude
<1>2. Float(r) = r
  BY <1>1 DEF Float, IsFloat
<1>3. Float(gap) \in Nat /\ Float(gap) >= r
  BY <1>2, FloatType, FloatIsMonotone
<1> DEFINE d == Float(gap)
<1>4. d \in Nat /\ d >= r
  BY <1>3
<1> HIDE DEF d
<1>5. d * d >= r * r /\ d * d \in Nat /\ r * r \in Nat
  <2>1. PICK k \in Nat : d = r + k
    <3>1. d - r \in Nat /\ d = r + (d - r)
      BY <1>4
    <3> QED
      BY <3>1
  <2>2. d * d = r * r + (2 * (r * k) + k * k)
    BY <2>1
  <2>3. r * k \in Nat /\ k * k \in Nat /\ r * r \in Nat /\ d * d \in Nat
    BY <1>4, <2>1, SquaresAreNatural
  <2> QED
    BY <2>2, <2>3
<1>6. Float(d * d) >= Float(r * r)
  BY <1>5, FloatType, FloatIsMonotone
<1> QED
  BY <1>6 DEF Square, d

\* A cell beyond the radius along an axis is no nearer than the radius, so only
\* an inclusive disc can hold it, at the radius.
LEMMA BeyondIsRim ==
  ASSUME NEW s \in RadialSpec, ValidSpec(s), IsFloat(s.outer),
         NEW p \in Nat \X Nat, Inside(p, s),
         Gap(p[1], s.x) > s.outer \/ Gap(p[2], s.y) > s.outer
  PROVE  s.boundary = "Inclusive" /\ DistanceSquared(p, s) = Square(s.outer)
<1> DEFINE a == Square(AxisDistance(p[1], s.x))
           b == Square(AxisDistance(p[2], s.y))
           r == Square(s.outer)
<1>1. s.outer \in Nat
  BY DEF ValidSpec, RadialSpec
<1>2. a \in Nat /\ b \in Nat /\ r \in Nat /\ Float(a) = a /\ Float(b) = b
  <2>1. AxisDistance(p[1], s.x) \in Nat /\ AxisDistance(p[2], s.y) \in Nat
    BY DistanceType
  <2>2. \A n \in Nat : Square(n) \in Nat /\ Float(Square(n)) = Square(n)
    BY FloatType, FloatIsIdempotent, SquaresAreNatural DEF Square
  <2> QED
    BY <1>1, <2>1, <2>2
<1>3. a >= r \/ b >= r
  <2>1. Gap(p[1], s.x) \in Nat /\ Gap(p[2], s.y) \in Nat
    BY DistanceType
  <2> QED
    BY <1>1, <2>1, FarAxis DEF AxisDistance
<1>4. DistanceSquared(p, s) = Float(a + b)
  BY DEF DistanceSquared
<1> HIDE DEF a, b, r
<1>5. Float(a + b) >= r /\ Float(a + b) \in Nat
  <2>1. a + b \in Nat /\ a <= a + b /\ b <= a + b
    BY <1>2
  <2>2. Float(a) <= Float(a + b) /\ Float(b) <= Float(a + b)
    BY <1>2, <2>1, FloatIsMonotone
  <2> QED
    BY <1>2, <1>3, <2>1, <2>2, FloatType
<1>6. s.boundary = "Inclusive" /\ Float(a + b) <= r
  BY <1>2, <1>4, <1>5 DEF Inside, r
<1> QED
  BY <1>2, <1>4, <1>5, <1>6 DEF r

LEMMA ReachCovers ==
  ASSUME NEW center \in Int, NEW outer \in Nat, NEW last \in Nat
  PROVE  /\ Reach(center, outer, last) \subseteq 0 .. last
         /\ \A m \in 0 .. last :
              /\ center - outer <= m * Unit
              /\ m * Unit <= center + outer
              => m \in Reach(center, outer, last)
<1> DEFINE low  == Floor(center - outer)
           high == Ceiling(center + outer)
<1>1. low \in Int /\ high \in Int
  BY RoundingKeepsCells
<1>2. Clamp(low, last) \in 0 .. last /\ Clamp(high, last) \in 0 .. last
  BY <1>1, ClampStaysIn
<1>3. ASSUME NEW m \in 0 .. last, center - outer <= m * Unit, m * Unit <= center + outer
      PROVE  m \in Reach(center, outer, last)
  <2>1. low <= m /\ m <= high
    BY <1>3, RoundingKeepsCells
  <2>2. ~(high < 0 \/ low > last)
    BY <1>1, <2>1
  <2>3. Clamp(low, last) <= m /\ m <= Clamp(high, last)
    BY <1>1, <2>1, ClampStaysIn
  <2>4. m \in Clamp(low, last) .. Clamp(high, last)
    BY <1>2, <2>3
  <2> QED
    BY <2>2, <2>4 DEF Reach
<1>4. Reach(center, outer, last) \subseteq 0 .. last
  BY <1>2 DEF Reach
<1> QED
  BY <1>3, <1>4

LEMMA ScanTypes ==
  ASSUME NEW q \in Request, GridShapeFits(q.view)
  PROVE  /\ q.view \in View /\ q.spec \in RadialSpec
         /\ q.view.width - 1 \in Nat /\ q.view.height - 1 \in Nat
         /\ q.view.stride \in Nat
         /\ ReferenceScan(q.view, q.spec) \subseteq Nat \X Nat
         /\ IsFiniteSet(ReferenceScan(q.view, q.spec))
<1>1. q.view \in View /\ q.spec \in RadialSpec
  BY ViewsAssumption, SpecsAssumption DEF Request
<1>2. /\ q.view.width - 1 \in Nat /\ q.view.height - 1 \in Nat
      /\ q.view.stride \in Nat
  BY <1>1 DEF GridShapeFits, View
<1>3. IsFiniteSet(0 .. q.view.width - 1) /\ IsFiniteSet(0 .. q.view.height - 1)
  <2>1. \A n \in Nat : IsFiniteSet(0 .. n)
    BY FS_Interval
  <2> QED
    BY <1>2, <2>1
<1>4. IsFiniteSet(ReferenceScan(q.view, q.spec))
  BY <1>3, FS_Product DEF ReferenceScan
<1> QED
  BY <1>1, <1>2, <1>4 DEF ReferenceScan

\* The square stays in the view, and what it misses of the disc is on the rim.
LEMMA BoundedScanIsEnough ==
  ASSUME NEW q \in Request, GridShapeFits(q.view), ValidSpec(q.spec)
  PROVE  /\ BoundedScan(q.view, q.spec) \subseteq ReferenceScan(q.view, q.spec)
         /\ \A p \in ReferenceScan(q.view, q.spec) \ BoundedScan(q.view, q.spec) :
              Inside(p, q.spec) => p \in RoundedOntoRim(q)
<1> DEFINE s == q.spec
           w == q.view.width - 1
           h == q.view.height - 1
<1>1. /\ s \in RadialSpec /\ w \in Nat /\ h \in Nat
      /\ s.x \in Int /\ s.y \in Int /\ s.outer \in Nat
  BY ScanTypes DEF ValidSpec, RadialSpec
<1>2. /\ Reach(s.x, s.outer, w) \subseteq 0 .. w
      /\ Reach(s.y, s.outer, h) \subseteq 0 .. h
  BY <1>1, ReachCovers
<1>3. ASSUME NEW p \in ReferenceScan(q.view, s) \ BoundedScan(q.view, s), Inside(p, s)
      PROVE  p \in RoundedOntoRim(q)
  <2>1. p \in Nat \X Nat /\ p = <<p[1], p[2]>> /\ p[1] \in 0 .. w /\ p[2] \in 0 .. h
    BY <1>1, <1>3 DEF ReferenceScan
  <2>2. p[1] \notin Reach(s.x, s.outer, w) \/ p[2] \notin Reach(s.y, s.outer, h)
    BY <1>3, <2>1 DEF BoundedScan
  <2>3. \/ ~(s.x - s.outer <= p[1] * Unit /\ p[1] * Unit <= s.x + s.outer)
        \/ ~(s.y - s.outer <= p[2] * Unit /\ p[2] * Unit <= s.y + s.outer)
    BY <1>1, <2>1, <2>2, ReachCovers
  <2>4. Gap(p[1], s.x) > s.outer \/ Gap(p[2], s.y) > s.outer
    <3>1. p[1] * Unit \in Int /\ p[2] * Unit \in Int
      BY <2>1, UnitAssumption
    <3> DEFINE u == p[1] * Unit
               v == p[2] * Unit
    <3>2. u \in Int /\ v \in Int
      BY <3>1
    <3>3. \/ ~(s.x - s.outer <= u /\ u <= s.x + s.outer)
          \/ ~(s.y - s.outer <= v /\ v <= s.y + s.outer)
      BY <2>3
    <3>4. Gap(p[1], s.x) = Magnitude(u - s.x) /\ Gap(p[2], s.y) = Magnitude(v - s.y)
      BY DEF Gap
    <3> HIDE DEF u, v
    <3> QED
      BY <1>1, <3>2, <3>3, <3>4 DEF Magnitude
  <2>5. IsFloat(s.outer)
    BY FloatsAssumption DEF Request
  <2>6. s.boundary = "Inclusive" /\ DistanceSquared(p, s) = Square(s.outer)
    BY <1>1, <1>3, <2>1, <2>4, <2>5, BeyondIsRim
  <2> QED
    BY <1>3, <2>4, <2>6 DEF RoundedOntoRim
<1>4. BoundedScan(q.view, q.spec) \subseteq ReferenceScan(q.view, q.spec)
  BY <1>2 DEF BoundedScan, ReferenceScan
<1> QED
  BY <1>3, <1>4

-----------------------------------------------------------------------------
(* The cells written                                                       *)

\* A view lays its cells into the storage one by one.
LEMMA IndexIsInjective ==
  ASSUME NEW q \in Request, GridShapeFits(q.view)
  PROVE  /\ \A p \in ReferenceScan(q.view, q.spec) : Index(q.view, p) \in Memory
         /\ \A p, o \in ReferenceScan(q.view, q.spec) :
              Index(q.view, p) = Index(q.view, o) => p = o
<1> DEFINE w == q.view.width
           h == q.view.height
           t == q.view.stride
<1>1. /\ w \in Nat /\ h \in Nat /\ t \in Nat /\ t > 0 /\ w <= t
      /\ h * t <= Size
  BY ScanTypes DEF GridShapeFits, View
<1>2. ASSUME NEW p \in ReferenceScan(q.view, q.spec)
      PROVE  /\ p = <<p[1], p[2]>>
             /\ p[1] \in 0 .. w - 1 /\ p[2] \in 0 .. h - 1
             /\ Index(q.view, p) = p[2] * t + p[1]
  BY <1>1 DEF ReferenceScan, Index
<1> HIDE DEF w, h, t
<1>3. ASSUME NEW x \in 0 .. w - 1, NEW y \in 0 .. h - 1
      PROVE  y * t + x \in Memory
  <2>1. y * t \in Nat /\ h * t \in Nat /\ x < t
    BY <1>1
  <2>2. (h - 1 - y) * t >= 0 /\ (h - 1 - y) * t = h * t - t - y * t
    BY <1>1
  <2> QED
    BY <1>1, <2>1, <2>2, SizeAssumption DEF Memory
<1>4. ASSUME NEW x \in 0 .. w - 1, NEW y \in 0 .. h - 1,
             NEW u \in 0 .. w - 1, NEW v \in 0 .. h - 1, y * t + x = v * t + u
      PROVE  x = u /\ y = v
  <2>1. ASSUME NEW a \in 0 .. h - 1, NEW b \in 0 .. h - 1, a < b
        PROVE  b * t >= a * t + t
    <3>1. (b - a - 1) * t >= 0 /\ (b - a - 1) * t = b * t - a * t - t
      BY <1>1, <2>1
    <3> QED
      BY <1>1, <3>1
  <2>2. y * t \in Nat /\ v * t \in Nat /\ x < t /\ u < t
    BY <1>1
  <2>3. ~(y < v)
    BY <1>1, <1>4, <2>1, <2>2
  <2>4. ~(v < y)
    BY <1>1, <1>4, <2>1, <2>2
  <2>5. y = v
    BY <2>3, <2>4
  <2> QED
    BY <1>4, <2>2, <2>5
<1> QED
  BY <1>2, <1>3, <1>4

\* The stamped cells of the storage are as many as the touched cells of the
\* view, whatever part of the view was scanned.
LEMMA WritesAreCounted ==
  ASSUME NEW q \in Request, GridShapeFits(q.view),
         NEW touched, touched \subseteq ReferenceScan(q.view, q.spec)
  PROVE  LET written == {Index(q.view, p) : p \in touched}
         IN  /\ written \subseteq Memory
             /\ Cardinality(written) = Cardinality(touched)
             /\ Cardinality(touched) \in 0 .. Size
<1> DEFINE written == {Index(q.view, p) : p \in touched}
           f == [p \in touched |-> Index(q.view, p)]
<1>1. written \subseteq Memory
  BY IndexIsInjective
<1>2. IsFiniteSet(Memory) /\ Cardinality(Memory) = Size
  BY FS_Interval, SizeAssumption DEF Memory
<1>3. IsFiniteSet(written) /\ Cardinality(written) <= Size /\ Cardinality(written) \in Nat
  BY <1>1, <1>2, FS_Subset, FS_CardinalityType
<1>4. f \in Bijection(touched, written)
  <2>1. f \in [touched -> written]
    OBVIOUS
  <2>2. \A p, o \in touched : f[p] = f[o] => p = o
    BY IndexIsInjective
  <2>3. \A c \in written : \E p \in touched : f[p] = c
    OBVIOUS
  <2> HIDE DEF f, written
  <2> QED
    BY <2>1, <2>2, <2>3 DEF Bijection, Injection, Surjection, IsInjective
<1>5. IsFiniteSet(touched)
  BY ScanTypes, FS_Subset
<1>6. Cardinality(written) = Cardinality(touched)
  <2>1. ExistsBijection(touched, written)
    BY <1>4 DEF ExistsBijection
  <2> HIDE DEF written
  <2> QED
    BY <1>5, <2>1, FS_Bijection
<1> HIDE DEF written
<1>7. Cardinality(touched) \in 0 .. Size
  BY <1>3, <1>6, SizeAssumption
<1> QED
  BY <1>1, <1>6, <1>7 DEF written

-----------------------------------------------------------------------------
(* Theorems                                                                *)

GridType == grid \in [Memory -> Seq([of : Specs, at : 0..Infinite])]

\* A stamp from some part of the view.
LEMMA StampStep ==
  ASSUME GridType, NEW q \in Request, NEW scan,
         GridShapeFits(q.view) => scan \subseteq ReferenceScan(q.view, q.spec),
         Stamp(q, scan)
  PROVE  /\ GridType'
         /\ result' \in [status : {"Ok"}, touched : 0..Size]
         /\ Cardinality(Changed) = result'.touched
         /\ \A c \in Changed :
              /\ Len(grid'[c]) = Len(grid[c]) + 1
              /\ \E p \in ReferenceScan(request'.view, request'.spec) :
                   c = Index(request'.view, p)
<1> DEFINE touched == Touched(scan, q.spec)
           written == {Index(q.view, p) : p \in touched}
           At(c)   == CHOOSE p \in touched : Index(q.view, p) = c
           Entry   == [of : Specs, at : 0..Infinite]
<1>1. GridShapeFits(q.view) /\ touched \subseteq ReferenceScan(q.view, q.spec)
  BY DEF Stamp, Touched
<1>2. /\ written \subseteq Memory
      /\ Cardinality(written) = Cardinality(touched)
      /\ Cardinality(touched) \in 0 .. Size
  BY <1>1, WritesAreCounted
<1>3. /\ request' = q
      /\ result' = [status |-> "Ok", touched |-> Cardinality(touched)]
      /\ grid' = [c \in Memory |-> IF c \in written
                                   THEN Append(grid[c], Addition(At(c), q.spec))
                                   ELSE grid[c]]
  BY DEF Stamp
<1>4. \A p \in touched : Addition(p, q.spec) \in Entry
  <2>1. q.spec \in Specs /\ q.spec \in RadialSpec
    BY <1>1, ScanTypes DEF Request
  <2>2. \A p \in touched : DistanceSquared(p, q.spec) \in 0 .. Infinite
    BY <1>1, <2>1, ScanTypes, DistanceType
  <2>3. 0 \in 0 .. Infinite
    BY InfiniteAssumption
  <2> QED
    BY <2>1, <2>2, <2>3 DEF Addition
<1>5. \A c \in written : At(c) \in touched
  OBVIOUS
<1> HIDE DEF touched, written, At, Entry
<1>6. ASSUME NEW c \in written
      PROVE  /\ grid[c] \in Seq(Entry)
             /\ grid'[c] \in Seq(Entry)
             /\ Len(grid'[c]) = Len(grid[c]) + 1
  <2>1. grid[c] \in Seq(Entry) /\ Addition(At(c), q.spec) \in Entry
    BY <1>2, <1>4, <1>5 DEF GridType, Entry
  <2>2. grid'[c] = Append(grid[c], Addition(At(c), q.spec))
    BY <1>2, <1>3
  <2> QED
    BY <2>1, <2>2
<1>7. \A c \in Memory \ written : grid'[c] = grid[c] /\ grid[c] \in Seq(Entry)
  BY <1>3 DEF GridType, Entry
<1>8. Changed = written
  <2>1. \A c \in written : grid'[c] # grid[c]
    <3>1. \A c \in written : Len(grid[c]) \in Nat
      BY <1>6
    <3> QED
      BY <1>6, <3>1
  <2> QED
    BY <1>2, <1>7, <2>1 DEF Changed
<1>9. GridType'
  <2>1. DOMAIN grid' = Memory /\ grid' = [c \in Memory |-> grid'[c]]
    BY <1>3
  <2>2. \A c \in Memory : grid'[c] \in Seq(Entry)
    BY <1>6, <1>7
  <2>3. grid' \in [Memory -> Seq(Entry)]
    BY <2>1, <2>2
  <2> QED
    BY <2>3 DEF GridType, Entry, Memory
<1>10. \A c \in written : \E p \in ReferenceScan(q.view, q.spec) : c = Index(q.view, p)
  BY <1>1 DEF written
<1> QED
  BY <1>2, <1>3, <1>6, <1>8, <1>9, <1>10

\* The invariant: TypeOK is inductive.
LEMMA NextTyped == TypeOK /\ [Next]_vars => TypeOK'
<1> SUFFICES ASSUME TypeOK, [Next]_vars PROVE TypeOK'
  OBVIOUS
<1>1. GridType
  BY DEF TypeOK, GridType
<1>2. ASSUME NEW q \in Request, Refuse(q) PROVE TypeOK'
  <2>1. result' \in [status : Status, touched : 0..Size]
    <3>1. 0 \in 0 .. Size
      BY SizeAssumption
    <3> QED
      BY <1>2, <3>1 DEF Refuse, Status
  <2>2. request' \in Request /\ grid' = grid
    BY <1>2 DEF Refuse
  <2> QED
    BY <2>1, <2>2 DEF TypeOK, Status, Memory, Request
<1>3. ASSUME NEW q \in Request, Stamp(q, BoundedScan(q.view, q.spec)) PROVE TypeOK'
  <2>1. /\ GridType'
        /\ result' \in [status : {"Ok"}, touched : 0..Size]
    <3>1. BoundedScan(q.view, q.spec) \subseteq ReferenceScan(q.view, q.spec)
      BY <1>3, BoundedScanIsEnough DEF Stamp
    <3> QED
      BY <1>1, <1>3, <3>1, StampStep
  <2>2. request' \in Request
    BY <1>3 DEF Stamp
  <2> QED
    BY <2>1, <2>2 DEF TypeOK, GridType, Status, Memory, Request
<1>4. CASE UNCHANGED vars
  BY <1>4 DEF vars, TypeOK, Memory
<1> QED
  BY <1>2, <1>3, <1>4 DEF Next, ApplyRadialInfluenceBounded

\* Grid, request and result keep their types.
THEOREM TypeCorrect == Spec => []TypeOK
<1>1. Init => TypeOK
  BY SizeAssumption DEF Init, TypeOK, Status
<1> QED
  BY <1>1, NextTyped, PTL DEF Spec

\* Every call adds once to every cell it counts, and to nothing else.
THEOREM CellsAreWrittenOnce == Spec => EachCellOnce
<1> DEFINE Exact == /\ Cardinality(Changed) = result'.touched
                    /\ \A c \in Changed :
                         /\ Len(grid'[c]) = Len(grid[c]) + 1
                         /\ \E p \in ReferenceScan(request'.view, request'.spec) :
                              c = Index(request'.view, p)
                    /\ result'.status # "Ok" => UNCHANGED grid
<1>1. TypeOK /\ [Next]_vars => [Exact]_vars
  <2> SUFFICES ASSUME TypeOK, Next PROVE Exact
    OBVIOUS
  <2>1. GridType
    BY DEF TypeOK, GridType
  <2>2. ASSUME NEW q \in Request, Refuse(q) PROVE Exact
    <3>1. Changed = {} /\ result'.touched = 0
      BY <2>2 DEF Refuse, Changed
    <3> QED
      BY <2>2, <3>1, FS_EmptySet DEF Refuse
  <2>3. ASSUME NEW q \in Request, Stamp(q, BoundedScan(q.view, q.spec)) PROVE Exact
    <3>1. BoundedScan(q.view, q.spec) \subseteq ReferenceScan(q.view, q.spec)
      BY <2>3, BoundedScanIsEnough DEF Stamp
    <3>2. result'.status = "Ok"
      BY <2>3 DEF Stamp
    <3> QED
      BY <2>1, <2>3, <3>1, <3>2, StampStep
  <2> QED
    BY <2>2, <2>3 DEF Next, ApplyRadialInfluenceBounded
<1> QED
  BY <1>1, TypeCorrect, PTL DEF Spec, EachCellOnce

\* A bounded call is the reference call up to the cells rounded onto the rim.
LEMMA BoundedStep ==
  ASSUME NEW q \in Request, ApplyRadialInfluenceBounded(q) PROVE ReferenceUpToRim(q)
<1>1. CASE Refuse(q)
  BY <1>1 DEF ReferenceUpToRim
<1>2. CASE Stamp(q, BoundedScan(q.view, q.spec))
  <2> DEFINE whole == ReferenceScan(q.view, q.spec)
             part  == BoundedScan(q.view, q.spec)
             lost  == Touched(whole, q.spec) \ Touched(part, q.spec)
  <2>1. /\ part \subseteq whole
        /\ \A p \in whole \ part : Inside(p, q.spec) => p \in RoundedOntoRim(q)
    BY <1>2, BoundedScanIsEnough DEF Stamp
  <2>2. lost \subseteq RoundedOntoRim(q)
    BY <2>1 DEF Touched
  <2>3. Touched(part, q.spec) = Touched(whole \ lost, q.spec)
    BY <2>1 DEF Touched
  <2> HIDE DEF whole, part, lost
  <2>4. Stamp(q, part)
    BY <1>2 DEF part
  <2>5. Stamp(q, whole \ lost)
    BY <2>3, <2>4 DEF Stamp
  <2> QED
    BY <2>2, <2>5 DEF ReferenceUpToRim, whole
<1> QED
  BY <1>1, <1>2 DEF ApplyRadialInfluenceBounded

\* On any grid, for any stamp, after any calls before, whatever rounds and
\* overflows: the candidate does what the reference does, but for cells that
\* are further than the radius and that float arithmetic puts on the rim.
THEOREM BoundedRefinesReference == Spec => BoundedImplementsReference
<1>1. [Next]_vars => [\E q \in Request : q = request' /\ ReferenceUpToRim(q)]_vars
  <2> SUFFICES ASSUME NEW q \in Request, ApplyRadialInfluenceBounded(q)
               PROVE  q = request' /\ ReferenceUpToRim(q)
    BY DEF Next
  <2> QED
    BY BoundedStep DEF ApplyRadialInfluenceBounded, Refuse, Stamp
<1> QED
  BY <1>1, PTL DEF Spec, BoundedImplementsReference

\* Where no cell can be rounded onto the rim the candidate is the reference.
LEMMA NoRim ==
  ASSUME \A q \in Request :
           GridShapeFits(q.view) /\ ValidSpec(q.spec) => RoundedOntoRim(q) = {}
  PROVE  Spec => Reference
<1>1. [Next]_vars => [ReferenceNext]_vars
  <2> SUFFICES ASSUME NEW q \in Request, ApplyRadialInfluenceBounded(q)
               PROVE  ApplyRadialInfluenceReference(q)
    BY DEF Next, ReferenceNext
  <2>1. ReferenceUpToRim(q)
    BY BoundedStep
  <2>2. ASSUME NEW lost \in SUBSET RoundedOntoRim(q),
               Stamp(q, ReferenceScan(q.view, q.spec) \ lost)
        PROVE  Stamp(q, ReferenceScan(q.view, q.spec))
    <3>1. RoundedOntoRim(q) = {}
      BY <2>2 DEF Stamp
    <3>2. ReferenceScan(q.view, q.spec) \ lost = ReferenceScan(q.view, q.spec)
      BY <2>2, <3>1
    <3> QED
      BY <2>2, <3>2
  <2> QED
    BY <2>1, <2>2 DEF ReferenceUpToRim, ApplyRadialInfluenceReference
<1> QED
  BY <1>1, PTL DEF Spec, Reference

\* With strict boundaries the two variants agree, whatever rounds.
THEOREM StrictStampsAgree ==
  ASSUME AllStrict
  PROVE  Spec => Reference
<1>1. \A q \in Request : RoundedOntoRim(q) = {}
  BY DEF AllStrict, Request, RoundedOntoRim
<1> QED
  BY <1>1, NoRim

\* Where nothing rounds or overflows the two variants agree.
THEOREM ExactStampsAgree ==
  ASSUME NothingRounds
  PROVE  Spec => Reference
<1>1. ASSUME NEW q \in Request, GridShapeFits(q.view), ValidSpec(q.spec),
             NEW p \in RoundedOntoRim(q)
      PROVE  FALSE
  <2> DEFINE s == q.spec
             r == s.outer
             a == Gap(p[1], s.x)
             b == Gap(p[2], s.y)
  <2>1. s \in RadialSpec /\ s \in Specs /\ p \in Nat \X Nat /\ r \in Nat
    BY <1>1, ScanTypes DEF RoundedOntoRim, ValidSpec, RadialSpec, Request
  <2>2. a \in Nat /\ b \in Nat
    BY <2>1, DistanceType
  <2>3. a > r \/ b > r
    BY DEF RoundedOntoRim
  <2>4. Float(Float(Float(a) * Float(a)) + Float(Float(b) * Float(b))) = Float(r * r)
    BY DEF RoundedOntoRim, DistanceSquared, AxisDistance, Square
  <2>5. r * r < Infinite
    BY <2>1 DEF NothingRounds
  <2> HIDE DEF s, r, a, b
  <2>6. \A v \in Nat : Float(v) = IF v < Infinite THEN v ELSE Infinite
    BY InfiniteAssumption DEF Float, NothingRounds
  <2>7. ASSUME NEW c \in Nat, c > r
        PROVE  Float(Float(c) * Float(c)) > r * r
    <3>1. Float(c) \in Nat /\ Float(c) > r
      <4>1. r <= r * r
        <5>1. r * r = r + r * (r - 1) /\ (r = 0 \/ r * (r - 1) >= 0)
          BY <2>1
        <5> QED
          BY <2>1, <5>1
      <4> QED
        BY <2>1, <2>5, <2>6, <2>7, <4>1, InfiniteAssumption
    <3> DEFINE d == Float(c)
    <3>2. d \in Nat /\ d > r
      BY <3>1
    <3> HIDE DEF d
    <3>3. d * d \in Nat /\ d * d > r * r
      <4>1. d * d \in Nat /\ r * r \in Nat
        BY <2>1, <3>2, SquaresAreNatural
      <4>2. ~(d * d <= r * r)
        BY <2>1, <3>2, SquareOrder
      <4> QED
        BY <4>1, <4>2
    <3> QED
      BY <2>1, <2>5, <2>6, <3>3 DEF d
  <2> DEFINE m == Float(Float(a) * Float(a))
             n == Float(Float(b) * Float(b))
  <2>8. m \in Nat /\ n \in Nat
    BY <2>2, FloatType, SquaresAreNatural
  <2>9. m > r * r \/ n > r * r
    BY <2>2, <2>3, <2>7
  <2>10. Float(m + n) = Float(r * r)
    BY <2>4
  <2> HIDE DEF m, n
  <2>11. r * r \in Nat /\ Float(r * r) = r * r
    BY <2>1, <2>5, <2>6, SquaresAreNatural
  <2>12. m + n > r * r
    BY <2>8, <2>9, <2>11
  <2>13. m + n \in Nat
    BY <2>8
  <2> QED
    BY <2>5, <2>6, <2>10, <2>11, <2>12, <2>13, InfiniteAssumption
<1>2. \A q \in Request :
        GridShapeFits(q.view) /\ ValidSpec(q.spec) => RoundedOntoRim(q) = {}
  BY <1>1
<1> QED
  BY <1>2, NoRim
=============================================================================
