----------------------------- MODULE MCInfluence ----------------------------
(* Stamps in half cells on, beside and off a 3 x 3 grid with a padding       *)
(* column, whole or in part, and shapes that do not fit the storage.  Floats *)
(* have three significant bits: 7, 8, 10, 12, 14, 16, 20 are neighbours, the *)
(* largest is 448, and 480 is the least that does not round to it.           *)
EXTENDS Influence

\* The distance between neighbouring floats around v.
Spacing(v) ==
  CHOOSE u \in {2^k : k \in 0..8} : v < 8 * u /\ (u = 1 \/ v >= 4 * u)

\* To nearest, ties to even; a table, made once.
Nearest ==
  [v \in 0 .. 479 |->
     LET u     == Spacing(v)
         whole == v \div u
         rest  == v % u
         up    == IF 2 * rest > u \/ (2 * rest = u /\ whole % 2 = 1) THEN 1 ELSE 0
     IN  (whole + up) * u]

ThreeBits(v) == Nearest[v]

Shape(w, h, t) == [width |-> w, height |-> h, stride |-> t]

MCViews == {Shape(3, 3, 4), Shape(4, 4, 3), Shape(0, 3, 4), Shape(3, 4, 4)}

Disc(x, y, inner, outer, boundary) ==
  [x |-> x, y |-> y, inner |-> inner, outer |-> outer, boundary |-> boundary,
   falloff |-> "value", finite |-> TRUE]

\* A disc of radius three and a ring of one, centres around and in the grid.
Rings == {Disc(c[1], c[2], 1, 3, "Inclusive") : c \in {<<-3, 2>>, <<1, -3>>, <<7, 2>>, <<7, -3>>}}

\* The two boundaries at a distance that some cell has, and discs of one value.
Edges == {Disc(d[1], 2, d[2], d[3], b) : b \in Boundaries, d \in {<<2, 2, 2>>, <<7, 0, 5>>}}
           \union {Disc(2, 2, 0, 0, "Inclusive")}

\* The disc covers the grid and what is around it.
Wide == {Disc(2, 2, 0, 8, "Strict")}

\* Far centres: with a radius of 16 column 1, 18 units away, rounds onto the
\* rim; with 24 the squared radius is infinite, and so is every distance.
Far == {Disc(-16, 2, 0, 16, "Inclusive")}
         \union {Disc(-24, 2, 0, 24, b) : b \in Boundaries}

Unfit == {Disc(0, 0, 2, 1, "Strict"), Disc(0, 0, -1, 1, "Strict"),
          [Disc(0, 0, 0, 1, "Strict") EXCEPT !.finite = FALSE]}

MCSpecs == Rings \union Edges \union Wide \union Far \union Unfit
=============================================================================
