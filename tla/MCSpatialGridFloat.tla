------------------------- MODULE MCSpatialGridFloat -------------------------
(***************************************************************************)
(* SpatialGrid computed in a float format of three significant bits with   *)
(* round-to-nearest-even.  Inputs are numbers the format represents; the   *)
(* format stands for the 24 bits of the code's float, in which the point   *)
(* (1,0), the centre (-2^-24,0), the radius 1 and cells of size 1 give the *)
(* same outcome.                                                           *)
(***************************************************************************)
EXTENDS SpatialGrid

Magnitude(v) == IF v < 0 THEN -v ELSE v

\* The distance between neighbouring three-bit floats around v.
Spacing(v) ==
  CHOOSE u \in {2^k : k \in 0..8} :
    /\ Magnitude(v) < 8 * u
    /\ u = 1 \/ Magnitude(v) >= 4 * u

ThreeBits(v) ==
  LET u     == Spacing(v)
      whole == Magnitude(v) \div u
      rest  == Magnitude(v) % u
      up    == IF 2 * rest > u \/ (2 * rest = u /\ whole % 2 = 1) THEN 1 ELSE 0
  IN  (IF v < 0 THEN -1 ELSE 1) * (whole + up) * u

MCCellMin == -4

MCBuffers == {<<a, 0>> : a \in {-8, -1, 0, 7, 8}}
               \union {<<a, 0, b, 0>> : a, b \in {-8, 0, 8}}

MCQueries == [x : {-1, 0, 1}, y : {0}, radius : {1, 8}, capacity : {2},
              order : {"InputOrder"}, boundary : Boundaries]
=============================================================================
