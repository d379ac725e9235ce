--------------------------- MODULE MCSpatialGrid ----------------------------
(***************************************************************************)
(* SpatialGrid behind the strategy layer, on small buffers with exact      *)
(* arithmetic: cells -2..2, so that coordinate 9 is outside the key range, *)
(* and two points at most, so that three are too many and a threshold of   *)
(* three is never reached.                                                 *)
(***************************************************************************)
EXTENDS SpatialDispatch

Exact(v) == v

MCCellMin == -2

MCBuffers ==
  {<<a, 0, b, c>> : a \in {-2, 1}, b \in {1, 2}, c \in {0, 3}}
    \union {<<>>, <<2, 3>>, <<1>>, <<1, NonFinite>>, <<1, 9>>, <<0, 0, 1, 1, 2, 2>>}

MCQuestions ==
  [x : {1}, y : {1}, radius : {2}, capacity : {1}, order : {"Unordered"}, boundary : {"Inclusive"}]
    \union
  [x : {-1}, y : {0}, radius : {2, 20}, capacity : {2}, order : {"InputOrder"}, boundary : {"Strict"}]

MCQueries ==
  MCQuestions \union
  [x : {1}, y : {1}, radius : {2}, capacity : {0, 1, 2}, order : Orders, boundary : {"Inclusive"}]
    \union
  [x : {-1}, y : {0}, radius : {-1, 3, NonFinite}, capacity : {2},
   order : {"InputOrder"}, boundary : {"Inclusive"}]

MCProfiles == {[inputOrder |-> 2, unordered |-> 1], [inputOrder |-> 3, unordered |-> 3]}

MCCellSizes == {0, 2, 3, NonFinite}
=============================================================================
