------------------------------ MODULE MCPathing -----------------------------
(* A 3 x 2 grid searched from corner to corner and within one cell, over    *)
(* passable, dear and blocked cells, with and without the heuristic.        *)
EXTENDS Pathing

Grids == {[n \in Cells |-> CASE n = 0 -> 1 [] n = 5 -> 3 [] OTHER -> c[n]]
            : c \in [1..4 -> {1, 3, Infinity}]}

Corners ==
  {[costs |-> c, start |-> 0, goal |-> 5, heuristic |-> h, capacity |-> 4]
     : c \in Grids, h \in {"None", "Manhattan"}}

Plain == [n \in Cells |-> 1]

Others ==
  {[costs |-> Plain, start |-> e[1], goal |-> e[2], heuristic |-> "Manhattan",
    capacity |-> 3] : e \in {<<5, 0>>, <<4, 4>>, <<-1, 2>>, <<2, -1>>}}
    \union
  {[costs |-> [Plain EXCEPT ![2] = c], start |-> 0, goal |-> 2,
    heuristic |-> "None", capacity |-> 9] : c \in {0, Infinity}}

\* The cell between start and goal is first entered from the wrong side.
Detour ==
  {[costs |-> [Plain EXCEPT ![1] = 2, ![2] = 5], start |-> 4, goal |-> 2,
    heuristic |-> h, capacity |-> 3] : h \in {"None", "Manhattan"}}

MCSearches == Corners \union Others \union Detour
=============================================================================
