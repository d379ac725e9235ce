------------------------------ MODULE Pathing -------------------------------
(***************************************************************************)
(* AStarWorkspace::FindPath (Kernel/Compute/Pathing.cpp): A* or Dijkstra   *)
(* over a 4-neighbour grid, in buffers that one search leaves behind for   *)
(* the next.  One action per turn of the search loop and per step of the   *)
(* walk back along the parents.                                            *)
(*                                                                         *)
(* A cell is its row-major index.  A cost is an integer; Infinity stands   *)
(* for +inf, which blocks a cell, and for every sum too large for a float. *)
(* The heap is the set of its nodes: the order (f, g, index) is total, so  *)
(* popping it is taking its least node.                                    *)
(***************************************************************************)
EXTENDS Integers, Sequences, FiniteSets

CONSTANTS
  Width, Height,   \* grid dimensions
  MaxCost,         \* the largest finite path cost
  Searches,        \* the searches callers ask for
  RouteLength      \* the longest routes an answer is compared with

ASSUME DimensionsAssumption == Width \in Nat \ {0} /\ Height \in Nat \ {0}
ASSUME MaxCostAssumption == MaxCost \in Nat
ASSUME RouteLengthAssumption == RouteLength \in Nat

Cells    == 0 .. Width * Height - 1
Infinity == MaxCost + 1
NoParent == -1

\* start and goal are cells or, when outside the grid, -1; a cost below 1
\* stands for every cost outside the traversal contract, NaN included.
Search == [costs : [Cells -> 0..Infinity], start : Cells \union {-1},
           goal : Cells \union {-1}, heuristic : {"None", "Manhattan"},
           capacity : Nat]

ASSUME SearchesAssumption == Searches \subseteq Search

VARIABLES
  phase,      \* "idle" between calls, "search" in the loop, "trace" after it
  request,    \* the arguments of the current or last call
  g,          \* g_score_
  parent,     \* parent_
  closed,     \* closed_, as the set of closed cells
  open,       \* open_
  expanded,   \* cells expanded by this search
  trail,      \* the cells walked back from the goal so far
  result      \* what the last call returned

workspace == <<g, parent, closed, open>>
vars == <<phase, request, g, parent, closed, open, expanded, trail, result>>

-----------------------------------------------------------------------------
(* Geometry                                                                *)

X(n) == n % Width
Y(n) == n \div Width

Gap(a, b) == IF a > b THEN a - b ELSE b - a

Manhattan(a, b) == Gap(X(a), X(b)) + Gap(Y(a), Y(b))

Adjacent(a, b) == Manhattan(a, b) = 1

\* (fault) A heuristic that overestimates.
HeuristicDoubled(s, n) ==
  IF s.heuristic = "None" THEN 0 ELSE 2 * Manhattan(n, s.goal)

Heuristic(s, n) == IF s.heuristic = "None" THEN 0 ELSE Manhattan(n, s.goal)

Blocked(s, n) == s.costs[n] = Infinity

ValidTraversalGrid(s) == \A n \in Cells : s.costs[n] >= 1

ValidEndpoints(s) ==
  /\ s.start \in Cells /\ s.goal \in Cells
  /\ ~Blocked(s, s.start) /\ ~Blocked(s, s.goal)

-----------------------------------------------------------------------------
(* Results                                                                 *)

Failed(status, n) ==
  [status |-> status, written |-> 0, required |-> 0, total |-> Infinity,
   expanded |-> n, path |-> <<>>]

\* (fault) A buffer that is one point short is taken.
DeliveredShort(path, total, n, capacity) ==
  IF capacity + 1 < Len(path)
  THEN [status |-> "OutputTooSmall", written |-> 0, required |-> Len(path),
        total |-> total, expanded |-> n, path |-> <<>>]
  ELSE [status |-> "Ok", written |-> Len(path), required |-> Len(path),
        total |-> total, expanded |-> n, path |-> path]

Delivered(path, total, n, capacity) ==
  IF capacity < Len(path)
  THEN [status |-> "OutputTooSmall", written |-> 0, required |-> Len(path),
        total |-> total, expanded |-> n, path |-> <<>>]
  ELSE [status |-> "Ok", written |-> Len(path), required |-> Len(path),
        total |-> total, expanded |-> n, path |-> path]

\* Before the first call, and while one runs.
NoResult == Failed("None", 0)

Init ==
  /\ phase = "idle"
  /\ request \in Searches
  /\ g = [n \in Cells |-> Infinity]
  /\ parent = [n \in Cells |-> NoParent]
  /\ closed = {}
  /\ open = {}
  /\ expanded = 0
  /\ trail = <<>>
  /\ result = NoResult

-----------------------------------------------------------------------------
(* FindPath                                                                *)

Node(s, n, cost) == [f |-> cost + Heuristic(s, n), g |-> cost, index |-> n]

\* The order in which the heap gives up its nodes.
Before(a, b) ==
  \/ a.f < b.f
  \/ a.f = b.f /\ a.g < b.g
  \/ a.f = b.f /\ a.g = b.g /\ a.index <= b.index

Top == CHOOSE o \in open : \A p \in open : Before(o, p)

RefuseSearch(s) ==
  /\ phase = "idle"
  /\ ~ValidTraversalGrid(s) \/ ~ValidEndpoints(s)
  /\ request' = s
  /\ result' = Failed(IF ValidTraversalGrid(s) THEN "InvalidStartOrGoal"
                                               ELSE "InvalidGrid", 0)
  /\ UNCHANGED <<phase, g, parent, closed, open, expanded, trail>>

\* (fault) The closed cells of the last search are kept.
BeginSearchKeepingClosed(s) ==
  /\ phase = "idle"
  /\ ValidTraversalGrid(s) /\ ValidEndpoints(s)
  /\ phase' = "search"
  /\ request' = s
  /\ g' = [n \in Cells |-> IF n = s.start THEN 0 ELSE Infinity]
  /\ parent' = [n \in Cells |-> IF n = s.start THEN s.start ELSE NoParent]
  /\ open' = {Node(s, s.start, 0)}
  /\ expanded' = 0
  /\ trail' = <<>>
  /\ result' = NoResult
  /\ UNCHANGED closed

BeginSearch(s) ==
  /\ phase = "idle"
  /\ ValidTraversalGrid(s) /\ ValidEndpoints(s)
  /\ phase' = "search"
  /\ request' = s
  /\ g' = [n \in Cells |-> IF n = s.start THEN 0 ELSE Infinity]
  /\ parent' = [n \in Cells |-> IF n = s.start THEN s.start ELSE NoParent]
  /\ closed' = {}
  /\ open' = {Node(s, s.start, 0)}
  /\ expanded' = 0
  /\ trail' = <<>>
  /\ result' = NoResult

Stale(o) == o.index \in closed \/ o.g # g[o.index]

\* (fault) A stale node is passed over and left in the heap.
SkipStaleWithoutPop ==
  /\ phase = "search" /\ open # {}
  /\ Stale(Top)
  /\ UNCHANGED vars

SkipStale ==
  /\ phase = "search" /\ open # {}
  /\ Stale(Top)
  /\ open' = open \ {Top}
  /\ UNCHANGED <<phase, request, g, parent, closed, expanded, trail, result>>

\* The cells a better way is found to when cell n is expanded.
Improved(n) ==
  {m \in Cells : /\ Adjacent(n, m)
                 /\ ~Blocked(request, m)
                 /\ m \notin closed
                 /\ g[n] + request.costs[m] <= MaxCost
                 /\ g[n] + request.costs[m] < g[m]}

Expand ==
  LET n == Top.index
  IN  /\ phase = "search" /\ open # {}
      /\ ~Stale(Top)
      /\ n # request.goal
      /\ closed' = closed \union {n}
      /\ expanded' = expanded + 1
      /\ g' = [m \in Cells |-> IF m \in Improved(n) THEN g[n] + request.costs[m]
                                                    ELSE g[m]]
      /\ parent' = [m \in Cells |-> IF m \in Improved(n) THEN n ELSE parent[m]]
      /\ open' = (open \ {Top})
                   \union {Node(request, m, g[n] + request.costs[m]) : m \in Improved(n)}
      /\ UNCHANGED <<phase, request, trail, result>>

ReachGoal ==
  /\ phase = "search" /\ open # {}
  /\ ~Stale(Top)
  /\ Top.index = request.goal
  /\ closed' = closed \union {request.goal}
  /\ expanded' = expanded + 1
  /\ open' = open \ {Top}
  /\ phase' = "trace"
  /\ trail' = <<request.goal>>
  /\ UNCHANGED <<request, g, parent, result>>

ExhaustOpen ==
  /\ phase = "search" /\ open = {}
  /\ phase' = "idle"
  /\ result' = Failed("NoPath", expanded)
  /\ UNCHANGED <<request, g, parent, closed, open, expanded, trail>>

\* One step of the walk back; a cell without a parent would end it.
FollowParent ==
  LET p == parent[Head(trail)]
  IN  /\ phase = "trace"
      /\ Head(trail) # request.start
      /\ IF p = NoParent
         THEN /\ phase' = "idle"
              /\ result' = Failed("NoPath", expanded)
              /\ UNCHANGED trail
         ELSE /\ trail' = <<p>> \o trail
              /\ UNCHANGED <<phase, result>>
      /\ UNCHANGED <<request, g, parent, closed, open, expanded>>

ReturnPath ==
  /\ phase = "trace"
  /\ Head(trail) = request.start
  /\ phase' = "idle"
  /\ result' = Delivered(trail, g[request.goal], expanded, request.capacity)
  /\ UNCHANGED <<request, g, parent, closed, open, expanded, trail>>

Work == SkipStale \/ Expand \/ ReachGoal \/ ExhaustOpen \/ FollowParent \/ ReturnPath

Next ==
  \/ \E s \in Searches : RefuseSearch(s) \/ BeginSearch(s)
  \/ Work

\* A call runs to its return; callers need not call again.
Spec == Init /\ [][Next]_vars /\ WF_vars(Work)
-----------------------------------------------------------------------------
(* Properties                                                              *)

Status == {"None", "Ok", "InvalidGrid", "InvalidStartOrGoal", "OutputTooSmall", "NoPath"}

\* Types of the workspace and of the result.
TypeOK ==
  /\ phase \in {"idle", "search", "trace"}
  /\ request \in Search
  /\ g \in [Cells -> 0..Infinity]
  /\ parent \in [Cells -> Cells \union {NoParent}]
  /\ closed \in SUBSET Cells
  /\ open \in SUBSET [f : Nat, g : Nat, index : Cells]
  /\ expanded \in Nat
  /\ trail \in Seq(Cells)
  /\ result.status \in Status /\ result.total \in 0..Infinity

Searching == phase \in {"search", "trace"}
Reached(n) == g[n] <= MaxCost
Fresh(n) == Node(request, n, g[n])
F(n) == g[n] + Heuristic(request, n)
ExpandedCells == closed \ {request.goal}

\* The endpoints of a running search were checked and stay as they were.
RequestIsSearchable ==
  Searching => ValidTraversalGrid(request) /\ ValidEndpoints(request)

\* The parents form a tree rooted in the start: a reached cell has a closed
\* parent next to it, whose cost it extends by its own.
ParentsFormATree ==
  Searching =>
    /\ g[request.start] = 0 /\ parent[request.start] = request.start
    /\ \A n \in Cells \ {request.start} :
         IF Reached(n)
         THEN /\ parent[n] \in ExpandedCells
              /\ Adjacent(parent[n], n)
              /\ ~Blocked(request, n)
              /\ g[n] = g[parent[n]] + request.costs[n]
         ELSE parent[n] = NoParent
    /\ \A n \in closed : Reached(n)

\* Every reached cell that is not closed has its node in the heap, and no
\* node promises less than the best way found to its cell.
FrontierIsQueued ==
  Searching =>
    /\ \A n \in Cells \ closed : Reached(n) => Fresh(n) \in open
    /\ \A o \in open : /\ o.g \in g[o.index] .. MaxCost
                       /\ o = Node(request, o.index, o.g)

\* Cells are closed in the order of their f: neither heuristic overestimates,
\* so a closed cell never has to be opened again.
ClosedInOrder ==
  Searching =>
    /\ \A c \in closed, n \in Cells \ closed : Reached(n) => F(c) <= F(n)
    /\ phase = "trace" <=> request.goal \in closed
    /\ phase = "trace" => \A c \in closed : F(c) <= g[request.goal]

\* No edge out of an expanded cell offers a better way than the one known.
EdgesAreRelaxed ==
  Searching =>
    \A m \in ExpandedCells, n \in Cells :
      Adjacent(m, n) /\ ~Blocked(request, n) =>
        \/ g[n] <= g[m] + request.costs[n]
        \/ g[m] + request.costs[n] > MaxCost

\* The walk back stands on a reached cell.
TrailIsReached ==
  phase = "trace" => trail # <<>> /\ Reached(Head(trail))

\* What the search keeps true of the part of its workspace it has reached.
SearchInv ==
  /\ RequestIsSearchable
  /\ ParentsFormATree
  /\ FrontierIsQueued
  /\ ClosedInOrder
  /\ EdgesAreRelaxed
  /\ TrailIsReached

\* The workspace is sound for the search under way, whatever the searches
\* before it, finished or refused, left there (Pathing.cpp:88-112 resizes and
\* refills it and frees nothing).
WorkspaceInv == TypeOK /\ SearchInv

\* The walks over the grid of at most RouteLength steps.
Walks ==
  UNION {{r \in [0..k -> Cells] : \A i \in 1..k : Adjacent(r[i-1], r[i])}
           : k \in 0..RouteLength}

Steps(r) == CHOOSE k \in 0..RouteLength : DOMAIN r = 0..k

Routes(s) ==
  {r \in Walks : /\ r[0] = s.start /\ r[Steps(r)] = s.goal
                 /\ \A i \in 0..Steps(r) : ~Blocked(s, r[i])}

\* What a route costs: its start is free, every cell entered is paid for.
RouteCost(s, r) ==
  LET paid[i \in 0..Steps(r)] ==
        IF i = 0 THEN 0 ELSE paid[i-1] + s.costs[r[i]]
  IN  paid[Steps(r)]

\* The total a search returns is what the cheapest route costs, and "NoPath"
\* means that no route has a finite cost: whatever the workspace held before.
CheapestRoute ==
  phase = "idle" =>
    /\ result.status \in {"Ok", "OutputTooSmall"} =>
         \A r \in Routes(request) : result.total <= RouteCost(request, r)
    /\ result.status = "NoPath" =>
         \A r \in Routes(request) : RouteCost(request, r) > MaxCost

\* A search that finds the goal reports the length and the cost of a walk from
\* start to goal over passable cells.  The caller's buffer gets that whole walk
\* if it has room for it and nothing otherwise: a retry with the room required
\* would be served.
PathIsARoute ==
  phase = "idle" /\ result.status \in {"Ok", "OutputTooSmall"} =>
    /\ \E r \in Routes(request) :
         /\ result.required = Steps(r) + 1
         /\ result.total = RouteCost(request, r)
         /\ result.status = "Ok" => result.path = [i \in 1 .. Steps(r) + 1 |-> r[i - 1]]
    /\ IF result.status = "Ok"
       THEN result.written = result.required /\ result.required <= request.capacity
       ELSE /\ result.written = 0 /\ result.path = <<>>
            /\ result.required > request.capacity

\* Every search returns.
SearchReturns == phase # "idle" ~> phase = "idle"
=============================================================================
