--------------------------- MODULE Pathing_proofs ---------------------------
(* What a search keeps true of its workspace, that its answer is the         *)
(* cheapest route's and its path a route, on every grid.                     *)
EXTENDS Pathing, OrderLemmas, TLAPS

LEMMA CellsAreNaturals == /\ Cells \subseteq Nat
                          /\ NoParent \notin Cells
                          /\ \A n \in Cells : X(n) \in Int /\ Y(n) \in Int
<1>1. Width * Height \in Nat
  BY DimensionsAssumption
<1>2. Cells \subseteq Nat
  BY <1>1, SMT DEF Cells
<1>3. \A n \in Nat : n % Width \in Int /\ n \div Width \in Int
  BY DimensionsAssumption, SMT
<1> QED
  BY <1>2, <1>3 DEF X, Y, NoParent

\* A step between neighbours changes either heuristic by at most one.
LEMMA HeuristicIsConsistent ==
  ASSUME NEW s \in Search, s.goal \in Cells
  PROVE  /\ Heuristic(s, s.goal) = 0
         /\ \A n \in Cells : Heuristic(s, n) \in Nat
         /\ \A a, b \in Cells :
              Adjacent(a, b) => /\ Heuristic(s, a) <= Heuristic(s, b) + 1
                                /\ Heuristic(s, b) <= Heuristic(s, a) + 1
<1>1. \A i, j \in Int : Gap(i, j) \in Nat /\ Gap(i, i) = 0
  BY SMT DEF Gap
<1>2. \A i, j, k \in Int : /\ Gap(i, k) <= Gap(i, j) + Gap(j, k)
                           /\ Gap(i, j) = Gap(j, i)
  BY SMT DEF Gap
<1>3. \A a, b \in Cells : Manhattan(a, b) \in Nat /\ Manhattan(a, a) = 0
  <2> TAKE a, b \in Cells
  <2>1. X(a) \in Int /\ X(b) \in Int /\ Y(a) \in Int /\ Y(b) \in Int
    BY CellsAreNaturals
  <2>2. /\ Gap(X(a), X(b)) \in Nat /\ Gap(Y(a), Y(b)) \in Nat
        /\ Gap(X(a), X(a)) = 0 /\ Gap(Y(a), Y(a)) = 0
    BY <2>1, <1>1
  <2> QED
    BY <2>2, SMT DEF Manhattan
<1>4. \A a, b, c \in Cells : /\ Manhattan(a, c) <= Manhattan(a, b) + Manhattan(b, c)
                             /\ Manhattan(a, b) = Manhattan(b, a)
  <2> TAKE a, b, c \in Cells
  <2>1. /\ X(a) \in Int /\ X(b) \in Int /\ X(c) \in Int
        /\ Y(a) \in Int /\ Y(b) \in Int /\ Y(c) \in Int
    BY CellsAreNaturals
  <2>2. /\ Gap(X(a), X(c)) <= Gap(X(a), X(b)) + Gap(X(b), X(c))
        /\ Gap(Y(a), Y(c)) <= Gap(Y(a), Y(b)) + Gap(Y(b), Y(c))
        /\ Gap(X(a), X(b)) = Gap(X(b), X(a)) /\ Gap(Y(a), Y(b)) = Gap(Y(b), Y(a))
    BY <2>1, <1>2
  <2>3. /\ Gap(X(a), X(c)) \in Nat /\ Gap(X(a), X(b)) \in Nat /\ Gap(X(b), X(c)) \in Nat
        /\ Gap(Y(a), Y(c)) \in Nat /\ Gap(Y(a), Y(b)) \in Nat /\ Gap(Y(b), Y(c)) \in Nat
    BY <2>1, <1>1
  <2> QED
    BY <2>2, <2>3, SMT DEF Manhattan
<1>5. ASSUME NEW a \in Cells, NEW b \in Cells, Adjacent(a, b)
      PROVE  /\ Heuristic(s, a) <= Heuristic(s, b) + 1
             /\ Heuristic(s, b) <= Heuristic(s, a) + 1
  <2>1. /\ Manhattan(a, s.goal) <= Manhattan(b, s.goal) + 1
        /\ Manhattan(b, s.goal) <= Manhattan(a, s.goal) + 1
    <3>1. Manhattan(a, b) = 1 /\ Manhattan(b, a) = 1
      BY <1>5, <1>4 DEF Adjacent
    <3>2. /\ Manhattan(a, s.goal) <= Manhattan(a, b) + Manhattan(b, s.goal)
          /\ Manhattan(b, s.goal) <= Manhattan(b, a) + Manhattan(a, s.goal)
      BY <1>4
    <3> QED
      BY <3>1, <3>2, <1>3, SMT
  <2> QED
    BY <2>1, <1>3, SMT DEF Heuristic
<1> QED
  BY <1>3, <1>5 DEF Heuristic

\* A heap that is not empty has a top, and the top is in it.
LEMMA HeapHasATop ==
  ASSUME TypeOK, open # {}
  PROVE  /\ Top \in open
         /\ \A o \in open : Top.f <= o.f
<1> DEFINE Fs == {o.f : o \in open}
           Gs(x) == {o.g : o \in {p \in open : p.f = x}}
           Is(x, y) == {o.index : o \in {p \in open : p.f = x /\ p.g = y}}
<1>0. open \subseteq [f : Nat, g : Nat, index : Nat]
  BY CellsAreNaturals DEF TypeOK
<1>1. PICK x \in Fs : \A z \in Fs : x <= z
  <2>1. Fs \subseteq Nat /\ Fs # {}
    BY <1>0
  <2> HIDE DEF Fs
  <2> QED
    BY <2>1, LeastNatural
<1>2. PICK y \in Gs(x) : \A z \in Gs(x) : y <= z
  <2>1. Gs(x) \subseteq Nat /\ Gs(x) # {}
    BY <1>0, <1>1
  <2> HIDE DEF Gs
  <2> QED
    BY <2>1, LeastNatural
<1>3. PICK k \in Is(x, y) : \A z \in Is(x, y) : k <= z
  <2>1. Is(x, y) \subseteq Nat /\ Is(x, y) # {}
    BY <1>0, <1>2
  <2> HIDE DEF Is
  <2> QED
    BY <2>1, LeastNatural
<1>4. PICK t \in open : t.f = x /\ t.g = y /\ t.index = k
  BY <1>3
<1>5. \A o \in open : Before(t, o)
  <2> TAKE o \in open
  <2>1. x <= o.f
    BY <1>1
  <2>2. o.f = x => y <= o.g
    BY <1>2
  <2>3. o.f = x /\ o.g = y => k <= o.index
    BY <1>3
  <2> QED
    BY <2>1, <2>2, <2>3, <1>4, <1>0, SMT DEF Before
<1>6. Top \in open /\ \A o \in open : Before(Top, o)
  BY <1>5 DEF Top
<1>7. \A o \in open : Top.f <= o.f
  BY <1>6, <1>0, SMT DEF Before
<1> QED
  BY <1>6, <1>7
-----------------------------------------------------------------------------
(* The invariant                                                           *)

LEMMA InitInv == Init => TypeOK /\ SearchInv
<1> SUFFICES ASSUME Init PROVE TypeOK /\ SearchInv
  OBVIOUS
<1>1. TypeOK
  BY SearchesAssumption, MaxCostAssumption
  DEF Init, TypeOK, NoResult, Failed, Status, Infinity
<1>2. SearchInv
  BY DEF Init, SearchInv, RequestIsSearchable, ParentsFormATree, FrontierIsQueued,
         ClosedInOrder, EdgesAreRelaxed, TrailIsReached, Searching
<1> QED
  BY <1>1, <1>2

\* What is known of a search whose endpoints were checked.
LEMMA SearchableRequest ==
  ASSUME TypeOK, RequestIsSearchable, Searching
  PROVE  /\ request \in Search
         /\ request.start \in Cells /\ request.goal \in Cells
         /\ \A n \in Cells : request.costs[n] \in 1..Infinity
         /\ \A n \in Cells : Heuristic(request, n) \in Nat
         /\ Heuristic(request, request.goal) = 0
         /\ Infinity \in Nat /\ Infinity = MaxCost + 1 /\ MaxCost \in Nat
<1>1. request \in Search /\ request.goal \in Cells /\ request.start \in Cells
  BY DEF TypeOK, RequestIsSearchable, ValidEndpoints
<1>2. \A n \in Cells : request.costs[n] \in 0..Infinity /\ request.costs[n] >= 1
  BY <1>1 DEF RequestIsSearchable, ValidTraversalGrid, Search
<1>3. Infinity \in Nat /\ Infinity = MaxCost + 1 /\ MaxCost \in Nat
  BY MaxCostAssumption DEF Infinity
<1>4. \A n \in Cells : request.costs[n] \in 1..Infinity
  BY <1>2, <1>3
<1> QED
  BY <1>1, <1>3, <1>4, HeuristicIsConsistent

\* The node a search pops and does not pass over: its cell's best way so far,
\* and no cell in the heap has a better one.
LEMMA PoppedNode ==
  ASSUME TypeOK, SearchInv, phase = "search", open # {}, ~Stale(Top)
  PROVE  /\ Top \in open
         /\ Top.index \in Cells \ closed
         /\ Reached(Top.index)
         /\ Top.g = g[Top.index]
         /\ Top.f = F(Top.index)
         /\ \A m \in Cells \ closed : Reached(m) => F(Top.index) <= F(m)
<1>1. Top \in open /\ \A o \in open : Top.f <= o.f
  BY HeapHasATop
<1>2. Searching
  BY DEF Searching
<1>3. Top.index \in Cells \ closed /\ Top.g = g[Top.index]
  BY <1>1 DEF TypeOK, Stale
<1>4. /\ Top.g \in g[Top.index] .. MaxCost
      /\ Top = Node(request, Top.index, Top.g)
  BY <1>1, <1>2 DEF SearchInv, FrontierIsQueued
<1>5. Reached(Top.index) /\ Top.f = F(Top.index)
  BY <1>3, <1>4, MaxCostAssumption DEF Reached, F, Node, TypeOK
<1>6. ASSUME NEW m \in Cells \ closed, Reached(m)
      PROVE  F(Top.index) <= F(m)
  <2>1. Fresh(m) \in open
    BY <1>2, <1>6 DEF SearchInv, FrontierIsQueued
  <2>2. Fresh(m).f = F(m)
    BY DEF Fresh, Node, F
  <2> QED
    BY <2>1, <2>2, <1>1, <1>5
<1> QED
  BY <1>1, <1>3, <1>5, <1>6

LEMMA RefuseInv ==
  ASSUME TypeOK, SearchInv, NEW s \in Searches, RefuseSearch(s)
  PROVE  TypeOK' /\ SearchInv'
<1>1. TypeOK'
  BY SearchesAssumption, MaxCostAssumption
  DEF TypeOK, RefuseSearch, Failed, Status, Infinity
<1>2. SearchInv'
  BY DEF RefuseSearch, SearchInv, RequestIsSearchable, ParentsFormATree,
         FrontierIsQueued, ClosedInOrder, EdgesAreRelaxed, TrailIsReached, Searching
<1> QED
  BY <1>1, <1>2

LEMMA BeginInv ==
  ASSUME TypeOK, SearchInv, NEW s \in Searches, BeginSearch(s)
  PROVE  TypeOK' /\ SearchInv'
<1> USE DEF BeginSearch
<1>1. s \in Search /\ s.start \in Cells /\ s.goal \in Cells
  BY SearchesAssumption DEF ValidEndpoints
<1>2. \A n \in Cells : Heuristic(s, n) \in Nat
  BY <1>1, HeuristicIsConsistent
<1>3. Infinity \in Nat /\ Infinity = MaxCost + 1 /\ MaxCost \in Nat
  BY MaxCostAssumption DEF Infinity
<1>4. TypeOK'
  <2>1. Node(s, s.start, 0) \in [f : Nat, g : Nat, index : Cells]
    BY <1>1, <1>2 DEF Node
  <2>2. NoResult.status \in Status /\ NoResult.total \in 0..Infinity
    BY <1>3 DEF NoResult, Failed, Status
  <2> QED
    BY <1>1, <1>3, <2>1, <2>2 DEF TypeOK
<1>5. \A n \in Cells \ {s.start} : ~Reached(n)'
  BY <1>3 DEF Reached
<1>6. RequestIsSearchable' /\ TrailIsReached'
  BY <1>1 DEF RequestIsSearchable, TrailIsReached, ValidTraversalGrid, ValidEndpoints, Blocked
<1>7. ParentsFormATree'
  BY <1>1, <1>5 DEF ParentsFormATree, NoParent
<1>8. FrontierIsQueued'
  <2>1. (Fresh(s.start) = Node(s, s.start, 0))'
    BY <1>1 DEF Fresh
  <2>2. Node(s, s.start, 0).index = s.start /\ Node(s, s.start, 0).g = 0
    BY DEF Node
  <2>3. 0 \in g'[s.start] .. MaxCost
    BY <1>1, <1>3
  <2> QED
    BY <1>5, <2>1, <2>2, <2>3 DEF FrontierIsQueued
<1>9. ClosedInOrder' /\ EdgesAreRelaxed'
  BY DEF ClosedInOrder, EdgesAreRelaxed, ExpandedCells
<1> QED
  BY <1>4, <1>6, <1>7, <1>8, <1>9 DEF SearchInv

LEMMA SkipInv ==
  ASSUME TypeOK, SearchInv, SkipStale
  PROVE  TypeOK' /\ SearchInv'
<1> USE DEF SkipStale
<1>1. TypeOK'
  BY DEF TypeOK
<1>2. ASSUME NEW n \in Cells \ closed, Reached(n), Searching
      PROVE  Fresh(n) \in open'
  <2>1. Fresh(n) \in open
    BY <1>2 DEF SearchInv, FrontierIsQueued
  <2>2. Fresh(n).index = n /\ Fresh(n).g = g[n]
    BY DEF Fresh, Node
  <2> QED
    BY <2>1, <2>2 DEF Stale
<1>3. FrontierIsQueued'
  BY <1>2 DEF FrontierIsQueued, SearchInv, Searching, Reached, Fresh, Node, Heuristic
<1>4. RequestIsSearchable' /\ ParentsFormATree' /\ ClosedInOrder'
      /\ EdgesAreRelaxed' /\ TrailIsReached'
  BY DEF SearchInv, RequestIsSearchable, ParentsFormATree, ClosedInOrder, EdgesAreRelaxed,
         TrailIsReached, Searching, Reached, F, ExpandedCells, Blocked, ValidTraversalGrid,
         ValidEndpoints, Heuristic
<1> QED
  BY <1>1, <1>3, <1>4 DEF SearchInv

\* Expanding a cell: g only falls, and only at cells not closed.
LEMMA ExpandInv ==
  ASSUME TypeOK, SearchInv, Expand
  PROVE  TypeOK' /\ SearchInv'
<1> DEFINE n == Top.index
           c(m) == request.costs[m]
<1>1. /\ phase = "search" /\ open # {} /\ ~Stale(Top) /\ n # request.goal
      /\ closed' = closed \union {n} /\ expanded' = expanded + 1
      /\ g' = [m \in Cells |-> IF m \in Improved(n) THEN g[n] + c(m) ELSE g[m]]
      /\ parent' = [m \in Cells |-> IF m \in Improved(n) THEN n ELSE parent[m]]
      /\ open' = (open \ {Top}) \union {Node(request, m, g[n] + c(m)) : m \in Improved(n)}
      /\ UNCHANGED <<phase, request, trail, result>>
  BY DEF Expand
<1>2. /\ Top \in open /\ n \in Cells \ closed /\ Reached(n)
      /\ Top.g = g[n] /\ Top.f = F(n)
      /\ \A m \in Cells \ closed : Reached(m) => F(n) <= F(m)
  BY <1>1, PoppedNode
<1>3. /\ request \in Search
      /\ request.start \in Cells /\ request.goal \in Cells
      /\ \A m \in Cells : c(m) \in 1..Infinity
      /\ \A m \in Cells : Heuristic(request, m) \in Nat
      /\ Infinity \in Nat /\ Infinity = MaxCost + 1 /\ MaxCost \in Nat
  BY <1>1, SearchableRequest DEF SearchInv, Searching
<1>4. Searching /\ Searching'
  BY <1>1 DEF Searching
<1>5. \A m \in Cells : g[m] \in 0..Infinity /\ g'[m] \in 0..Infinity
  <2> TAKE m \in Cells
  <2>1. g[m] \in 0..Infinity /\ g[n] \in 0..Infinity /\ c(m) \in 1..Infinity
    BY <1>2, <1>3 DEF TypeOK
  <2>2. m \in Improved(n) => g[n] + c(m) <= MaxCost
    BY DEF Improved
  <2>3. g'[m] = IF m \in Improved(n) THEN g[n] + c(m) ELSE g[m]
    BY <1>1
  <2> HIDE DEF n, c
  <2> QED
    BY <2>1, <2>2, <2>3, <1>3
<1>6. ASSUME NEW m \in Improved(n)
      PROVE  /\ m \in Cells \ closed /\ m # n /\ Adjacent(n, m) /\ ~Blocked(request, m)
             /\ g'[m] = g[n] + c(m) /\ parent'[m] = n
             /\ g'[m] <= MaxCost /\ g'[m] < g[m]
  <2>1. m \in Cells \ closed /\ Adjacent(n, m) /\ ~Blocked(request, m)
        /\ g[n] + c(m) <= MaxCost /\ g[n] + c(m) < g[m]
    BY DEF Improved
  <2>2. m # n
    BY <2>1, <1>2, <1>3, <1>5
  <2> QED
    BY <2>1, <2>2, <1>1
<1>7. ASSUME NEW m \in Cells, m \notin Improved(n)
      PROVE  g'[m] = g[m] /\ parent'[m] = parent[m]
  BY <1>1, <1>7
<1> HIDE DEF n, c
<1>8. TypeOK'
  <2>1. g' \in [Cells -> 0..Infinity]
    BY <1>1, <1>5
  <2>2. parent' \in [Cells -> Cells \union {NoParent}]
    BY <1>1, <1>2 DEF TypeOK
  <2>3. \A m \in Improved(n) : Node(request, m, g[n] + c(m)) \in [f : Nat, g : Nat, index : Cells]
    <3> TAKE m \in Improved(n)
    <3>1. m \in Cells /\ g[n] + c(m) \in Nat /\ Heuristic(request, m) \in Nat
      BY <1>6, <1>3, <1>5, <1>2
    <3> QED
      BY <3>1 DEF Node
  <2>4. open' \in SUBSET [f : Nat, g : Nat, index : Cells]
    BY <2>3, <1>1 DEF TypeOK
  <2> QED
    BY <2>1, <2>2, <2>4, <1>1, <1>2 DEF TypeOK
<1>9. RequestIsSearchable' /\ TrailIsReached'
  BY <1>1, <1>4 DEF SearchInv, RequestIsSearchable, TrailIsReached, ValidTraversalGrid,
                    ValidEndpoints, Blocked
<1>10. \A m \in closed' : g'[m] = g[m] /\ parent'[m] = parent[m] /\ Reached(m) /\ m \in Cells
  <2>1. \A m \in closed' : m \in Cells /\ m \notin Improved(n)
    BY <1>1, <1>2, <1>6 DEF TypeOK
  <2> QED
    BY <2>1, <1>7, <1>1, <1>2, <1>4 DEF SearchInv, ParentsFormATree
<1>11. ParentsFormATree'
  <2>1. request.start \notin Improved(n)
    <3>1. g[request.start] = 0
      BY <1>4 DEF SearchInv, ParentsFormATree
    <3> QED
      BY <3>1, <1>5, <1>6, <1>3
  <2>2. (g[request.start] = 0 /\ parent[request.start] = request.start)'
    BY <2>1, <1>1, <1>3, <1>4, <1>7 DEF SearchInv, ParentsFormATree
  <2>3. (ExpandedCells = ExpandedCells)' /\ ExpandedCells' = ExpandedCells \union {n}
    BY <1>1, <1>2 DEF ExpandedCells, n
  <2>4. ASSUME NEW m \in Cells \ {request.start}, m \in Improved(n)
        PROVE  /\ Reached(m)' /\ parent'[m] \in ExpandedCells'
               /\ Adjacent(parent'[m], m) /\ ~Blocked(request, m)
               /\ g'[m] = g'[parent'[m]] + request.costs[m]
    <3>1. n \in closed'
      BY <1>1
    <3>2. g'[n] = g[n]
      BY <3>1, <1>10
    <3> QED
      BY <2>3, <2>4, <3>2, <1>6 DEF Reached, c
  <2>5. ASSUME NEW m \in Cells \ {request.start}, m \notin Improved(n)
        PROVE  IF Reached(m)'
               THEN /\ parent'[m] \in ExpandedCells'
                    /\ Adjacent(parent'[m], m) /\ ~Blocked(request, m)
                    /\ g'[m] = g'[parent'[m]] + request.costs[m]
               ELSE parent'[m] = NoParent
    <3>1. g'[m] = g[m] /\ parent'[m] = parent[m]
      BY <1>7, <2>5
    <3>2. Reached(m)' <=> Reached(m)
      BY <3>1 DEF Reached
    <3>3. CASE Reached(m)
      <4>1. /\ parent[m] \in ExpandedCells /\ Adjacent(parent[m], m)
            /\ ~Blocked(request, m) /\ g[m] = g[parent[m]] + request.costs[m]
        BY <3>3, <1>4 DEF SearchInv, ParentsFormATree
      <4>2. parent[m] \in closed'
        BY <4>1, <1>1 DEF ExpandedCells
      <4>3. g'[parent[m]] = g[parent[m]]
        BY <4>2, <1>10
      <4> QED
        BY <4>1, <4>3, <3>1, <3>2, <3>3, <2>3
    <3>4. CASE ~Reached(m)
      BY <3>4, <3>1, <3>2, <1>4 DEF SearchInv, ParentsFormATree
    <3> QED
      BY <3>3, <3>4
  <2>6. \A m \in closed' : Reached(m)'
    BY <1>10 DEF Reached
  <2>7. request' = request
    BY <1>1
  <2> QED
    BY <2>2, <2>4, <2>5, <2>6, <2>7 DEF ParentsFormATree, Blocked
<1>12. FrontierIsQueued'
  <2>1. ASSUME NEW m \in Cells \ closed', Reached(m)'
        PROVE  Fresh(m)' \in open'
    <3>1. CASE m \in Improved(n)
      <4>1. Fresh(m)' = Node(request, m, g[n] + c(m))
        BY <3>1, <1>6, <1>1 DEF Fresh, Node, Heuristic
      <4> QED
        BY <4>1, <3>1, <1>1
    <3>2. CASE m \notin Improved(n)
      <4>1. Fresh(m)' = Fresh(m) /\ Reached(m)
        BY <3>2, <1>7, <1>1, <2>1 DEF Fresh, Node, Heuristic, Reached
      <4>2. Fresh(m) \in open
        BY <4>1, <1>1, <1>4, <2>1 DEF SearchInv, FrontierIsQueued
      <4>3. Fresh(m).index = m /\ m # n
        BY <1>1, <2>1 DEF Fresh, Node
      <4> QED
        BY <4>1, <4>2, <4>3, <1>1 DEF n
    <3> QED
      BY <3>1, <3>2
  <2>2. ASSUME NEW o \in open'
        PROVE  /\ o.g \in g'[o.index] .. MaxCost
               /\ o = Node(request', o.index, o.g)
    <3>1. CASE o \in open
      <4>1. o.g \in g[o.index] .. MaxCost /\ o = Node(request, o.index, o.g)
            /\ o.index \in Cells
        BY <3>1, <1>4 DEF SearchInv, FrontierIsQueued, TypeOK
      <4>2. g'[o.index] <= g[o.index]
        BY <4>1, <1>5, <1>6, <1>7
      <4> QED
        BY <4>1, <4>2, <1>1, <1>3, <1>5
    <3>2. CASE o \notin open
      <4>1. PICK m \in Improved(n) : o = Node(request, m, g[n] + c(m))
        BY <3>2, <1>1
      <4>2. o.index = m /\ o.g = g'[m]
        BY <4>1, <1>6 DEF Node
      <4> QED
        <5>1. o.g \in g'[m] .. MaxCost
          BY <4>2, <1>3, <1>5, <1>6
        <5>2. o = Node(request', m, g'[m])
          BY <4>1, <1>1, <1>6
        <5> QED
          BY <5>1, <5>2, <4>2
    <3> QED
      BY <3>1, <3>2
  <2> QED
    BY <2>1, <2>2 DEF FrontierIsQueued
<1>13. \A m \in Cells : F(m) \in Nat /\ F(m)' \in Nat /\ F(m)' = g'[m] + Heuristic(request, m)
  BY <1>1, <1>3, <1>5 DEF F, Heuristic
<1>14. ASSUME NEW m \in Improved(n) PROVE F(n) <= F(m)'
  <2>1. F(m)' = g[n] + c(m) + Heuristic(request, m)
    BY <1>6, <1>13
  <2>2. Heuristic(request, n) <= Heuristic(request, m) + 1
    BY <1>2, <1>3, <1>6, HeuristicIsConsistent
  <2>3. m \in Cells /\ n \in Cells
    BY <1>2, <1>6
  <2> QED
    BY <2>1, <2>2, <2>3, <1>3, <1>5, SMT DEF F
<1>15. ClosedInOrder'
  <2>1. ASSUME NEW d \in closed', NEW m \in Cells \ closed', Reached(m)'
        PROVE  F(d)' <= F(m)'
    <3>1. F(d)' = F(d) /\ d \in Cells
      BY <1>1, <1>10 DEF F, Heuristic
    <3>2. F(d) <= F(n)
      <4>1. CASE d = n
        BY <4>1, <1>2, <1>13
      <4>2. CASE d \in closed
        BY <4>2, <1>2, <1>4 DEF SearchInv, ClosedInOrder
      <4> QED
        BY <4>1, <4>2, <1>1
    <3>3. F(n) <= F(m)'
      <4>1. CASE m \in Improved(n)
        BY <4>1, <1>14
      <4>2. CASE m \notin Improved(n)
        <5>1. F(m)' = F(m) /\ Reached(m)
          BY <4>2, <1>1, <1>7, <2>1 DEF F, Heuristic, Reached
        <5> QED
          BY <5>1, <1>1, <1>2
      <4> QED
        BY <4>1, <4>2
    <3> QED
      BY <3>1, <3>2, <3>3, <1>2, <1>13
  <2>2. request.goal \notin closed' /\ phase' = "search"
    BY <1>1, <1>4 DEF SearchInv, ClosedInOrder, n
  <2> QED
    BY <2>1, <2>2, <1>1 DEF ClosedInOrder
<1>16. EdgesAreRelaxed'
  <2>1. ASSUME NEW m \in ExpandedCells', NEW k \in Cells,
               Adjacent(m, k), ~Blocked(request, k)
        PROVE  g'[k] <= g'[m] + c(k) \/ g'[m] + c(k) > MaxCost
    <3>1. g'[m] = g[m] /\ m \in Cells
      BY <2>1, <1>10 DEF ExpandedCells
    <3>2. g'[k] <= g[k]
      BY <1>5, <1>6, <1>7
    <3>3. CASE m \in ExpandedCells
      <4>1. g[k] <= g[m] + c(k) \/ g[m] + c(k) > MaxCost
        BY <3>3, <2>1, <1>4 DEF SearchInv, EdgesAreRelaxed, c
      <4> QED
        BY <4>1, <3>1, <3>2, <1>3, <1>5
    <3>4. CASE m = n
      <4>1. CASE k \in closed
        <5>1. F(k) <= F(n)
          BY <4>1, <1>2, <1>4 DEF SearchInv, ClosedInOrder
        <5>2. Heuristic(request, n) <= Heuristic(request, k) + 1
          BY <1>2, <1>3, <2>1, <3>4, HeuristicIsConsistent
        <5>3. g[k] <= g[n] + 1
          BY <5>1, <5>2, <1>2, <1>3, <1>5, SMT DEF F
        <5> QED
          BY <5>3, <3>1, <3>2, <3>4, <1>3, <1>5
      <4>2. CASE k \in Improved(n)
        BY <4>2, <1>3, <1>5, <1>6, <3>1, <3>4
      <4>3. CASE k \notin closed /\ k \notin Improved(n)
        <5>1. ~(g[n] + c(k) <= MaxCost /\ g[n] + c(k) < g[k])
          BY <4>3, <2>1, <3>4 DEF Improved, c
        <5> QED
          BY <5>1, <3>1, <3>2, <3>4, <1>3, <1>5
      <4> QED
        BY <4>1, <4>2, <4>3
    <3> QED
      BY <3>3, <3>4, <1>1 DEF ExpandedCells
  <2> QED
    BY <2>1, <1>1 DEF EdgesAreRelaxed, Blocked, c
<1> QED
  BY <1>8, <1>9, <1>11, <1>12, <1>15, <1>16 DEF SearchInv

LEMMA ReachGoalInv ==
  ASSUME TypeOK, SearchInv, ReachGoal
  PROVE  TypeOK' /\ SearchInv'
<1>1. /\ phase = "search" /\ open # {} /\ ~Stale(Top) /\ Top.index = request.goal
      /\ closed' = closed \union {request.goal} /\ expanded' = expanded + 1
      /\ open' = open \ {Top} /\ phase' = "trace" /\ trail' = <<request.goal>>
      /\ UNCHANGED <<request, g, parent, result>>
  BY DEF ReachGoal
<1>2. /\ Top \in open /\ request.goal \in Cells \ closed /\ Reached(request.goal)
      /\ \A m \in Cells \ closed : Reached(m) => F(request.goal) <= F(m)
  BY <1>1, PoppedNode
<1>3. /\ request \in Search
      /\ request.start \in Cells /\ request.goal \in Cells
      /\ \A m \in Cells : Heuristic(request, m) \in Nat
      /\ Heuristic(request, request.goal) = 0
      /\ Infinity \in Nat /\ Infinity = MaxCost + 1 /\ MaxCost \in Nat
  BY <1>1, SearchableRequest DEF SearchInv, Searching
<1>4. Searching /\ Searching'
  BY <1>1 DEF Searching
<1>5. TypeOK'
  BY <1>1, <1>2 DEF TypeOK
<1>6. RequestIsSearchable' /\ TrailIsReached'
  BY <1>1, <1>2, <1>4
  DEF SearchInv, RequestIsSearchable, TrailIsReached, ValidTraversalGrid,
      ValidEndpoints, Blocked, Reached
<1>7. ExpandedCells' = ExpandedCells
  BY <1>1, <1>2 DEF ExpandedCells
<1>8. ParentsFormATree' /\ EdgesAreRelaxed'
  BY <1>1, <1>2, <1>4, <1>7
  DEF SearchInv, ParentsFormATree, EdgesAreRelaxed, Reached, Blocked
<1>9. FrontierIsQueued'
  <2>1. ASSUME NEW m \in Cells \ closed', Reached(m)'
        PROVE  Fresh(m)' \in open'
    <3>1. Fresh(m) \in open /\ Fresh(m)' = Fresh(m)
      BY <1>1, <1>4, <2>1 DEF SearchInv, FrontierIsQueued, Reached, Fresh, Node, Heuristic
    <3>2. Fresh(m).index = m /\ m # request.goal
      BY <1>1, <2>1 DEF Fresh, Node
    <3> QED
      BY <3>1, <3>2, <1>1
  <2>2. \A o \in open' : o.g \in g'[o.index] .. MaxCost /\ o = Node(request', o.index, o.g)
    BY <1>1, <1>4 DEF SearchInv, FrontierIsQueued
  <2> QED
    BY <2>1, <2>2 DEF FrontierIsQueued
<1>10. \A m \in Cells : F(m) \in Nat /\ F(m)' = F(m) /\ (Reached(m)' <=> Reached(m))
  BY <1>1, <1>3 DEF F, Heuristic, Reached, TypeOK
<1>11. F(request.goal) = g[request.goal]
  BY <1>3 DEF F, TypeOK
<1>12. \A d \in closed' : d \in Cells /\ F(d) <= F(request.goal)
  BY <1>1, <1>2, <1>4, <1>10 DEF SearchInv, ClosedInOrder, TypeOK
<1>13. ASSUME NEW d \in closed', NEW m \in Cells \ closed', Reached(m)'
       PROVE  F(d)' <= F(m)'
  <2>1. F(request.goal) <= F(m)
    BY <1>1, <1>2, <1>10, <1>13
  <2> QED
    BY <2>1, <1>2, <1>10, <1>12
<1>14. ClosedInOrder'
  BY <1>1, <1>10, <1>11, <1>12, <1>13 DEF ClosedInOrder
<1> QED
  BY <1>5, <1>6, <1>8, <1>9, <1>14 DEF SearchInv

LEMMA ExhaustInv ==
  ASSUME TypeOK, SearchInv, ExhaustOpen
  PROVE  TypeOK' /\ SearchInv'
<1>1. TypeOK'
  BY MaxCostAssumption DEF TypeOK, ExhaustOpen, Failed, Status, Infinity
<1> QED
  BY <1>1 DEF ExhaustOpen, SearchInv, RequestIsSearchable, ParentsFormATree,
    FrontierIsQueued, ClosedInOrder, EdgesAreRelaxed, TrailIsReached, Searching

\* The walk back never meets a cell without a parent.
LEMMA ParentIsThere ==
  ASSUME TypeOK, SearchInv, phase = "trace", Head(trail) # request.start
  PROVE  /\ parent[Head(trail)] \in Cells
         /\ parent[Head(trail)] # NoParent
         /\ Reached(parent[Head(trail)])
<1>1. Searching
  BY DEF Searching
<1>2. trail # <<>> /\ Reached(Head(trail)) /\ Head(trail) \in Cells
  BY DEF SearchInv, TrailIsReached, TypeOK
<1>3. parent[Head(trail)] \in ExpandedCells
  BY <1>1, <1>2 DEF SearchInv, ParentsFormATree
<1>4. \A m \in ExpandedCells : m \in Cells /\ Reached(m)
  BY <1>1 DEF SearchInv, ParentsFormATree, ExpandedCells, TypeOK
<1> QED
  BY <1>3, <1>4, CellsAreNaturals

LEMMA FollowInv ==
  ASSUME TypeOK, SearchInv, FollowParent
  PROVE  TypeOK' /\ SearchInv'
<1> DEFINE p == parent[Head(trail)]
<1>1. p \in Cells /\ p # NoParent /\ Reached(p)
  BY ParentIsThere DEF FollowParent
<1>2. trail' = <<p>> \o trail /\ UNCHANGED <<phase, request, g, parent, closed, open, expanded, result>>
  BY <1>1 DEF FollowParent
<1>3. <<p>> \o trail \in Seq(Cells) /\ <<p>> \o trail # <<>> /\ Head(<<p>> \o trail) = p
  <2>1. trail \in Seq(Cells)
    BY DEF TypeOK
  <2> HIDE DEF p
  <2> QED
    BY <2>1, <1>1
<1> HIDE DEF p
<1>4. TypeOK'
  BY <1>2, <1>3 DEF TypeOK
<1>5. TrailIsReached'
  BY <1>1, <1>2, <1>3 DEF TrailIsReached, Reached
<1>6. RequestIsSearchable' /\ ParentsFormATree' /\ ClosedInOrder' /\ FrontierIsQueued'
      /\ EdgesAreRelaxed'
  BY <1>2 DEF SearchInv, RequestIsSearchable, ParentsFormATree, ClosedInOrder,
     FrontierIsQueued, EdgesAreRelaxed, Searching, Reached, F, ExpandedCells, Blocked,
     Fresh, Node, ValidTraversalGrid, ValidEndpoints, Heuristic
<1> QED
  BY <1>4, <1>5, <1>6 DEF SearchInv

LEMMA ReturnInv ==
  ASSUME TypeOK, SearchInv, ReturnPath
  PROVE  TypeOK' /\ SearchInv'
<1>1. g[request.goal] \in 0..Infinity
  <2>1. Searching
    BY DEF ReturnPath, Searching
  <2> QED
    BY <2>1 DEF SearchInv, RequestIsSearchable, ValidEndpoints, TypeOK
<1>2. TypeOK'
  BY <1>1 DEF TypeOK, ReturnPath, Delivered, Status
<1> QED
  BY <1>2 DEF ReturnPath, SearchInv, RequestIsSearchable, ParentsFormATree,
    FrontierIsQueued, ClosedInOrder, EdgesAreRelaxed, TrailIsReached, Searching

LEMMA StutterInv ==
  ASSUME TypeOK, SearchInv, UNCHANGED vars
  PROVE  TypeOK' /\ SearchInv'
<1>1. TypeOK'
  BY DEF TypeOK, vars
<1> QED
  BY <1>1 DEF vars, SearchInv, RequestIsSearchable, ParentsFormATree, ClosedInOrder,
    FrontierIsQueued, EdgesAreRelaxed, TrailIsReached, Searching, Reached, F, ExpandedCells,
    Blocked, Fresh, Node, ValidTraversalGrid, ValidEndpoints, Heuristic

LEMMA NextInv == TypeOK /\ SearchInv /\ [Next]_vars => (TypeOK /\ SearchInv)'
<1> SUFFICES ASSUME TypeOK, SearchInv, [Next]_vars PROVE (TypeOK /\ SearchInv)'
  OBVIOUS
<1>1. CASE \E s \in Searches : RefuseSearch(s)
  BY <1>1, RefuseInv
<1>2. CASE \E s \in Searches : BeginSearch(s)
  BY <1>2, BeginInv
<1>3. CASE SkipStale
  BY <1>3, SkipInv
<1>4. CASE Expand
  BY <1>4, ExpandInv
<1>5. CASE ReachGoal
  BY <1>5, ReachGoalInv
<1>6. CASE ExhaustOpen
  BY <1>6, ExhaustInv
<1>7. CASE FollowParent
  BY <1>7, FollowInv
<1>8. CASE ReturnPath
  BY <1>8, ReturnInv
<1>9. CASE UNCHANGED vars
  BY <1>9, StutterInv
<1> QED
  BY <1>1, <1>2, <1>3, <1>4, <1>5, <1>6, <1>7, <1>8, <1>9 DEF Next, Work

\* Types of the workspace and of the result.
THEOREM TypeCorrect == Spec => []TypeOK
<1>1. Init => TypeOK /\ SearchInv
  BY InitInv
<1>2. TypeOK /\ SearchInv /\ [Next]_vars => (TypeOK /\ SearchInv)'
  BY NextInv
<1> QED
  BY <1>1, <1>2, PTL DEF Spec

\* Whatever an earlier search left in the workspace, and however large the
\* grid, a search keeps its parents a tree, its frontier in the heap, its
\* cells closed in order and the edges behind them relaxed.
THEOREM WorkspaceInvariant == Spec => []WorkspaceInv
<1>1. Init => TypeOK /\ SearchInv
  BY InitInv
<1>2. TypeOK /\ SearchInv /\ [Next]_vars => (TypeOK /\ SearchInv)'
  BY NextInv
<1>3. TypeOK /\ SearchInv => WorkspaceInv
  BY DEF WorkspaceInv
<1> QED
  BY <1>1, <1>2, <1>3, PTL DEF Spec

-----------------------------------------------------------------------------
(* Routes and answers.  A potential that no edge raises by more than its     *)
(* cost bounds every route from below; a search ends with such a potential.  *)

LEMMA RouteShape ==
  ASSUME NEW s, NEW r \in Routes(s)
  PROVE  /\ Steps(r) \in Nat
         /\ r \in [0..Steps(r) -> Cells]
         /\ r[0] = s.start /\ r[Steps(r)] = s.goal
         /\ \A i \in 1..Steps(r) : Adjacent(r[i-1], r[i])
         /\ \A i \in 0..Steps(r) : ~Blocked(s, r[i])
<1>1. PICK k \in 0..RouteLength :
        r \in [0..k -> Cells] /\ \A i \in 1..k : Adjacent(r[i-1], r[i])
  BY DEF Routes, Walks
<1>2. Steps(r) \in 0..RouteLength /\ DOMAIN r = 0..Steps(r)
  BY <1>1 DEF Steps
<1>3. Steps(r) \in Nat
  BY <1>2, RouteLengthAssumption
<1>4. 0..k = 0..Steps(r) /\ k \in Nat
  BY <1>1, <1>2, RouteLengthAssumption
<1>5. k = Steps(r)
  <2>1. k \in 0..Steps(r) /\ Steps(r) \in 0..k
    BY <1>3, <1>4
  <2> QED
    BY <2>1, <1>3, <1>4
<1> QED
  BY <1>1, <1>3, <1>5 DEF Routes

\* The running sum of a route's costs.
LEMMA PaidExists ==
  ASSUME NEW s \in Search, NEW k \in Nat, NEW r \in [0..k -> Cells]
  PROVE  \E f : f = [i \in 0..k |-> IF i = 0 THEN 0 ELSE f[i-1] + s.costs[r[i]]]
<1> DEFINE Sum(f, j) == f = [i \in 0..j |-> IF i = 0 THEN 0 ELSE f[i-1] + s.costs[r[i]]]
           Bad == {j \in Nat : ~ \E f : Sum(f, j)}
<1>1. SUFFICES ASSUME Bad # {} PROVE FALSE
  <2>1. Bad = {} => \E f : Sum(f, k)
    OBVIOUS
  <2> QED
    BY <2>1
<1>2. PICK j \in Bad : \A i \in Bad : j <= i
  <2>1. Bad \subseteq Nat
    OBVIOUS
  <2> HIDE DEF Bad
  <2> QED
    BY <2>1, <1>1, LeastNatural
<1>3. j \in Nat /\ ~ \E f : Sum(f, j)
  OBVIOUS
<1>4. CASE j = 0
  <2>1. Sum([i \in 0..0 |-> 0], 0)
    OBVIOUS
  <2> QED
    BY <2>1, <1>3, <1>4
<1>5. CASE j # 0
  <2>1. j - 1 \in Nat /\ j - 1 \notin Bad
    <3>1. j - 1 \in Nat /\ ~(j <= j - 1)
      BY <1>3, <1>5
    <3> HIDE DEF Bad
    <3> QED
      BY <3>1, <1>2
  <2>2. PICK f : Sum(f, j - 1)
    BY <2>1
  <2> DEFINE h == [i \in 0..j |-> IF i = j THEN f[j-1] + s.costs[r[j]] ELSE f[i]]
  <2>3. Sum(h, j)
    <3>1. \A i \in 0 .. j-1 : f[i] = IF i = 0 THEN 0 ELSE f[i-1] + s.costs[r[i]]
      BY <2>2
    <3>2. \A i \in 0..j : h[i] = IF i = 0 THEN 0 ELSE h[i-1] + s.costs[r[i]]
      <4> TAKE i \in 0..j
      <4>1. CASE i = j
        BY <4>1, <1>3, <1>5
      <4>2. CASE i # j
        <5>1. i \in 0 .. j-1 /\ h[i] = f[i]
          BY <4>2, <1>3
        <5>2. i # 0 => i - 1 \in 0..j /\ i - 1 # j /\ h[i-1] = f[i-1]
          BY <4>2, <1>3
        <5> QED
          BY <5>1, <5>2, <3>1
      <4> QED
        BY <4>1, <4>2
    <3>3. h = [i \in 0..j |-> h[i]]
      OBVIOUS
    <3> HIDE DEF h
    <3> QED
      BY <3>2, <3>3
  <2> QED
    BY <2>3, <1>3
<1> QED
  BY <1>4, <1>5

LEMMA RouteCostIsASum ==
  ASSUME NEW s \in Search, NEW r \in Routes(s)
  PROVE  \E f : /\ f = [i \in 0..Steps(r) |-> IF i = 0 THEN 0 ELSE f[i-1] + s.costs[r[i]]]
                /\ RouteCost(s, r) = f[Steps(r)]
<1> DEFINE paid == CHOOSE f : f = [i \in 0..Steps(r) |->
                                     IF i = 0 THEN 0 ELSE f[i-1] + s.costs[r[i]]]
<1>1. paid = [i \in 0..Steps(r) |-> IF i = 0 THEN 0 ELSE paid[i-1] + s.costs[r[i]]]
  BY RouteShape, PaidExists
<1>2. RouteCost(s, r) = paid[Steps(r)]
  BY DEF RouteCost
<1> QED
  BY <1>1, <1>2

LEMMA PotentialBoundsRoutes ==
  ASSUME NEW s \in Search, ValidTraversalGrid(s),
         NEW q \in [Cells -> Int],
         \A m, n \in Cells : Adjacent(m, n) /\ ~Blocked(s, m) /\ ~Blocked(s, n)
                              => q[n] <= q[m] + s.costs[n],
         NEW r \in Routes(s)
  PROVE  RouteCost(s, r) \in Int /\ q[s.goal] - q[s.start] <= RouteCost(s, r)
<1> DEFINE k == Steps(r)
<1>1. PICK f : /\ f = [i \in 0..k |-> IF i = 0 THEN 0 ELSE f[i-1] + s.costs[r[i]]]
               /\ RouteCost(s, r) = f[k]
  BY RouteCostIsASum
<1>2. /\ k \in Nat /\ r \in [0..k -> Cells] /\ r[0] = s.start /\ r[k] = s.goal
      /\ \A i \in 1..k : Adjacent(r[i-1], r[i])
      /\ \A i \in 0..k : ~Blocked(s, r[i])
  BY RouteShape
<1> HIDE DEF k
<1>3. \A i \in 0..k : s.costs[r[i]] \in Int /\ q[r[i]] \in Int
  BY <1>2, MaxCostAssumption DEF Search, Infinity
<1>4. f[0] = 0 /\ \A i \in 1..k : f[i] = f[i-1] + s.costs[r[i]]
  BY <1>1, <1>2
<1> DEFINE Good(i) == f[i] \in Int /\ q[r[i]] - q[r[0]] <= f[i]
           Bad == {i \in 0..k : ~Good(i)}
<1>5. ASSUME Bad # {} PROVE FALSE
  <2>1. PICK j \in Bad : \A i \in Bad : j <= i
    <3>1. Bad \subseteq Nat
      BY <1>2
    <3> HIDE DEF Bad
    <3> QED
      BY <3>1, <1>5, LeastNatural
  <2>2. j \in 0..k /\ ~Good(j)
    BY <2>1
  <2>3. j # 0
    BY <2>2, <1>2, <1>3, <1>4
  <2>4. j \in 1..k /\ j - 1 \in 0..k /\ ~(j <= j - 1)
    BY <2>2, <2>3, <1>2
  <2>5. Good(j - 1)
    <3>1. j - 1 \notin Bad
      <4> HIDE DEF Bad
      <4> QED
        BY <2>1, <2>4
    <3> QED
      BY <3>1, <2>4
  <2>6. q[r[j]] <= q[r[j-1]] + s.costs[r[j]]
    BY <2>4, <2>2, <1>2
  <2>7. f[j] = f[j-1] + s.costs[r[j]]
    BY <2>4, <1>4
  <2> QED
    <3>1. /\ q[r[j]] \in Int /\ q[r[j-1]] \in Int /\ q[r[0]] \in Int /\ s.costs[r[j]] \in Int
      BY <2>2, <2>4, <1>2, <1>3
    <3>2. f[j-1] \in Int /\ q[r[j-1]] - q[r[0]] <= f[j-1]
      BY <2>5
    <3>3. f[j] \in Int /\ q[r[j]] - q[r[0]] <= f[j]
      <4> HIDE DEF Good, Bad
      <4> QED
        BY <3>1, <3>2, <2>6, <2>7
    <3> QED
      BY <3>3, <2>2
<1>6. Good(k)
  BY <1>5, <1>2
<1> QED
  BY <1>6, <1>1, <1>2

\* With the goal closed, the potential of an expanded cell is its g, and of
\* any other the goal's g less the estimate of what is left.
LEMMA ClosedGoalIsCheapest ==
  ASSUME TypeOK, SearchInv, phase = "trace", NEW r \in Routes(request)
  PROVE  g[request.goal] <= RouteCost(request, r)
<1> DEFINE total == g[request.goal]
           h(n) == Heuristic(request, n)
           q == [n \in Cells |-> IF n \in ExpandedCells THEN g[n] ELSE total - h(n)]
<1>1. Searching /\ request.goal \in closed
  BY DEF Searching, SearchInv, ClosedInOrder
<1>2. /\ request \in Search /\ request.start \in Cells /\ request.goal \in Cells
      /\ \A n \in Cells : request.costs[n] \in 1..Infinity
      /\ \A n \in Cells : h(n) \in Nat
      /\ h(request.goal) = 0
      /\ Infinity \in Nat /\ Infinity = MaxCost + 1 /\ MaxCost \in Nat
  BY <1>1, SearchableRequest DEF SearchInv
<1>3. \A n \in Cells : g[n] \in 0..Infinity
  BY DEF TypeOK
<1>4. total \in 0..MaxCost
  BY <1>1, <1>2, <1>3 DEF SearchInv, ParentsFormATree, Reached
<1>5. \A n \in Cells : q[n] \in Int
  <2> TAKE n \in Cells
  <2>1. g[n] \in Int /\ total - h(n) \in Int
    BY <1>2, <1>3, <1>4
  <2> HIDE DEF total, h
  <2> QED
    BY <2>1
<1>6. /\ \A n \in closed : n \in Cells /\ Reached(n) /\ F(n) <= total
      /\ \A n \in Cells \ closed : Reached(n) => total <= F(n)
  <2>1. F(request.goal) = total
    BY <1>2, <1>3 DEF F
  <2> QED
    BY <2>1, <1>1 DEF SearchInv, ParentsFormATree, ClosedInOrder, TypeOK
<1>7. ASSUME NEW m \in Cells, NEW n \in Cells, Adjacent(m, n), ~Blocked(request, n)
      PROVE  q[n] <= q[m] + request.costs[n]
  <2>1. /\ g[m] \in 0..Infinity /\ g[n] \in 0..Infinity /\ h(m) \in Nat /\ h(n) \in Nat
        /\ request.costs[n] \in 1..Infinity
    BY <1>2, <1>3
  <2>2. h(m) <= h(n) + 1 /\ h(n) <= h(m) + 1
    BY <1>2, <1>7, HeuristicIsConsistent
  <2>3. m \in ExpandedCells => \/ g[n] <= g[m] + request.costs[n]
                               \/ g[m] + request.costs[n] > MaxCost
    BY <1>1, <1>7 DEF SearchInv, EdgesAreRelaxed
  <2>4. n \in ExpandedCells => g[n] + h(n) <= total /\ g[n] <= MaxCost
    BY <1>6 DEF ExpandedCells, F, Reached
  <2>5. n \notin ExpandedCells /\ g[n] <= MaxCost => total <= g[n] + h(n)
    BY <1>6, <1>2, <1>4, <2>1 DEF ExpandedCells, F, Reached
  <2>6. /\ q[m] = IF m \in ExpandedCells THEN g[m] ELSE total - h(m)
        /\ q[n] = IF n \in ExpandedCells THEN g[n] ELSE total - h(n)
    OBVIOUS
  <2> HIDE DEF q, h, total
  <2>7. CASE m \in ExpandedCells /\ n \in ExpandedCells
    BY <2>7, <2>1, <2>3, <2>4, <2>6, <1>2
  <2>8. CASE m \in ExpandedCells /\ n \notin ExpandedCells
    BY <2>8, <2>1, <2>3, <2>5, <2>6, <1>2, <1>4
  <2>9. CASE m \notin ExpandedCells /\ n \in ExpandedCells
    BY <2>9, <2>1, <2>2, <2>4, <2>6, <1>2, <1>4
  <2>10. CASE m \notin ExpandedCells /\ n \notin ExpandedCells
    BY <2>10, <2>1, <2>2, <2>6, <1>2, <1>4
  <2> QED
    BY <2>7, <2>8, <2>9, <2>10
<1>8. q[request.goal] = total
  BY <1>2, <1>4 DEF ExpandedCells
<1>9. q[request.start] <= 0
  <2>1. g[request.start] = 0 /\ Reached(request.start) /\ F(request.start) = h(request.start)
    BY <1>1, <1>2 DEF SearchInv, ParentsFormATree, Reached, F
  <2>2. CASE request.start \in ExpandedCells
    BY <2>1, <2>2, <1>2
  <2>3. CASE request.start \notin closed
    <3>1. total <= h(request.start) /\ request.start \notin ExpandedCells
      BY <2>1, <2>3, <1>2, <1>6 DEF ExpandedCells
    <3>2. q[request.start] = total - h(request.start)
      BY <3>1, <1>2
    <3> HIDE DEF q, total, h
    <3> QED
      BY <3>1, <3>2, <1>2, <1>4
  <2>4. CASE request.start = request.goal
    BY <2>1, <2>4, <1>8
  <2> QED
    BY <2>2, <2>3, <2>4 DEF ExpandedCells
<1>10. q \in [Cells -> Int]
  BY <1>5
<1> HIDE DEF q, total
<1>11. /\ RouteCost(request, r) \in Int
       /\ q[request.goal] - q[request.start] <= RouteCost(request, r)
  BY <1>1, <1>2, <1>7, <1>10, PotentialBoundsRoutes DEF SearchInv, RequestIsSearchable
<1>12. q[request.start] \in Int /\ q[request.goal] \in Int
  BY <1>2, <1>10
<1> QED
  BY <1>4, <1>8, <1>9, <1>11, <1>12 DEF total

\* With the heap empty, g itself is a potential, and it is infinite at the goal.
LEMMA EmptyHeapMeansNoRoute ==
  ASSUME TypeOK, SearchInv, phase = "search", open = {}, NEW r \in Routes(request)
  PROVE  RouteCost(request, r) > MaxCost
<1>1. Searching /\ request.goal \notin closed /\ g[request.start] = 0
  BY DEF Searching, SearchInv, ClosedInOrder, ParentsFormATree
<1>2. /\ request \in Search /\ request.start \in Cells /\ request.goal \in Cells
      /\ \A n \in Cells : request.costs[n] \in 1..Infinity
      /\ Infinity \in Nat /\ Infinity = MaxCost + 1 /\ MaxCost \in Nat
  BY <1>1, SearchableRequest DEF SearchInv
<1>3. g \in [Cells -> Int] /\ \A n \in Cells : g[n] \in 0..Infinity
  BY <1>2 DEF TypeOK
<1>4. \A n \in Cells : Reached(n) => n \in ExpandedCells
  BY <1>1 DEF SearchInv, FrontierIsQueued, ExpandedCells
<1>5. ASSUME NEW m \in Cells, NEW n \in Cells, Adjacent(m, n), ~Blocked(request, n)
      PROVE  g[n] <= g[m] + request.costs[n]
  <2>1. Reached(m) => \/ g[n] <= g[m] + request.costs[n]
                      \/ g[m] + request.costs[n] > MaxCost
    BY <1>1, <1>4, <1>5 DEF SearchInv, EdgesAreRelaxed
  <2> QED
    BY <2>1, <1>2, <1>3 DEF Reached
<1>6. g[request.goal] = Infinity
  BY <1>1, <1>2, <1>3, <1>4 DEF Reached, ExpandedCells
<1>7. /\ RouteCost(request, r) \in Int
      /\ g[request.goal] - g[request.start] <= RouteCost(request, r)
  BY <1>1, <1>2, <1>3, <1>5, PotentialBoundsRoutes DEF SearchInv, RequestIsSearchable
<1> QED
  BY <1>1, <1>2, <1>6, <1>7

\* The answer of a search is the cheapest route's cost: no route between the
\* endpoints is cheaper than the total returned, and none has a finite cost
\* when "NoPath" is returned.
THEOREM SearchIsOptimal == Spec => []CheapestRoute
<1>1. Init => CheapestRoute
  BY DEF Init, CheapestRoute, NoResult, Failed
<1>2. ASSUME TypeOK, SearchInv, CheapestRoute, [Next]_vars
      PROVE  CheapestRoute'
  <2>1. CASE \E s \in Searches : RefuseSearch(s)
    BY <2>1 DEF RefuseSearch, CheapestRoute, Failed
  <2>2. CASE \E s \in Searches : BeginSearch(s)
    BY <2>2 DEF BeginSearch, CheapestRoute
  <2>3. CASE SkipStale \/ Expand
    BY <2>3 DEF SkipStale, Expand, CheapestRoute
  <2>4. CASE ReachGoal
    BY <2>4 DEF ReachGoal, CheapestRoute
  <2>5. CASE ExhaustOpen
    <3>1. request' = request /\ result'.status = "NoPath"
      BY <2>5 DEF ExhaustOpen, Failed
    <3>2. \A r \in Routes(request) : RouteCost(request, r) > MaxCost
      BY <2>5, <1>2, EmptyHeapMeansNoRoute DEF ExhaustOpen
    <3> QED
      BY <3>1, <3>2 DEF CheapestRoute
  <2>6. CASE FollowParent
    <3>1. phase' = "trace"
      BY <2>6, <1>2, ParentIsThere DEF FollowParent
    <3> QED
      BY <3>1 DEF CheapestRoute
  <2>7. CASE ReturnPath
    <3>1. request' = request /\ result'.total = g[request.goal] /\ result'.status # "NoPath"
      BY <2>7 DEF ReturnPath, Delivered
    <3>2. \A r \in Routes(request) : g[request.goal] <= RouteCost(request, r)
      BY <2>7, <1>2, ClosedGoalIsCheapest DEF ReturnPath
    <3> QED
      BY <3>1, <3>2 DEF CheapestRoute
  <2>8. CASE UNCHANGED vars
    BY <2>8, <1>2 DEF vars, CheapestRoute
  <2> QED
    BY <1>2, <2>1, <2>2, <2>3, <2>4, <2>5, <2>6, <2>7, <2>8 DEF Next, Work
<1>3. TypeOK /\ SearchInv /\ CheapestRoute /\ [Next]_vars => CheapestRoute'
  BY <1>2
<1>4. WorkspaceInv => TypeOK /\ SearchInv
  BY DEF WorkspaceInv
<1> QED
  BY <1>1, <1>3, <1>4, WorkspaceInvariant, PTL DEF Spec

-----------------------------------------------------------------------------
(* The path returned.                                                        *)

\* The cells walked back so far lead to the goal, each the parent of the next.
TrailInv ==
  phase = "trace" =>
    /\ trail # <<>> /\ trail[Len(trail)] = request.goal
    /\ \A k \in 1..Len(trail) : Reached(trail[k])
    /\ \A k \in 1..Len(trail) - 1 : /\ trail[k+1] # request.start
                                    /\ trail[k] = parent[trail[k+1]]

LEMMA TrailKept ==
  ASSUME TypeOK, SearchInv, TrailInv, [Next]_vars PROVE TrailInv'
<1>1. CASE \E s \in Searches : RefuseSearch(s) \/ BeginSearch(s)
  BY <1>1 DEF RefuseSearch, BeginSearch, TrailInv
<1>2. CASE SkipStale \/ Expand \/ ExhaustOpen \/ ReturnPath
  BY <1>2 DEF SkipStale, Expand, ExhaustOpen, ReturnPath, TrailInv
<1>3. CASE ReachGoal
  <2>1. Reached(request.goal) /\ UNCHANGED <<g, request>> /\ trail' = <<request.goal>>
    BY <1>3, PoppedNode DEF ReachGoal
  <2>2. Len(<<request.goal>>) = 1 /\ <<request.goal>>[1] = request.goal /\ <<request.goal>> # <<>>
    OBVIOUS
  <2>3. QED
    BY <2>1, <2>2 DEF TrailInv, Reached
<1>4. CASE FollowParent
  <2> DEFINE p == parent[Head(trail)]
             L == Len(trail)
  <2>1. p \in Cells /\ p # NoParent /\ Reached(p) /\ phase = "trace" /\ Head(trail) # request.start
    BY <1>4, ParentIsThere DEF FollowParent
  <2>2. trail' = <<p>> \o trail /\ UNCHANGED <<phase, request, g, parent>>
    BY <1>4, <2>1 DEF FollowParent
  <2>3. trail \in Seq(Cells) /\ trail # <<>> /\ L \in Nat /\ L >= 1 /\ Head(trail) = trail[1]
    BY <2>1 DEF TypeOK, TrailInv
  <2>4. /\ Len(<<p>> \o trail) = L + 1 /\ (<<p>> \o trail)[1] = p /\ <<p>> \o trail # <<>>
        /\ \A k \in 1..L : (<<p>> \o trail)[k+1] = trail[k]
    <3> HIDE DEF p
    <3>1. QED
      BY <2>1, <2>3
  <2> HIDE DEF L
  <2>5. trail'[Len(trail')] = request.goal /\ trail' # <<>>
    BY <2>1, <2>2, <2>3, <2>4 DEF TrailInv, L
  <2>6. ASSUME NEW k \in 1..L + 1 PROVE Reached(trail'[k])
    <3>1. CASE k = 1
      BY <2>1, <2>2, <2>4, <3>1
    <3>2. CASE k # 1
      <4>1. k - 1 \in 1..L /\ trail'[k] = trail[k-1]
        BY <2>2, <2>3, <2>4, <3>2
      <4>2. QED
        BY <2>1, <4>1 DEF TrailInv, L
    <3>3. QED
      BY <3>1, <3>2
  <2>7. ASSUME NEW k \in 1..L PROVE trail'[k+1] # request.start /\ trail'[k] = parent[trail'[k+1]]
    <3>1. CASE k = 1
      BY <2>1, <2>2, <2>3, <2>4, <3>1
    <3>2. CASE k # 1
      <4>1. k - 1 \in 1..L-1 /\ trail'[k] = trail[k-1] /\ trail'[k+1] = trail[k]
        BY <2>2, <2>3, <2>4, <3>2
      <4>2. QED
        BY <2>1, <2>3, <4>1 DEF TrailInv, L
    <3>3. QED
      BY <3>1, <3>2
  <2>8. Len(trail') = L + 1
    BY <2>2, <2>4
  <2>9. QED
    BY <2>2, <2>3, <2>5, <2>6, <2>7, <2>8 DEF TrailInv, Reached
<1>5. CASE UNCHANGED vars
  BY <1>5 DEF vars, TrailInv, Reached
<1>6. QED
  BY <1>1, <1>2, <1>3, <1>4, <1>5 DEF Next, Work

\* Along the trail each step enters a passable neighbour and pays its cost.
LEMMA TrailLinks ==
  ASSUME TypeOK, SearchInv, TrailInv, phase = "trace"
  PROVE  /\ Len(trail) \in Nat /\ Len(trail) >= 1
         /\ trail \in [1..Len(trail) -> Cells] /\ trail[Len(trail)] = request.goal
         /\ request \in Search /\ g[request.start] = 0
         /\ \A k \in 1..Len(trail) : g[trail[k]] \in Nat /\ ~Blocked(request, trail[k])
         /\ \A k \in 1..Len(trail) - 1 :
              /\ Adjacent(trail[k], trail[k+1])
              /\ request.costs[trail[k+1]] \in Nat \ {0}
              /\ g[trail[k+1]] = g[trail[k]] + request.costs[trail[k+1]]
<1>1. /\ trail \in Seq(Cells) /\ trail # <<>> /\ Len(trail) \in Nat /\ Len(trail) >= 1
      /\ trail \in [1..Len(trail) -> Cells]
  BY DEF TypeOK, TrailInv
<1>2. Searching
  BY DEF Searching
<1>3. /\ request \in Search /\ ValidTraversalGrid(request) /\ ValidEndpoints(request)
      /\ g[request.start] = 0
  BY <1>2 DEF SearchInv, RequestIsSearchable, ParentsFormATree, TypeOK
<1>4. ASSUME NEW n \in Cells, Reached(n)
      PROVE  /\ g[n] \in Nat /\ ~Blocked(request, n)
             /\ n # request.start => /\ Adjacent(parent[n], n)
                                     /\ g[n] = g[parent[n]] + request.costs[n]
  <2>1. g[n] \in 0..Infinity
    BY DEF TypeOK
  <2>2. g[n] \in Nat
    BY <2>1, MaxCostAssumption DEF Infinity
  <2>3. QED
    BY <1>2, <1>3, <1>4, <2>2 DEF SearchInv, ParentsFormATree, ValidEndpoints
<1>5. \A n \in Cells : request.costs[n] \in Nat \ {0}
  <2>1. \A n \in Cells : request.costs[n] \in 0..Infinity /\ request.costs[n] >= 1
    BY <1>3 DEF Search, ValidTraversalGrid
  <2>2. QED
    BY <2>1, MaxCostAssumption DEF Infinity
<1>6. ASSUME NEW k \in 1..Len(trail) PROVE trail[k] \in Cells /\ Reached(trail[k])
  BY <1>1 DEF TrailInv
<1>7. ASSUME NEW k \in 1..Len(trail) - 1
      PROVE  /\ Adjacent(trail[k], trail[k+1])
             /\ g[trail[k+1]] = g[trail[k]] + request.costs[trail[k+1]]
  <2>1. k + 1 \in 1..Len(trail)
    BY <1>1
  <2>2. trail[k+1] # request.start /\ trail[k] = parent[trail[k+1]]
    BY DEF TrailInv
  <2>3. QED
    BY <1>4, <1>6, <2>1, <2>2
<1>8. ASSUME NEW k \in 1..Len(trail) - 1 PROVE trail[k+1] \in Cells
  <2>1. k + 1 \in 1..Len(trail)
    BY <1>1
  <2>2. QED
    BY <1>6, <2>1
<1>9. trail[Len(trail)] = request.goal
  BY DEF TrailInv
<1>10. QED
  BY <1>1, <1>3, <1>4, <1>5, <1>6, <1>7, <1>8, <1>9

\* No cell is on the trail twice, so the trail is no longer than the grid.
LEMMA TrailIsShort ==
  ASSUME TypeOK, SearchInv, TrailInv, phase = "trace"
  PROVE  Len(trail) <= Width * Height
<1> DEFINE L == Len(trail)
           G(k) == g[trail[k]]
<1>1. L \in Nat /\ L >= 1 /\ trail \in [1..L -> Cells]
  BY TrailLinks
<1>2. /\ \A k \in 1..L : G(k) \in Nat
      /\ \A k \in 1..L-1 : G(k) < G(k+1)
  <2>1. /\ \A k \in 1..L : G(k) \in Nat
        /\ \A k \in 1..L-1 : /\ request.costs[trail[k+1]] \in Nat \ {0}
                             /\ G(k+1) = G(k) + request.costs[trail[k+1]]
    BY TrailLinks
  <2> HIDE DEF G
  <2>2. ASSUME NEW k \in 1..L-1 PROVE G(k) < G(k+1)
    <3>1. k \in 1..L
      BY <1>1
    <3>2. PICK c \in Nat \ {0} : G(k+1) = G(k) + c
      BY <2>1
    <3>3. G(k) \in Nat
      BY <2>1, <3>1
    <3>4. QED
      BY <3>2, <3>3
  <2>3. QED
    BY <2>1, <2>2
<1> HIDE DEF G, L
<1>3. ASSUME NEW i \in 1..L, NEW j \in 1..L, i < j PROVE G(i) < G(j)
  <2> DEFINE Bad == {m \in Nat : m > i /\ m <= L /\ ~(G(i) < G(m))}
  <2>1. SUFFICES ASSUME Bad # {} PROVE FALSE
    BY <1>1, <1>3
  <2>2. PICK m \in Bad : \A b \in Bad : m <= b
    <3>1. Bad \subseteq Nat
      OBVIOUS
    <3> HIDE DEF Bad
    <3>2. QED
      BY <2>1, <3>1, LeastNatural
  <2>3. m - 1 \in 1..L-1 /\ m \in 1..L /\ G(m-1) < G(m) /\ m - 1 + 1 = m
    <3>1. m - 1 \in 1..L-1 /\ m \in 1..L /\ m - 1 + 1 = m
      BY <1>1
    <3>2. G(m-1) < G(m-1+1)
      BY <1>2, <3>1
    <3>3. QED
      BY <3>1, <3>2
  <2>4. m - 1 # i
    BY <2>3
  <2>5. m - 1 \notin Bad
    <3>1. ~(m <= m - 1)
      BY <2>3
    <3> HIDE DEF Bad
    <3>2. QED
      BY <2>2, <3>1
  <2>6. G(i) < G(m-1)
    BY <1>1, <2>3, <2>4, <2>5
  <2>7. G(i) \in Nat /\ G(m-1) \in Nat /\ G(m) \in Nat
    BY <1>1, <1>2, <2>3
  <2>8. QED
    BY <2>3, <2>6, <2>7
<1>4. ASSUME NEW i \in 1..L, NEW j \in 1..L, trail[i] = trail[j] PROVE i = j
  <2>1. G(i) = G(j) /\ G(i) \in Nat
    BY <1>2, <1>4 DEF G
  <2>2. ~(i < j) /\ ~(j < i)
    BY <1>3, <2>1
  <2>3. QED
    BY <1>1, <2>2
<1>5. trail \in Injection(1..L, Cells)
  BY <1>1, <1>4 DEF Injection, IsInjective
<1>6. IsFiniteSet(Cells) /\ Cardinality(Cells) = Width * Height
  <2>1. Width * Height \in Nat /\ Width * Height > 0
    BY DimensionsAssumption
  <2> DEFINE N == Width * Height
  <2> HIDE DEF N
  <2>2. IsFiniteSet(0..N-1) /\ Cardinality(0..N-1) = N
    <3>1. N \in Nat /\ N > 0 /\ N - 1 \in Int /\ ~(0 > N - 1) /\ N - 1 - 0 + 1 = N
      BY <2>1 DEF N
    <3>2. Cardinality(0..N-1) = N - 1 - 0 + 1 /\ IsFiniteSet(0..N-1)
      BY <3>1, FS_Interval
    <3>3. QED
      BY <3>1, <3>2
  <2>3. QED
    BY <2>2 DEF Cells, N
<1>7. Cardinality(1..L) = L
  BY <1>1, FS_Interval
<1>8. Cardinality(1..L) <= Cardinality(Cells)
  BY <1>5, <1>6, FS_Injection
<1>9. QED
  BY <1>6, <1>7, <1>8 DEF L

\* The trail that has come back to the start is a route and costs what was
\* found for the goal.
LEMMA TrailIsARoute ==
  ASSUME RouteLength >= Width * Height - 1,
         TypeOK, SearchInv, TrailInv, phase = "trace", Head(trail) = request.start
  PROVE  LET r == [i \in 0 .. Len(trail) - 1 |-> trail[i+1]]
         IN  /\ r \in Routes(request) /\ g[request.goal] = RouteCost(request, r)
             /\ Steps(r) = Len(trail) - 1
             /\ trail = [i \in 1 .. Steps(r) + 1 |-> r[i - 1]]
<1> DEFINE n == Len(trail) - 1
           r == [i \in 0..n |-> trail[i+1]]
<1>1. /\ n \in Nat /\ n = Len(trail) - 1 /\ Len(trail) = n + 1
      /\ trail \in [1..n+1 -> Cells] /\ trail[n+1] = request.goal
      /\ request \in Search /\ g[request.start] = 0
      /\ \A k \in 1..n+1 : g[trail[k]] \in Nat /\ ~Blocked(request, trail[k])
      /\ \A k \in 1..n : /\ Adjacent(trail[k], trail[k+1])
                         /\ request.costs[trail[k+1]] \in Nat \ {0}
                         /\ g[trail[k+1]] = g[trail[k]] + request.costs[trail[k+1]]
  BY TrailLinks
<1>2. trail[1] = request.start
  BY TrailLinks DEF TrailInv, TypeOK
<1>3. n \in 0..RouteLength
  <2>1. Len(trail) <= Width * Height /\ Width * Height \in Nat
    BY TrailIsShort, DimensionsAssumption
  <2>2. QED
    BY <1>1, <2>1, RouteLengthAssumption
<1> HIDE DEF n
<1>4. \A i \in 0..n : i + 1 \in 1..n+1 /\ r[i] = trail[i+1] /\ r[i] \in Cells
  BY <1>1
<1>5. r \in [0..n -> Cells]
  BY <1>4
<1>6. r[0] = request.start /\ r[n] = request.goal
  BY <1>1, <1>2, <1>4
<1>7. ASSUME NEW i \in 1..n
      PROVE  /\ Adjacent(r[i-1], r[i])
             /\ g[r[i]] = g[r[i-1]] + request.costs[r[i]]
  <2>1. /\ i - 1 \in 0..n /\ i \in 0..n /\ i - 1 + 1 = i
    BY <1>1
  <2>2. r[i-1] = trail[i] /\ r[i] = trail[i+1]
    BY <1>4, <2>1
  <2>3. QED
    BY <1>1, <2>2
<1>8. \A i \in 0..n : ~Blocked(request, r[i])
  BY <1>1, <1>4
<1>9. DOMAIN r = 0..n
  BY <1>5
<1> HIDE DEF r
<1>10. Steps(r) = n
  <2>1. Steps(r) \in 0..RouteLength /\ 0..n = 0..Steps(r)
    BY <1>3, <1>9 DEF Steps
  <2>2. n \in 0..Steps(r) /\ Steps(r) \in 0..n /\ Steps(r) \in Int
    BY <1>1, <2>1, RouteLengthAssumption
  <2>3. QED
    BY <1>1, <2>2
<1>11. r \in Routes(request)
  <2>1. r \in Walks
    BY <1>3, <1>5, <1>7 DEF Walks
  <2>2. QED
    BY <1>6, <1>8, <1>10, <2>1 DEF Routes
<1>12. PICK f : /\ f = [i \in 0..n |-> IF i = 0 THEN 0 ELSE f[i-1] + request.costs[r[i]]]
                /\ RouteCost(request, r) = f[n]
  BY <1>1, <1>10, <1>11, RouteCostIsASum
<1>13. f[n] = g[r[n]]
  <2> DEFINE Bad == {m \in Nat : m <= n /\ f[m] # g[r[m]]}
  <2>1. SUFFICES ASSUME Bad # {} PROVE FALSE
    BY <1>1
  <2>2. PICK m \in Bad : \A b \in Bad : m <= b
    <3>1. Bad \subseteq Nat
      OBVIOUS
    <3> HIDE DEF Bad
    <3>2. QED
      BY <2>1, <3>1, LeastNatural
  <2>3. m \in 0..n /\ f[m] = IF m = 0 THEN 0 ELSE f[m-1] + request.costs[r[m]]
    BY <1>1, <1>12
  <2>4. CASE m = 0
    BY <1>1, <1>6, <2>3, <2>4
  <2>5. CASE m # 0
    <3>1. m \in 1..n /\ m - 1 \in Nat /\ m - 1 <= n /\ ~(m <= m - 1)
      BY <1>1, <2>3, <2>5
    <3>2. m - 1 \notin Bad
      <4> HIDE DEF Bad
      <4>1. QED
        BY <2>2, <3>1
    <3>3. f[m-1] = g[r[m-1]]
      BY <3>1, <3>2
    <3>4. f[m] = g[r[m]]
      BY <1>7, <2>3, <2>5, <3>1, <3>3
    <3>5. QED
      BY <3>4
  <2>6. QED
    BY <2>4, <2>5
<1>14. g[request.goal] = RouteCost(request, r)
  BY <1>6, <1>12, <1>13
<1>15. trail = [i \in 1 .. n + 1 |-> r[i - 1]]
  <2>1. \A i \in 1 .. n + 1 : r[i - 1] = trail[i]
    <3>1. \A i \in 1 .. n + 1 : i - 1 \in 0 .. n /\ i - 1 + 1 = i
      BY <1>1
    <3> QED
      BY <1>4, <3>1
  <2>2. trail = [i \in 1 .. n + 1 |-> trail[i]]
    BY <1>1
  <2> QED
    BY <2>1, <2>2
<1>16. QED
  <2>1. Steps(r) = Len(trail) - 1 /\ trail = [i \in 1 .. Steps(r) + 1 |-> r[i - 1]]
    BY <1>1, <1>10, <1>15
  <2> QED
    BY <1>11, <1>14, <2>1 DEF r, n

\* A path is returned only when it fits, and is then a route whose cost is the
\* total; when it does not fit its length is reported and nothing is written.
\* On every grid; the routes compared with must be able to be as long as a path
\* that visits every cell.
THEOREM PathReturnedIsARoute ==
  ASSUME RouteLength >= Width * Height - 1 PROVE Spec => []PathIsARoute
<1>1. Init => PathIsARoute /\ TrailInv
  BY DEF Init, PathIsARoute, TrailInv, NoResult, Failed
<1>2. ASSUME TypeOK, SearchInv, TrailInv, PathIsARoute, [Next]_vars PROVE PathIsARoute'
  <2>1. CASE \E s \in Searches : RefuseSearch(s)
    <3>1. result'.status \notin {"Ok", "OutputTooSmall"}
      BY <2>1 DEF RefuseSearch, Failed
    <3>2. QED
      BY <3>1 DEF PathIsARoute
  <2>2. CASE (\E s \in Searches : BeginSearch(s)) \/ SkipStale \/ Expand \/ ReachGoal
    <3>1. phase' # "idle"
      BY <2>2 DEF BeginSearch, SkipStale, Expand, ReachGoal
    <3>2. QED
      BY <3>1 DEF PathIsARoute
  <2>3. CASE ExhaustOpen
    <3>1. result'.status \notin {"Ok", "OutputTooSmall"}
      BY <2>3 DEF ExhaustOpen, Failed
    <3>2. QED
      BY <3>1 DEF PathIsARoute
  <2>4. CASE FollowParent
    <3>1. phase' = "trace"
      BY <2>4, <1>2, ParentIsThere DEF FollowParent
    <3>2. QED
      BY <3>1 DEF PathIsARoute
  <2>5. CASE ReturnPath
    <3> DEFINE r == [i \in 0 .. Len(trail) - 1 |-> trail[i+1]]
    <3>1. /\ r \in Routes(request) /\ g[request.goal] = RouteCost(request, r)
          /\ Steps(r) = Len(trail) - 1 /\ trail = [i \in 1 .. Steps(r) + 1 |-> r[i - 1]]
      BY <2>5, <1>2, TrailIsARoute DEF ReturnPath
    <3>2. result' = Delivered(trail, g[request.goal], expanded, request.capacity) /\ request' = request
      BY <2>5 DEF ReturnPath
    <3>3. Len(trail) \in Nat /\ request.capacity \in Nat
      BY <2>5, <1>2, TrailLinks DEF ReturnPath, Search
    <3> HIDE DEF r
    <3>4. /\ result'.required = Steps(r) + 1 /\ result'.total = RouteCost(request, r)
          /\ result'.status = "Ok" => result'.path = trail
      BY <3>1, <3>2, <3>3 DEF Delivered
    <3>5. IF result'.status = "Ok"
          THEN result'.written = result'.required /\ result'.required <= request.capacity
          ELSE /\ result'.written = 0 /\ result'.path = <<>>
               /\ result'.required > request.capacity
      BY <3>2, <3>3 DEF Delivered
    <3>6. \E route \in Routes(request') :
            /\ result'.required = Steps(route) + 1
            /\ result'.total = RouteCost(request', route)
            /\ result'.status = "Ok" =>
                 result'.path = [i \in 1 .. Steps(route) + 1 |-> route[i - 1]]
      BY <3>1, <3>2, <3>4
    <3>7. QED
      BY <3>2, <3>5, <3>6 DEF PathIsARoute
  <2>6. CASE UNCHANGED vars
    BY <2>6, <1>2 DEF vars, PathIsARoute
  <2> QED
    BY <1>2, <2>1, <2>2, <2>3, <2>4, <2>5, <2>6 DEF Next, Work
<1>3. TypeOK /\ SearchInv /\ TrailInv /\ PathIsARoute /\ [Next]_vars => PathIsARoute' /\ TrailInv'
  BY <1>2, TrailKept
<1>4. WorkspaceInv => TypeOK /\ SearchInv
  BY DEF WorkspaceInv
<1> QED
  BY <1>1, <1>3, <1>4, WorkspaceInvariant, PTL DEF Spec
=============================================================================
