------------------------- MODULE MCConsumerSession -------------------------
(* Libraries one release apart in each respect, a table of two slots,      *)
(* batch calls on eight floats through every edge, choices among three     *)
(* units or sites, and battles of up to two units a side.                  *)
EXTENDS ConsumerSession

MCTypeIds == {0, 1, 2}

Library(major, minor, abi, build, capabilities) ==
  [major |-> major, minor |-> minor, abi |-> abi, build |-> build, data |-> "d1",
   capabilities |-> capabilities]

MCLibraries ==
  {Library(1, 0, 1, "b1", {"baseline"}), Library(1, 1, 1, "b1", {"baseline", "gate"}),
   Library(1, 2, 1, "b1", {"baseline", "gate", "batch"}), Library(2, 0, 1, "b1", {"baseline", "gate"}),
   Library(1, 1, 2, "b1", {"baseline", "gate"}), Library(1, 1, 1, "b2", {"baseline", "gate"})}

Wants(minor, build, data, capabilities) ==
  [major |-> 1, minor |-> minor, abi |-> 1, build |-> build, data |-> data,
   capabilities |-> capabilities]

MCRequirements ==
  {Wants(1, "b1", "d1", {"baseline", "gate"}), Wants(1, Empty, Null, {"gate", "batch"}),
   Wants(0, Null, "d2", {})}

\* Points (1,2), (0,1), (2,2) from address 0, (1,2), (2,0) from address 2, ...
MCPackings == {[a \in Addresses |-> <<1, 2, 0, 1, 2, 2, 1, 0>>[a + 1]]}

Ask(edge, kernel, xy, count, out, room, radius, missing) ==
  [edge |-> edge, kernel |-> kernel, xy |-> xy, count |-> count, out |-> out, room |-> room,
   radius |-> radius, missing |-> missing]

MCRequests ==
  {Ask(edge, "distance", 1, 4, out, 2, 0, {}) : edge \in Edges, out \in 0..6}
    \union {Ask(edge, "distance", 0, count, 5, room, 0, {}) :
              edge \in Edges, count \in {0, 3, 4, 6}, room \in {0, 1, 3}}
    \union {Ask(edge, "mask", 0, 6, 2, 4, radius, {}) : edge \in Edges, radius \in {-1, 1, 2, NaN}}
    \union {Ask("C", "distance", 0, 4, 4, 2, 0, {arg}) : arg \in {"xy", "output", "written"}}
    \union {Ask(edge, "mask", 0, 0, 0, 0, 1, {arg}) :
              edge \in {"C", "Node", "Java", "Python"}, arg \in {"xy", "output"}}
    \union {Ask("Java", "mask", 0, count, 0, room, 1, {}) : count \in {-2, 2}, room \in {-1, 1}}

Soldier(flags, health, x, radius) ==
  [flags |-> flags, type |-> 7, health |-> health, x |-> x, y |-> 0, radius |-> radius]

MCRoster == <<Soldier({"alive", "visible"}, 5, 1, 1), Soldier({"alive"}, 3, 2, 0),
              Soldier({"alive", "visible"}, 5, 5, 1), [Soldier({"alive"}, 5, 3, 0) EXCEPT !.type = 9]>>

MCFilters == {[required |-> {"alive"}, excluded |-> {}, type |-> 7, health |-> 3],
              [required |-> {"alive"}, excluded |-> {"visible"}, type |-> AnyType, health |-> 4],
              [required |-> {"flying"}, excluded |-> {}, type |-> AnyType, health |-> 0]}

MCScores == <<1, 2, 2, NotFinite>>

MCPolicies == [goal : {"Maximize", "Minimize"}, tie : {"First", "Last"}]

Targets ==
  {[kind |-> "target", candidates |-> MCRoster, filter |-> filter, room |-> room,
    scores |-> MCScores, policy |-> policy, mask |-> mask,
    source |-> [x |-> 0, y |-> 0, radius |-> 1], range |-> 2] :
     filter \in MCFilters, room \in {1, 4}, policy \in MCPolicies,
     mask \in {"none", "filtered", "all"}}

\* 3 x 2 cells in rows of 4, one not buildable; the padding looks buildable.
MCGrid == [width |-> 3, height |-> 2, stride |-> 4, values |-> <<1, 1, 1, 1, 0, 1, 1, 1>>]

Footprint(width, values) == [width |-> width, height |-> 2, stride |-> 2, values |-> values]

\* One row more than the grid has.
Tower == [width |-> 1, height |-> 3, stride |-> 1, values |-> <<1, 1, 1>>]

MCAnchors == <<[x |-> 0, y |-> 0], [x |-> 1, y |-> 0], [x |-> 2, y |-> 0], [x |-> 1, y |-> 1]>>

Sites ==
  {[kind |-> "site", candidates |-> MCAnchors, grid |-> grid, footprint |-> footprint,
    room |-> 1, scores |-> MCScores, policy |-> policy, mask |-> "none"] :
     grid \in {MCGrid, [MCGrid EXCEPT !.height = 3]},
     footprint \in {Footprint(2, <<1, 1, 0, 1>>), Footprint(1, <<1, 0, 0, 0>>), Footprint(3, <<1, 1, 1, 1>>), Tower},
     policy \in {[goal |-> "Maximize", tie |-> tie] : tie \in {"First", "Last"}}}

MCQuestions == Targets \union Sites

MCCombatants == [health : {0, 1, 3}, dps : {0, 2}]

Groups == {<<>>} \union {<<c>> : c \in MCCombatants}
            \union {<<[health |-> 1, dps |-> 1], [health |-> h, dps |-> 0]>> :
                      h \in {0, 2, -1, NotFinite}}

MCBattles == Groups \X Groups
=============================================================================
