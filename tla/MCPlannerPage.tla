---------------------------- MODULE MCPlannerPage ----------------------------
(***************************************************************************)
(* PlannerPage with two regions side by side.  The second build of the     *)
(* western one is wider and touches the eastern one, so the two cannot be  *)
(* served together; a disk that still has the first build can.             *)
(***************************************************************************)
EXTENDS PlannerPage

CONSTANTS west, east

Bbox(w, e) == [west |-> w, south |-> 0, east |-> e, north |-> 2]
Pack(r, build, w, e) == [region |-> r, build |-> build, format |-> 1, bbox |-> Bbox(w, e)]

West0 == Pack(west, 0, 0, 1)
West1 == Pack(west, 1, 0, 2)
West2 == Pack(west, 2, 0, 3)
East1 == Pack(east, 1, 3, 5)
Toy   == [region |-> east, build |-> 0, format |-> 1, bbox |-> NULL]

(* No lock pins the oldest build any more; the bucket may still have it. *)
MCPacks == {West0, West1, West2, East1}

Sha(w, e) == [r \in {west, east} |-> IF r = west THEN w ELSE e]
Lock(sha) == [baseUrl |-> TRUE, format |-> 1, sha |-> sha]
Zones     == [r \in {west, east} |-> TRUE]

Config(regions, lock) ==
  [srRegions |-> regions, apiRegions |-> <<west, east>>, active |-> west,
   zones |-> Zones, pinned |-> NULL, lock |-> lock]

First  == Config(<<>>, Lock(Sha(West1, East1)))
Second == Config(<<west>>, Lock(Sha(West2, East1)))
Both   == Config(<<>>, Lock(Sha(West2, East1)))
Pinned == [Config(<<>>, NULL) EXCEPT !.pinned = Toy]

MCConfigs == {First, Second, Both, Pinned}

Empty == [r \in Regions |-> NULL]
MCAtFirst == {<<First, Empty>>, <<First, [Empty EXCEPT ![east] = Half]>>, <<Pinned, Empty>>}

(* On the western edge that touches, inside the east, and outside of both. *)
OnEdge  == [lat |-> 1, lon |-> 2]
Outside == [lat |-> 9, lon |-> 9]
MCPoints == {OnEdge, [lat |-> 1, lon |-> 4], Outside}
MCPositions == {OnEdge, Outside}
=============================================================================
