--------------------------- MODULE JunctionControl ---------------------------
(***************************************************************************)
(* The control that governs each approach of each junction, as ingestion   *)
(* reads it from OpenStreetMap: the walk of ingestion/approach_controls.py *)
(* out along every arm of the unsimplified graph, and the road-class       *)
(* heuristic of ingestion/controls.py for what no tag says.                *)
(*                                                                         *)
(* An OSM graph o is a record:                                             *)
(*   tag       node -> [highway, all, crossing, dir, override]             *)
(*   adj       node -> its physical neighbours, ignoring direction         *)
(*   junctions the nodes that survive simplification                       *)
(*   len, name {a, b} -> the segment's length, its street or NULL          *)
(*   follows   directed edge <<a, b>> -> whether it follows the way's      *)
(*             order; what may not be driven is no edge, and an edge whose *)
(*             order is not marked is not in the domain either             *)
(***************************************************************************)
EXTENDS Naturals, FiniteSets, FiniteSetsExt

CONSTANTS
  MaxOffset,     \* max_control_offset_m
  MaxWalkSteps,  \* _MAX_WALK_STEPS
  Residential,   \* ROAD_CLASS_RANK of residential
  NULL

ASSUME WalksAreBounded == MaxWalkSteps \in Nat \ {0}
ASSUME NothingIsNoControl == NULL \notin {"signal", "stop", "give_way", "mini_roundabout"}

-----------------------------------------------------------------------------
(* Reading a node's tags.                                                   *)

(* _control_kind: a signal that stops traffic for a crossing is no control. *)
Kind(tag) ==
  IF tag.highway \in {"signal", "stop", "give_way", "mini_roundabout"}
     /\ ~(tag.highway = "signal" /\ tag.crossing)
  THEN tag.highway ELSE NULL

(* _applies_to_approach, for the traffic that goes from `at' to `toward'.   *)
(* Where none may go, or the order is not marked, the direction of the tag  *)
(* is ignored and the sign applies.                                         *)
Applies(o, at, toward) ==
  LET dir == o.tag[at].dir
  IN dir \in {"forward", "backward"} /\ <<at, toward>> \in DOMAIN o.follows
       => o.follows[<<at, toward>>] = (dir = "forward")

-----------------------------------------------------------------------------
(* _walk_arm: out from the junction along its neighbour `first' to the far  *)
(* end of the arm, collecting the controls near the junction on the way.    *)
(* A dead end, a fork or too long a walk has no far end.                    *)
Collected(o, w) ==
  IF w.dist <= MaxOffset /\ Applies(o, w.cur, w.prev)
  THEN {Kind(o.tag[w.cur])} \ {NULL} ELSE {}

ArmFrom(o, j, first) ==
  LET on(w) == o.adj[w.cur] \ {w.prev}
      further(w) ==
        LET next == CHOOSE n \in on(w) : TRUE
        IN [prev |-> w.cur, cur |-> next, dist |-> w.dist + o.len[{w.cur, next}],
            kinds |-> w.kinds \cup Collected(o, w)]
      walk[i \in 1..MaxWalkSteps] ==
        IF i = 1 THEN [prev |-> j, cur |-> first, dist |-> o.len[{j, first}], kinds |-> {}]
        ELSE LET w == walk[i - 1]
             IN IF w.cur \in o.junctions \/ Cardinality(on(w)) # 1 THEN w ELSE further(w)
      end == walk[MaxWalkSteps]
  IN [far |-> IF end.cur \in o.junctions THEN end.cur ELSE NULL, kinds |-> end.kinds]

(* The arms of a junction by their far end; two that end at one node merge.  *)
Arms(o, j) ==
  [far \in {ArmFrom(o, j, n).far : n \in o.adj[j]} \ {NULL} |->
    UNION {ArmFrom(o, j, n).kinds : n \in {n \in o.adj[j] : ArmFrom(o, j, n).far = far}}]

StreetOf(o, j, far) ==
  o.name[{j, CHOOSE n \in o.adj[j] : ArmFrom(o, j, n).far = far}]

(* _harmonize_opposite_arms: the arms of one named street share what either *)
(* shows.                                                                   *)
EachArmAlone(o, j, arms) == arms               \* defect: no sharing
Harmonized(o, j, arms) ==
  LET same(far) == {f \in DOMAIN arms : StreetOf(o, j, f) = StreetOf(o, j, far)}
  IN [far \in DOMAIN arms |->
       IF StreetOf(o, j, far) = NULL THEN arms[far]
       ELSE UNION {arms[f] : f \in same(far)}]

(* _resolve_junction: far end -> the control of the approach from there, for *)
(* all arms or for none.                                                    *)
Resolved(tag, arms) ==
  LET all(c, stop) == [far \in DOMAIN arms |-> [control |-> c, stop |-> stop]]
      stops  == {far \in DOMAIN arms : "stop" \in arms[far]}
      yields == {far \in DOMAIN arms : "give_way" \in arms[far]}
      some(c, held) ==
        [far \in DOMAIN arms |-> [control |-> c, stop |-> far \in held]]
  IN
  IF Kind(tag) = "signal" \/ \E far \in DOMAIN arms : "signal" \in arms[far]
  THEN all("SIGNAL_PERMISSIVE", FALSE)
  ELSE IF Kind(tag) = "mini_roundabout" THEN all("ROUNDABOUT", FALSE)
  ELSE IF stops # {}
  THEN IF tag.all \/ (Cardinality(DOMAIN arms) >= 3 /\ stops = DOMAIN arms)
       THEN all("STOP_4WAY", TRUE) ELSE some("STOP_2WAY", stops)
  ELSE IF yields # {} THEN some("YIELD", yields)
  ELSE [far \in {} |-> NULL]

(* harvest, for one junction. *)
Harvested(o, j) == Resolved(o.tag[j], Harmonized(o, j, Arms(o, j)))

-----------------------------------------------------------------------------
(* classify_node_control: the node's own tag, a roundabout among the merged *)
(* edges that meet there, or a guess from the ranks of its approaches.      *)
Classified(tag, incident, legs, ranks) ==
  LET tagged(c)  == [control |-> c, observed |-> TRUE]
      guessed(c) == [control |-> c, observed |-> FALSE]
      ring == \E k \in incident : k.ring
  IN
  IF tag.override # NULL THEN tagged(tag.override)
  ELSE IF tag.highway = "signal" THEN tagged("SIGNAL_PERMISSIVE")
  ELSE IF tag.highway = "mini_roundabout" \/ ring THEN tagged("ROUNDABOUT")
  ELSE IF tag.highway = "stop"
  THEN tagged(IF tag.all THEN "STOP_4WAY" ELSE "STOP_2WAY")
  ELSE IF tag.highway = "give_way" THEN tagged("YIELD")
  ELSE IF Cardinality(legs) < 3 \/ ranks = {} THEN guessed("NONE")
  ELSE IF Cardinality(ranks) > 1 THEN guessed("STOP_2WAY")
  ELSE IF Cardinality(legs) >= 4 /\ Min(ranks) >= Residential THEN guessed("STOP_4WAY")
  ELSE guessed("NONE")

(* resolve_approach: whether an approach of this rank must stop. *)
MustStop(control, rank, ranks) ==
  \/ control = "STOP_4WAY"
  \/ control \in {"STOP_2WAY", "YIELD"} /\ (Cardinality(ranks) = 1 \/ rank > Min(ranks))
=============================================================================
