------------------------------ MODULE RoadPack ------------------------------
(***************************************************************************)
(* The routing graph that ingestion/pack.py assembles from a street        *)
(* network, with the turn table of ingestion/turns.py.                     *)
(*                                                                         *)
(* A network g is an OSM graph (JunctionControl) with, besides,            *)
(*   at     junction -> where it lies, <<x, y>>                            *)
(*   links  the directed edges of the simplified graph, each               *)
(*          [tail, head, way, classes, maxspeed, lanes, oneway, ring], no   *)
(*          two alike in tail, head and way; classes is the ranks of the   *)
(*          ways merged into it, maxspeed and lanes what they are tagged   *)
(*          with, ring whether their first junction tag is a roundabout.   *)
(* Streets are straight and run along the axes.                            *)
(***************************************************************************)
EXTENDS JunctionControl, Integers, SequencesExt

CONSTANTS
  Secondary,       \* ROAD_CLASS_RANK of secondary
  DefaultSpeed,    \* rank -> speed, in metres per second
  DefaultLanes     \* rank -> lanes per direction, in halves

(* enrich.py: the defaults know every road class. *)
ASSUME DefaultsAreSane ==
  /\ DOMAIN DefaultSpeed \subseteq Nat
  /\ \A r \in DOMAIN DefaultSpeed : DefaultSpeed[r] \in Nat \ {0} /\ DefaultLanes[r] \in Nat

-----------------------------------------------------------------------------
(* The arrays of a pack are computed once: f with all its values in place.  *)
Array(f) == CHOOSE g \in {f} : g = f

(* turns.py *)

(* The azimuth from a to b, clockwise from north. *)
Bearing(a, b) ==
  IF a[1] = b[1] THEN IF b[2] > a[2] THEN 0 ELSE 180
  ELSE IF b[1] > a[1] THEN 90 ELSE 270

WrapDelta(d) == LET w == ((d + 180) % 360) - 180 IN IF w = -180 THEN 180 ELSE w

(* classify_maneuver *)
ManeuverOf(delta, isReverse) ==
  IF isReverse \/ delta > 150 \/ delta < -150 THEN "UTURN"
  ELSE IF -30 < delta /\ delta < 30 THEN "STRAIGHT"
  ELSE IF delta > 0 THEN "RIGHT" ELSE "LEFT"

-----------------------------------------------------------------------------
(* enrich.py: of several merged tags the major class, the highest speed and *)
(* the most lanes; what has no usable tag takes the default of its class.   *)

RankOf(k) == Min(k.classes)

SpeedOf(k) == IF k.maxspeed = {} THEN DefaultSpeed[RankOf(k)] ELSE Max(k.maxspeed)

(* Lanes are tagged for both directions of a two-way road. *)
LanesOf(k) ==
  LET each(n) == IF k.oneway THEN 2 * n ELSE Max({n, 2})
  IN IF k.lanes = {} THEN DefaultLanes[RankOf(k)] ELSE Max({each(n) : n \in k.lanes})

Divided(k) == k.oneway /\ RankOf(k) <= Secondary

-----------------------------------------------------------------------------
(* pack.py *)

Before(k, l) ==
  \/ k.tail < l.tail
  \/ k.tail = l.tail /\ k.head < l.head
  \/ k.tail = l.tail /\ k.head = l.head /\ k.way < l.way

(* The edges in their order, as functions of the edge. *)
EdgesOf(g) ==
  Array([i \in 1..Cardinality(g.links) |->
    CHOOSE k \in g.links : Cardinality({l \in g.links : Before(l, k)}) = i - 1])

(* edge_reverse: the other direction of the same way, 0 for a one-way edge. *)
Opposite(k, l) == k.tail = l.head /\ k.head = l.tail /\ k.way = l.way

ReverseOf(edges, e) ==
  LET twins == {r \in DOMAIN edges : r # e /\ Opposite(edges[e], edges[r])}
  IN IF twins = {} THEN 0 ELSE Min(twins)

(* edge_approach_control, edge_must_stop and edge_control_confidence of the *)
(* edge k.  A roundabout seen on the ways outranks what was harvested.      *)
ControlOf(g, k) ==
  LET j     == k.head
      into  == {l \in g.links : l.head = j}
      out   == {l \in g.links : l.tail = j}
      ranks == {RankOf(l) : l \in into}
      legs  == {l.tail : l \in into} \cup {l.head : l \in out}
      node  == Classified(g.tag[j], into \cup out, legs \ {j}, ranks)
      seen  == Harvested(g, j)
  IN IF node.control # "ROUNDABOUT" /\ k.tail \in DOMAIN seen
     THEN [control |-> seen[k.tail].control, stop |-> seen[k.tail].stop, observed |-> TRUE]
     ELSE [control |-> node.control, stop |-> MustStop(node.control, RankOf(k), ranks),
           observed |-> node.observed]

Length(g, k) ==
  LET along(i) == IF g.at[k.tail][i] > g.at[k.head][i]
                  THEN g.at[k.tail][i] - g.at[k.head][i]
                  ELSE g.at[k.head][i] - g.at[k.tail][i]
  IN along(1) + along(2)

(* build_turn_table: a turn for every pair of edges that meet; one back     *)
(* along the road is allowed only where there is nowhere else to go.        *)
TurnsOf(g, edges) ==
  LET pairs == {t \in (DOMAIN edges) \X (DOMAIN edges) : edges[t[1]].head = edges[t[2]].tail}
      bearing(e) == Bearing(g.at[edges[e].tail], g.at[edges[e].head])
      maneuver(t) == ManeuverOf(WrapDelta(bearing(t[2]) - bearing(t[1])),
                                ReverseOf(edges, t[1]) = t[2])
      deadEnd(t) == Cardinality({u \in pairs : u[1] = t[1]}) = 1
  IN Array([t \in pairs |-> [maneuver |-> maneuver(t),
                             allowed |-> maneuver(t) # "UTURN" \/ deadEnd(t)]])

BuildPack(g) ==
  LET edges == EdgesOf(g)
      edge(e, k, c) ==
        [tail |-> k.tail, head |-> k.head, rank |-> RankOf(k), lanes |-> LanesOf(k),
         speed |-> SpeedOf(k), median |-> Divided(k), length |-> Length(g, k),
         reverse |-> ReverseOf(edges, e),
         control |-> c.control, stop |-> c.stop, observed |-> c.observed]
  IN [edge |-> Array([e \in DOMAIN edges |-> edge(e, edges[e], ControlOf(g, edges[e]))]),
      turn |-> TurnsOf(g, edges)]
=============================================================================
