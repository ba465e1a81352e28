----------------------------- MODULE SafetyCosts -----------------------------
(***************************************************************************)
(* The cost model of pyref/costs.py over a pack p (RoadPack) and the       *)
(* traffic of a departure (sim/snapshot.py): for every turn its time, its  *)
(* safety penalty, whether it is counted as unsafe, and its colour.        *)
(*                                                                         *)
(* Numbers are integers: weights, factors and scores in hundredths, times  *)
(* in seconds, critical gaps in tenths of a second, lanes in halves, and a *)
(* departure is a minute of the day.  A road class is its rank.  The split *)
(* into arrays built once per pack and once per query is left out; the     *)
(* order in which the factors apply is not.                                *)
(***************************************************************************)
EXTENDS RoadPack

CONSTANTS
  Cfg   \* config.toml: the tables cost, busy, tiers and sim

(* config.toml and sim/profiles.py: nothing is less than nothing, the caps  *)
(* that divide are not 0, and no hour brings the traffic to a standstill.   *)
ASSUME CostsAreSane ==
  /\ {Cfg.wMan, Cfg.wSpeed, Cfg.wLanes, Cfg.wVol, Cfg.wMed, Cfg.stop4way, Cfg.yield,
      Cfg.yieldRow, Cfg.signalLeft, Cfg.rightOfWay, Cfg.inferred, Cfg.k, Cfg.uturn,
      Cfg.allWayStop, Cfg.signalMajor, Cfg.signalMinor, Cfg.delayCap, Cfg.tcCrossing,
      Cfg.tcLeft, Cfg.tcLeftWide, Cfg.tcRight, Cfg.tcPriorityLeft} \subseteq Nat
  /\ {Cfg.speedCap, Cfg.lanesCap, Cfg.volumeCap} \subseteq Nat \ {0}
  /\ \A m \in {"STRAIGHT", "LEFT", "RIGHT", "UTURN"} : Cfg.severity[m] \in Nat
  /\ \A r \in DOMAIN DefaultSpeed : Cfg.baseVolume[r] \in Nat
  /\ \A c \in (DOMAIN Cfg.groups) \cup {"local"} : \A h \in 0..23 :
       Cfg.profiles[c].speed[h] \in Nat \ {0} /\ Cfg.profiles[c].volume[h] \in Nat

(* sim/profiles.py: an hourly table, anchored at half past, at a minute of  *)
(* the day, around midnight; and the group of a road class.                 *)
Interpolated(table, minute) ==
  LET since == (minute - 30) % 1440
      i     == since \div 60
  IN table[i] + ((since % 60) * (table[(i + 1) % 24] - table[i])) \div 60

ClassGroup(rank) ==
  LET groups == {g \in DOMAIN Cfg.groups : rank \in Cfg.groups[g]}
  IN IF groups = {} THEN "local" ELSE CHOOSE g \in groups : TRUE

(* sim/snapshot.at_time: what one departure makes of every edge. *)
Snapshot(p, departure) ==
  LET at(rank, what) == Interpolated(Cfg.profiles[ClassGroup(rank)][what], departure)
      edge(e) == p.edge[e]
  IN Array([e \in DOMAIN p.edge |->
       [time |-> (100 * edge(e).length) \div (edge(e).speed * at(edge(e).rank, "speed")),
        volume |-> (Cfg.baseVolume[edge(e).rank] * at(edge(e).rank, "volume")) \div 100]])

(* _norm *)
Norm(x, cap) == IF x >= cap THEN 100 ELSE (100 * x) \div cap

-----------------------------------------------------------------------------
(* What governs a turn: the control of the approach it leaves from. *)

Out(p, t)      == p.edge[t[2]]
Approach(p, t) == p.edge[t[1]]
Is(p, t, m)    == p.turn[t].maneuver = m

Protected(a) == a.control \in {"SIGNAL_PROTECTED", "ROUNDABOUT"}

(* Holding the line while the cross traffic does not stop. *)
HoldsLine(a) == a.control \in {"STOP_2WAY", "YIELD"} /\ a.stop

(* control_mult: the override factors, of which at most one applies. *)
ControlFactor(p, t) ==
  LET a   == Approach(p, t)
      row == Is(p, t, "STRAIGHT") \/ Is(p, t, "RIGHT")
  IN
  CASE a.control = "STOP_4WAY" -> Cfg.stop4way
    [] a.control = "YIELD" -> IF row THEN Cfg.yieldRow ELSE Cfg.yield
    [] a.control = "SIGNAL_PERMISSIVE" /\ Is(p, t, "LEFT") -> Cfg.signalLeft
    [] row /\ \/ a.control = "SIGNAL_PERMISSIVE"
              \/ a.control = "STOP_2WAY" /\ ~a.stop -> Cfg.rightOfWay
    [] OTHER -> 100

(* guessed_mult: a guess that there is no protection is damped. *)
GuessedFactor(p, t) ==
  LET a == Approach(p, t)
  IN IF (a.control = "NONE" \/ HoldsLine(a)) /\ ~a.observed THEN Cfg.inferred ELSE 100

Raw(p, snap, t) ==
  LET o == Out(p, t)
      base == (Cfg.wMan * Cfg.severity[p.turn[t].maneuver]
                + Cfg.wSpeed * Norm(o.speed, Cfg.speedCap)
                + Cfg.wLanes * Norm(o.lanes, Cfg.lanesCap)
                + Cfg.wVol * Norm(snap[t[2]].volume, Cfg.volumeCap)) \div 100
                - (IF o.median THEN Cfg.wMed ELSE 0)
  IN IF Protected(Approach(p, t)) THEN 0
     ELSE (((base * ControlFactor(p, t)) \div 100) * GuessedFactor(p, t)) \div 100

Penalty(p, snap, t) ==
  (Cfg.k * Max({Raw(p, snap, t), 0})) \div 100
    + (IF Is(p, t, "UTURN") THEN Cfg.uturn ELSE 0)

-----------------------------------------------------------------------------
(* The two counters. *)

Busy(p, snap, e) ==
  LET score == (Cfg.aSpeed * Norm(p.edge[e].speed, Cfg.speedCap)
                 + Cfg.aLanes * Norm(p.edge[e].lanes, Cfg.lanesCap)
                 + Cfg.aVol * Norm(snap[e].volume, Cfg.volumeCap)) \div 100
  IN Max({score, Cfg.busyFloor[p.edge[e].rank]}) > Cfg.busyThreshold

(* edge_major: busy and physically big. *)
MajorRoad(p, snap, e) ==
  /\ Busy(p, snap, e)
  /\ p.edge[e].lanes >= Cfg.majorLanes \/ p.edge[e].rank <= Cfg.majorRank

Into(p, n) == {e \in DOMAIN p.edge : p.edge[e].head = n}

(* _crossing_legs: the approaches that going straight cuts across. *)
CrossingLegs(p, t) ==
  Into(p, Approach(p, t).head) \ {t[1], Out(p, t).reverse}

AnyControl(a) == TRUE                          \* defect: guesses count too
Tagged(a) == a.observed

(* What the approach of t has to fear on the road e that it takes or crosses. *)
Hazardous(p, snap, t, e) ==
  \/ Approach(p, t).control = "NONE" /\ Busy(p, snap, e)
  \/ HoldsLine(Approach(p, t)) /\ MajorRoad(p, snap, e)

UncontrolledCrossing(p, snap, t) ==
  Is(p, t, "STRAIGHT") /\ \E e \in CrossingLegs(p, t) : Hazardous(p, snap, t, e)

(* turn_unsafe_type: NULL, or which of the counters it increments. *)
Unsafe(p, snap, t) ==
  IF ~Tagged(Approach(p, t)) \/ Raw(p, snap, t) < Cfg.tauUnsafe THEN NULL
  ELSE IF Is(p, t, "LEFT") /\ Hazardous(p, snap, t, t[2]) THEN "left"
  ELSE IF UncontrolledCrossing(p, snap, t) THEN "crossing" ELSE NULL

(* turn_tier: a guess is never painted red. *)
Tier(p, snap, t) ==
  IF Raw(p, snap, t) >= Cfg.tauUnsafe /\ Approach(p, t).observed THEN "unsafe"
  ELSE IF Raw(p, snap, t) >= Cfg.tauCaution THEN "caution" ELSE "safe"

-----------------------------------------------------------------------------
(* Control delay: the expected wait at the junction. *)

(* The approaches whose straight continuation leaves along e. *)
Feeders(p, e) ==
  IF e = 0 THEN {}
  ELSE {i \in DOMAIN p.edge : <<i, e>> \in DOMAIN p.turn /\ Is(p, <<i, e>>, "STRAIGHT")}

Oncoming(p, e) == Feeders(p, p.edge[e].reverse)

GoesOn(p, e) == \E o \in DOMAIN p.edge : e \in Feeders(p, o)

Legs(p, n) ==
  {p.edge[e].tail : e \in Into(p, n)}
    \cup {p.edge[e].head : e \in {e \in DOMAIN p.edge : p.edge[e].tail = n}}

(* An approach is major iff it outranks every other road at its junction,   *)
(* or goes on where one of its rank ends.                                   *)
Outranks(p, e, f) ==
  \/ p.edge[e].rank < p.edge[f].rank
  \/ p.edge[e].rank = p.edge[f].rank /\ GoesOn(p, e) /\ ~GoesOn(p, f)

MajorApproach(p, e) ==
  LET n == p.edge[e].head
  IN \/ Cardinality(Legs(p, n)) < 3
     \/ \A f \in Into(p, n) \ ({e} \cup Oncoming(p, e)) : Outranks(p, e, f)

Minor(p, e) ==
  HoldsLine(p.edge[e]) \/ (p.edge[e].control = "NONE" /\ ~MajorApproach(p, e))

Priority(p, e) ==
  \/ p.edge[e].control \in {"STOP_2WAY", "YIELD"} /\ ~p.edge[e].stop
  \/ p.edge[e].control = "NONE" /\ MajorApproach(p, e)

FixedWait(p, t) ==
  LET a == Approach(p, t) IN
  CASE a.control = "STOP_4WAY" -> Cfg.allWayStop
    [] a.control = "SIGNAL_PERMISSIVE" ->
         IF MajorApproach(p, t[1]) THEN Cfg.signalMajor ELSE Cfg.signalMinor
    [] OTHER -> 0

(* The gap a movement waits for, and the approaches whose flow must leave it. *)
RoadLanes(p, e) ==
  p.edge[e].lanes + (IF p.edge[e].reverse = 0 THEN 0 ELSE p.edge[p.edge[e].reverse].lanes)

Gap(p, t) ==
  LET o == t[2]
      back == {Out(p, t).reverse} \ {0}
      wait(tc, legs) == [tc |-> tc, legs |-> legs \ {t[1]}]
  IN
  CASE Minor(p, t[1]) /\ Is(p, t, "STRAIGHT") ->
         wait(Cfg.tcCrossing, Into(p, Approach(p, t).head) \ back)
    [] Minor(p, t[1]) /\ Is(p, t, "LEFT") ->
         wait(IF RoadLanes(p, o) >= Cfg.wideLanes THEN Cfg.tcLeftWide ELSE Cfg.tcLeft,
              back \cup Feeders(p, o))
    [] Minor(p, t[1]) /\ Is(p, t, "RIGHT") -> wait(Cfg.tcRight, Feeders(p, o))
    [] /\ Priority(p, t[1]) \/ Approach(p, t).control = "SIGNAL_PERMISSIVE"
       /\ Is(p, t, "LEFT") -> wait(Cfg.tcPriorityLeft, Oncoming(p, t[1]))
    [] OTHER -> wait(0, {})

(* adams_delay_s: (exp(x) - x - 1) / q for x = q * tc, term by term of its  *)
(* series, and capped.  x and the terms count in hundredths.                *)
Adams(q, tc) ==
  LET x == (q * tc) \div 360
      term[n \in 2..8] == IF n = 2 THEN (q * tc * tc) \div 7200
                          ELSE (term[n - 1] * x) \div (100 * n)
  IN Min({SumFunction(term) \div 100, Cfg.delayCap})

(* control_delay_s *)
Delay(p, snap, t) ==
  LET flow(e) == (snap[e].volume * p.edge[e].lanes) \div 2
      gap     == Gap(p, t)
  IN IF Is(p, t, "UTURN") THEN 0
     ELSE FixedWait(p, t) + Adams(SumFunction([e \in gap.legs |-> flow(e)]), gap.tc)

-----------------------------------------------------------------------------
(* compute_costs: what the engines get to see of all this. *)
Costs(p, snap) ==
  Array([t \in DOMAIN p.turn |->
    [time    |-> snap[t[2]].time + Delay(p, snap, t),
     delay   |-> Delay(p, snap, t),
     penalty |-> Penalty(p, snap, t),
     unsafe  |-> Unsafe(p, snap, t),
     tier    |-> Tier(p, snap, t)]])

(* arc_cost, with lambda in hundredths; a cost counts in hundredths, too. *)
ArcCost(costs, lambda) ==
  [t \in DOMAIN costs |-> 100 * costs[t].time + lambda * costs[t].penalty]
=============================================================================
