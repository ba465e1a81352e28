---------------------------- MODULE RoutePlanner ----------------------------
(***************************************************************************)
(* One request to the router, from the snapped endpoints to its reply:     *)
(* Router.route and Router.reroute of pyref/engine.py, the sweep of        *)
(* pyref/alternatives.py with its hard-avoid run, its forced-diversity     *)
(* reruns and its budget, and the numbers of pyref/metrics.py and          *)
(* pyref/geometry.py that a reply shows.  Every search is a search of      *)
(* RouteSearch, pop by pop, over the costs of SafetyCosts.                 *)
(*                                                                         *)
(* A point is <<edge, frac>>, where the nearest segment was found: the     *)
(* share of the edge that lies behind it, in percent.  Costs and durations *)
(* count in hundredths of a second, a distance in hundredths of a metre,   *)
(* lambda in hundredths, the budget in percent.                            *)
(***************************************************************************)
EXTENDS SafetyCosts, RouteSearch

CONSTANTS
  Networks,   \* name -> the street network a pack is built from
  Plans,      \* requests for a plan:
              \* [net, departure, origin, dest, safety, budget]
  Reroutes    \* and for a reroute:
              \* [net, departure, origin, dest, level, lambda, budget]

VARIABLES
  req,     \* the request
  pc,      \* which run of the search is awaited, or what comes next
  plan,    \* _Plan: the costs and search inputs of the request
  slot,    \* position in the sweep
  arc,     \* the arc costs of the last run that counts
  route,   \* its route
  floor,   \* base_unsafe, what a diversified route may not exceed
  reruns,  \* penalty reruns of this slot
  fast,    \* fast_time_s, NULL before the first run
  kept,    \* the alternatives kept so far: [kind, route]
  reply    \* NULL, then the routes shown: none is "no route found"

plannerVars == <<req, pc, plan, slot, arc, route, floor, reruns, fast, kept, reply>>
vars == <<searchVars, plannerVars>>

-----------------------------------------------------------------------------
Pack == plan.pack
Time == plan.time

-----------------------------------------------------------------------------
(* SnapIndex.snap: the nearest edge, and its twin the other way round. *)
Snapped(p, at) ==
  LET back == p.edge[at[1]].reverse
  IN {at} \cup (IF back = 0 THEN {} ELSE {<<back, 100 - at[2]>>})

Where(net, p, at) ==
  LET a == net.at[p.edge[at[1]].tail]
      b == net.at[p.edge[at[1]].head]
  IN <<a[1] + ((b[1] - a[1]) * at[2]) \div 100, a[2] + ((b[2] - a[2]) * at[2]) \div 100>>

(* heuristic: as the crow flies, at the top speed of the pack. *)
CrowFlies(a, b) ==
  LET dx == a[1] - b[1]
      dy == a[2] - b[2]
      square == dx * dx + dy * dy
  IN CHOOSE d \in 0..1000 : d * d <= square /\ square < (d + 1) * (d + 1)

Heuristic(net, p, at) ==
  LET top == Max({p.edge[e].speed : e \in DOMAIN p.edge})
  IN Array([e \in DOMAIN p.edge |->
       (100 * CrowFlies(net.at[p.edge[e].head], Where(net, p, at))) \div top])

(* Router.__init__, compute_costs and compute_h: all that is known of a     *)
(* network at a departure, computed once for each of them.                 *)
Requests == Plans \cup Reroutes

Priced(n, p, snap) ==
  [pack |-> p, time |-> snap, price |-> Costs(p, snap),
   h |-> Array([to \in {q.dest : q \in {q \in Requests : q.net = n}} |->
           IF Cfg.astar THEN Heuristic(Networks[n], p, to)
           ELSE [e \in DOMAIN p.edge |-> 0]])]
AtTime(n, p, departure) == Priced(n, p, Snapshot(p, departure))

Known ==
  Array([c \in (DOMAIN Networks) \X {q.departure : q \in Requests} |->
    AtTime(c[1], BuildPack(Networks[c[1]]), c[2])])

(* _resolve *)
FracOn(points, e) == (CHOOSE at \in points : at[1] = e)[2]

OnOneEdge(origins, dests) ==
  {o \in origins : \E d \in dests : o[1] = d[1] /\ o[2] <= d[2]}

PlanAt(q, k) ==
  LET origins == Snapped(k.pack, q.origin)
      dests   == Snapped(k.pack, q.dest)
      share(points, whole) ==
        [e \in {at[1] : at \in points} |-> (whole - FracOn(points, e)) * k.time[e].time]
  IN [pack |-> k.pack, time |-> k.time, price |-> k.price, h |-> k.h[q.dest],
      origins |-> origins, dests |-> dests,
      turns |-> {t \in DOMAIN k.pack.turn : k.pack.turn[t].allowed},
      seed  |-> share(origins, 100),
      refund |-> [e \in {at[1] : at \in dests} |-> 0 - share(dests, 100)[e]]]

PlanOf(q) == PlanAt(q, Known[<<q.net, q.departure>>])

(* The one edge both points lie on, the snapped one before its twin. *)
SameEdge ==
  LET both == OnOneEdge(plan.origins, plan.dests)
  IN IF req.origin \in both THEN {req.origin[1]} ELSE {o[1] : o \in both}

ProblemOf(p, costs) ==
  [turns |-> p.turns, arc |-> costs, h |-> p.h, seeds |-> p.seed, dests |-> p.refund]
Problem(costs) == ProblemOf(plan, costs)

(* config.toml:208-216: the fast level counts no penalty, and shared edges  *)
(* become dearer.                                                           *)
ASSUME LevelsAreSane ==
  /\ NULL \notin Int
  /\ Cfg.lambda.fast = 0 /\ Cfg.lambda.balanced \in Nat /\ Cfg.lambda.safe \in Nat
  /\ Cfg.surcharge \in Nat /\ Cfg.inflate \in Nat /\ Cfg.inflate >= 10

(* api/schemas.py:30-45; only a reroute carries a level and its lambda.     *)
ASSUME RequestsAreSane ==
  /\ \A q \in Requests : /\ q.net \in DOMAIN Networks /\ q.budget \in Nat
                         /\ q.departure \in Nat
                         /\ {q.origin[1], q.dest[1]} \subseteq 1..Cardinality(Networks[q.net].links)
                         /\ q.origin[2] \in 0..100 /\ q.dest[2] \in 0..100
                         /\ "level" \in DOMAIN q => q.lambda \in Nat
  /\ \A q \in Plans : "level" \notin DOMAIN q

(* ingestion/pack.py: finitely many edges that lie somewhere, each told by  *)
(* its ends and its way, of known classes.                                  *)
ASSUME NetworksAreRoads ==
  \A n \in DOMAIN Networks :
    LET g == Networks[n]
    IN /\ IsFiniteSet(g.links)
       /\ \A k \in g.links :
            /\ {k.tail, k.head, k.way} \subseteq Nat
            /\ {g.at[k.tail], g.at[k.head]} \subseteq Int \X Int
            /\ k.classes # {} /\ k.classes \subseteq DOMAIN DefaultSpeed
            /\ k.maxspeed \subseteq Nat \ {0} /\ IsFiniteSet(k.maxspeed)
            /\ k.lanes \subseteq Nat /\ IsFiniteSet(k.lanes)
       /\ \A k, l \in g.links :
            k.tail = l.tail /\ k.head = l.head /\ k.way = l.way => k = l

(* tests/test_astar_admissible.py:38: no turn takes less time than it       *)
(* brings one nearer, as the crow flies at top speed.                       *)
ASSUME HeuristicIsConsistent ==
  \A q \in Requests :
    LET p == PlanOf(q)
    IN /\ \A e \in DOMAIN p.h : p.h[e] \in Nat
       /\ \A t \in p.turns : p.h[t[1]] <= ArcCost(p.price, 0)[t] + p.h[t[2]]

-----------------------------------------------------------------------------
(* Measuring a route. *)
TurnsTaken(r) == {<<r[i], r[i + 1]>> : i \in 1..(Len(r) - 1)}
UnsafeCount(r) == Cardinality({t \in TurnsTaken(r) : plan.price[t].unsafe # NULL})

(* travel_time_fn: the costs at lambda 0 with the shares of both ends. *)
TurnTimes(r) == SumFunction([t \in TurnsTaken(r) |-> ArcCost(plan.price, 0)[t]])
LinkTimes(r) == SumFunction([t \in TurnsTaken(r) |-> 100 * Time[t[2]].time])
WithoutWaits(r) == plan.seed[r[1]] + LinkTimes(r) + plan.refund[r[Len(r)]]  \* defect
TravelTime(r) == plan.seed[r[1]] + TurnTimes(r) + plan.refund[r[Len(r)]]

(* jaccard(a, b) > jaccard_threshold, a route standing for its edges *)
Alike(r, s) ==
  100 * Cardinality(Range(r) \cap Range(s)) > Cfg.jaccard * Cardinality(Range(r) \cup Range(s))

LikeKept(r) == \E i \in DOMAIN kept : Alike(r, kept[i].route)

Affordable(r, budget) == 100 * TravelTime(r) <= (100 + budget) * fast

-----------------------------------------------------------------------------
(* _describe: what the reply shows of a route. *)
Share(r, i) ==
  100 - (IF i = 1 THEN FracOn(plan.origins, r[1]) ELSE 0)
      - (IF i = Len(r) THEN 100 - FracOn(plan.dests, r[Len(r)]) ELSE 0)

Described(kind, lambda, r) ==
  LET delay == SumFunction([t \in TurnsTaken(r) |-> plan.price[t].delay])
      turns == [i \in 1..(Len(r) - 1) |-> <<r[i], r[i + 1]>>]
      flagged == {i \in DOMAIN turns : plan.price[turns[i]].unsafe # NULL}
      node(t) == Pack.edge[t[1]].head
  IN
  [kind |-> kind, lambda |-> lambda, budget |-> req.budget, departure |-> req.departure,
   route |-> r,
   distance |-> SumFunction([i \in DOMAIN r |-> Pack.edge[r[i]].length * Share(r, i)]),
   eta |-> SumFunction([i \in DOMAIN r |-> Time[r[i]].time * Share(r, i)]) + 100 * delay,
   delay |-> delay, detour |-> 0,
   points |-> [i \in flagged |->
                [at |-> node(turns[i]), type |-> plan.price[turns[i]].unsafe,
                 wait |-> plan.price[turns[i]].delay]],
   tiers |-> <<"safe">> \o [i \in DOMAIN turns |-> plan.price[turns[i]].tier],
   steps |-> SelectSeq([i \in DOMAIN turns |->
                         [at |-> node(turns[i]), type |-> Pack.turn[turns[i]].maneuver]],
                       LAMBDA s : s.type # "STRAIGHT")]

(* The levels to run: a reroute (compute_single) runs the one it carries. *)
Replying == "level" \in DOMAIN req

Sweep ==
  IF Replying THEN <<req.level>>
  ELSE IF req.safety THEN <<"fast", "balanced", "safe">> ELSE <<"fast">>

(* Relabelling by position: the last survivor is the safe one. *)
Label(i, n) ==
  IF i = 1 THEN "fast" ELSE IF i = n THEN "safe" ELSE "balanced"

-----------------------------------------------------------------------------
Init ==
  /\ Idle
  /\ req \in Requests
  /\ pc = "resolve"
  /\ plan = NULL /\ slot = 1 /\ arc = <<>> /\ route = <<>>
  /\ floor = 0 /\ reruns = 0 /\ fast = NULL /\ kept = <<>> /\ reply = NULL

Level  == Sweep[slot]
Lambda == IF Replying THEN req.lambda ELSE Cfg.lambda[Level]

Run(costs, next) ==
  /\ Begin(Problem(costs))
  /\ pc' = next

Answer(r) ==
  /\ pc' = "done"
  /\ reply' = r
  /\ UNCHANGED <<searchVars, req, plan, slot, arc, route, floor, reruns, fast, kept>>

(* Both requests start by resolving their endpoints. *)
Resolve ==
  /\ pc = "resolve"
  /\ plan' = PlanOf(req)
  /\ pc' = "planned"
  /\ UNCHANGED <<searchVars, req, slot, arc, route, floor, reruns, fast, kept, reply>>

(* Both points on one edge, in order: no search at all. *)
ShortCircuit ==
  /\ pc = "planned" /\ slot = 1 /\ SameEdge # {}
  /\ \E e \in SameEdge :
       Answer(<<Described(Level, Lambda, <<e>>)>>)

(* One run at the level's lambda, for a slot of the sweep or a reroute. *)
RunLevel ==
  /\ pc = "planned"
  /\ slot = 1 => SameEdge = {}
  /\ slot <= Len(Sweep)
  /\ arc' = ArcCost(plan.price, Lambda)
  /\ Run(arc', "level")
  /\ UNCHANGED <<req, plan, slot, route, floor, reruns, fast, kept, reply>>

-----------------------------------------------------------------------------
(* compute_alternatives *)

NextSlot ==
  /\ pc' = "planned"
  /\ slot' = slot + 1
  /\ reruns' = 0

ForceSafer(r, level, budget) == level = "safe" /\ budget > 0 /\ UnsafeCount(r) > 0

(* The run at this level is over. *)
LevelRun ==
  /\ pc = "level" /\ found /\ ~Replying
  /\ IF Result = {}
     THEN /\ NextSlot
          /\ UNCHANGED <<route, floor, fast>>
     ELSE /\ route' = (CHOOSE r \in Result : TRUE)
          /\ fast' = IF fast = NULL THEN TravelTime(route') ELSE fast
          /\ floor' = UnsafeCount(route')
          /\ pc' = IF ForceSafer(route', Level, req.budget) THEN "avoid" ELSE "decide"
          /\ UNCHANGED <<slot, reruns>>
  /\ UNCHANGED <<searchVars, req, plan, arc, kept, reply>>

(* _avoid_within_budget: every counted maneuver is made prohibitive ... *)
Surcharged ==
  [t \in DOMAIN plan.price |->
    ArcCost(plan.price, Lambda)[t]
      + (IF plan.price[t].unsafe # NULL THEN 100 * Cfg.surcharge ELSE 0)]

RunAvoiding ==
  /\ pc = "avoid"
  /\ Run(Surcharged, "avoiding")
  /\ UNCHANGED <<req, plan, slot, arc, route, floor, reruns, fast, kept, reply>>

(* ... and the answer accepted if it is cleaner and can be afforded. *)
AvoidRun ==
  /\ pc = "avoiding" /\ found
  /\ LET clean == {r \in Result : UnsafeCount(r) < UnsafeCount(route)
                                    /\ Affordable(r, req.budget)}
     IN IF clean = {} THEN UNCHANGED <<arc, route, floor>>
        ELSE /\ route' = (CHOOSE r \in clean : TRUE)
             /\ arc' = ask.arc
             /\ floor' = UnsafeCount(route')
  /\ pc' = IF Replying THEN "single" ELSE "decide"
  /\ UNCHANGED <<searchVars, req, plan, slot, reruns, fast, kept, reply>>

(* Too like a kept route: run again with the shared edges inflated. *)
SharedWithKept == Range(route) \cap UNION {Range(kept[i].route) : i \in DOMAIN kept}

Diversify ==
  /\ pc = "decide" /\ LikeKept(route) /\ reruns < Cfg.maxReruns
  /\ arc' = [t \in DOMAIN arc |->
              IF t[2] \in SharedWithKept THEN (arc[t] * Cfg.inflate) \div 10 ELSE arc[t]]
  /\ Run(arc', "rerun")
  /\ UNCHANGED <<req, plan, slot, route, floor, reruns, fast, kept, reply>>

RerunAfresh ==                                 \* defect: each rerun is the first
  /\ pc = "rerun" /\ found
  /\ route' = (IF Result = {} THEN route ELSE CHOOSE r \in Result : TRUE)
  /\ arc' = ArcCost(plan.price, Lambda)
  /\ pc' = "decide"
  /\ UNCHANGED <<searchVars, req, plan, slot, floor, reruns, fast, kept, reply>>
Rerun ==                                       \* a run without a route is the last
  /\ pc = "rerun" /\ found
  /\ reruns' = IF Result = {} THEN Cfg.maxReruns ELSE reruns + 1
  /\ route' = (IF Result = {} THEN route ELSE CHOOSE r \in Result : TRUE)
  /\ pc' = "decide"
  /\ UNCHANGED <<searchVars, req, plan, slot, arc, floor, fast, kept, reply>>

(* The slot is dropped as a duplicate or as less safe than its optimum. *)
Drop ==
  /\ pc = "decide"
  /\ IF LikeKept(route) THEN reruns = Cfg.maxReruns ELSE UnsafeCount(route) > floor
  /\ NextSlot
  /\ UNCHANGED <<searchVars, req, plan, arc, route, floor, fast, kept, reply>>

Keep ==
  /\ pc = "decide" /\ ~LikeKept(route) /\ UnsafeCount(route) <= floor
  /\ kept' = Append(kept, [kind |-> Level, route |-> route])
  /\ NextSlot
  /\ UNCHANGED <<searchVars, req, plan, arc, route, floor, fast, reply>>

(* The budget as a ceiling, the labels by position, and the description. *)
WithinCeiling ==
  LET left[i \in 1..Len(kept)] ==
        IF i = 1 THEN <<kept[1]>>
        ELSE IF Affordable(kept[i].route, req.budget) THEN Append(left[i - 1], kept[i])
        ELSE left[i - 1]
  IN left[Len(kept)]

Fastest(shown) == Min({shown[i].eta : i \in DOMAIN shown})

WithDetour(shown) ==
  [i \in DOMAIN shown |->
    [shown[i] EXCEPT !.detour =
      IF Fastest(shown) > 0
      THEN (100 * (shown[i].eta - Fastest(shown))) \div Fastest(shown) ELSE 0]]

Reply ==
  /\ pc = "planned" /\ ~Replying /\ slot > Len(Sweep)
  /\ IF kept = <<>> THEN Answer(<<>>)
     ELSE LET left == WithinCeiling
              kind(i) == IF req.safety /\ Len(left) > 1 THEN Label(i, Len(left)) ELSE left[i].kind
          IN Answer(WithDetour([i \in DOMAIN left |->
                      Described(kind(i), Cfg.lambda[kind(i)], left[i].route)]))

-----------------------------------------------------------------------------
(* compute_single *)

SingleRun ==
  /\ pc = "level" /\ found /\ Replying
  /\ route' = (IF Result = {} THEN <<>> ELSE CHOOSE r \in Result : TRUE)
  /\ pc' = IF Result # {} /\ ForceSafer(route', Level, req.budget) THEN "baseline" ELSE "single"
  /\ UNCHANGED <<searchVars, req, plan, slot, arc, floor, reruns, fast, kept, reply>>

RunBaseline ==
  /\ pc = "baseline"
  /\ Run(ArcCost(plan.price, 0), "fastest")
  /\ UNCHANGED <<req, plan, slot, arc, route, floor, reruns, fast, kept, reply>>

BaselineRun ==
  /\ pc = "fastest" /\ found
  /\ pc' = IF Result = {} THEN "single" ELSE "avoid"
  /\ fast' = IF Result = {} THEN NULL ELSE TravelTime(CHOOSE r \in Result : TRUE)
  /\ UNCHANGED <<searchVars, req, plan, slot, arc, route, floor, reruns, kept, reply>>

ReplySingle ==
  /\ pc = "single"
  /\ Answer(IF route = <<>> THEN <<>>
            ELSE <<Described(req.level, req.lambda, route)>>)

-----------------------------------------------------------------------------
Search == SearchStep /\ UNCHANGED plannerVars

Next ==
  \/ Search
  \/ Resolve \/ ShortCircuit \/ RunLevel
  \/ LevelRun \/ RunAvoiding \/ AvoidRun \/ Diversify \/ Rerun \/ Drop \/ Keep \/ Reply
  \/ SingleRun \/ RunBaseline \/ BaselineRun \/ ReplySingle

Spec == Init /\ [][Next]_vars

(* A request runs on a thread of its own until it answers. *)
FairSpec == Spec /\ WF_vars(Next)

-----------------------------------------------------------------------------
(* What a request promises. *)

(* engine.py:44-51 and alternatives.py:45-52: the budget bounds the extra   *)
(* time that the user is shown, in the durations that the metrics compute   *)
(* for themselves, and a safer level is never sold as faster.               *)
WithinBudget ==
  (reply # NULL /\ ~Replying) =>
    \A i \in DOMAIN reply :
      /\ 100 * (reply[i].eta - reply[1].eta) <= req.budget * reply[1].eta \/ i = 1
      /\ reply[i].eta >= reply[1].eta

(* The nodes with a distance to junction j, along the streets that lead to  *)
(* it from the next junctions; and those near enough for a sign of its own. *)
WayTo(net, j) ==
  LET upTo[k \in 1..MaxWalkSteps] ==
        IF k = 1 THEN {<<n, net.len[{j, n}]>> : n \in net.adj[j] \ net.junctions}
        ELSE upTo[k - 1] \cup
               UNION {{<<n, x[2] + net.len[{x[1], n}]>> : n \in net.adj[x[1]] \ net.junctions} :
                       x \in upTo[k - 1]}
  IN upTo[MaxWalkSteps]

SignPosts(net, j) == {x[1] : x \in {x \in WayTo(net, j) : x[2] <= MaxOffset}}

(* costs.py:429-435: what the map tells a user to fear rests on a tag that  *)
(* somebody put at that junction or on a street just before it, or on a     *)
(* roundabout that ends there, never on a guess from road classes.          *)
TaggedAt(net, j) ==
  \/ net.tag[j].override # NULL
  \/ \E n \in {j} \cup SignPosts(net, j) :
       net.tag[n].highway \in {"signal", "stop", "give_way", "mini_roundabout"}
  \/ \E k \in net.links : k.ring /\ j \in {k.tail, k.head}

OnlyTaggedCounts ==
  reply # NULL =>
    \A i \in DOMAIN reply : \A k \in DOMAIN reply[i].points :
      TaggedAt(Networks[req.net], reply[i].points[k].at)

(* approach_controls.py: two directions of one named street that meet at a  *)
(* junction are held to one control there.  Only a stop or yield that is    *)
(* tagged on the junction itself can hold one of them alone, the lesser     *)
(* road where the street changes its class.                                 *)
StreetAgrees ==
  LET net == Networks[req.net]
      edge == Pack.edge
      street(e) == StreetOf(net, edge[e].head, edge[e].tail)
  IN (pc = "planned" /\ slot = 1) =>
     \A e, f \in DOMAIN edge :
       /\ e < f /\ edge[e].head = edge[f].head
       /\ {edge[e].tail, edge[f].tail} \subseteq DOMAIN Arms(net, edge[e].head)
       /\ street(e) # NULL /\ street(e) = street(f)
       => /\ edge[e].control = edge[f].control
          /\ \/ edge[e].stop = edge[f].stop
             \/ edge[e].rank # edge[f].rank /\ DOMAIN Harvested(net, edge[e].head) = {}

(* alternatives.py:156-164: the label "safe" is for the safest route found, *)
(* so a route under it is flagged no more often than the fastest one.       *)
SafeLabelDeserved ==
  reply # NULL =>
    \A i, j \in DOMAIN reply :
      reply[i].kind = "safe" /\ reply[j].kind = "fast"
      => Cardinality(DOMAIN reply[i].points) <= Cardinality(DOMAIN reply[j].points)

(* The sweep, its reruns and the search under them all come to an end.      *)
Answered == <>(reply # NULL)
=============================================================================
