----------------------------- MODULE RouteSearch -----------------------------
(***************************************************************************)
(* pyref/search.py, one edge-based A* search, one pop of the heap at a     *)
(* time; core/src/engine.cpp is the same algorithm by its parity contract. *)
(*                                                                         *)
(* A problem is a record:                                                  *)
(*   turns  the allowed turns <<in, out>>, edges being numbers             *)
(*   arc    turn -> its cost, at least 0                                   *)
(*   h      edge -> a lower bound of what is left from its head            *)
(*   seeds  first edge -> cost of the share of it that is driven           *)
(*   dests  last edge -> minus the cost of the share that is not driven    *)
(***************************************************************************)
EXTENDS Integers, FiniteSets, Sequences, FiniteSetsExt

CONSTANT Problems   \* what the searches are asked when the planner is left out

(* Costs and bounds are at least 0; only the refunds of dests are not.  The  *)
(* heuristic is consistent: no turn costs less than the bound drops by.     *)
IsProblem(p) ==
  /\ IsFiniteSet(DOMAIN p.h) /\ DOMAIN p.h \subseteq Nat \ {0}
  /\ \A e \in DOMAIN p.h : p.h[e] \in Nat
  /\ p.turns \subseteq (DOMAIN p.h) \X (DOMAIN p.h)
  /\ \A t \in p.turns : p.arc[t] \in Nat /\ p.h[t[1]] <= p.arc[t] + p.h[t[2]]
  /\ DOMAIN p.seeds \subseteq DOMAIN p.h /\ \A e \in DOMAIN p.seeds : p.seeds[e] \in Nat
  /\ DOMAIN p.dests \subseteq DOMAIN p.h /\ \A e \in DOMAIN p.dests : p.dests[e] \in Int

ASSUME ProblemsAreRoads == \A p \in Problems : IsProblem(p)

VARIABLES
  ask,    \* the problem
  dist,   \* edge -> cost of having driven all of it, for the edges reached
  pred,   \* edge -> the edge it was reached from, 0 for a seed
  heap,   \* the entries <<f, edge, g>>
  best,   \* the best destination popped: {} or {[edge, final]}
  found   \* whether the search has ended

searchVars == <<ask, dist, pred, heap, best, found>>

-----------------------------------------------------------------------------
Entry(p, e, g) == <<g + p.h[e], e, g>>

Entries(p) == {Entry(p, e, p.seeds[e]) : e \in DOMAIN p.seeds}

(* A call of shortest_path: every local starts over. *)
Begin(p) ==
  /\ ask' = p
  /\ dist' = p.seeds
  /\ pred' = [e \in DOMAIN p.seeds |-> 0]
  /\ heap' = Entries(p)
  /\ best' = {}
  /\ found' = FALSE

(* No call yet: the search of nothing has ended. *)
NoProblem == [turns |-> {}, arc |-> <<>>, h |-> <<>>, seeds |-> <<>>, dests |-> <<>>]

Idle ==
  /\ ask = NoProblem
  /\ dist = <<>> /\ pred = <<>>
  /\ heap = {} /\ best = {}
  /\ found = TRUE

(* P2: least f first, then least edge. *)
First(entries) ==
  CHOOSE x \in entries : \A y \in entries : x[1] < y[1] \/ (x[1] = y[1] /\ x[2] <= y[2])

(* P6: the bound on f past which no destination can still be better. *)
NoSlack(p) == 0                                \* defect: stops at the first bound
Slack(p) == Max({p.h[d] - p.dests[d] : d \in DOMAIN p.dests} \cup {0})

Beaten(f) == \E b \in best : f > b.final + Slack(ask)

(* The edges that a settled edge e improves, each by its one turn from e. *)
Unreached(e) ==                                \* defect: the first arrival stays
  {o \in {t[2] : t \in {t \in ask.turns : t[1] = e}} : o \notin DOMAIN dist}
Improved(e) ==
  {o \in {t[2] : t \in {t \in ask.turns : t[1] = e}} :
     o \notin DOMAIN dist \/ dist[e] + ask.arc[<<e, o>>] < dist[o]}

Settle(e) ==
  LET g(o) == dist[e] + ask.arc[<<e, o>>]
      here == {[edge |-> d, final |-> dist[d] + ask.dests[d]] : d \in {e} \cap DOMAIN ask.dests}
  IN /\ best' = IF \E x \in here : \A b \in best : x.final < b.final THEN here ELSE best
     /\ dist' = [o \in DOMAIN dist \cup Improved(e) |->
                  IF o \in Improved(e) THEN g(o) ELSE dist[o]]
     /\ pred' = [o \in DOMAIN pred \cup Improved(e) |->
                  IF o \in Improved(e) THEN e ELSE pred[o]]
     /\ heap' = (heap \ {First(heap)}) \cup {Entry(ask, o, g(o)) : o \in Improved(e)}

Pop ==
  LET top == First(heap)
  IN
  /\ ~found /\ heap # {} /\ ~Beaten(top[1])
  /\ \/ /\ top[3] # dist[top[2]]               \* P4: overtaken since its push
        /\ heap' = heap \ {top}
        /\ UNCHANGED <<dist, pred, best>>
     \/ /\ top[3] = dist[top[2]]
        /\ Settle(top[2])
  /\ UNCHANGED <<ask, found>>

Finish ==
  /\ ~found
  /\ heap # {} => Beaten(First(heap)[1])
  /\ found' = TRUE
  /\ UNCHANGED <<ask, dist, pred, heap, best>>

SearchStep == Pop \/ Finish

SearchNext == SearchStep \/ (found /\ \E p \in Problems : Begin(p))

SearchSpec == Idle /\ [][SearchNext]_searchVars

-----------------------------------------------------------------------------
(* P7: the edges of the result, walked back from the best destination. *)
Back(e) ==
  LET depth[d \in DOMAIN pred] == IF pred[d] = 0 THEN 1 ELSE 1 + depth[pred[d]]
      up[k \in 0..Cardinality(DOMAIN pred)] == IF k = 0 THEN e ELSE pred[up[k - 1]]
  IN [i \in 1..depth[e] |-> up[depth[e] - i]]

(* The result of a search that has ended: {} or its one route. *)
Result == {Back(b.edge) : b \in best}

-----------------------------------------------------------------------------
(* What a search promises, by a definition of its own: the least cost at    *)
(* which each edge can be driven to its end, over ever longer routes, as    *)
(* the pairs <<edge, cost>>.                                                *)
Cheapest(p) ==
  LET edges == DOMAIN p.h
      start == {<<e, p.seeds[e]>> : e \in DOMAIN p.seeds}
      via(costs) ==
        UNION {{<<t[2], x[2] + p.arc[t]>> : x \in {x \in costs : x[1] = t[1]}} : t \in p.turns}
      least(costs) == {x \in costs : \A y \in costs : x[1] = y[1] => x[2] <= y[2]}
      longer(costs) == least(costs \cup via(costs))
      upTo[n \in 0..Cardinality(edges)] == IF n = 0 THEN start ELSE longer(upTo[n - 1])
  IN upTo[Cardinality(edges)]

CheapestTo(p) ==
  {x[2] + p.dests[x[1]] : x \in {x \in Cheapest(p) : x[1] \in DOMAIN p.dests}}

CostOf(p, r) ==
  LET upTo[n \in 1..Len(r)] ==
        IF n = 1 THEN p.seeds[r[1]] ELSE upTo[n - 1] + p.arc[<<r[n - 1], r[n]>>]
  IN upTo[Len(r)] + p.dests[r[Len(r)]]

(* search.py:22-25, the fixed slack bound is exact: whatever the refunds at *)
(* both ends, the result is a cheapest route, and there is a result if there *)
(* is a route.  What is asked has no negative cost and a consistent         *)
(* heuristic, tests/test_astar_admissible.py:38.                            *)
SearchIsExact ==
  /\ IsProblem(ask)
  /\ found =>
    /\ (Result = {}) = (CheapestTo(ask) = {})
    /\ \A r \in Result :
         /\ \A i \in 1..(Len(r) - 1) : <<r[i], r[i + 1]>> \in ask.turns
         /\ CostOf(ask, r) = Min(CheapestTo(ask))

(* Every edge reached is waiting in the heap under its present cost, or all *)
(* its turns have been followed at that cost: lazy deletion loses nothing.  *)
ReachedAreFollowed ==
  \A e \in DOMAIN dist :
    \/ Entry(ask, e, dist[e]) \in heap
    \/ \A t \in {t \in ask.turns : t[1] = e} :
         t[2] \in DOMAIN dist /\ dist[t[2]] <= dist[e] + ask.arc[t]
=============================================================================
