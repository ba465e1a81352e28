------------------------- MODULE RoutePlannerProofs -------------------------
(***************************************************************************)
(* What RoutePlanner guarantees on every street network, for every         *)
(* request: the searches it runs are exact, two directions of one street   *)
(* are held to one control, what is flagged is tagged, and no alternative  *)
(* costs more than the budget allows.                                      *)
(***************************************************************************)
EXTENDS RoutePlanner, RouteSearchProofs

-----------------------------------------------------------------------------
(* What a plan is made of. *)

LEMMA ArrayIs == \A f : Array(f) = f
BY DEF Array

(* The pack of a network. *)
LEMMA PackIs ==
  ASSUME NEW g
  PROVE  LET p == BuildPack(g)
             edges == EdgesOf(g)
         IN /\ DOMAIN p.edge = DOMAIN edges
            /\ \A e \in DOMAIN edges :
                 LET k == edges[e]
                     c == ControlOf(g, k)
                 IN /\ p.edge[e].tail = k.tail /\ p.edge[e].head = k.head
                    /\ p.edge[e].rank = RankOf(k) /\ p.edge[e].reverse = ReverseOf(edges, e)
                    /\ p.edge[e].lanes = LanesOf(k) /\ p.edge[e].speed = SpeedOf(k)
                    /\ p.edge[e].length = Length(g, k)
                    /\ p.edge[e].control = c.control /\ p.edge[e].stop = c.stop
                    /\ p.edge[e].observed = c.observed
            /\ p.turn = TurnsOf(g, edges)
            /\ DOMAIN p.turn \subseteq (DOMAIN edges) \X (DOMAIN edges)
            /\ \A t \in DOMAIN p.turn : edges[t[1]].head = edges[t[2]].tail
<1> DEFINE p == BuildPack(g)
           edges == EdgesOf(g)
<1>1. /\ DOMAIN p.edge = DOMAIN edges
      /\ \A e \in DOMAIN edges :
           LET k == edges[e]
               c == ControlOf(g, k)
           IN /\ p.edge[e].tail = k.tail /\ p.edge[e].head = k.head
              /\ p.edge[e].rank = RankOf(k) /\ p.edge[e].reverse = ReverseOf(edges, e)
              /\ p.edge[e].lanes = LanesOf(k) /\ p.edge[e].speed = SpeedOf(k)
              /\ p.edge[e].length = Length(g, k)
              /\ p.edge[e].control = c.control /\ p.edge[e].stop = c.stop
              /\ p.edge[e].observed = c.observed
  BY SMTT(30), ArrayIs DEF BuildPack
<1>2. p.turn = TurnsOf(g, edges)
  BY DEF BuildPack
<1> HIDE DEF p, edges
<1>3. DOMAIN TurnsOf(g, edges) =
        {t \in (DOMAIN edges) \X (DOMAIN edges) : edges[t[1]].head = edges[t[2]].tail}
  BY SMTT(30), ArrayIs DEF TurnsOf
<1> QED BY <1>1, <1>2, <1>3 DEF p, edges

(* The time and the traffic of every edge at a departure. *)
LEMMA SnapshotIs ==
  ASSUME NEW p, NEW departure
  PROVE  LET snap == Snapshot(p, departure)
             at(e, what) == Interpolated(Cfg.profiles[ClassGroup(p.edge[e].rank)][what], departure)
         IN /\ DOMAIN snap = DOMAIN p.edge
            /\ \A e \in DOMAIN p.edge :
                 /\ snap[e].time = (100 * p.edge[e].length) \div (p.edge[e].speed * at(e, "speed"))
                 /\ snap[e].volume = (Cfg.baseVolume[p.edge[e].rank] * at(e, "volume")) \div 100
<1> DEFINE rank(e) == p.edge[e].rank
           at(e, what) == Interpolated(Cfg.profiles[ClassGroup(rank(e))][what], departure)
           f == [e \in DOMAIN p.edge |->
                  [time |-> (100 * p.edge[e].length) \div (p.edge[e].speed * at(e, "speed")),
                   volume |-> (Cfg.baseVolume[rank(e)] * at(e, "volume")) \div 100]]
<1>1. Snapshot(p, departure) = Array(f)
  BY Zenon DEF Snapshot
<1>2. /\ DOMAIN f = DOMAIN p.edge
      /\ \A e \in DOMAIN p.edge :
           /\ f[e].time = (100 * p.edge[e].length) \div (p.edge[e].speed * at(e, "speed"))
           /\ f[e].volume = (Cfg.baseVolume[rank(e)] * at(e, "volume")) \div 100
  OBVIOUS
<1> HIDE DEF f
<1> QED BY SMTT(30), <1>1, <1>2, ArrayIs

(* What compute_costs makes of a pack. *)
LEMMA CostsAre ==
  ASSUME NEW p, NEW snap
  PROVE  /\ DOMAIN Costs(p, snap) = DOMAIN p.turn
         /\ \A t \in DOMAIN p.turn :
              /\ Costs(p, snap)[t].time = snap[t[2]].time + Costs(p, snap)[t].delay
              /\ Costs(p, snap)[t].delay = Delay(p, snap, t)
              /\ Costs(p, snap)[t].penalty = Penalty(p, snap, t)
              /\ Costs(p, snap)[t].unsafe = Unsafe(p, snap, t)
BY ArrayIs DEF Costs

(* The point of a snapped edge is that of the request, or its mirror image. *)
LEMMA SnappedIs ==
  ASSUME NEW p, NEW at, at[2] \in 0..100
  PROVE  \A e \in {x[1] : x \in Snapped(p, at)} : FracOn(Snapped(p, at), e) \in 0..100
<1>1. \A x \in Snapped(p, at) : x[2] \in 0..100
  BY DEF Snapped
<1> TAKE e \in {x[1] : x \in Snapped(p, at)}
<1>2. \E x \in Snapped(p, at) : x[1] = e
  OBVIOUS
<1> QED BY <1>1, <1>2 DEF FracOn

LEMMA PlanIs ==
  ASSUME NEW q \in Requests
  PROVE  LET p == PlanOf(q)
         IN /\ p.pack = BuildPack(Networks[q.net])
            /\ p.time = Snapshot(p.pack, q.departure)
            /\ p.price = Costs(p.pack, p.time)
            /\ p.turns \subseteq DOMAIN p.price
            /\ DOMAIN p.time = DOMAIN p.pack.edge /\ DOMAIN p.h = DOMAIN p.pack.edge
            /\ \A e \in DOMAIN p.seed : /\ FracOn(p.origins, e) \in 0..100
                                        /\ p.seed[e] = (100 - FracOn(p.origins, e)) * p.time[e].time
            /\ \A e \in DOMAIN p.refund : /\ FracOn(p.dests, e) \in 0..100
                                          /\ p.refund[e] = 0 - (100 - FracOn(p.dests, e)) * p.time[e].time
            /\ p.origins = Snapped(p.pack, q.origin) /\ p.dests = Snapped(p.pack, q.dest)
            /\ DOMAIN p.seed = {x[1] : x \in p.origins} /\ DOMAIN p.refund = {x[1] : x \in p.dests}
<1> DEFINE p == PlanOf(q)
           pack == BuildPack(Networks[q.net])
           snap == Snapshot(pack, q.departure)
           k == Priced(q.net, pack, snap)
<1>1. Known[<<q.net, q.departure>>] = k
  BY ArrayIs, RequestsAreSane DEF Known, AtTime
<1>2. p = PlanAt(q, k)
  BY <1>1 DEF PlanOf
<1>3. k.pack = pack /\ k.time = snap /\ k.price = Costs(pack, snap)
  BY DEF Priced
<1>4. DOMAIN snap = DOMAIN pack.edge
  BY SnapshotIs
<1>5. DOMAIN k.h[q.dest] = DOMAIN pack.edge
  <2> HIDE DEF pack, snap
  <2>1. DOMAIN Heuristic(Networks[q.net], pack, q.dest) = DOMAIN pack.edge
    BY SMTT(30), ArrayIs DEF Heuristic
  <2>2. k.h = [to \in {r.dest : r \in {r \in Requests : r.net = q.net}} |->
           IF Cfg.astar THEN Heuristic(Networks[q.net], pack, to)
           ELSE [e \in DOMAIN pack.edge |-> 0]]
    BY ArrayIs DEF Priced
  <2> HIDE DEF k
  <2> QED BY <2>1, <2>2
<1> HIDE DEF k, snap, pack
<1>6. /\ p.pack = pack /\ p.time = snap /\ p.price = Costs(pack, snap) /\ p.h = k.h[q.dest]
      /\ p.turns = {t \in DOMAIN pack.turn : pack.turn[t].allowed}
      /\ p.origins = Snapped(pack, q.origin) /\ p.dests = Snapped(pack, q.dest)
  BY <1>2, <1>3 DEF PlanAt
<1>7. p.seed = [e \in {x[1] : x \in p.origins} |-> (100 - FracOn(p.origins, e)) * p.time[e].time]
  BY <1>2, <1>3 DEF PlanAt
<1>8. p.refund = [e \in {x[1] : x \in p.dests} |-> 0 - (100 - FracOn(p.dests, e)) * p.time[e].time]
  BY <1>2, <1>3 DEF PlanAt
<1>9. p.turns \subseteq DOMAIN p.price
  BY <1>6, CostsAre
<1>10. /\ \A e \in {x[1] : x \in p.origins} : FracOn(p.origins, e) \in 0..100
       /\ \A e \in {x[1] : x \in p.dests} : FracOn(p.dests, e) \in 0..100
  <2>1. q.origin[2] \in 0..100 /\ q.dest[2] \in 0..100
    BY RequestsAreSane
  <2> HIDE DEF p
  <2> QED BY <2>1, <1>6, SnappedIs
<1> HIDE DEF p
<1> QED BY ZenonT(40), <1>4, <1>5, <1>6, <1>7, <1>8, <1>9, <1>10 DEF p, pack, snap

-----------------------------------------------------------------------------
(* What SumFunction sums, in whatever order it does.                        *)

Some(s) == CHOOSE x \in s : TRUE

SumOver(f, S) ==
  CHOOSE F : F = [s \in SUBSET S |-> IF s = {} THEN 0 ELSE f[Some(s)] + F[s \ {Some(s)}]]

LEMMA SumIs == \A f : SumFunction(f) = SumOver(f, DOMAIN f)[DOMAIN f]
BY DEF SumFunction, SumFunctionOnSet, FoldFunctionOnSet, MapThenFoldSet, SumOver, Some

(* The recursion of the fold, unfolded. *)
LEMMA SumOverHolds ==
  ASSUME NEW S, IsFiniteSet(S), NEW f, \A x \in S : f[x] \in Int
  PROVE  /\ SumOver(f, S)[{}] = 0
         /\ \A s \in SUBSET S : s # {} =>
              /\ Some(s) \in s
              /\ SumOver(f, S)[s] = f[Some(s)] + SumOver(f, S)[s \ {Some(s)}]
         /\ \A s \in SUBSET S : SumOver(f, S)[s] \in Int
<1> DEFINE N == Cardinality(S)
           SS == SUBSET S
           up(F) == [s \in SS |-> IF s = {} THEN 0 ELSE f[Some(s)] + F[s \ {Some(s)}]]
           zero == [s \in SS |-> 0]
           G == [n \in 1..(N + 1) |-> [F \in [SS -> Int] |-> up(F)]]
           R == Recursion(0, N + 1, zero, G)
<1>1. N \in Nat /\ N + 1 \in Nat
  BY FS_CardinalityType
<1>2. \A s \in SS : s # {} => Some(s) \in s /\ s \ {Some(s)} \in SS /\ f[Some(s)] \in Int
  BY DEF Some
<1>3. \A F \in [SS -> Int] : up(F) \in [SS -> Int]
  BY <1>2
<1>4. zero \in [SS -> Int]
  OBVIOUS
<1>5. R = [n \in 0..(N + 1) |-> IF n = 0 THEN zero ELSE G[n][R[n - 1]]]
  <2> HIDE DEF G, N, zero
  <2> QED BY <1>1, RecursionHolds
<1>6. \A n \in 1..(N + 1), F \in [SS -> Int] : G[n][F] = up(F)
  OBVIOUS
<1> HIDE DEF R, G, N, zero, SS, up
<1>7. R[0] = zero /\ \A n \in 1..(N + 1) : R[n] = G[n][R[n - 1]]
  <2>1. 0 \in 0..(N + 1) /\ \A n \in 1..(N + 1) : n \in 0..(N + 1) /\ n # 0
    BY <1>1
  <2> QED BY <2>1, <1>5, Zenon
<1> DEFINE P == {n \in 0..(N + 1) : R[n] \in [SS -> Int]}
<1>8. 0..(N + 1) \subseteq P
  <2>1. 0 \in P
    BY <1>1, <1>4, <1>7
  <2>2. ASSUME NEW n \in 1..(N + 1), n - 1 \in P PROVE n \in P
    <3>1. n \in 0..(N + 1)
      BY <1>1
    <3> QED BY <3>1, <2>2, <1>3, <1>6, <1>7
  <2>3. 0 \in Nat /\ 0 + 1 = 1
    OBVIOUS
  <2> HIDE DEF P
  <2> QED BY <2>1, <2>2, <2>3, <1>1, InductionFromTo
<1>9. /\ \A n \in 0..(N + 1) : R[n] \in [SS -> Int]
      /\ \A n \in 1..(N + 1) : R[n] = up(R[n - 1])
  <2>1. \A n \in 1..(N + 1) : n - 1 \in 0..(N + 1)
    BY <1>1
  <2> QED BY <2>1, <1>6, <1>7, <1>8
(* A set is summed in as many rounds as it has elements. *)
<1> DEFINE T == {n \in 0..N : \A s \in SS : Cardinality(s) <= n => R[n + 1][s] = R[n][s]}
<1>10. \A s \in SS : /\ IsFiniteSet(s) /\ Cardinality(s) \in Nat /\ Cardinality(s) <= N
                     /\ Cardinality(s) = 0 <=> s = {}
                     /\ s # {} => Cardinality(s \ {Some(s)}) = Cardinality(s) - 1
  <2> TAKE s \in SS
  <2>1. IsFiniteSet(s) /\ Cardinality(s) <= N
    BY FS_Subset DEF SS, N
  <2> QED BY <2>1, <1>2, FS_CardinalityType, FS_EmptySet, FS_RemoveElement
<1>11. \A F : /\ up(F)[{}] = 0
              /\ \A s \in SS : s # {} => up(F)[s] = f[Some(s)] + F[s \ {Some(s)}]
  BY DEF up, SS
<1>12. 0..N \subseteq T
  <2>1. 0 \in T
    <3>1. ASSUME NEW s \in SS, Cardinality(s) <= 0 PROVE R[0 + 1][s] = R[0][s]
      <4>0. Cardinality(s) \in Nat /\ (Cardinality(s) = 0 => s = {})
        BY <1>10, Zenon
      <4>a. Cardinality(s) = 0
        BY <3>1, <4>0
      <4>1. s = {}
        BY <4>0, <4>a, Zenon
      <4>2. R[1] = up(R[0])
        <5>1. 1 \in 1..(N + 1) /\ 1 - 1 = 0
          BY <1>1
        <5> QED BY <5>1, <1>9
      <4>3. R[0][s] = 0
        BY <1>7 DEF zero
      <4>4. R[1][{}] = 0
        BY <4>2, <1>11
      <4>5. R[1][s] = R[0][s]
        BY <4>1, <4>3, <4>4, Zenon
      <4> QED BY <4>5
    <3> QED BY <3>1, <1>1
  <2>2. ASSUME NEW n \in 1..N, n - 1 \in T PROVE n \in T
    <3>1. ASSUME NEW s \in SS, Cardinality(s) <= n PROVE R[n + 1][s] = R[n][s]
      <4>1. n \in 1..(N + 1) /\ n + 1 \in 1..(N + 1) /\ (n - 1) + 1 = n /\ (n + 1) - 1 = n
        BY <1>1
      <4>2. R[n + 1] = up(R[n]) /\ R[n] = up(R[n - 1])
        BY <4>1, <1>9
      <4>3. CASE s = {}
        <5>1. R[n + 1][{}] = 0 /\ R[n][{}] = 0
          BY <4>2, <1>11
        <5> QED BY <4>3, <5>1, Zenon
      <4>4. CASE s # {}
        <5>1. s \ {Some(s)} \in SS /\ Cardinality(s \ {Some(s)}) <= n - 1
          BY <4>4, <3>1, <1>1, <1>2, <1>10
        <5>2. R[n][s \ {Some(s)}] = R[n - 1][s \ {Some(s)}]
          BY <5>1, <4>1, <2>2
        <5>3. /\ R[n + 1][s] = f[Some(s)] + R[n][s \ {Some(s)}]
              /\ R[n][s] = f[Some(s)] + R[n - 1][s \ {Some(s)}]
          BY <4>2, <4>4, <1>11
        <5> QED BY <5>2, <5>3
      <4> QED BY <4>3, <4>4
    <3>2. n \in 0..N
      BY <1>1
    <3> QED BY <3>1, <3>2
  <2>3. 0 \in Nat /\ 0 + 1 = 1
    OBVIOUS
  <2> HIDE DEF T
  <2> QED BY <2>1, <2>2, <2>3, <1>1, InductionFromTo
<1>13. R[N] \in [SS -> Int] /\ up(R[N]) \in [SS -> Int] /\ \A s \in SS : R[N][s] = up(R[N])[s]
  <2>1. N \in 0..N /\ N \in 0..(N + 1) /\ N + 1 \in 1..(N + 1) /\ (N + 1) - 1 = N
    BY <1>1
  <2>2. N \in T
    BY <2>1, <1>12
  <2>3. R[N + 1] = up(R[N])
    BY <2>1, <1>9
  <2> QED BY <2>1, <2>2, <2>3, <1>3, <1>9, <1>10
<1>14. R[N] = up(R[N])
  <2>1. R[N] = [s \in SS |-> R[N][s]] /\ up(R[N]) = [s \in SS |-> up(R[N])[s]]
    BY <1>13
  <2> QED BY <2>1, <1>13, Zenon
<1>15. \E F : F = [s \in SUBSET S |-> IF s = {} THEN 0 ELSE f[Some(s)] + F[s \ {Some(s)}]]
  BY <1>14 DEF up, SS
<1> DEFINE O == SumOver(f, S)
<1>16. O = up(O)
  BY <1>15, Zenon DEF SumOver, up, SS
<1> HIDE DEF O
<1>17. O[{}] = 0 /\ \A s \in SS : s # {} => O[s] = f[Some(s)] + O[s \ {Some(s)}]
  BY <1>16, <1>11, Zenon
<1>18. \A s \in SS : O[s] \in Int
  <2> DEFINE V == {n \in 0..N : \A s \in SS : Cardinality(s) = n => O[s] \in Int}
  <2>1. 0 \in V
    <3>1. ASSUME NEW s \in SS, Cardinality(s) = 0 PROVE O[s] \in Int
      <4>1. s = {}
        BY <3>1, <1>10, Zenon
      <4>2. O[s] = 0
        BY <4>1, <1>17, Zenon
      <4> QED BY <4>2
    <3> QED BY <3>1, <1>1
  <2>2. ASSUME NEW n \in 1..N, n - 1 \in V PROVE n \in V
    <3>1. ASSUME NEW s \in SS, Cardinality(s) = n PROVE O[s] \in Int
      <4>0. Cardinality(s) = 0 <=> s = {}
        BY <1>10, Zenon
      <4>a. Cardinality(s) # 0
        BY <3>1
      <4>b. s # {}
        BY <4>0, <4>a, Zenon
      <4>1. s \ {Some(s)} \in SS /\ Cardinality(s \ {Some(s)}) = n - 1 /\ f[Some(s)] \in Int
        BY <3>1, <4>b, <1>2, <1>10
      <4>2. O[s \ {Some(s)}] \in Int
        BY <4>1, <2>2
      <4>3. O[s] = f[Some(s)] + O[s \ {Some(s)}]
        BY <4>b, <1>17, Zenon
      <4> QED BY <4>1, <4>2, <4>3
    <3>2. n \in 0..N
      BY <1>1
    <3> QED BY <3>1, <3>2
  <2>3. 0 \in Nat /\ 0 + 1 = 1
    OBVIOUS
  <2>4. 0..N \subseteq V
    <3> HIDE DEF V
    <3> QED BY <2>1, <2>2, <2>3, <1>1, InductionFromTo
  <2> TAKE s \in SS
  <2>5. Cardinality(s) \in Nat /\ Cardinality(s) <= N
    BY <1>10, Zenon
  <2>6. Cardinality(s) \in 0..N
    BY <2>5, <1>1
  <2> QED BY <2>4, <2>6
<1>19. {} \in SS
  BY DEF SS
<1> QED BY <1>2, <1>17, <1>18, <1>19 DEF O, SS

(* Any element may come first. *)
LEMMA SumOverTakes ==
  ASSUME NEW S, IsFiniteSet(S), NEW f, \A x \in S : f[x] \in Int
  PROVE  \A s \in SUBSET S : \A x \in s : SumOver(f, S)[s] = f[x] + SumOver(f, S)[s \ {x}]
<1> DEFINE O == SumOver(f, S)
           N == Cardinality(S)
           P == {n \in 0..N : \A s \in SUBSET S : Cardinality(s) = n =>
                                \A x \in s : O[s] = f[x] + O[s \ {x}]}
<1>1. /\ \A s \in SUBSET S : s # {} => Some(s) \in s /\ O[s] = f[Some(s)] + O[s \ {Some(s)}]
      /\ \A s \in SUBSET S : O[s] \in Int
  BY SumOverHolds
<1>2. N \in Nat
  BY FS_CardinalityType
<1>3. \A s \in SUBSET S : /\ IsFiniteSet(s) /\ Cardinality(s) \in Nat /\ Cardinality(s) <= N
                          /\ Cardinality(s) = 0 => s = {}
                          /\ \A x \in s : Cardinality(s \ {x}) = Cardinality(s) - 1
  <2> TAKE s \in SUBSET S
  <2>1. IsFiniteSet(s) /\ Cardinality(s) <= N
    BY FS_Subset
  <2> HIDE DEF N
  <2> QED BY <2>1, FS_CardinalityType, FS_EmptySet, FS_RemoveElement
<1> HIDE DEF O, N
<1>4. 0 \in P
  BY <1>2, <1>3
<1>5. ASSUME NEW n \in 1..N, n - 1 \in P PROVE n \in P
  <2>1. ASSUME NEW s \in SUBSET S, Cardinality(s) = n, NEW x \in s
        PROVE  O[s] = f[x] + O[s \ {x}]
    <3> DEFINE c == Some(s)
               both == s \ {x, c}
    <3>1. c \in s /\ O[s] = f[c] + O[s \ {c}]
      BY <1>1, <2>1
    <3>2. CASE x = c
      BY <3>1, <3>2
    <3>3. CASE x # c
      <4>1. /\ s \ {c} \in SUBSET S /\ Cardinality(s \ {c}) = n - 1 /\ x \in s \ {c}
            /\ s \ {x} \in SUBSET S /\ Cardinality(s \ {x}) = n - 1 /\ c \in s \ {x}
            /\ (s \ {c}) \ {x} = both /\ (s \ {x}) \ {c} = both /\ both \in SUBSET S
        BY <3>1, <3>3, <2>1, <1>3
      <4> HIDE DEF c, both
      <4>2. O[s \ {c}] = f[x] + O[both] /\ O[s \ {x}] = f[c] + O[both]
        BY SMTT(30), <4>1, <1>5
      <4>3. f[x] \in Int /\ f[c] \in Int /\ O[both] \in Int
        BY <4>1, <3>1, <2>1, <1>1
      <4> QED BY <3>1, <4>2, <4>3
    <3> QED BY <3>2, <3>3
  <2>2. n \in 0..N
    BY <1>2
  <2> QED BY <2>1, <2>2
<1>6. 0..N \subseteq P
  <2>1. 0 \in Nat /\ 0 + 1 = 1
    OBVIOUS
  <2> HIDE DEF P
  <2> QED BY <2>1, <1>2, <1>4, <1>5, InductionFromTo
<1> TAKE s \in SUBSET S
<1>7. Cardinality(s) \in 0..N
  BY <1>2, <1>3
<1> QED BY <1>6, <1>7 DEF O

(* The sum over a part does not depend on the rest.                         *)
LEMMA SumOverAgrees ==
  ASSUME NEW S, IsFiniteSet(S), NEW f, \A x \in S : f[x] \in Int,
         NEW T \in SUBSET S, NEW g, \A x \in T : g[x] = f[x]
  PROVE  SumOver(g, T)[T] = SumOver(f, S)[T]
<1> DEFINE O == SumOver(f, S)
           R == SumOver(g, T)
           N == Cardinality(S)
           P == {n \in 0..N : \A s \in SUBSET T : Cardinality(s) = n => R[s] = O[s]}
<1>1. IsFiniteSet(T) /\ \A x \in T : g[x] \in Int
  BY FS_Subset
<1>2. /\ O[{}] = 0
      /\ \A s \in SUBSET S : s # {} => Some(s) \in s /\ O[s] = f[Some(s)] + O[s \ {Some(s)}]
  BY SumOverHolds
<1>3. /\ R[{}] = 0
      /\ \A s \in SUBSET T : s # {} => R[s] = g[Some(s)] + R[s \ {Some(s)}]
  BY <1>1, SumOverHolds
<1>4. N \in Nat
  BY FS_CardinalityType
<1>5. \A s \in SUBSET T : /\ Cardinality(s) \in Nat /\ Cardinality(s) <= N
                          /\ Cardinality(s) = 0 => s = {}
                          /\ \A x \in s : Cardinality(s \ {x}) = Cardinality(s) - 1
  <2> TAKE s \in SUBSET T
  <2>0. s \in SUBSET S
    OBVIOUS
  <2>1. IsFiniteSet(s) /\ Cardinality(s) <= N
    BY <2>0, FS_Subset
  <2> HIDE DEF N
  <2> QED BY <2>1, FS_CardinalityType, FS_EmptySet, FS_RemoveElement
<1> HIDE DEF O, R, N
<1>6. 0 \in P
  <2>1. ASSUME NEW s \in SUBSET T, Cardinality(s) = 0 PROVE R[s] = O[s]
    <3>1. s = {}
      BY <2>1, <1>5, Zenon
    <3> QED BY <3>1, <1>2, <1>3, Zenon
  <2> QED BY <2>1, <1>4
<1>7. ASSUME NEW n \in 1..N, n - 1 \in P PROVE n \in P
  <2>1. ASSUME NEW s \in SUBSET T, Cardinality(s) = n PROVE R[s] = O[s]
    <3>1. CASE s = {}
      BY <3>1, <1>2, <1>3
    <3>2. CASE s # {}
      <4> DEFINE c == Some(s)
      <4>1. c \in s /\ O[s] = f[c] + O[s \ {c}] /\ R[s] = g[c] + R[s \ {c}]
        BY <3>2, <1>2, <1>3
      <4> HIDE DEF c
      <4>2. s \ {c} \in SUBSET T /\ Cardinality(s \ {c}) = n - 1
        BY <4>1, <2>1, <1>5
      <4> QED BY <4>1, <4>2, <1>7
    <3> QED BY <3>1, <3>2
  <2>2. n \in 0..N
    BY <1>4
  <2> QED BY <2>1, <2>2
<1>8. 0..N \subseteq P
  <2>1. 0 \in Nat /\ 0 + 1 = 1
    OBVIOUS
  <2> HIDE DEF P
  <2> QED BY <2>1, <1>4, <1>6, <1>7, InductionFromTo
<1>9. Cardinality(T) \in 0..N
  BY <1>4, <1>5
<1> QED BY <1>8, <1>9 DEF O, R

(* A sum is that of any one value and the others. *)
LEMMA SumTakes ==
  ASSUME NEW f, IsFiniteSet(DOMAIN f), \A x \in DOMAIN f : f[x] \in Int
  PROVE  /\ SumFunction(f) \in Int
         /\ DOMAIN f = {} => SumFunction(f) = 0
         /\ \A x \in DOMAIN f : \A g :
              DOMAIN g = (DOMAIN f) \ {x} /\ (\A y \in DOMAIN g : g[y] = f[y])
                => SumFunction(f) = SumFunction(g) + f[x] /\ SumFunction(g) \in Int
<1> DEFINE S == DOMAIN f
           O == SumOver(f, S)
<1>1. SumFunction(f) = O[S]
  BY SumIs
<1>2. O[{}] = 0 /\ (\A s \in SUBSET S : O[s] \in Int) /\ \A s \in SUBSET S : \A x \in s : O[s] = f[x] + O[s \ {x}]
  BY SumOverHolds, SumOverTakes
<1>3. ASSUME NEW x \in S, NEW g, DOMAIN g = S \ {x}, \A y \in DOMAIN g : g[y] = f[y]
      PROVE  SumFunction(f) = SumFunction(g) + f[x] /\ SumFunction(g) \in Int
  <2> DEFINE T == DOMAIN g
  <2>1. SumFunction(g) = SumOver(g, T)[T]
    BY SumIs
  <2>2. T \in SUBSET S /\ \A y \in T : g[y] = f[y]
    BY <1>3
  <2> HIDE DEF T, S
  <2>3. SumOver(g, T)[T] = O[T]
    BY <2>2, SumOverAgrees DEF S
  <2> HIDE DEF O
  <2>4. O[S] = f[x] + O[T] /\ O[T] \in Int /\ f[x] \in Int
    BY <2>2, <1>2, <1>3 DEF T, S
  <2> QED BY <1>1, <2>1, <2>3, <2>4
<1> HIDE DEF O
<1>4. O[S] \in Int /\ S \in SUBSET S
  BY <1>2
<1> QED BY <1>1, <1>2, <1>3, <1>4

-----------------------------------------------------------------------------
(* What the costs of a plan are made of: numbers, none of them negative.    *)

LEMMA SumIsNatural ==
  ASSUME NEW f, IsFiniteSet(DOMAIN f), \A x \in DOMAIN f : f[x] \in Nat
  PROVE  SumFunction(f) \in Nat
<1> DEFINE S == DOMAIN f
           O == SumOver(f, S)
           N == Cardinality(S)
           P == {n \in 0..N : \A s \in SUBSET S : Cardinality(s) = n => O[s] \in Nat}
<1>1. /\ O[{}] = 0
      /\ \A s \in SUBSET S : s # {} => Some(s) \in s /\ O[s] = f[Some(s)] + O[s \ {Some(s)}]
  <2>1. IsFiniteSet(S) /\ \A x \in S : f[x] \in Int
    OBVIOUS
  <2> HIDE DEF S
  <2> QED BY <2>1, SumOverHolds
<1>2. N \in Nat
  BY FS_CardinalityType
<1>3. \A s \in SUBSET S : /\ Cardinality(s) \in Nat /\ Cardinality(s) <= N
                          /\ Cardinality(s) = 0 => s = {}
                          /\ \A x \in s : Cardinality(s \ {x}) = Cardinality(s) - 1
  <2> TAKE s \in SUBSET S
  <2>1. IsFiniteSet(s) /\ Cardinality(s) <= N
    BY FS_Subset
  <2> HIDE DEF N
  <2> QED BY <2>1, FS_CardinalityType, FS_EmptySet, FS_RemoveElement
<1>4. \A x \in S : f[x] \in Nat
  OBVIOUS
<1>s. SumFunction(f) = O[S]
  BY SumIs
<1> HIDE DEF O, N, S
<1>5. 0 \in P
  <2>1. ASSUME NEW s \in SUBSET S, Cardinality(s) = 0 PROVE O[s] \in Nat
    BY <2>1, <1>1, <1>3
  <2> QED BY <2>1, <1>2
<1>6. ASSUME NEW n \in 1..N, n - 1 \in P PROVE n \in P
  <2>1. ASSUME NEW s \in SUBSET S, Cardinality(s) = n PROVE O[s] \in Nat
    <3>1. CASE s = {}
      BY <3>1, <1>1
    <3>2. CASE s # {}
      <4> DEFINE c == Some(s)
      <4>1. c \in s /\ O[s] = f[c] + O[s \ {c}]
        BY <3>2, <1>1
      <4> HIDE DEF c
      <4>2. s \ {c} \in SUBSET S /\ Cardinality(s \ {c}) = n - 1
        BY <4>1, <2>1, <1>3
      <4>3. f[c] \in Nat /\ O[s \ {c}] \in Nat
        BY <4>1, <4>2, <1>4, <1>6
      <4> QED BY <4>1, <4>3
    <3> QED BY <3>1, <3>2
  <2>2. n \in 0..N
    BY <1>2
  <2> QED BY <2>1, <2>2
<1>7. 0..N \subseteq P
  <2>1. 0 \in Nat /\ 0 + 1 = 1
    OBVIOUS
  <2> HIDE DEF P
  <2> QED BY <2>1, <1>2, <1>5, <1>6, InductionFromTo
<1>8. S \in SUBSET S /\ N \in 0..N /\ Cardinality(S) = N
  BY <1>2 DEF N
<1> QED BY <1>s, <1>7, <1>8

(* The least of a set of naturals, and of two numbers the greater or less. *)
LEMMA MinIs ==
  ASSUME NEW S, S \subseteq Nat, S # {}
  PROVE  Min(S) \in S
BY LeastNat DEF Min

LEMMA OfTwo ==
  ASSUME NEW a \in Int, NEW b \in Int
  PROVE  Min({a, b}) \in {a, b} /\ Max({a, b}) \in {a, b} /\ Max({a, b}) >= b
<1>1. Min({a, b}) \in {a, b}
  <2>1. \E x \in {a, b} : \A y \in {a, b} : x <= y
    OBVIOUS
  <2> QED BY <2>1 DEF Min
<1>2. Max({a, b}) \in {a, b} /\ \A y \in {a, b} : Max({a, b}) >= y
  <2>1. \E x \in {a, b} : \A y \in {a, b} : x >= y
    OBVIOUS
  <2> QED BY <2>1 DEF Max
<1> QED BY <1>1, <1>2

(* pack.py orders the edges by their ends and their way, which tells any    *)
(* two apart; so every number up to how many there are is one of them.      *)
LEMMA EdgesAreLinks ==
  ASSUME NEW g, IsFiniteSet(g.links),
         \A k \in g.links : k.tail \in Nat /\ k.head \in Nat /\ k.way \in Nat,
         \A k, l \in g.links : k.tail = l.tail /\ k.head = l.head /\ k.way = l.way => k = l
  PROVE  /\ Cardinality(g.links) \in Nat
         /\ DOMAIN EdgesOf(g) = 1..Cardinality(g.links)
         /\ \A e \in DOMAIN EdgesOf(g) : EdgesOf(g)[e] \in g.links
<1> DEFINE L == g.links
           N == Cardinality(L)
           below(k) == {l \in L : Before(l, k)}
           f == [k \in L |-> Cardinality(below(k))]
<1>1. /\ \A k \in L : ~Before(k, k)
      /\ \A k, l \in L : k # l => Before(k, l) \/ Before(l, k)
      /\ \A k, l, m \in L : Before(k, l) /\ Before(l, m) => Before(k, m)
  BY DEF Before
<1>2. N \in Nat
  BY FS_CardinalityType
<1>3. \A k \in L : below(k) \in SUBSET L /\ IsFiniteSet(below(k)) /\ Cardinality(below(k)) \in Nat
  <2> TAKE k \in L
  <2>1. below(k) \in SUBSET L
    OBVIOUS
  <2> HIDE DEF below
  <2> QED BY <2>1, FS_Subset, FS_CardinalityType
<1>4. \A k \in L : f[k] \in 0..(N - 1)
  <2> TAKE k \in L
  <2>1. k \notin below(k)
    BY <1>1
  <2>2. f[k] = Cardinality(below(k))
    OBVIOUS
  <2> HIDE DEF below, f
  <2>3. Cardinality(below(k)) <= N /\ Cardinality(below(k)) # N
    BY <2>1, <1>3, FS_Subset
  <2> QED BY <2>2, <2>3, <1>2, <1>3
<1>5. ASSUME NEW k \in L, NEW l \in L, Before(k, l) PROVE f[k] # f[l]
  <2>1. below(k) \in SUBSET below(l) /\ k \in below(l) /\ k \notin below(k)
    BY <1>1, <1>5
  <2>2. f[k] = Cardinality(below(k)) /\ f[l] = Cardinality(below(l))
    OBVIOUS
  <2> HIDE DEF below, f
  <2> QED BY <2>1, <2>2, <1>3, FS_Subset
<1>6. f \in [L -> 0..(N - 1)]
  BY <1>4
<1> HIDE DEF f
<1>7. f \in Injection(L, 0..(N - 1))
  <2>1. \A k, l \in L : f[k] = f[l] => k = l
    BY <1>1, <1>5
  <2> QED BY <1>6, <2>1 DEF Injection, IsInjective
<1>8. IsFiniteSet(0..(N - 1)) /\ Cardinality(0..(N - 1)) = N
  <2> HIDE DEF N
  <2>1. N - 1 \in Int /\ 0 \in Int
    BY <1>2
  <2> QED BY <2>1, <1>2, FS_Interval
<1>9. f \in Surjection(L, 0..(N - 1))
  BY <1>7, <1>8, FS_Injection
<1>10. \A i \in 1..N : \E k \in L : Cardinality(below(k)) = i - 1
  <2> TAKE i \in 1..N
  <2>1. i - 1 \in 0..(N - 1)
    BY <1>2
  <2>2. PICK k \in L : f[k] = i - 1
    BY <2>1, <1>9 DEF Surjection
  <2> QED BY <2>2 DEF f
<1>11. EdgesOf(g) = [i \in 1..N |-> CHOOSE k \in L : Cardinality(below(k)) = i - 1]
  BY ArrayIs DEF EdgesOf
<1> HIDE DEF below, N, L
<1>12. DOMAIN EdgesOf(g) = 1..N /\ \A i \in 1..N : EdgesOf(g)[i] \in L
  BY <1>10, <1>11
<1> QED BY <1>2, <1>12 DEF N, L

(* What BuildPack makes of a street network. *)
Maneuvers == {"STRAIGHT", "LEFT", "RIGHT", "UTURN"}

PackOfRoads(p) ==
  /\ IsFiniteSet(DOMAIN p.edge) /\ DOMAIN p.edge \subseteq Nat \ {0}
  /\ \A e \in DOMAIN p.edge :
       /\ p.edge[e].rank \in DOMAIN DefaultSpeed /\ p.edge[e].reverse \in {0} \cup DOMAIN p.edge
       /\ p.edge[e].speed \in Nat \ {0} /\ p.edge[e].lanes \in Nat /\ p.edge[e].length \in Nat
  /\ DOMAIN p.turn \subseteq (DOMAIN p.edge) \X (DOMAIN p.edge)
  /\ \A t \in DOMAIN p.turn : p.turn[t].maneuver \in Maneuvers

LEMMA LanesAreSane ==
  ASSUME NEW k, RankOf(k) \in DOMAIN DefaultSpeed, k.lanes \subseteq Nat, IsFiniteSet(k.lanes)
  PROVE  LanesOf(k) \in Nat
<1> DEFINE each(n) == IF k.oneway THEN 2 * n ELSE Max({n, 2})
           S == {each(n) : n \in k.lanes}
           f == [n \in k.lanes |-> each(n)]
<1>1. \A n \in k.lanes : each(n) \in Nat
  BY OfTwo
<1>2. LanesOf(k) = IF k.lanes = {} THEN DefaultLanes[RankOf(k)] ELSE Max(S)
  BY DEF LanesOf
<1>3. f \in Surjection(k.lanes, S)
  BY DEF Surjection
<1> HIDE DEF each, f
<1>4. S \subseteq Nat /\ IsFiniteSet(S)
  BY <1>1, <1>3, FS_Surjection
<1>5. k.lanes # {} => S # {}
  OBVIOUS
<1>6. S # {} => Max(S) \in S
  <2> HIDE DEF S
  <2>1. S \subseteq Int
    BY <1>4
  <2> QED BY <2>1, <1>4, MaxIs
<1> QED BY <1>2, <1>4, <1>5, <1>6, DefaultsAreSane

LEMMA LengthIsSane ==
  ASSUME NEW g, NEW k, g.at[k.tail] \in Int \X Int, g.at[k.head] \in Int \X Int
  PROVE  Length(g, k) \in Nat
<1> DEFINE along(i) == IF g.at[k.tail][i] > g.at[k.head][i]
                       THEN g.at[k.tail][i] - g.at[k.head][i]
                       ELSE g.at[k.head][i] - g.at[k.tail][i]
<1>1. \A a \in Int \X Int : a[1] \in Int /\ a[2] \in Int
  OBVIOUS
<1>2. along(1) \in Nat /\ along(2) \in Nat
  BY <1>1
<1>3. Length(g, k) = along(1) + along(2)
  BY DEF Length
<1> HIDE DEF along
<1> QED BY <1>2, <1>3

LEMMA PackIsSane ==
  ASSUME NEW n \in DOMAIN Networks
  PROVE  PackOfRoads(BuildPack(Networks[n]))
<1> DEFINE g == Networks[n]
           edges == EdgesOf(g)
           p == BuildPack(g)
           D == DOMAIN p.edge
<1>1. /\ IsFiniteSet(g.links)
      /\ \A k \in g.links :
           /\ k.tail \in Nat /\ k.head \in Nat /\ k.way \in Nat
           /\ g.at[k.tail] \in Int \X Int /\ g.at[k.head] \in Int \X Int
           /\ k.classes # {} /\ k.classes \subseteq DOMAIN DefaultSpeed
           /\ k.maxspeed \subseteq Nat \ {0} /\ IsFiniteSet(k.maxspeed)
           /\ k.lanes \subseteq Nat /\ IsFiniteSet(k.lanes)
      /\ \A k, l \in g.links : k.tail = l.tail /\ k.head = l.head /\ k.way = l.way => k = l
  BY NetworksAreRoads
<1> HIDE DEF g
<1>2. /\ D = DOMAIN edges
      /\ \A e \in D :
           LET k == edges[e]
           IN /\ p.edge[e].rank = RankOf(k) /\ p.edge[e].reverse = ReverseOf(edges, e)
              /\ p.edge[e].lanes = LanesOf(k) /\ p.edge[e].speed = SpeedOf(k)
              /\ p.edge[e].length = Length(g, k)
      /\ p.turn = TurnsOf(g, edges)
      /\ DOMAIN p.turn \subseteq (DOMAIN edges) \X (DOMAIN edges)
  BY PackIs
<1>3. /\ Cardinality(g.links) \in Nat /\ D = 1..Cardinality(g.links)
      /\ \A e \in D : edges[e] \in g.links
  BY <1>1, <1>2, EdgesAreLinks
<1> HIDE DEF edges, p, D
<1>4. ASSUME NEW k \in g.links
      PROVE  RankOf(k) \in DOMAIN DefaultSpeed /\ SpeedOf(k) \in Nat \ {0}
             /\ LanesOf(k) \in Nat /\ Length(g, k) \in Nat
  <2>1. RankOf(k) \in DOMAIN DefaultSpeed
    BY <1>1, DefaultsAreSane, MinIs DEF RankOf
  <2>2. k.maxspeed # {} => Max(k.maxspeed) \in k.maxspeed
    BY <1>1, MaxIs
  <2>3. SpeedOf(k) \in Nat \ {0}
    BY <2>1, <2>2, <1>1, DefaultsAreSane DEF SpeedOf
  <2>4. LanesOf(k) \in Nat
    BY <2>1, <1>1, LanesAreSane
  <2>5. Length(g, k) \in Nat
    BY <1>1, LengthIsSane
  <2> QED BY <2>1, <2>3, <2>4, <2>5
<1>5. \A e \in D : ReverseOf(edges, e) \in {0} \cup D
  <2> TAKE e \in D
  <2> DEFINE twins == {r \in DOMAIN edges : r # e /\ Opposite(edges[e], edges[r])}
  <2>1. ReverseOf(edges, e) = IF twins = {} THEN 0 ELSE Min(twins)
    BY DEF ReverseOf
  <2>2. twins \subseteq Nat /\ twins \subseteq D
    BY <1>2, <1>3
  <2> HIDE DEF twins
  <2> QED BY <2>1, <2>2, MinIs
<1>6. \A t \in DOMAIN p.turn : p.turn[t].maneuver \in Maneuvers
  <2> DEFINE pairs == {t \in (DOMAIN edges) \X (DOMAIN edges) : edges[t[1]].head = edges[t[2]].tail}
             bearing(e) == Bearing(g.at[edges[e].tail], g.at[edges[e].head])
             turn(t) == WrapDelta(bearing(t[2]) - bearing(t[1]))
             maneuver(t) == ManeuverOf(turn(t), ReverseOf(edges, t[1]) = t[2])
             deadEnd(t) == Cardinality({u \in pairs : u[1] = t[1]}) = 1
             f == [t \in pairs |-> [maneuver |-> maneuver(t),
                                   allowed |-> maneuver(t) # "UTURN" \/ deadEnd(t)]]
  <2>1. TurnsOf(g, edges) = Array(f)
    BY Zenon DEF TurnsOf
  <2>3. DOMAIN f = pairs /\ \A t \in pairs : f[t].maneuver = maneuver(t)
    <3> HIDE DEF pairs, turn, deadEnd
    <3> QED OBVIOUS
  <2>2. \A d, back : ManeuverOf(d, back) \in Maneuvers
    BY DEF ManeuverOf, Maneuvers
  <2> HIDE DEF f, pairs, turn
  <2>4. TurnsOf(g, edges) = f
    BY <2>1, ArrayIs
  <2> QED BY <2>2, <2>3, <2>4, <1>2
<1>7. IsFiniteSet(D)
  <2> DEFINE N == Cardinality(g.links)
  <2>1. N \in Int /\ 1 \in Int /\ D = 1..N
    BY <1>3
  <2> HIDE DEF N
  <2> QED BY <2>1, FS_Interval
<1>8. D \subseteq Nat \ {0}
  BY <1>3
<1> QED BY SMTT(30), <1>2, <1>3, <1>4, <1>5, <1>6, <1>7, <1>8 DEF PackOfRoads, D, p, g

(* The traffic of a departure: between two hours lies nothing less than the *)
(* lesser of both.                                                          *)
LEMMA BetweenHours ==
  ASSUME NEW a \in Nat, NEW b \in Nat, NEW m \in 0..59, NEW low \in Nat, a >= low, b >= low
  PROVE  a + (m * (b - a)) \div 60 \in Nat /\ a + (m * (b - a)) \div 60 >= low
<1> DEFINE x == m * (b - a)
<1>1. CASE b >= a
  <2>1. x \in Nat
    BY <1>1
  <2> HIDE DEF x
  <2>2. x \div 60 \in Nat
    BY <2>1
  <2> QED BY <2>2 DEF x
<1>2. CASE b < a
  <2>1. x \in Int /\ x >= 60 * (b - a)
    BY <1>2
  <2> HIDE DEF x
  <2>2. x \div 60 \in Int /\ x \div 60 >= b - a
    BY <2>1
  <2> QED BY <2>2 DEF x
<1> QED BY <1>1, <1>2

LEMMA InterpolatedIs ==
  ASSUME NEW table, NEW minute \in Nat, NEW low \in Nat,
         \A h \in 0..23 : table[h] \in Nat /\ table[h] >= low
  PROVE  Interpolated(table, minute) \in Nat /\ Interpolated(table, minute) >= low
<1> DEFINE since == (minute - 30) % 1440
           i == since \div 60
           j == (i + 1) % 24
           m == since % 60
<1>1. since \in 0..1439
  OBVIOUS
<1>2. Interpolated(table, minute) = table[i] + (m * (table[j] - table[i])) \div 60
  BY DEF Interpolated
<1> HIDE DEF since
<1>3. i \in 0..23 /\ m \in 0..59
  BY <1>1
<1> HIDE DEF i, m
<1>4. j \in 0..23
  BY <1>3
<1> DEFINE a == table[i]
           b == table[j]
<1>5. a \in Nat /\ b \in Nat /\ a >= low /\ b >= low
  BY <1>3, <1>4
<1> HIDE DEF j, a, b
<1>6. a + (m * (b - a)) \div 60 \in Nat /\ a + (m * (b - a)) \div 60 >= low
  BY <1>3, <1>5, BetweenHours
<1> QED BY <1>2, <1>6 DEF a, b

Traffic(p, snap) ==
  /\ DOMAIN snap = DOMAIN p.edge
  /\ \A e \in DOMAIN snap : snap[e].time \in Nat /\ snap[e].volume \in Nat

LEMMA SnapshotIsSane ==
  ASSUME NEW p, PackOfRoads(p), NEW departure \in Nat
  PROVE  Traffic(p, Snapshot(p, departure))
<1> DEFINE snap == Snapshot(p, departure)
           at(e, what) == Interpolated(Cfg.profiles[ClassGroup(p.edge[e].rank)][what], departure)
<1>1. /\ DOMAIN snap = DOMAIN p.edge
      /\ \A e \in DOMAIN p.edge :
           /\ snap[e].time = (100 * p.edge[e].length) \div (p.edge[e].speed * at(e, "speed"))
           /\ snap[e].volume = (Cfg.baseVolume[p.edge[e].rank] * at(e, "volume")) \div 100
  BY SMTT(30), SnapshotIs
<1> HIDE DEF snap
<1>2. ASSUME NEW e \in DOMAIN p.edge PROVE snap[e].time \in Nat /\ snap[e].volume \in Nat
  <2> DEFINE c == ClassGroup(p.edge[e].rank)
  <2>1. c \in (DOMAIN Cfg.groups) \cup {"local"}
    BY DEF ClassGroup
  <2>2. \A h \in 0..23 : Cfg.profiles[c].speed[h] \in Nat \ {0} /\ Cfg.profiles[c].volume[h] \in Nat
    BY <2>1, CostsAreSane
  <2> HIDE DEF c
  <2>3. at(e, "speed") \in Nat /\ at(e, "speed") >= 1
    <3> DEFINE table == Cfg.profiles[c]["speed"]
    <3>1. \A h \in 0..23 : table[h] \in Nat /\ table[h] >= 1
      BY <2>2
    <3> HIDE DEF table
    <3>2. Interpolated(table, departure) \in Nat /\ Interpolated(table, departure) >= 1
      BY <3>1, InterpolatedIs
    <3> QED BY <3>2 DEF table, c
  <2>4. at(e, "volume") \in Nat
    <3> DEFINE table == Cfg.profiles[c]["volume"]
    <3>1. \A h \in 0..23 : table[h] \in Nat /\ table[h] >= 0
      BY <2>2
    <3> HIDE DEF table
    <3>2. Interpolated(table, departure) \in Nat
      BY <3>1, InterpolatedIs
    <3> QED BY <3>2 DEF table, c
  <2>5. /\ p.edge[e].length \in Nat /\ p.edge[e].speed \in Nat \ {0}
        /\ Cfg.baseVolume[p.edge[e].rank] \in Nat
    BY CostsAreSane DEF PackOfRoads
  <2> HIDE DEF at
  <2>6. p.edge[e].speed * at(e, "speed") \in Nat \ {0} /\ 100 * p.edge[e].length \in Nat
        /\ Cfg.baseVolume[p.edge[e].rank] * at(e, "volume") \in Nat
    BY <2>3, <2>4, <2>5
  <2>7. \A a \in Nat, b \in Nat \ {0} : a \div b \in Nat
    OBVIOUS
  <2> QED BY <2>6, <2>7, <1>1
<1> QED BY <1>1, <1>2 DEF Traffic, snap

(* The penalty of a turn. *)
LEMMA RawIsANumber ==
  ASSUME NEW p, PackOfRoads(p), NEW snap, Traffic(p, snap), NEW t \in DOMAIN p.turn
  PROVE  Raw(p, snap, t) \in Int
<1> DEFINE o == Out(p, t)
           a == Cfg.wMan * Cfg.severity[p.turn[t].maneuver]
           b == Cfg.wSpeed * Norm(o.speed, Cfg.speedCap)
           c == Cfg.wLanes * Norm(o.lanes, Cfg.lanesCap)
           d == Cfg.wVol * Norm(snap[t[2]].volume, Cfg.volumeCap)
           m == IF o.median THEN Cfg.wMed ELSE 0
           base == (a + b + c + d) \div 100 - m
           cf == ControlFactor(p, t)
           gf == GuessedFactor(p, t)
<1>1. t[2] \in DOMAIN p.edge /\ o.speed \in Nat /\ o.lanes \in Nat /\ snap[t[2]].volume \in Nat
      /\ p.turn[t].maneuver \in Maneuvers
  BY DEF PackOfRoads, Traffic, Out
<1>2. ASSUME NEW x \in Nat, NEW cap \in Nat \ {0} PROVE Norm(x, cap) \in Nat
  <2>1. 100 * x \in Nat
    OBVIOUS
  <2>2. \A y \in Nat : y \div cap \in Nat
    OBVIOUS
  <2> QED BY <2>1, <2>2 DEF Norm
<1>3. /\ Cfg.wMan \in Nat /\ Cfg.wSpeed \in Nat /\ Cfg.wLanes \in Nat /\ Cfg.wVol \in Nat
      /\ Cfg.wMed \in Nat /\ Cfg.speedCap \in Nat \ {0} /\ Cfg.lanesCap \in Nat \ {0}
      /\ Cfg.volumeCap \in Nat \ {0} /\ Cfg.severity[p.turn[t].maneuver] \in Nat
  BY <1>1, CostsAreSane DEF Maneuvers
<1> HIDE DEF o
<1>4. a \in Nat /\ b \in Nat /\ c \in Nat /\ d \in Nat /\ m \in Nat
  <2>1. /\ Norm(o.speed, Cfg.speedCap) \in Nat /\ Norm(o.lanes, Cfg.lanesCap) \in Nat
        /\ Norm(snap[t[2]].volume, Cfg.volumeCap) \in Nat
    BY <1>1, <1>2, <1>3
  <2>2. \A x, y \in Nat : x * y \in Nat
    OBVIOUS
  <2> QED BY <2>1, <2>2, <1>3
<1>5. cf \in Nat
  <2>1. {Cfg.stop4way, Cfg.yieldRow, Cfg.yield, Cfg.signalLeft, Cfg.rightOfWay} \subseteq Nat
    BY CostsAreSane
  <2> QED BY <2>1 DEF ControlFactor
<1>6. gf \in Nat
  BY CostsAreSane DEF GuessedFactor
<1>7. Raw(p, snap, t) = IF Protected(Approach(p, t)) THEN 0
                        ELSE (((base * cf) \div 100) * gf) \div 100
  BY DEF Raw, Out, o
<1> HIDE DEF a, b, c, d, m, cf, gf
<1>8. \A x \in Int : x \div 100 \in Int
  OBVIOUS
<1>9. base \in Int
  BY <1>4
<1> HIDE DEF base
<1>10. \A x, y \in Int : x * y \in Int
  OBVIOUS
<1>11. (base * cf) \div 100 \in Int
  BY <1>5, <1>8, <1>9, <1>10
<1>12. (((base * cf) \div 100) * gf) \div 100 \in Int
  BY <1>6, <1>8, <1>10, <1>11
<1> QED BY <1>7, <1>12

LEMMA PenaltyIsNatural ==
  ASSUME NEW p, PackOfRoads(p), NEW snap, Traffic(p, snap), NEW t \in DOMAIN p.turn
  PROVE  Penalty(p, snap, t) \in Nat
<1> DEFINE r == Raw(p, snap, t)
           m == Max({r, 0})
           u == IF Is(p, t, "UTURN") THEN Cfg.uturn ELSE 0
<1>1. r \in Int
  BY RawIsANumber
<1>2. Cfg.k \in Nat /\ u \in Nat
  BY CostsAreSane
<1>3. Penalty(p, snap, t) = (Cfg.k * m) \div 100 + u
  BY DEF Penalty
<1> HIDE DEF r, u
<1>4. m \in Nat
  BY <1>1, OfTwo
<1> HIDE DEF m
<1>5. Cfg.k * m \in Nat /\ \A x \in Nat : x \div 100 \in Nat
  BY <1>2, <1>4
<1> QED BY <1>2, <1>3, <1>5

(* The wait at a junction, the series of adams_delay_s term by term. *)
AdamsTerms(q, tc) ==
  CHOOSE term : term =
    [n \in 2..8 |-> IF n = 2 THEN (q * tc * tc) \div 7200
                    ELSE (term[n - 1] * ((q * tc) \div 360)) \div (100 * n)]

LEMMA AdamsIsNatural ==
  ASSUME NEW q \in Nat, NEW tc \in Nat
  PROVE  Adams(q, tc) \in Nat
<1> DEFINE x == (q * tc) \div 360
           b == (q * tc * tc) \div 7200
           G == [n \in 3..8 |-> [v \in Nat |-> (v * x) \div (100 * n)]]
           R == Recursion(2, 8, b, G)
           term == AdamsTerms(q, tc)
<1>1. x \in Nat /\ b \in Nat
  <2>1. q * tc \in Nat
    OBVIOUS
  <2>2. q * tc * tc \in Nat
    BY <2>1
  <2>3. \A a \in Nat : a \div 360 \in Nat /\ a \div 7200 \in Nat
    OBVIOUS
  <2> QED BY <2>1, <2>2, <2>3
<1>2. Adams(q, tc) = Min({SumFunction(term) \div 100, Cfg.delayCap})
  BY DEF Adams, AdamsTerms
<1>3. \E f : f = [n \in 2..8 |-> IF n = 2 THEN b ELSE (f[n - 1] * x) \div (100 * n)]
  <2>1. R = [n \in 2..8 |-> IF n = 2 THEN b ELSE G[n][R[n - 1]]]
    <3> DEFINE lo == 2
               hi == 8
    <3>1. lo \in Nat /\ hi \in Nat
      OBVIOUS
    <3> HIDE DEF G, b, lo, hi
    <3>2. Recursion(lo, hi, b, G) =
            [n \in lo..hi |-> IF n = lo THEN b ELSE G[n][Recursion(lo, hi, b, G)[n - 1]]]
      BY <3>1, RecursionHolds
    <3> QED BY <3>2 DEF lo, hi
  <2>2. \A n \in 3..8, v \in Nat : G[n][v] = (v * x) \div (100 * n) /\ G[n][v] \in Nat
    <3> TAKE n \in 3..8, v \in Nat
    <3>1. G[n][v] = (v * x) \div (100 * n)
      OBVIOUS
    <3> HIDE DEF G, x
    <3>2. v * x \in Nat /\ 100 * n \in Nat \ {0}
      BY <1>1
    <3>3. \A a \in Nat, c \in Nat \ {0} : a \div c \in Nat
      OBVIOUS
    <3> QED BY <3>1, <3>2, <3>3
  <2> HIDE DEF R, G, x, b
  <2>3. R[2] = b /\ \A n \in 3..8 : R[n] = G[n][R[n - 1]]
    BY <2>1
  <2>4. 2..8 \subseteq {n \in 2..8 : R[n] \in Nat}
    <3> DEFINE P == {n \in 2..8 : R[n] \in Nat}
    <3>1. 2 \in P
      BY <2>3, <1>1
    <3>2. ASSUME NEW n \in 3..8, n - 1 \in P PROVE n \in P
      BY <3>2, <2>2, <2>3
    <3>3. 2 \in Nat /\ 8 \in Nat /\ 2 + 1 = 3
      OBVIOUS
    <3> HIDE DEF P
    <3>4. 2..8 \subseteq P
      BY <3>1, <3>2, <3>3, InductionFromTo
    <3> QED BY <3>4 DEF P
  <2>5. \A n \in 2..8 : R[n] = IF n = 2 THEN b ELSE (R[n - 1] * x) \div (100 * n)
    BY <2>2, <2>3, <2>4
  <2>6. R = [n \in 2..8 |-> IF n = 2 THEN b ELSE (R[n - 1] * x) \div (100 * n)]
    <3>1. R = [n \in 2..8 |-> R[n]]
      BY <2>1
    <3> QED BY <3>1, <2>5, Zenon
  <2> QED BY <2>6
<1>4. term = [n \in 2..8 |-> IF n = 2 THEN b ELSE (term[n - 1] * x) \div (100 * n)]
  BY ZenonT(40), <1>3 DEF AdamsTerms
<1> HIDE DEF term, x, b, G, R
<1>5. DOMAIN term = 2..8 /\ \A n \in 2..8 : term[n] = IF n = 2 THEN b ELSE (term[n - 1] * x) \div (100 * n)
  BY <1>4
<1>6. \A n \in 2..8 : term[n] \in Nat
  <2> DEFINE P == {n \in 2..8 : term[n] \in Nat}
  <2>1. 2 \in P
    BY <1>1, <1>5
  <2>2. ASSUME NEW n \in 3..8, n - 1 \in P PROVE n \in P
    <3>1. term[n - 1] \in Nat /\ n \in 2..8 /\ term[n] = (term[n - 1] * x) \div (100 * n)
      BY <2>2, <1>5
    <3>2. term[n - 1] * x \in Nat /\ 100 * n \in Nat \ {0}
      BY <3>1, <1>1
    <3>3. \A a \in Nat, c \in Nat \ {0} : a \div c \in Nat
      OBVIOUS
    <3> QED BY <3>1, <3>2, <3>3
  <2>3. 2 \in Nat /\ 8 \in Nat /\ 2 + 1 = 3
    OBVIOUS
  <2> HIDE DEF P
  <2>4. 2..8 \subseteq P
    BY <2>1, <2>2, <2>3, InductionFromTo
  <2> QED BY <2>4 DEF P
<1>7. SumFunction(term) \in Nat
  <2>1. IsFiniteSet(DOMAIN term)
    <3>1. 2 \in Int /\ 8 \in Int
      OBVIOUS
    <3>2. IsFiniteSet(2..8)
      BY <3>1, FS_Interval
    <3> QED BY <3>2, <1>5
  <2> QED BY <2>1, <1>5, <1>6, SumIsNatural
<1> DEFINE wait == SumFunction(term) \div 100
           cap == Cfg.delayCap
<1>8. wait \in Nat /\ cap \in Nat
  BY <1>7, CostsAreSane
<1>9. Adams(q, tc) = Min({wait, cap})
  BY <1>2
<1> HIDE DEF wait, cap
<1>10. Min({wait, cap}) \in {wait, cap}
  BY <1>8, OfTwo
<1> QED BY <1>8, <1>9, <1>10

LEMMA DelayIsNatural ==
  ASSUME NEW p, PackOfRoads(p), NEW snap, Traffic(p, snap), NEW t \in DOMAIN p.turn
  PROVE  Delay(p, snap, t) \in Nat
<1> DEFINE flow(e) == (snap[e].volume * p.edge[e].lanes) \div 2
           gap == Gap(p, t)
           f == [e \in gap.legs |-> flow(e)]
           D == DOMAIN p.edge
<1>1. FixedWait(p, t) \in Nat
  <2>1. {Cfg.allWayStop, Cfg.signalMajor, Cfg.signalMinor} \subseteq Nat
    BY CostsAreSane
  <2> QED BY <2>1 DEF FixedWait
<1>2. gap.legs \subseteq D /\ gap.tc \in Nat
  <2>1. /\ \A n : Into(p, n) \subseteq D
        /\ \A e : Feeders(p, e) \subseteq D
        /\ \A e : Oncoming(p, e) \subseteq D
        /\ {Out(p, t).reverse} \ {0} \subseteq D
    BY DEF Into, Feeders, Oncoming, Out, PackOfRoads
  <2>2. {Cfg.tcCrossing, Cfg.tcLeft, Cfg.tcLeftWide, Cfg.tcRight, Cfg.tcPriorityLeft} \subseteq Nat
    BY CostsAreSane
  <2> HIDE DEF D
  <2> QED BY <2>1, <2>2 DEF Gap
<1>3. \A e \in D : flow(e) \in Nat
  <2> TAKE e \in D
  <2>1. snap[e].volume \in Nat /\ p.edge[e].lanes \in Nat
    BY DEF PackOfRoads, Traffic
  <2>2. snap[e].volume * p.edge[e].lanes \in Nat /\ \A x \in Nat : x \div 2 \in Nat
    BY <2>1
  <2> QED BY <2>2
<1>4. Delay(p, snap, t) = IF Is(p, t, "UTURN") THEN 0
                          ELSE FixedWait(p, t) + Adams(SumFunction(f), gap.tc)
  BY DEF Delay
<1>5. IsFiniteSet(D)
  BY DEF PackOfRoads
<1>6. DOMAIN f = gap.legs /\ \A e \in gap.legs : f[e] = flow(e)
  OBVIOUS
<1> HIDE DEF flow, gap, f, D
<1>7. SumFunction(f) \in Nat
  <2>1. IsFiniteSet(DOMAIN f)
    BY <1>2, <1>5, <1>6, FS_Subset
  <2> QED BY <2>1, <1>2, <1>3, <1>6, SumIsNatural
<1>8. Adams(SumFunction(f), gap.tc) \in Nat
  BY <1>2, <1>7, AdamsIsNatural
<1> QED BY <1>1, <1>4, <1>8

(* So what is asked of the search is a problem: the times of a plan with a  *)
(* consistent heuristic.                                                    *)
LEMMA PlansAreRoads ==
  ASSUME NEW q \in Requests, NEW p, p = PlanOf(q)
  PROVE  /\ IsProblem(ProblemOf(p, ArcCost(p.price, 0)))
         /\ \A e \in DOMAIN p.time : p.time[e].time \in Nat
         /\ \A t \in DOMAIN p.price : p.price[t].delay \in Nat /\ p.price[t].penalty \in Nat
<1> DEFINE g == Networks[q.net]
           pack == BuildPack(g)
           D == DOMAIN pack.edge
           asked == ArcCost(p.price, 0)
<1>1. /\ p.pack = pack /\ p.time = Snapshot(pack, q.departure) /\ p.price = Costs(pack, p.time)
      /\ p.turns \subseteq DOMAIN p.price /\ DOMAIN p.h = D
      /\ \A e \in DOMAIN p.seed : /\ FracOn(p.origins, e) \in 0..100
                                  /\ p.seed[e] = (100 - FracOn(p.origins, e)) * p.time[e].time
      /\ \A e \in DOMAIN p.refund : /\ FracOn(p.dests, e) \in 0..100
                                    /\ p.refund[e] = 0 - (100 - FracOn(p.dests, e)) * p.time[e].time
      /\ DOMAIN p.seed = {x[1] : x \in Snapped(pack, q.origin)}
      /\ DOMAIN p.refund = {x[1] : x \in Snapped(pack, q.dest)}
  BY PlanIs
<1>2. PackOfRoads(pack)
  BY PackIsSane, RequestsAreSane
<1>3. Traffic(pack, p.time)
  BY <1>1, <1>2, SnapshotIsSane, RequestsAreSane
<1>4. q.origin[1] \in D /\ q.dest[1] \in D
  <2>1. D = DOMAIN EdgesOf(g)
    BY PackIs
  <2>2. DOMAIN EdgesOf(g) = 1..Cardinality(g.links)
    BY ArrayIs DEF EdgesOf
  <2>3. {q.origin[1], q.dest[1]} \subseteq 1..Cardinality(g.links)
    BY RequestsAreSane
  <2> QED BY <2>1, <2>2, <2>3
<1> HIDE DEF pack, D, g, asked
<1>5. /\ DOMAIN p.price = DOMAIN pack.turn
      /\ \A t \in DOMAIN pack.turn :
           /\ p.price[t].time = p.time[t[2]].time + p.price[t].delay
           /\ p.price[t].delay = Delay(pack, p.time, t)
           /\ p.price[t].penalty = Penalty(pack, p.time, t)
  BY <1>1, CostsAre
<1>6. \A t \in DOMAIN p.price : p.price[t].delay \in Nat /\ p.price[t].penalty \in Nat
  BY <1>2, <1>3, <1>5, DelayIsNatural, PenaltyIsNatural
<1>7. /\ DOMAIN p.time = D /\ IsFiniteSet(D) /\ D \subseteq Nat \ {0}
      /\ \A e \in D : p.time[e].time \in Nat /\ pack.edge[e].reverse \in {0} \cup D
      /\ DOMAIN pack.turn \subseteq D \X D
  BY <1>2, <1>3 DEF PackOfRoads, Traffic, D
<1>8. ASSUME NEW at, at[1] \in D PROVE {x[1] : x \in Snapped(pack, at)} \subseteq D
  <2> DEFINE back == pack.edge[at[1]].reverse
             twin == <<back, 100 - at[2]>>
  <2>1. back \in {0} \cup D /\ twin[1] = back
    BY <1>7, <1>8
  <2>2. Snapped(pack, at) = {at} \cup (IF back = 0 THEN {} ELSE {twin})
    BY DEF Snapped
  <2> HIDE DEF back, twin
  <2> QED BY <2>1, <2>2, <1>8
<1>9. /\ DOMAIN p.seed \subseteq D /\ \A e \in DOMAIN p.seed : p.seed[e] \in Nat
      /\ DOMAIN p.refund \subseteq D /\ \A e \in DOMAIN p.refund : p.refund[e] \in Int
  <2>1. DOMAIN p.seed \subseteq D /\ DOMAIN p.refund \subseteq D
    BY <1>1, <1>4, <1>8
  <2>2. \A f \in 0..100, x \in Nat : (100 - f) * x \in Nat /\ 0 - (100 - f) * x \in Int
    OBVIOUS
  <2>3. \A e \in DOMAIN p.seed : p.seed[e] \in Nat
    <3> TAKE e \in DOMAIN p.seed
    <3>1. /\ FracOn(p.origins, e) \in 0..100 /\ p.time[e].time \in Nat
          /\ p.seed[e] = (100 - FracOn(p.origins, e)) * p.time[e].time
      BY <2>1, <1>1, <1>7
    <3> QED BY <3>1, <2>2
  <2>4. \A e \in DOMAIN p.refund : p.refund[e] \in Int
    <3> TAKE e \in DOMAIN p.refund
    <3>1. /\ FracOn(p.dests, e) \in 0..100 /\ p.time[e].time \in Nat
          /\ p.refund[e] = 0 - (100 - FracOn(p.dests, e)) * p.time[e].time
      BY <2>1, <1>1, <1>7
    <3> QED BY <3>1, <2>2
  <2> QED BY <2>1, <2>3, <2>4
<1>10. ASSUME NEW t \in p.turns
       PROVE  asked[t] \in Nat /\ p.h[t[1]] <= asked[t] + p.h[t[2]] /\ t \in D \X D
  <2>1. t \in DOMAIN p.price /\ t \in D \X D
    BY <1>1, <1>5, <1>7
  <2>2. asked[t] = 100 * p.price[t].time + 0 * p.price[t].penalty
    BY <2>1 DEF ArcCost, asked
  <2>3. p.price[t].time \in Nat /\ p.price[t].penalty \in Nat
    BY <2>1, <1>5, <1>6, <1>7
  <2>4. p.h[t[1]] <= asked[t] + p.h[t[2]]
    BY HeuristicIsConsistent DEF asked
  <2> QED BY <2>1, <2>2, <2>3, <2>4
<1>11. \A e \in D : p.h[e] \in Nat
  BY <1>1, HeuristicIsConsistent
<1>12. IsProblem(ProblemOf(p, asked))
  BY ZenonT(40), <1>1, <1>7, <1>9, <1>10, <1>11 DEF IsProblem, ProblemOf
<1> QED BY <1>6, <1>7, <1>12 DEF asked

-----------------------------------------------------------------------------
(* Two directions of one street. *)

(* The arms of one street show the same once they are harmonized ...        *)
LEMMA StreetShows ==
  ASSUME NEW o, NEW j, NEW arms, NEW a \in DOMAIN arms, NEW b \in DOMAIN arms,
         StreetOf(o, j, a) = StreetOf(o, j, b), StreetOf(o, j, a) # NULL
  PROVE  /\ DOMAIN Harmonized(o, j, arms) = DOMAIN arms
         /\ Harmonized(o, j, arms)[a] = Harmonized(o, j, arms)[b]
BY DEF Harmonized

(* ... and what is resolved of an arm rests on what it shows.               *)
LEMMA ResolvedIs ==
  ASSUME NEW tag, NEW arms
  PROVE  /\ DOMAIN Resolved(tag, arms) \in {{}, DOMAIN arms}
         /\ \A a, b \in DOMAIN Resolved(tag, arms) :
              arms[a] = arms[b] => Resolved(tag, arms)[a] = Resolved(tag, arms)[b]
<1> DEFINE S == Resolved(tag, arms)
           stops == {far \in DOMAIN arms : "stop" \in arms[far]}
           yields == {far \in DOMAIN arms : "give_way" \in arms[far]}
           all(c, stop) == [far \in DOMAIN arms |-> [control |-> c, stop |-> stop]]
           some(c, held) == [far \in DOMAIN arms |-> [control |-> c, stop |-> far \in held]]
           Good(f) == /\ DOMAIN f \in {{}, DOMAIN arms}
                      /\ \A a, b \in DOMAIN f : arms[a] = arms[b] => f[a] = f[b]
<1>1. \A c, stop : Good(all(c, stop))
  OBVIOUS
<1>2. \A c : Good(some(c, stops))
  OBVIOUS
<1>3. \A c : Good(some(c, yields))
  OBVIOUS
<1>4. Good([far \in {} |-> NULL])
  OBVIOUS
<1>5. \/ \E c, stop : S = all(c, stop)
      \/ \E c : S = some(c, stops) \/ S = some(c, yields)
      \/ S = [far \in {} |-> NULL]
  BY ZenonT(40) DEF Resolved
<1> HIDE DEF Good, S, all, some
<1>6. Good(S)
  BY <1>1, <1>2, <1>3, <1>4, <1>5
<1> QED BY <1>6 DEF Good, S

LEMMA StreetIsOne ==
  ASSUME NEW g, NEW k, NEW l, k.head = l.head,
         k.tail \in DOMAIN Arms(g, k.head), l.tail \in DOMAIN Arms(g, k.head),
         StreetOf(g, k.head, k.tail) = StreetOf(g, k.head, l.tail),
         StreetOf(g, k.head, k.tail) # NULL
  PROVE  /\ ControlOf(g, k).control = ControlOf(g, l).control
         /\ \/ ControlOf(g, k).stop = ControlOf(g, l).stop
            \/ RankOf(k) # RankOf(l) /\ DOMAIN Harvested(g, k.head) = {}
<1> DEFINE j == k.head
           arms == Harmonized(g, j, Arms(g, j))
           seen == Harvested(g, j)
           into == {m \in g.links : m.head = j}
           out == {m \in g.links : m.tail = j}
           ranks == {RankOf(m) : m \in into}
           legs == {m.tail : m \in into} \cup {m.head : m \in out}
           node == Classified(g.tag[j], into \cup out, legs \ {j}, ranks)
           ControlIs(x) == ControlOf(g, x) =
             IF node.control # "ROUNDABOUT" /\ x.tail \in DOMAIN seen
             THEN [control |-> seen[x.tail].control, stop |-> seen[x.tail].stop, observed |-> TRUE]
             ELSE [control |-> node.control, stop |-> MustStop(node.control, RankOf(x), ranks),
                   observed |-> node.observed]
<1>1. ControlIs(k)
  BY DEF ControlOf
<1>2. ControlIs(l)
  BY DEF ControlOf
<1>3. /\ k.tail \in DOMAIN seen <=> l.tail \in DOMAIN seen
      /\ k.tail \in DOMAIN seen => seen[k.tail] = seen[l.tail]
      /\ k.tail \notin DOMAIN seen => DOMAIN seen = {}
  <2> DEFINE all == Arms(g, j)
  <2>1. k.tail \in DOMAIN all /\ l.tail \in DOMAIN all
    OBVIOUS
  <2>2. StreetOf(g, j, k.tail) = StreetOf(g, j, l.tail) /\ StreetOf(g, j, k.tail) # NULL
    OBVIOUS
  <2>3. seen = Resolved(g.tag[j], arms)
    BY DEF Harvested
  <2> HIDE DEF all, j, seen
  <2>4. DOMAIN arms = DOMAIN all /\ arms[k.tail] = arms[l.tail]
    BY <2>1, <2>2, StreetShows DEF all
  <2> HIDE DEF arms
  <2> QED BY <2>1, <2>3, <2>4, ResolvedIs
<1>4. \A r, s : MustStop("ROUNDABOUT", r, ranks) = MustStop("ROUNDABOUT", s, ranks)
  BY DEF MustStop
<1> HIDE DEF node, seen, ranks
<1>5. CASE node.control # "ROUNDABOUT" /\ k.tail \in DOMAIN seen
  BY <1>1, <1>2, <1>3, <1>5
<1>6. CASE ~(node.control # "ROUNDABOUT" /\ k.tail \in DOMAIN seen)
  <2>1. /\ ControlOf(g, k).control = node.control /\ ControlOf(g, l).control = node.control
        /\ ControlOf(g, k).stop = MustStop(node.control, RankOf(k), ranks)
        /\ ControlOf(g, l).stop = MustStop(node.control, RankOf(l), ranks)
    BY <1>1, <1>2, <1>3, <1>6
  <2>2. CASE RankOf(k) = RankOf(l)
    BY <2>1, <2>2
  <2>3. CASE node.control = "ROUNDABOUT"
    BY <2>1, <2>3, <1>4
  <2>4. CASE RankOf(k) # RankOf(l) /\ k.tail \notin DOMAIN seen
    BY <2>1, <2>4, <1>3 DEF seen
  <2> QED BY <2>2, <2>3, <2>4, <1>6
<1> QED BY <1>5, <1>6

(* The plan is that of the request, which stays. *)
PlanInv ==
  /\ req \in Requests
  /\ pc # "resolve" => plan = PlanOf(req)

LEMMA PlanHolds == Spec => []PlanInv
<1>1. Init => PlanInv
  BY DEF Init, PlanInv
<1>2. PlanInv /\ [Next]_vars => PlanInv'
  <2> SUFFICES ASSUME PlanInv, [Next]_vars PROVE PlanInv'
    OBVIOUS
  <2>1. CASE UNCHANGED vars
    BY <2>1 DEF vars, plannerVars, PlanInv
  <2>2. CASE Search
    BY <2>2 DEF Search, plannerVars, PlanInv
  <2>3. CASE Resolve
    BY <2>3 DEF Resolve, PlanInv
  <2>4. ASSUME ~Search, ~Resolve, Next PROVE pc # "resolve" /\ UNCHANGED <<req, plan>>
    BY <2>4 DEF Next, ShortCircuit, RunLevel, LevelRun, RunAvoiding, AvoidRun, Diversify, Rerun,
       Drop, Keep, Reply, SingleRun, RunBaseline, BaselineRun, ReplySingle, Answer
  <2> QED BY <2>1, <2>2, <2>3, <2>4 DEF PlanInv
<1> QED BY <1>1, <1>2, PTL DEF Spec

(* approach_controls.py:230-262, pack.py:150-185: two directions of one      *)
(* named street that meet at a junction are held to one control there, on    *)
(* every network and whatever is tagged; one is held alone only by a stop or *)
(* yield on the junction's own node, where the street changes its class.     *)
THEOREM StreetsAgree == Spec => []StreetAgrees
<1>1. PlanInv => StreetAgrees
  <2> SUFFICES ASSUME PlanInv, pc = "planned" PROVE StreetAgrees
    BY DEF StreetAgrees
  <2> DEFINE g == Networks[req.net]
             edges == EdgesOf(g)
             p == BuildPack(g)
  <2>1. Pack = p
    BY PlanIs DEF PlanInv, Pack
  <2>2. /\ DOMAIN p.edge = DOMAIN edges
        /\ \A e \in DOMAIN edges :
             /\ p.edge[e].tail = edges[e].tail /\ p.edge[e].head = edges[e].head
             /\ p.edge[e].rank = RankOf(edges[e])
             /\ p.edge[e].control = ControlOf(g, edges[e]).control
             /\ p.edge[e].stop = ControlOf(g, edges[e]).stop
    BY PackIs
  <2> HIDE DEF g, edges, p
  <2>3. ASSUME NEW e \in DOMAIN p.edge, NEW f \in DOMAIN p.edge, p.edge[e].head = p.edge[f].head,
               {p.edge[e].tail, p.edge[f].tail} \subseteq DOMAIN Arms(g, p.edge[e].head),
               StreetOf(g, p.edge[e].head, p.edge[e].tail) # NULL,
               StreetOf(g, p.edge[e].head, p.edge[e].tail)
                 = StreetOf(g, p.edge[f].head, p.edge[f].tail)
        PROVE  /\ p.edge[e].control = p.edge[f].control
               /\ \/ p.edge[e].stop = p.edge[f].stop
                  \/ p.edge[e].rank # p.edge[f].rank /\ DOMAIN Harvested(g, p.edge[e].head) = {}
    <3> DEFINE k == edges[e]
               l == edges[f]
    <3>1. /\ k.head = l.head
          /\ k.tail \in DOMAIN Arms(g, k.head) /\ l.tail \in DOMAIN Arms(g, k.head)
          /\ StreetOf(g, k.head, k.tail) = StreetOf(g, k.head, l.tail)
          /\ StreetOf(g, k.head, k.tail) # NULL
      BY <2>2, <2>3
    <3> HIDE DEF k, l
    <3>2. /\ ControlOf(g, k).control = ControlOf(g, l).control
          /\ \/ ControlOf(g, k).stop = ControlOf(g, l).stop
             \/ RankOf(k) # RankOf(l) /\ DOMAIN Harvested(g, k.head) = {}
      BY <3>1, StreetIsOne
    <3> QED BY <2>2, <2>3, <3>2 DEF k, l
  <2> QED BY <2>1, <2>3 DEF StreetAgrees, g
<1> QED BY <1>1, PlanHolds, PTL

-----------------------------------------------------------------------------
(* What the sweep keeps to, step by step. *)

(* Costs no turn of which is below its time. *)
GoodCosts(p, costs) ==
  /\ DOMAIN costs = DOMAIN p.price
  /\ \A t \in DOMAIN costs : costs[t] \in Nat /\ 100 * p.price[t].time <= costs[t]

(* The problem of the times alone, its routes, and what one takes.          *)
TimesOf(p) == ProblemOf(p, ArcCost(p.price, 0))
RoutesOf(p) == {r \in Seq(DOMAIN p.h) : IsRoute(TimesOf(p), r)}
TimeOf(p, r) ==
  p.seed[r[1]] + SumFunction([t \in TurnsTaken(r) |-> ArcCost(p.price, 0)[t]]) + p.refund[r[Len(r)]]
FlaggedOf(p, r) == Cardinality({t \in TurnsTaken(r) : p.price[t].unsafe # NULL})

Running == {"level", "avoiding", "rerun", "fastest"}
OfSweep == {"resolve", "planned", "level", "avoid", "avoiding", "decide", "rerun", "done"}
OfReroute == {"resolve", "planned", "level", "baseline", "fastest", "avoid", "avoiding",
              "single", "done"}
Between == {"resolve", "planned", "done"}

(* Every run asks for a problem whose costs are good, at a level there is. *)
RunInv ==
  /\ pc \in IF Replying THEN OfReroute ELSE OfSweep
  /\ slot \in Nat \ {0} /\ (pc = "resolve" => slot = 1)
  /\ pc \notin Between => slot <= Len(Sweep) /\ GoodCosts(plan, arc)
  /\ pc \in Running => ask = ProblemOf(plan, ask.arc) /\ GoodCosts(plan, ask.arc)

Levels == {"fast", "balanced", "safe"}
Alternatives(p) == [kind : Levels, route : RoutesOf(p)]
WithRoute == {"avoid", "avoiding", "decide", "rerun", "baseline", "fastest"}

(* What is chosen and what is kept are routes.                              *)
RouteInv ==
  /\ pc \in WithRoute => route \in RoutesOf(plan)
  /\ pc = "single" => route = <<>> \/ route \in RoutesOf(plan)
  /\ kept \in Seq(Alternatives(plan))
  /\ pc = "resolve" \/ Replying => kept = <<>>

(* The first slot is the fast one: its run finds a fastest route or there   *)
(* is none, and the route is kept.                                          *)
FirstSlot ==
  /\ kept = <<>>
  /\ pc \in Between \cup {"level"} => fast = NULL
  /\ pc = "level" => ask = TimesOf(plan)
  /\ pc \in Between \cup {"level", "decide"}
  /\ pc = "decide" => /\ floor = FlaggedOf(plan, route)
                      /\ fast = TimeOf(plan, route)
                      /\ \A r \in RoutesOf(plan) : fast <= TimeOf(plan, r)

LaterSlots ==
  \/ fast = NULL /\ kept = <<>> /\ RoutesOf(plan) = {}
  \/ /\ kept # <<>> /\ fast = TimeOf(plan, kept[1].route)
     /\ \A r \in RoutesOf(plan) : fast <= TimeOf(plan, r)

BudgetInv == ~Replying => IF slot = 1 THEN FirstSlot ELSE LaterSlots

PlannerInv == PlanInv /\ ExactInv /\ RunInv /\ RouteInv /\ BudgetInv

(* The costs of a plan, and its problem whatever good costs are asked for.  *)
LEMMA PricesAre ==
  ASSUME NEW q \in Requests, NEW p, p = PlanOf(q)
  PROVE  /\ \A t \in DOMAIN p.price :
              /\ t[2] \in DOMAIN p.time
              /\ p.price[t].time = p.time[t[2]].time + p.price[t].delay
              /\ p.price[t].time \in Nat /\ p.price[t].delay \in Nat /\ p.price[t].penalty \in Nat
              /\ p.price[t].unsafe = Unsafe(p.pack, p.time, t)
         /\ \A e \in DOMAIN p.time : p.time[e].time \in Nat
<1>1. /\ p.pack = BuildPack(Networks[q.net]) /\ p.price = Costs(p.pack, p.time)
      /\ DOMAIN p.time = DOMAIN p.pack.edge
  BY PlanIs
<1>2. /\ \A e \in DOMAIN p.time : p.time[e].time \in Nat
      /\ \A t \in DOMAIN p.price : p.price[t].delay \in Nat /\ p.price[t].penalty \in Nat
  BY PlansAreRoads
<1>3. \A t \in DOMAIN p.pack.turn : t[2] \in DOMAIN p.pack.edge
  BY <1>1, PackIs
<1>4. /\ DOMAIN p.price = DOMAIN p.pack.turn
      /\ \A t \in DOMAIN p.price :
           /\ p.price[t].time = p.time[t[2]].time + p.price[t].delay
           /\ p.price[t].unsafe = Unsafe(p.pack, p.time, t)
  BY <1>1, CostsAre
<1> QED BY <1>1, <1>2, <1>3, <1>4

LEMMA GoodCostsAreAsked ==
  ASSUME NEW q \in Requests, NEW p, p = PlanOf(q), NEW costs, GoodCosts(p, costs)
  PROVE  IsProblem(ProblemOf(p, costs))
<1> DEFINE base == ProblemOf(p, ArcCost(p.price, 0))
           asked == ProblemOf(p, costs)
<1>1. IsProblem(base)
  BY PlansAreRoads
<1>2. /\ asked.h = base.h /\ asked.turns = base.turns /\ asked.seeds = base.seeds
      /\ asked.dests = base.dests /\ asked.turns = p.turns
      /\ base.arc = ArcCost(p.price, 0) /\ asked.arc = costs
  BY DEF ProblemOf
<1>3. ASSUME NEW t \in p.turns
      PROVE  costs[t] \in Nat /\ base.arc[t] \in Nat /\ base.arc[t] <= costs[t]
  <2>1. t \in DOMAIN p.price
    BY PlanIs
  <2>2. base.arc[t] = 100 * p.price[t].time + 0 * p.price[t].penalty
    BY <1>2, <2>1 DEF ArcCost
  <2>3. p.price[t].time \in Nat /\ p.price[t].penalty \in Nat
    BY <2>1, PricesAre
  <2> HIDE DEF base
  <2> QED BY <2>1, <2>2, <2>3 DEF GoodCosts
<1> HIDE DEF base, asked
<1>4. \A t \in p.turns : costs[t] \in Nat /\ p.h[t[1]] <= costs[t] + p.h[t[2]]
  <2> TAKE t \in p.turns
  <2>1. base.h = p.h
    BY DEF base, ProblemOf
  <2>2. /\ base.h[t[1]] <= base.arc[t] + base.h[t[2]]
        /\ t[1] \in DOMAIN base.h /\ t[2] \in DOMAIN base.h
        /\ \A e \in DOMAIN base.h : base.h[e] \in Nat
    BY <1>1, <1>2 DEF IsProblem
  <2> QED BY <2>1, <2>2, <1>3
<1>5. asked.h = p.h
  BY DEF asked, ProblemOf
<1> QED BY <1>1, <1>2, <1>4, <1>5 DEF IsProblem, asked

LEMMA ArcCostIsGood ==
  ASSUME NEW q \in Requests, NEW p, p = PlanOf(q), NEW lambda \in Nat
  PROVE  GoodCosts(p, ArcCost(p.price, lambda))
<1> DEFINE c == ArcCost(p.price, lambda)
<1>1. DOMAIN c = DOMAIN p.price /\ \A t \in DOMAIN c : c[t] = 100 * p.price[t].time + lambda * p.price[t].penalty
  BY DEF ArcCost
<1> HIDE DEF c
<1>2. ASSUME NEW t \in DOMAIN c PROVE c[t] \in Nat /\ 100 * p.price[t].time <= c[t]
  <2> DEFINE a == p.price[t].time
             b == lambda * p.price[t].penalty
  <2>1. a \in Nat /\ p.price[t].penalty \in Nat
    BY <1>1, PricesAre
  <2>2. b \in Nat
    BY <2>1
  <2> HIDE DEF a, b
  <2>3. c[t] = 100 * a + b
    BY <1>1 DEF a, b
  <2> QED BY <2>1, <2>2, <2>3 DEF a
<1> QED BY <1>1, <1>2 DEF GoodCosts, c

(* A level that runs has a lambda. *)
LEMMA LambdaIs ==
  ASSUME req \in Requests, slot \in Nat \ {0}, slot <= Len(Sweep)
  PROVE  Lambda \in Nat /\ Level = Sweep[slot]
         /\ (~Replying => Level \in Levels /\ (slot = 1 => Level = "fast" /\ Lambda = 0))
<1>1. CASE Replying
  <2>1. Lambda = req.lambda /\ Level = Sweep[slot]
    BY <1>1 DEF Lambda, Level
  <2>2. req.lambda \in Nat
    BY <1>1, RequestsAreSane DEF Replying
  <2> QED BY <1>1, <2>1, <2>2
<1>2. CASE ~Replying
  <2>1. Sweep \in {<<"fast", "balanced", "safe">>, <<"fast">>}
    BY <1>2 DEF Sweep
  <2>2. Sweep[slot] \in {"fast", "balanced", "safe"} /\ Sweep[1] = "fast"
    BY <2>1
  <2>3. Lambda = Cfg.lambda[Level] /\ Level = Sweep[slot]
    BY <1>2 DEF Lambda, Level
  <2>4. Cfg.lambda["fast"] = 0 /\ Cfg.lambda["balanced"] \in Nat /\ Cfg.lambda["safe"] \in Nat
    BY LevelsAreSane
  <2>5. Level \in {"fast", "balanced", "safe"} /\ (slot = 1 => Level = "fast")
    BY <2>2, <2>3
  <2> HIDE DEF Level, Lambda
  <2>6. Lambda \in Nat /\ (slot = 1 => Lambda = 0)
    BY <2>3, <2>4, <2>5
  <2> QED BY <2>3, <2>5, <2>6 DEF Levels
<1> QED BY <1>1, <1>2

LEMMA SurchargedIsGood ==
  ASSUME req \in Requests, plan = PlanOf(req), Lambda \in Nat
  PROVE  GoodCosts(plan, Surcharged)
<1>1. GoodCosts(plan, ArcCost(plan.price, Lambda))
  BY ArcCostIsGood
<1> DEFINE c == ArcCost(plan.price, Lambda)
<1> HIDE DEF c
<1>2. \A t \in DOMAIN plan.price :
        Surcharged[t] = c[t] + (IF plan.price[t].unsafe # NULL THEN 100 * Cfg.surcharge ELSE 0)
  BY DEF Surcharged, c
<1>3. DOMAIN Surcharged = DOMAIN plan.price
  BY DEF Surcharged
<1>4. \A t \in DOMAIN plan.price : c[t] \in Nat /\ 100 * plan.price[t].time <= c[t] /\ plan.price[t].time \in Nat
  BY <1>1, PricesAre DEF GoodCosts, c
<1>5. 100 * Cfg.surcharge \in Nat
  BY LevelsAreSane
<1>6. \A t \in DOMAIN plan.price : Surcharged[t] \in Nat /\ 100 * plan.price[t].time <= Surcharged[t]
  BY <1>2, <1>4, <1>5
<1> QED BY <1>3, <1>6 DEF GoodCosts

LEMMA InflatedIsGood ==
  ASSUME NEW p, NEW costs, GoodCosts(p, costs), NEW f, DOMAIN f = DOMAIN costs,
         \A t \in DOMAIN p.price : p.price[t].time \in Nat,
         \A t \in DOMAIN costs : f[t] = costs[t] \/ f[t] = (costs[t] * Cfg.inflate) \div 10
  PROVE  GoodCosts(p, f)
<1> DEFINE up(c) == (c * Cfg.inflate) \div 10
<1>1. \A c \in Nat : up(c) \in Nat /\ c <= up(c)
  <2> SUFFICES ASSUME NEW c \in Nat PROVE up(c) \in Nat /\ c <= up(c)
    OBVIOUS
  <2> DEFINE x == c * Cfg.inflate
  <2>1. x \in Nat /\ 10 * c <= x
    BY LevelsAreSane
  <2> HIDE DEF x
  <2>2. x \div 10 \in Nat /\ c <= x \div 10
    BY <2>1
  <2> QED BY <2>2 DEF x
<1> HIDE DEF up
<1>2. \A t \in DOMAIN costs : costs[t] \in Nat /\ 100 * p.price[t].time <= costs[t] /\ p.price[t].time \in Nat
  BY DEF GoodCosts
<1>3. \A t \in DOMAIN f : f[t] = costs[t] \/ f[t] = up(costs[t])
  BY DEF up
<1>4. DOMAIN f = DOMAIN p.price /\ \A t \in DOMAIN f : f[t] \in Nat /\ 100 * p.price[t].time <= f[t]
  <2>1. DOMAIN f = DOMAIN p.price
    BY DEF GoodCosts
  <2>2. ASSUME NEW t \in DOMAIN f PROVE f[t] \in Nat /\ 100 * p.price[t].time <= f[t]
    <3>1. /\ costs[t] \in Nat /\ up(costs[t]) \in Nat /\ costs[t] <= up(costs[t])
          /\ 100 * p.price[t].time <= costs[t] /\ p.price[t].time \in Nat
      BY <1>1, <1>2
    <3> QED BY <1>3, <3>1
  <2> QED BY <2>1, <2>2
<1> QED BY <1>4 DEF GoodCosts

-----------------------------------------------------------------------------
(* What a route measures. *)

(* The turns of the first n edges. *)
Turns(r, n) == {<<r[i], r[i + 1]>> : i \in 1..(n - 1)}

LEMMA TurnsAre ==
  ASSUME NEW r, NEW L \in Nat, \A i, j \in 1..L : r[i] = r[j] => i = j
  PROVE  /\ Turns(r, 1) = {}
         /\ \A n \in 1..L : IsFiniteSet(Turns(r, n))
         /\ \A n \in 2..L : /\ <<r[n - 1], r[n]>> \in Turns(r, n)
                            /\ Turns(r, n - 1) = Turns(r, n) \ {<<r[n - 1], r[n]>>}
<1> DEFINE P == {n \in 1..L : IsFiniteSet(Turns(r, n))}
<1>1. Turns(r, 1) = {}
  BY DEF Turns
<1>2. ASSUME NEW n \in 2..L
      PROVE  /\ Turns(r, n) = Turns(r, n - 1) \cup {<<r[n - 1], r[n]>>}
             /\ <<r[n - 1], r[n]>> \notin Turns(r, n - 1)
  <2>1. 1..(n - 1) = 1..((n - 1) - 1) \cup {n - 1} /\ (n - 1) + 1 = n
    OBVIOUS
  <2>2. Turns(r, n) = Turns(r, n - 1) \cup {<<r[n - 1], r[n]>>}
    BY <2>1 DEF Turns
  <2>3. ASSUME NEW i \in 1..((n - 1) - 1), <<r[n - 1], r[n]>> = <<r[i], r[i + 1]>> PROVE FALSE
    <3>1. r[n - 1] = r[i] /\ i \in 1..L /\ n - 1 \in 1..L /\ i # n - 1
      BY <2>3
    <3> QED BY <3>1
  <2> QED BY <2>2, <2>3 DEF Turns
<1>3. ASSUME NEW n \in 2..L, n - 1 \in P PROVE n \in P
  <2>1. n \in 1..L
    OBVIOUS
  <2>2. IsFiniteSet(Turns(r, n - 1) \cup {<<r[n - 1], r[n]>>})
    BY <1>3, FS_AddElement
  <2> QED BY <2>1, <2>2, <1>2
<1>4. 1..L \subseteq P
  <2>1. 1 \in Nat /\ 1 + 1 = 2 /\ (1 <= L => 1 \in 1..L)
    OBVIOUS
  <2>2. 1 <= L => 1 \in P
    BY <1>1, <2>1, FS_EmptySet
  <2> HIDE DEF P
  <2> QED BY <1>3, <2>1, <2>2, InductionFromTo
<1> QED BY <1>1, <1>2, <1>4

(* A sum over the turns of a route, turn by turn. *)
LEMMA SumAlong ==
  ASSUME NEW r, NEW L \in Nat, \A i, j \in 1..L : r[i] = r[j] => i = j,
         NEW g, \A n \in 2..L : g[<<r[n - 1], r[n]>>] \in Int
  PROVE  LET S(n) == SumFunction([t \in Turns(r, n) |-> g[t]])
         IN /\ S(1) = 0
            /\ \A n \in 2..L : S(n - 1) \in Int /\ S(n) = S(n - 1) + g[<<r[n - 1], r[n]>>]
<1> DEFINE S(n) == SumFunction([t \in Turns(r, n) |-> g[t]])
           f(n) == [t \in Turns(r, n) |-> g[t]]
<1>1. /\ Turns(r, 1) = {}
      /\ \A n \in 1..L : IsFiniteSet(Turns(r, n))
      /\ \A n \in 2..L : /\ <<r[n - 1], r[n]>> \in Turns(r, n)
                         /\ Turns(r, n - 1) = Turns(r, n) \ {<<r[n - 1], r[n]>>}
  BY TurnsAre
<1>2. S(1) = 0
  <2>1. DOMAIN f(1) = {} /\ \A x \in DOMAIN f(1) : f(1)[x] \in Int
    BY <1>1
  <2>2. IsFiniteSet(DOMAIN f(1))
    BY <2>1, FS_EmptySet
  <2>3. SumFunction(f(1)) = 0
    <3> HIDE DEF f
    <3> QED BY <2>1, <2>2, SumTakes
  <2> QED BY <2>3
<1>3. ASSUME NEW n \in 2..L
      PROVE  S(n - 1) \in Int /\ S(n) = S(n - 1) + g[<<r[n - 1], r[n]>>]
  <2> DEFINE x == <<r[n - 1], r[n]>>
             a == f(n)
             b == f(n - 1)
  <2>1. DOMAIN a = Turns(r, n) /\ DOMAIN b = (DOMAIN a) \ {x} /\ x \in DOMAIN a
    BY <1>1
  <2>2. \A y \in DOMAIN a : a[y] = g[y]
    OBVIOUS
  <2>3. \A y \in DOMAIN b : b[y] = g[y]
    OBVIOUS
  <2>4. \A y \in DOMAIN a : g[y] \in Int
    <3>1. ASSUME NEW i \in 1..(n - 1) PROVE g[<<r[i], r[i + 1]>>] \in Int
      <4>1. i + 1 \in 2..L /\ (i + 1) - 1 = i
        OBVIOUS
      <4> QED BY <4>1
    <3> QED BY <2>1, <3>1 DEF Turns
  <2>5. IsFiniteSet(DOMAIN a)
    BY <2>1, <1>1
  <2>6. S(n) = SumFunction(a) /\ S(n - 1) = SumFunction(b)
    OBVIOUS
  <2> HIDE DEF a, b, x, S
  <2>7. \A y \in DOMAIN a : a[y] \in Int
    BY <2>2, <2>4
  <2>8. \A y \in DOMAIN b : b[y] = a[y]
    BY <2>1, <2>2, <2>3
  <2>9. SumFunction(a) = SumFunction(b) + a[x] /\ SumFunction(b) \in Int
    BY <2>1, <2>5, <2>7, <2>8, SumTakes
  <2> QED BY <2>1, <2>2, <2>6, <2>9 DEF x
<1> QED BY <1>2, <1>3

(* A sum over the edges of a route, edge by edge. *)
LEMMA SumUpTo ==
  ASSUME NEW L \in Nat, NEW g, \A n \in 1..L : g[n] \in Int
  PROVE  LET S(n) == SumFunction([i \in 1..n |-> g[i]])
         IN \A n \in 1..L : S(n - 1) \in Int /\ S(n) = S(n - 1) + g[n] /\ (n = 1 => S(n - 1) = 0)
<1> DEFINE S(n) == SumFunction([i \in 1..n |-> g[i]])
<1> SUFFICES ASSUME NEW n \in 1..L
             PROVE  S(n - 1) \in Int /\ S(n) = S(n - 1) + g[n] /\ (n = 1 => S(n - 1) = 0)
  OBVIOUS
<1> DEFINE a == [i \in 1..n |-> g[i]]
           b == [i \in 1..(n - 1) |-> g[i]]
<1>1. /\ DOMAIN a = 1..n /\ DOMAIN b = (DOMAIN a) \ {n} /\ n \in DOMAIN a
      /\ \A y \in DOMAIN a : a[y] = g[y] /\ a[y] \in Int
      /\ \A y \in DOMAIN b : b[y] = a[y]
      /\ DOMAIN b = 1..(n - 1)
  OBVIOUS
<1>2. IsFiniteSet(1..n) /\ IsFiniteSet(1..(n - 1))
  BY FS_Interval
<1>3. S(n) = SumFunction(a) /\ S(n - 1) = SumFunction(b)
  OBVIOUS
<1> HIDE DEF a, b, S
<1>4. SumFunction(a) = SumFunction(b) + a[n] /\ SumFunction(b) \in Int
  BY <1>1, <1>2, SumTakes
<1>5. n = 1 => SumFunction(b) = 0
  <2> SUFFICES ASSUME n = 1 PROVE SumFunction(b) = 0
    OBVIOUS
  <2>1. DOMAIN b = {}
    BY <1>1
  <2>2. \A y \in DOMAIN b : b[y] \in Int
    BY <2>1
  <2> QED BY <2>1, <2>2, <1>1, <1>2, SumTakes
<1> QED BY <1>1, <1>3, <1>4, <1>5

(* The edges and the turns of a route are those of the plan. *)
LEMMA RoutesAre ==
  ASSUME req \in Requests, plan = PlanOf(req), NEW r \in RoutesOf(plan)
  PROVE  /\ Len(r) \in Nat \ {0} /\ DOMAIN r = 1..Len(r)
         /\ \A n \in 1..Len(r) : r[n] \in DOMAIN plan.time /\ plan.time[r[n]].time \in Nat
         /\ r[1] \in DOMAIN plan.seed /\ r[Len(r)] \in DOMAIN plan.refund
         /\ \A n \in 2..Len(r) : <<r[n - 1], r[n]>> \in plan.turns /\ <<r[n - 1], r[n]>> \in DOMAIN plan.price
         /\ \A i, j \in 1..Len(r) : r[i] = r[j] => i = j
         /\ IsProblem(TimesOf(plan)) /\ IsRoute(TimesOf(plan), r)
<1> DEFINE b == TimesOf(plan)
<1>1. b.h = plan.h /\ b.turns = plan.turns /\ b.seeds = plan.seed /\ b.dests = plan.refund
  BY DEF TimesOf, ProblemOf
<1>2. r \in Seq(DOMAIN plan.h) /\ IsRoute(b, r)
  BY DEF RoutesOf
<1>3. IsProblem(b)
  BY PlansAreRoads DEF TimesOf
<1> HIDE DEF b
<1>4. /\ Len(r) > 0 /\ r[1] \in DOMAIN plan.seed /\ r[Len(r)] \in DOMAIN plan.refund
      /\ \A i \in 1..(Len(r) - 1) : <<r[i], r[i + 1]>> \in plan.turns
      /\ \A i, j \in 1..Len(r) : r[i] = r[j] => i = j
  BY <1>1, <1>2 DEF IsRoute, IsWay
<1>5. Len(r) \in Nat \ {0} /\ DOMAIN r = 1..Len(r) /\ \A n \in 1..Len(r) : r[n] \in DOMAIN plan.h
  BY <1>2, <1>4
<1>6. \A n \in 2..Len(r) : <<r[n - 1], r[n]>> \in plan.turns
  <2> TAKE n \in 2..Len(r)
  <2>1. n - 1 \in 1..(Len(r) - 1) /\ (n - 1) + 1 = n
    BY <1>5
  <2> QED BY <2>1, <1>4
<1>7. plan.turns \subseteq DOMAIN plan.price /\ DOMAIN plan.h = DOMAIN plan.time
  BY PlanIs
<1>8. \A e \in DOMAIN plan.time : plan.time[e].time \in Nat
  BY PricesAre
<1> QED BY <1>2, <1>3, <1>4, <1>5, <1>6, <1>7, <1>8 DEF b

(* travel_time_fn is what the search minimises at lambda 0. *)
LEMMA TravelTimeIs ==
  ASSUME req \in Requests, plan = PlanOf(req), NEW r \in RoutesOf(plan)
  PROVE  TravelTime(r) = CostOf(TimesOf(plan), r) /\ TravelTime(r) \in Int
<1> DEFINE L == Len(r)
           g == ArcCost(plan.price, 0)
           S(n) == SumFunction([t \in Turns(r, n) |-> g[t]])
           D == Driven(TimesOf(plan), r)
           b == plan.seed[r[1]]
           P == {n \in 1..L : D[n] = b + S(n) /\ S(n) \in Int}
<1>1. /\ L \in Nat \ {0} /\ \A i, j \in 1..L : r[i] = r[j] => i = j
      /\ \A n \in 2..L : <<r[n - 1], r[n]>> \in DOMAIN plan.price
      /\ IsProblem(TimesOf(plan)) /\ IsRoute(TimesOf(plan), r)
      /\ r[1] \in DOMAIN plan.seed /\ r[L] \in DOMAIN plan.refund
  BY RoutesAre
<1>2. TimesOf(plan).arc = g /\ TimesOf(plan).seeds = plan.seed /\ TimesOf(plan).dests = plan.refund
  BY DEF TimesOf, ProblemOf
<1>3. /\ D[1] = b
      /\ \A n \in 2..L : g[<<r[n - 1], r[n]>>] \in Nat /\ D[n] = D[n - 1] + g[<<r[n - 1], r[n]>>]
  <2> DEFINE q == TimesOf(plan)
  <2>1. IsProblem(q) /\ IsWay(q, r) /\ q.arc = g /\ q.seeds = plan.seed
    BY <1>1, <1>2 DEF IsRoute
  <2> HIDE DEF q
  <2>2. /\ Driven(q, r)[1] = q.seeds[r[1]]
        /\ \A n \in 2..Len(r) : /\ q.arc[<<r[n - 1], r[n]>>] \in Nat
                              /\ Driven(q, r)[n] = Driven(q, r)[n - 1] + q.arc[<<r[n - 1], r[n]>>]
    BY ZenonT(40), <2>1, WayCosts
  <2> QED BY <2>1, <2>2 DEF q
<1>4. b \in Nat
  BY <1>1, <1>2 DEF IsProblem
<1> HIDE DEF g, D, L
<1>5. S(1) = 0 /\ \A n \in 2..L : S(n - 1) \in Int /\ S(n) = S(n - 1) + g[<<r[n - 1], r[n]>>]
  <2>1. \A n \in 2..L : g[<<r[n - 1], r[n]>>] \in Int
    BY <1>3
  <2> QED BY <1>1, <2>1, SumAlong
<1> HIDE DEF S, b
<1>6. 1 \in P
  BY <1>1, <1>3, <1>4, <1>5
<1>7. ASSUME NEW n \in 2..L, n - 1 \in P PROVE n \in P
  <2>1. D[n - 1] = b + S(n - 1) /\ S(n - 1) \in Int
    BY <1>7
  <2> DEFINE c == g[<<r[n - 1], r[n]>>]
  <2>2. c \in Nat /\ D[n] = D[n - 1] + c /\ S(n) = S(n - 1) + c
    BY <1>3, <1>5
  <2> HIDE DEF c
  <2>3. n \in 1..L
    BY <1>1
  <2> QED BY <2>1, <2>2, <2>3, <1>4
<1>8. L \in P
  <2>1. 1 \in Nat /\ 1 + 1 = 2 /\ L \in Nat /\ L \in 1..L
    BY <1>1
  <2> HIDE DEF P
  <2>2. 1..L \subseteq P
    BY <2>1, <1>6, <1>7, InductionFromTo
  <2> QED BY <2>1, <2>2
<1>9. TravelTime(r) = b + S(L) + plan.refund[r[L]]
  BY DEF TravelTime, TurnTimes, TurnsTaken, Turns, S, g, L, b
<1>10. CostOf(TimesOf(plan), r) = D[L] + plan.refund[r[L]] /\ CostOf(TimesOf(plan), r) \in Int
  BY <1>1, <1>2, RouteCosts DEF D, L
<1> QED BY <1>8, <1>9, <1>10

(* What a reply says of a route. *)
Delays(r) == SumFunction([t \in TurnsTaken(r) |-> plan.price[t].delay])
Eta(r) == SumFunction([i \in DOMAIN r |-> Time[r[i]].time * Share(r, i)]) + 100 * Delays(r)

(* metrics.py:40-75: the duration shown is the one the budget is applied to. *)
LEMMA EtaIs ==
  ASSUME req \in Requests, plan = PlanOf(req), NEW r \in RoutesOf(plan)
  PROVE  Eta(r) = TravelTime(r)
<1> DEFINE L == Len(r)
           T(n) == plan.time[r[n]].time
           e == [n \in 1..L |-> T(n) * Share(r, n)]
           g == ArcCost(plan.price, 0)
           d == [t \in DOMAIN plan.price |-> plan.price[t].delay]
           S(n) == SumFunction([t \in Turns(r, n) |-> g[t]])
           W(n) == SumFunction([t \in Turns(r, n) |-> d[t]])
           E(n) == SumFunction([i \in 1..n |-> e[i]])
           fo == FracOn(plan.origins, r[1])
           fd == FracOn(plan.dests, r[L])
           b == plan.seed[r[1]]
           c == plan.refund[r[L]]
<1>1. /\ L \in Nat \ {0} /\ DOMAIN r = 1..L /\ \A i, j \in 1..L : r[i] = r[j] => i = j
      /\ \A n \in 2..L : <<r[n - 1], r[n]>> \in DOMAIN plan.price
      /\ \A n \in 1..L : T(n) \in Nat
      /\ r[1] \in DOMAIN plan.seed /\ r[L] \in DOMAIN plan.refund
  BY RoutesAre
<1>2. fo \in 0..100 /\ fd \in 0..100 /\ b = (100 - fo) * T(1) /\ c = 0 - (100 - fd) * T(L)
  <2>1. \A x \in DOMAIN plan.seed :
          /\ FracOn(plan.origins, x) \in 0..100
          /\ plan.seed[x] = (100 - FracOn(plan.origins, x)) * plan.time[x].time
    BY PlanIs
  <2>2. \A x \in DOMAIN plan.refund :
          /\ FracOn(plan.dests, x) \in 0..100
          /\ plan.refund[x] = 0 - (100 - FracOn(plan.dests, x)) * plan.time[x].time
    BY PlanIs
  <2>3. r[1] \in DOMAIN plan.seed /\ r[L] \in DOMAIN plan.refund
    BY <1>1
  <2> HIDE DEF L
  <2> QED BY <2>1, <2>2, <2>3
<1>3. \A n \in 1..L : Share(r, n) = 100 - (IF n = 1 THEN fo ELSE 0) - (IF n = L THEN 100 - fd ELSE 0)
  BY DEF Share
<1>4. ASSUME NEW n \in 2..L
      PROVE  /\ d[<<r[n - 1], r[n]>>] \in Nat
             /\ g[<<r[n - 1], r[n]>>] = 100 * (T(n) + d[<<r[n - 1], r[n]>>])
  <2> DEFINE t == <<r[n - 1], r[n]>>
  <2>1. t \in DOMAIN plan.price /\ t[2] = r[n]
    BY <1>1
  <2> HIDE DEF t
  <2>2. /\ plan.price[t].time = plan.time[t[2]].time + plan.price[t].delay
        /\ plan.price[t].delay \in Nat /\ plan.price[t].penalty \in Nat
    BY <2>1, PricesAre
  <2>3. g[t] = 100 * plan.price[t].time + 0 * plan.price[t].penalty /\ d[t] = plan.price[t].delay
    BY <2>1 DEF ArcCost
  <2>4. n \in 1..L /\ T(n) \in Nat
    BY <1>1
  <2> HIDE DEF g, d
  <2> QED BY SMTT(30), <2>1, <2>2, <2>3, <2>4 DEF t
<1> DEFINE front == fo * T(1)
           back == (100 - fd) * T(L)
<1>5. ASSUME NEW n \in 1..L
      PROVE  /\ e[n] = 100 * T(n) - (IF n = 1 THEN front ELSE 0) - (IF n = L THEN back ELSE 0)
             /\ e[n] \in Int
  <2> DEFINE x == T(n)
             s == Share(r, n)
             u == 100 - fd
  <2>1. e[n] = x * s
    OBVIOUS
  <2>2. x \in Int /\ fo \in Int /\ u \in Int
    <3> HIDE DEF fo, fd, T
    <3>1. T(n) \in Nat
      BY <1>1
    <3> QED BY <3>1, <1>2
  <2>3. s = 100 - (IF n = 1 THEN fo ELSE 0) - (IF n = L THEN u ELSE 0)
    BY <1>3
  <2>4. (n = 1 => front = fo * x) /\ (n = L => back = u * x)
    OBVIOUS
  <2> HIDE DEF e, x, s, u, fo, fd, front, back
  <2>5. CASE n = 1 /\ n = L
    <3>1. s = 100 - fo - u
      BY <2>3, <2>5
    <3>2. x * (100 - fo - u) = 100 * x - fo * x - u * x
      BY <2>2
    <3> QED BY <2>1, <2>2, <2>4, <2>5, <3>1, <3>2 DEF x
  <2>6. CASE n = 1 /\ n # L
    <3>1. s = 100 - fo
      BY <2>2, <2>3, <2>6
    <3>2. x * (100 - fo) = 100 * x - fo * x
      BY <2>2
    <3> QED BY SMTT(30), <2>1, <2>2, <2>4, <2>6, <3>1, <3>2 DEF x
  <2>7. CASE n # 1 /\ n = L
    <3>1. s = 100 - u
      BY <2>2, <2>3, <2>7
    <3>2. x * (100 - u) = 100 * x - u * x
      BY <2>2
    <3> QED BY <2>1, <2>2, <2>4, <2>7, <3>1, <3>2 DEF x
  <2>8. CASE n # 1 /\ n # L
    <3>1. s = 100
      BY <2>2, <2>3, <2>8
    <3> QED BY <2>1, <2>2, <2>8, <3>1 DEF x
  <2> QED BY <2>5, <2>6, <2>7, <2>8
<1>6. front \in Int /\ back \in Int /\ b = 100 * T(1) - front /\ c = 0 - back /\ T(1) \in Int
  <2> DEFINE x == T(1)
             y == T(L)
             u == 100 - fd
  <2>1. x \in Int /\ y \in Int
    <3> HIDE DEF fo, fd, T, L
    <3>1. 1 \in 1..L /\ L \in 1..L
      BY <1>1
    <3>2. T(1) \in Nat /\ T(L) \in Nat
      BY <1>1, <3>1
    <3> QED BY <3>2
  <2>2. fo \in Int /\ u \in Int
    <3> HIDE DEF fo, fd
    <3> QED BY <1>2
  <2>3. b = (100 - fo) * x /\ c = 0 - u * y /\ front = fo * x /\ back = u * y
    BY <1>2
  <2> HIDE DEF fo, u, x, y, b, c, front, back
  <2>4. fo * x \in Int /\ u * y \in Int /\ (100 - fo) * x = 100 * x - fo * x
    BY <2>1, <2>2
  <2> QED BY <2>1, <2>3, <2>4 DEF x
<1> HIDE DEF T, front, back
<1> HIDE DEF e, g, d, fo, fd, b, c, L
<1>7. S(1) = 0 /\ \A n \in 2..L : S(n - 1) \in Int /\ S(n) = S(n - 1) + g[<<r[n - 1], r[n]>>]
  <2>1. \A n \in 2..L : g[<<r[n - 1], r[n]>>] \in Int
    <3> TAKE n \in 2..L
    <3>1. T(n) \in Nat
      BY <1>1
    <3> QED BY <3>1, <1>4
  <2> QED BY ZenonT(40), <1>1, <2>1, SumAlong
<1>8. W(1) = 0 /\ \A n \in 2..L : W(n - 1) \in Int /\ W(n) = W(n - 1) + d[<<r[n - 1], r[n]>>]
  <2>1. \A n \in 2..L : d[<<r[n - 1], r[n]>>] \in Int
    BY <1>4
  <2> QED BY ZenonT(40), <1>1, <2>1, SumAlong
<1>9. \A n \in 1..L : E(n - 1) \in Int /\ E(n) = E(n - 1) + e[n] /\ (n = 1 => E(n - 1) = 0)
  <2>1. \A n \in 1..L : e[n] \in Int
    BY <1>5
  <2>2. L \in Nat
    BY <1>1
  <2> HIDE DEF e, L
  <2> QED BY <2>1, <2>2, SumUpTo
<1> HIDE DEF S, W, E
<1> DEFINE Good(n) == /\ S(n) \in Int /\ W(n) \in Int /\ E(n) \in Int
                      /\ E(n) + 100 * W(n) = b + S(n) + (IF n = L THEN c ELSE 0)
           P == {n \in 1..L : Good(n)}
<1>10. b \in Int /\ c \in Int
  BY <1>6
<1>11. Good(1)
  <2>1. 1 \in 1..L /\ 1 - 1 = 0
    BY <1>1
  <2>2. E(1) = E(0) + e[1] /\ E(0) = 0
    BY <2>1, <1>9
  <2>3. e[1] = 100 * T(1) - front - (IF 1 = L THEN back ELSE 0)
    BY <2>1, <1>5
  <2>4. e[1] = b + (IF 1 = L THEN c ELSE 0)
    BY <2>3, <1>6
  <2> QED BY <2>2, <2>4, <1>7, <1>8, <1>10
<1>12. ASSUME NEW n \in 2..L, Good(n - 1) PROVE Good(n)
  <2> DEFINE x == d[<<r[n - 1], r[n]>>]
             y == g[<<r[n - 1], r[n]>>]
  <2>1. n \in 1..L /\ n # 1 /\ n - 1 # L
    BY <1>1
  <2>2. S(n) = S(n - 1) + y /\ W(n) = W(n - 1) + x /\ E(n) = E(n - 1) + e[n]
    BY <2>1, <1>7, <1>8, <1>9
  <2>3. x \in Nat /\ y = 100 * (T(n) + x) /\ T(n) \in Nat
    BY <2>1, <1>1, <1>4
  <2> HIDE DEF x, y
  <2>4. e[n] = 100 * T(n) + (IF n = L THEN c ELSE 0)
    BY <2>1, <2>3, <1>5, <1>6
  <2>5. E(n - 1) + 100 * W(n - 1) = b + S(n - 1) /\ S(n - 1) \in Int /\ W(n - 1) \in Int /\ E(n - 1) \in Int
    BY <2>1, <1>12, <1>10
  <2>6. y = 100 * T(n) + 100 * x
    BY <2>3
  <2> QED BY <2>2, <2>3, <2>4, <2>5, <2>6, <1>10
<1>13. L \in P
  <2>1. 1 \in Nat /\ 1 + 1 = 2 /\ L \in Nat /\ L \in 1..L /\ 1 \in 1..L /\ \A n \in 2..L : n \in 1..L
    BY <1>1
  <2>2. 1 \in P /\ \A n \in 2..L : n - 1 \in P => n \in P
    <3> HIDE DEF Good
    <3> QED BY <2>1, <1>11, <1>12
  <2>3. 1..L \subseteq P
    <3> HIDE DEF P
    <3> QED BY <2>1, <2>2, InductionFromTo
  <2> QED BY <2>1, <2>3
<1>14. TravelTime(r) = b + S(L) + c
  BY DEF TravelTime, TurnTimes, TurnsTaken, Turns, S, g, L, b, c
<1>15. Delays(r) = W(L)
  <2>1. TurnsTaken(r) = Turns(r, L)
    BY DEF TurnsTaken, Turns, L
  <2>2. \A t \in Turns(r, L) : t \in DOMAIN plan.price
    <3> SUFFICES ASSUME NEW i \in 1..(L - 1) PROVE <<r[i], r[i + 1]>> \in DOMAIN plan.price
      BY DEF Turns
    <3>1. i + 1 \in 2..L /\ (i + 1) - 1 = i
      BY <1>1
    <3> QED BY <3>1, <1>1
  <2>3. [t \in TurnsTaken(r) |-> plan.price[t].delay] = [t \in Turns(r, L) |-> d[t]]
    BY <2>1, <2>2 DEF d
  <2> QED BY <2>3, Zenon DEF Delays, W
<1>16. Eta(r) = E(L) + 100 * W(L)
  <2>1. [i \in DOMAIN r |-> Time[r[i]].time * Share(r, i)] = [i \in 1..L |-> e[i]]
    BY <1>1 DEF e, Time, T
  <2> QED BY <2>1, <1>15, Zenon DEF Eta, E
<1> QED BY <1>13, <1>14, <1>16

-----------------------------------------------------------------------------
(* A run that is begun, and one that has ended. *)
LEMMA RunBegins ==
  ASSUME PlanInv, pc # "resolve", NEW costs, GoodCosts(plan, costs), NEW next, Run(costs, next)
  PROVE  ExactInv' /\ ask' = ProblemOf(plan, costs) /\ ask'.arc = costs /\ pc' = next
<1>1. IsProblem(ProblemOf(plan, costs))
  BY GoodCostsAreAsked DEF PlanInv
<1>2. Begin(ProblemOf(plan, costs)) /\ pc' = next
  BY DEF Run, Problem
<1>3. ExactInv'
  BY <1>1, <1>2, ExactBegin
<1> QED BY <1>2, <1>3 DEF Begin, ProblemOf

LEMMA ResultsAreRoutes ==
  ASSUME PlanInv, pc # "resolve", ExactInv, found, ask = ProblemOf(plan, ask.arc)
  PROVE  /\ Result \subseteq RoutesOf(plan)
         /\ Result = {} => RoutesOf(plan) = {}
         /\ ask = TimesOf(plan) =>
              \A r \in Result : \A s \in RoutesOf(plan) : TimeOf(plan, r) <= TimeOf(plan, s)
<1>1. ASSUME NEW s PROVE IsRoute(ask, s) <=> IsRoute(TimesOf(plan), s)
  BY DEF IsRoute, IsWay, TimesOf, ProblemOf
<1>2. ASSUME NEW s, IsRoute(ask, s) PROVE s \in RoutesOf(plan)
  <2>1. s \in Seq(DOMAIN plan.h)
    BY <1>2 DEF IsRoute, IsWay, ProblemOf
  <2> QED BY <1>1, <1>2, <2>1 DEF RoutesOf
<1>3. \A s \in RoutesOf(plan) : IsRoute(ask, s)
  BY <1>1 DEF RoutesOf
<1>4. Result \subseteq RoutesOf(plan) /\ (Result = {} => RoutesOf(plan) = {})
  BY <1>2, <1>3, ResultsAreBest
<1>5. ASSUME ask = TimesOf(plan), NEW r \in Result, NEW s \in RoutesOf(plan)
      PROVE  TimeOf(plan, r) <= TimeOf(plan, s)
  <2>1. CostOf(ask, r) <= CostOf(ask, s)
    BY <1>3, <1>5, ResultsAreBest
  <2>2. \A q \in RoutesOf(plan) : TimeOf(plan, q) = CostOf(ask, q)
    BY <1>5, TravelTimeIs DEF PlanInv, TravelTime, TurnTimes, TimeOf
  <2> QED BY <2>1, <2>2, <1>4
<1> QED BY <1>4, <1>5

LEMMA TimesAreNumbers ==
  ASSUME PlanInv, pc # "resolve", NEW r \in RoutesOf(plan)
  PROVE  TimeOf(plan, r) \in Int /\ TimeOf(plan, r) # NULL /\ TimeOf(plan, r) = TravelTime(r)
         /\ Eta(r) = TimeOf(plan, r) /\ FlaggedOf(plan, r) = UnsafeCount(r)
         /\ FlaggedOf(plan, r) \in Nat
<1>1. TimeOf(plan, r) = TravelTime(r) /\ FlaggedOf(plan, r) = UnsafeCount(r)
  BY DEF TravelTime, TurnTimes, TimeOf, FlaggedOf, UnsafeCount
<1>2. TravelTime(r) \in Int /\ Eta(r) = TravelTime(r)
  BY TravelTimeIs, EtaIs DEF PlanInv
<1>3. FlaggedOf(plan, r) \in Nat
  <2> DEFINE turns == TurnsTaken(r)
             some == {t \in turns : plan.price[t].unsafe # NULL}
  <2>1. /\ Len(r) \in Nat \ {0} /\ \A i, j \in 1..Len(r) : r[i] = r[j] => i = j
        /\ Len(r) \in 1..Len(r)
    BY RoutesAre DEF PlanInv
  <2>2. IsFiniteSet(Turns(r, Len(r)))
    BY <2>1, TurnsAre
  <2>3. IsFiniteSet(turns)
    BY <2>2 DEF TurnsTaken, Turns
  <2>4. some \subseteq turns
    OBVIOUS
  <2> HIDE DEF turns, some
  <2>5. Cardinality(some) \in Nat
    BY <2>3, <2>4, FS_Subset, FS_CardinalityType
  <2> QED BY <2>5 DEF some, turns, FlaggedOf
<1> QED BY <1>1, <1>2, <1>3, LevelsAreSane

(* What depends on the request alone stays with it. *)
LEMMA SameRequest ==
  ASSUME UNCHANGED req
  PROVE  Replying' = Replying /\ Sweep' = Sweep
BY DEF Replying, Sweep

LEMMA FirstSlotIsASlot == Len(Sweep) \in Nat \ {0}
BY DEF Sweep

-----------------------------------------------------------------------------
(* The planner's own invariants, action by action. *)
LEMMA ResolveKeeps == ASSUME PlannerInv, Resolve PROVE RunInv' /\ RouteInv' /\ BudgetInv'
<1>1. /\ pc = "resolve" /\ pc' = "planned" /\ UNCHANGED <<searchVars, req, slot, kept, fast>>
  BY DEF Resolve
<1>2. /\ slot = 1 /\ kept = <<>> /\ (~Replying => FirstSlot)
  BY <1>1 DEF PlannerInv, RunInv, RouteInv, BudgetInv
<1>3. Replying' = Replying
  BY <1>1, SameRequest
<1>4. RunInv'
  BY <1>1, <1>2, <1>3 DEF RunInv, OfSweep, OfReroute, Between, Running
<1>5. RouteInv'
  BY <1>1, <1>2, <1>3 DEF RouteInv, WithRoute
<1>6. BudgetInv'
  BY <1>1, <1>2, <1>3 DEF BudgetInv, FirstSlot, Between
<1> QED BY <1>4, <1>5, <1>6

LEMMA AnswerKeeps ==
  ASSUME PlannerInv, NEW r, Answer(r), pc \in {"planned", "single"}
  PROVE  RunInv' /\ RouteInv' /\ BudgetInv'
<1>1. pc' = "done" /\ UNCHANGED <<searchVars, req, plan, slot, arc, route, floor, fast, kept>>
  BY DEF Answer
<1>2. Replying' = Replying
  BY <1>1, SameRequest
<1>3. RunInv'
  BY <1>1, <1>2 DEF PlannerInv, RunInv, OfSweep, OfReroute, Between, Running
<1>4. RouteInv'
  BY <1>1, <1>2 DEF PlannerInv, RouteInv, WithRoute
<1>5. BudgetInv'
  BY <1>1, <1>2 DEF PlannerInv, BudgetInv, FirstSlot, LaterSlots, Between
<1> QED BY <1>3, <1>4, <1>5

LEMMA RunLevelKeeps ==
  ASSUME PlannerInv, RunLevel PROVE ExactInv' /\ RunInv' /\ RouteInv' /\ BudgetInv'
<1>1. /\ pc = "planned" /\ slot <= Len(Sweep) /\ arc' = ArcCost(plan.price, Lambda)
      /\ Run(arc', "level") /\ UNCHANGED <<req, plan, slot, route, floor, fast, kept>>
  BY DEF RunLevel
<1>2. slot \in Nat \ {0} /\ PlanInv
  BY DEF PlannerInv, RunInv
<1>3. Lambda \in Nat /\ (~Replying /\ slot = 1 => Lambda = 0)
  BY <1>1, <1>2, LambdaIs DEF PlanInv
<1>4. GoodCosts(plan, arc')
  BY <1>1, <1>2, <1>3, ArcCostIsGood DEF PlanInv
<1>5. ExactInv' /\ ask' = ProblemOf(plan, arc') /\ ask'.arc = arc' /\ pc' = "level"
  BY <1>1, <1>2, <1>4, RunBegins
<1>6. Replying' = Replying /\ Sweep' = Sweep
  BY <1>1, SameRequest
<1>7. RunInv'
  BY <1>1, <1>2, <1>4, <1>5, <1>6 DEF RunInv, OfSweep, OfReroute, Between, Running
<1>8. RouteInv'
  BY <1>1, <1>5, <1>6 DEF PlannerInv, RouteInv, WithRoute
<1>9. BudgetInv'
  <2>1. CASE Replying
    BY <2>1, <1>6 DEF BudgetInv
  <2>2. CASE ~Replying /\ slot = 1
    <3>1. ask' = TimesOf(plan)
      BY <1>1, <1>3, <1>5, <2>2 DEF TimesOf
    <3> QED BY <2>2, <3>1, <1>1, <1>5, <1>6 DEF PlannerInv, BudgetInv, FirstSlot, Between
  <2>3. CASE ~Replying /\ slot # 1
    BY <2>3, <1>1, <1>6 DEF PlannerInv, BudgetInv, LaterSlots
  <2> QED BY <2>1, <2>2, <2>3
<1> QED BY <1>5, <1>7, <1>8, <1>9

(* The level run of a slot of the sweep. *)
LEMMA LevelRunKeeps == ASSUME PlannerInv, LevelRun PROVE RunInv' /\ RouteInv' /\ BudgetInv'
<1>1. /\ pc = "level" /\ found /\ ~Replying /\ UNCHANGED <<searchVars, req, plan, arc, kept>>
  BY DEF LevelRun
<1>2. /\ PlanInv /\ ExactInv /\ slot \in Nat \ {0} /\ slot <= Len(Sweep) /\ GoodCosts(plan, arc)
      /\ ask = ProblemOf(plan, ask.arc) /\ kept \in Seq(Alternatives(plan))
  BY <1>1 DEF PlannerInv, RunInv, RouteInv, Running, Between
<1>3. /\ Result \subseteq RoutesOf(plan) /\ (Result = {} => RoutesOf(plan) = {})
      /\ ask = TimesOf(plan) =>
           \A r \in Result : \A s \in RoutesOf(plan) : TimeOf(plan, r) <= TimeOf(plan, s)
  BY <1>1, <1>2, ResultsAreRoutes
<1>4. Replying' = Replying /\ Sweep' = Sweep
  BY <1>1, SameRequest
<1>5. IF slot = 1 THEN FirstSlot ELSE LaterSlots
  BY <1>1 DEF PlannerInv, BudgetInv
<1>6. CASE Result = {}
  <2>1. pc' = "planned" /\ slot' = slot + 1 /\ UNCHANGED <<route, floor, fast>>
    BY <1>6 DEF LevelRun, NextSlot
  <2>2. slot' \in Nat \ {0} /\ slot' # 1
    BY <2>1, <1>2
  <2>3. RunInv'
    BY <2>1, <2>2, <1>1, <1>4 DEF RunInv, OfSweep, Between, Running
  <2>4. RouteInv'
    BY <2>1, <1>1, <1>2, <1>4 DEF RouteInv, WithRoute
  <2>5. LaterSlots'
    BY <2>1, <1>1, <1>3, <1>5, <1>6 DEF FirstSlot, LaterSlots, Between
  <2> QED BY <2>2, <2>3, <2>4, <2>5 DEF BudgetInv
<1>7. CASE Result # {}
  <2> DEFINE r == CHOOSE r \in Result : TRUE
  <2>1. r \in Result /\ r \in RoutesOf(plan)
    BY <1>3, <1>7
  <2>2. /\ route' = r /\ fast' = (IF fast = NULL THEN TravelTime(r) ELSE fast)
        /\ floor' = UnsafeCount(r)
        /\ pc' = (IF ForceSafer(r, Level, req.budget) THEN "avoid" ELSE "decide")
        /\ UNCHANGED <<slot, reruns>>
    BY <1>7, Zenon DEF LevelRun
  <2> HIDE DEF r
  <2>3. TravelTime(r) = TimeOf(plan, r) /\ UnsafeCount(r) = FlaggedOf(plan, r)
    BY <2>1, <1>1, <1>2, TimesAreNumbers
  <2>4. RunInv'
    BY <2>2, <1>1, <1>2, <1>4 DEF RunInv, OfSweep, Between, Running
  <2>5. RouteInv'
    BY <2>1, <2>2, <1>1, <1>2, <1>4 DEF RouteInv, WithRoute
  <2>6. CASE slot = 1
    <3>1. ask = TimesOf(plan) /\ fast = NULL /\ kept = <<>>
      BY <2>6, <1>1, <1>5 DEF FirstSlot
    <3>2. Level = "fast"
      BY <2>6, <1>1, <1>2, LambdaIs DEF PlanInv
    <3>3. pc' = "decide"
      BY <2>2, <3>2 DEF ForceSafer
    <3>4. \A s \in RoutesOf(plan) : TimeOf(plan, r) <= TimeOf(plan, s)
      BY <2>1, <3>1, <1>3
    <3>5. FirstSlot'
      BY <2>2, <2>3, <3>1, <3>3, <3>4, <1>1 DEF FirstSlot, Between
    <3> QED BY <2>2, <2>4, <2>5, <2>6, <3>5 DEF BudgetInv
  <2>7. CASE slot # 1
    <3>1. LaterSlots /\ RoutesOf(plan) # {}
      BY <2>1, <2>7, <1>5
    <3>2. /\ kept # <<>> /\ fast = TimeOf(plan, kept[1].route)
          /\ \A s \in RoutesOf(plan) : fast <= TimeOf(plan, s)
      BY <3>1 DEF LaterSlots
    <3>3. kept[1].route \in RoutesOf(plan)
      <4>1. kept[1] \in Alternatives(plan)
        BY <3>2, <1>2
      <4> QED BY <4>1 DEF Alternatives
    <3>4. fast # NULL
      BY <3>2, <3>3, <1>1, <1>2, TimesAreNumbers
    <3>5. LaterSlots'
      BY <3>2, <3>4, <2>2, <1>1 DEF LaterSlots
    <3> QED BY <2>2, <2>4, <2>5, <2>7, <3>5 DEF BudgetInv
  <2> QED BY <2>6, <2>7
<1> QED BY <1>6, <1>7

(* Past the first slot, what bounds the budget stays as long as it is kept. *)
LEMMA LaterStays ==
  ASSUME PlannerInv, Replying \/ slot # 1, req' = req,
         Replying \/ UNCHANGED <<plan, slot, fast, kept>>
  PROVE  BudgetInv'
<1>1. Replying' = Replying
  BY SameRequest
<1> QED BY <1>1 DEF PlannerInv, BudgetInv, LaterSlots

LEMMA FirstSlotIsShort ==
  ASSUME PlannerInv, pc \in {"avoid", "avoiding", "rerun", "baseline", "fastest", "single"}
  PROVE  Replying \/ slot # 1
BY DEF PlannerInv, BudgetInv, FirstSlot, Between

LEMMA RunAvoidingKeeps ==
  ASSUME PlannerInv, RunAvoiding PROVE ExactInv' /\ RunInv' /\ RouteInv' /\ BudgetInv'
<1>1. /\ pc = "avoid" /\ Run(Surcharged, "avoiding")
      /\ UNCHANGED <<req, plan, slot, arc, route, floor, fast, kept>>
  BY DEF RunAvoiding
<1>2. /\ slot \in Nat \ {0} /\ PlanInv /\ slot <= Len(Sweep) /\ GoodCosts(plan, arc)
      /\ route \in RoutesOf(plan)
  BY <1>1 DEF PlannerInv, RunInv, RouteInv, Between, WithRoute
<1>3. Lambda \in Nat
  BY <1>2, LambdaIs DEF PlanInv
<1>4. GoodCosts(plan, Surcharged)
  BY <1>1, <1>2, <1>3, SurchargedIsGood DEF PlanInv
<1>5. /\ ExactInv' /\ ask' = ProblemOf(plan, Surcharged) /\ ask'.arc = Surcharged
      /\ pc' = "avoiding"
  BY <1>1, <1>2, <1>4, RunBegins
<1>6. Replying' = Replying /\ Sweep' = Sweep
  BY <1>1, SameRequest
<1>7. RunInv'
  BY <1>1, <1>2, <1>4, <1>5, <1>6 DEF RunInv, OfSweep, OfReroute, Between, Running
<1>8. RouteInv'
  BY <1>1, <1>2, <1>5, <1>6 DEF PlannerInv, RouteInv, WithRoute
<1>9. BudgetInv'
  BY <1>1, LaterStays, FirstSlotIsShort
<1> QED BY <1>5, <1>7, <1>8, <1>9

LEMMA AvoidRunKeeps == ASSUME PlannerInv, AvoidRun PROVE RunInv' /\ RouteInv' /\ BudgetInv'
<1>1. /\ pc = "avoiding" /\ found /\ UNCHANGED <<searchVars, req, plan, slot, fast, kept>>
      /\ pc' = (IF Replying THEN "single" ELSE "decide")
  BY DEF AvoidRun
<1>2. /\ PlanInv /\ ExactInv /\ slot \in Nat \ {0} /\ slot <= Len(Sweep) /\ GoodCosts(plan, arc)
      /\ ask = ProblemOf(plan, ask.arc) /\ GoodCosts(plan, ask.arc) /\ route \in RoutesOf(plan)
  BY <1>1 DEF PlannerInv, RunInv, RouteInv, Running, Between, WithRoute
<1>3. Result \subseteq RoutesOf(plan)
  BY <1>1, <1>2, ResultsAreRoutes
<1>4. Replying' = Replying /\ Sweep' = Sweep
  BY <1>1, SameRequest
<1>5. route' \in RoutesOf(plan) /\ GoodCosts(plan, arc')
  <2> DEFINE clean == {r \in Result : UnsafeCount(r) < UnsafeCount(route)
                                       /\ Affordable(r, req.budget)}
  <2>1. IF clean = {} THEN UNCHANGED <<arc, route>>
        ELSE route' = (CHOOSE r \in clean : TRUE) /\ arc' = ask.arc
    BY Zenon DEF AvoidRun
  <2>2. clean \subseteq Result
    OBVIOUS
  <2> HIDE DEF clean
  <2> QED BY <2>1, <2>2, <1>2, <1>3
<1>6. RunInv'
  BY <1>1, <1>2, <1>4, <1>5 DEF PlannerInv, RunInv, OfSweep, OfReroute, Between, Running
<1>7. RouteInv'
  BY <1>1, <1>4, <1>5 DEF PlannerInv, RouteInv, WithRoute
<1>8. BudgetInv'
  BY <1>1, LaterStays, FirstSlotIsShort
<1> QED BY <1>6, <1>7, <1>8

LEMMA DiversifyKeeps ==
  ASSUME PlannerInv, Diversify PROVE ExactInv' /\ RunInv' /\ RouteInv' /\ BudgetInv'
<1> DEFINE dearer == [t \in DOMAIN arc |->
              IF t[2] \in SharedWithKept THEN (arc[t] * Cfg.inflate) \div 10 ELSE arc[t]]
<1>1. /\ pc = "decide" /\ LikeKept(route) /\ arc' = dearer /\ Run(arc', "rerun")
      /\ UNCHANGED <<req, plan, slot, route, floor, fast, kept>>
  BY DEF Diversify
<1>2. /\ slot \in Nat \ {0} /\ PlanInv /\ slot <= Len(Sweep) /\ GoodCosts(plan, arc)
      /\ route \in RoutesOf(plan)
  BY <1>1 DEF PlannerInv, RunInv, RouteInv, Between, WithRoute
<1>3. GoodCosts(plan, dearer)
  <2>1. \A t \in DOMAIN plan.price : plan.price[t].time \in Nat
    BY <1>1, <1>2, PricesAre DEF PlanInv
  <2>2. DOMAIN dearer = DOMAIN arc
    OBVIOUS
  <2>3. \A t \in DOMAIN arc :
          dearer[t] = arc[t] \/ dearer[t] = (arc[t] * Cfg.inflate) \div 10
    OBVIOUS
  <2> HIDE DEF dearer
  <2> QED BY <1>2, <2>1, <2>2, <2>3, InflatedIsGood
<1> HIDE DEF dearer
<1>4. /\ ExactInv' /\ ask' = ProblemOf(plan, arc') /\ ask'.arc = arc' /\ pc' = "rerun"
      /\ GoodCosts(plan, arc')
  BY <1>1, <1>2, <1>3, RunBegins
<1>5. ~Replying /\ Replying' = Replying /\ Sweep' = Sweep
  BY <1>1, SameRequest DEF PlannerInv, RunInv, OfReroute
<1>6. RunInv'
  BY <1>1, <1>2, <1>4, <1>5 DEF RunInv, OfSweep, OfReroute, Between, Running
<1>7. RouteInv'
  BY <1>1, <1>2, <1>4, <1>5 DEF PlannerInv, RouteInv, WithRoute
<1>8. slot # 1
  <2>1. kept # <<>>
    BY <1>1 DEF LikeKept
  <2> QED BY <1>5, <2>1 DEF PlannerInv, BudgetInv, FirstSlot
<1>9. BudgetInv'
  BY <1>1, <1>8, LaterStays
<1> QED BY <1>4, <1>6, <1>7, <1>9

LEMMA RerunKeeps == ASSUME PlannerInv, Rerun PROVE RunInv' /\ RouteInv' /\ BudgetInv'
<1>1. /\ pc = "rerun" /\ found /\ pc' = "decide"
      /\ UNCHANGED <<searchVars, req, plan, slot, arc, floor, fast, kept>>
      /\ route' = (IF Result = {} THEN route ELSE CHOOSE r \in Result : TRUE)
  BY DEF Rerun
<1>2. /\ PlanInv /\ ExactInv /\ slot \in Nat \ {0} /\ slot <= Len(Sweep) /\ GoodCosts(plan, arc)
      /\ ask = ProblemOf(plan, ask.arc) /\ GoodCosts(plan, ask.arc) /\ route \in RoutesOf(plan)
  BY <1>1 DEF PlannerInv, RunInv, RouteInv, Running, Between, WithRoute
<1>3. Result \subseteq RoutesOf(plan)
  BY <1>1, <1>2, ResultsAreRoutes
<1>4. ~Replying /\ Replying' = Replying /\ Sweep' = Sweep
  BY <1>1, SameRequest DEF PlannerInv, RunInv, OfReroute
<1>5. route' \in RoutesOf(plan)
  BY <1>1, <1>2, <1>3
<1>6. RunInv'
  BY <1>1, <1>2, <1>4 DEF RunInv, OfSweep, OfReroute, Between, Running
<1>7. RouteInv'
  BY <1>1, <1>4, <1>5 DEF PlannerInv, RouteInv, WithRoute
<1>8. BudgetInv'
  BY <1>1, LaterStays, FirstSlotIsShort
<1> QED BY <1>6, <1>7, <1>8

(* In the first slot nothing is like what is kept, and the floor is its own. *)
LEMMA DropKeeps == ASSUME PlannerInv, Drop PROVE RunInv' /\ RouteInv' /\ BudgetInv'
<1>1. /\ pc = "decide" /\ pc' = "planned" /\ slot' = slot + 1
      /\ IF LikeKept(route) THEN reruns = Cfg.maxReruns ELSE UnsafeCount(route) > floor
      /\ UNCHANGED <<searchVars, req, plan, arc, route, floor, fast, kept>>
  BY DEF Drop, NextSlot
<1>2. /\ slot \in Nat \ {0} /\ PlanInv /\ slot <= Len(Sweep) /\ route \in RoutesOf(plan)
  BY <1>1 DEF PlannerInv, RunInv, RouteInv, Between, WithRoute
<1>3. ~Replying /\ Replying' = Replying /\ Sweep' = Sweep
  BY <1>1, SameRequest DEF PlannerInv, RunInv, OfReroute
<1>4. slot' \in Nat \ {0} /\ slot' # 1
  BY <1>1, <1>2
<1>5. slot # 1
  <2> SUFFICES ASSUME slot = 1 PROVE FALSE
    OBVIOUS
  <2>1. kept = <<>> /\ floor = FlaggedOf(plan, route)
    BY <1>1, <1>3 DEF PlannerInv, BudgetInv, FirstSlot
  <2>2. ~LikeKept(route)
    BY <2>1 DEF LikeKept
  <2>3. UnsafeCount(route) = floor /\ floor \in Nat
    BY <2>1, <1>1, <1>2, TimesAreNumbers
  <2> QED BY <2>2, <2>3, <1>1
<1>6. RunInv'
  BY <1>1, <1>3, <1>4 DEF RunInv, OfSweep, Between, Running
<1>7. RouteInv'
  BY <1>1, <1>3 DEF PlannerInv, RouteInv, WithRoute
<1>8. BudgetInv'
  BY <1>1, <1>3, <1>4, <1>5 DEF PlannerInv, BudgetInv, LaterSlots
<1> QED BY <1>6, <1>7, <1>8

LEMMA KeepKeeps == ASSUME PlannerInv, Keep PROVE RunInv' /\ RouteInv' /\ BudgetInv'
<1> DEFINE one == [kind |-> Level, route |-> route]
<1>1. /\ pc = "decide" /\ pc' = "planned" /\ slot' = slot + 1 /\ kept' = Append(kept, one)
      /\ UNCHANGED <<searchVars, req, plan, arc, route, floor, fast>>
  BY DEF Keep, NextSlot
<1>2. /\ slot \in Nat \ {0} /\ PlanInv /\ slot <= Len(Sweep) /\ route \in RoutesOf(plan)
      /\ kept \in Seq(Alternatives(plan))
  BY <1>1 DEF PlannerInv, RunInv, RouteInv, Between, WithRoute
<1>3. ~Replying /\ Replying' = Replying /\ Sweep' = Sweep
  BY <1>1, SameRequest DEF PlannerInv, RunInv, OfReroute
<1>4. slot' \in Nat \ {0} /\ slot' # 1
  BY <1>1, <1>2
<1>5. one \in Alternatives(plan) /\ one.route = route
  <2>1. Level \in Levels
    BY <1>2, <1>3, LambdaIs DEF PlanInv
  <2> HIDE DEF Level
  <2> QED BY <2>1, <1>2 DEF Alternatives
<1> HIDE DEF one
<1>6. kept' \in Seq(Alternatives(plan)) /\ kept' # <<>>
      /\ (kept = <<>> => kept'[1] = one) /\ (kept # <<>> => kept'[1] = kept[1])
  BY <1>1, <1>2, <1>5
<1>7. RunInv'
  BY <1>1, <1>3, <1>4 DEF RunInv, OfSweep, Between, Running
<1>8. RouteInv'
  BY <1>1, <1>3, <1>6 DEF RouteInv, WithRoute
<1>9. LaterSlots'
  <2>1. CASE slot = 1
    <3>1. /\ kept = <<>> /\ fast = TimeOf(plan, route)
          /\ \A r \in RoutesOf(plan) : fast <= TimeOf(plan, r)
      BY <2>1, <1>1, <1>3 DEF PlannerInv, BudgetInv, FirstSlot
    <3> QED BY <3>1, <1>1, <1>5, <1>6 DEF LaterSlots
  <2>2. CASE slot # 1
    <3>1. LaterSlots /\ RoutesOf(plan) # {}
      BY <2>2, <1>2, <1>3 DEF PlannerInv, BudgetInv
    <3> QED BY <3>1, <1>1, <1>6 DEF LaterSlots
  <2> QED BY <2>1, <2>2
<1> QED BY <1>4, <1>7, <1>8, <1>9 DEF BudgetInv

-----------------------------------------------------------------------------
(* ... and a reroute's. *)
LEMMA SingleRunKeeps == ASSUME PlannerInv, SingleRun PROVE RunInv' /\ RouteInv' /\ BudgetInv'
<1>1. /\ pc = "level" /\ found /\ Replying
      /\ UNCHANGED <<searchVars, req, plan, slot, arc, floor, fast, kept>>
      /\ route' = (IF Result = {} THEN <<>> ELSE CHOOSE r \in Result : TRUE)
      /\ pc' \in {"baseline", "single"} /\ (Result = {} => pc' = "single")
  BY Zenon DEF SingleRun
<1>2. /\ PlanInv /\ ExactInv /\ slot \in Nat \ {0} /\ slot <= Len(Sweep) /\ GoodCosts(plan, arc)
      /\ ask = ProblemOf(plan, ask.arc)
  BY <1>1 DEF PlannerInv, RunInv, RouteInv, Running, Between, WithRoute
<1>3. Result \subseteq RoutesOf(plan)
  BY <1>1, <1>2, ResultsAreRoutes
<1>4. Replying' = Replying /\ Sweep' = Sweep
  BY <1>1, SameRequest
<1>5. (Result = {} => route' = <<>>) /\ (Result # {} => route' \in RoutesOf(plan))
  BY <1>1, <1>3
<1>6. RunInv'
  BY <1>1, <1>2, <1>4 DEF RunInv, OfReroute, Between, Running
<1>7. RouteInv'
  BY <1>1, <1>4, <1>5 DEF PlannerInv, RouteInv, WithRoute
<1>8. BudgetInv'
  BY <1>1, LaterStays
<1> QED BY <1>6, <1>7, <1>8

LEMMA RunBaselineKeeps ==
  ASSUME PlannerInv, RunBaseline PROVE ExactInv' /\ RunInv' /\ RouteInv' /\ BudgetInv'
<1> DEFINE times == ArcCost(plan.price, 0)
<1>1. /\ pc = "baseline" /\ Run(times, "fastest")
      /\ UNCHANGED <<req, plan, slot, arc, route, floor, fast, kept>>
  BY DEF RunBaseline
<1>2. /\ slot \in Nat \ {0} /\ PlanInv /\ slot <= Len(Sweep) /\ GoodCosts(plan, arc)
      /\ route \in RoutesOf(plan)
  BY <1>1 DEF PlannerInv, RunInv, RouteInv, Between, WithRoute
<1>3. GoodCosts(plan, times)
  BY <1>1, <1>2, ArcCostIsGood DEF PlanInv
<1> HIDE DEF times
<1>4. /\ ExactInv' /\ ask' = ProblemOf(plan, times) /\ ask'.arc = times /\ pc' = "fastest"
  BY <1>1, <1>2, <1>3, RunBegins
<1>5. Replying /\ Replying' = Replying /\ Sweep' = Sweep
  BY <1>1, SameRequest DEF PlannerInv, RunInv, OfSweep
<1>6. RunInv'
  BY <1>1, <1>2, <1>3, <1>4, <1>5 DEF RunInv, OfReroute, Between, Running
<1>7. RouteInv'
  BY <1>1, <1>2, <1>4, <1>5 DEF PlannerInv, RouteInv, WithRoute
<1>8. BudgetInv'
  BY <1>1, LaterStays, FirstSlotIsShort
<1> QED BY <1>4, <1>6, <1>7, <1>8

LEMMA BaselineRunKeeps == ASSUME PlannerInv, BaselineRun PROVE RunInv' /\ RouteInv' /\ BudgetInv'
<1>1. /\ pc = "fastest" /\ UNCHANGED <<searchVars, req, plan, slot, arc, route, kept>>
      /\ pc' \in {"single", "avoid"}
  BY DEF BaselineRun
<1>2. /\ slot \in Nat \ {0} /\ slot <= Len(Sweep) /\ GoodCosts(plan, arc)
      /\ route \in RoutesOf(plan)
  BY <1>1 DEF PlannerInv, RunInv, RouteInv, Running, Between, WithRoute
<1>3. Replying /\ Replying' = Replying /\ Sweep' = Sweep
  BY <1>1, SameRequest DEF PlannerInv, RunInv, OfSweep
<1>4. RunInv'
  BY <1>1, <1>2, <1>3 DEF RunInv, OfReroute, Between, Running
<1>5. RouteInv'
  BY <1>1, <1>2, <1>3 DEF PlannerInv, RouteInv, WithRoute
<1>6. BudgetInv'
  BY <1>1, <1>3, LaterStays
<1> QED BY <1>4, <1>5, <1>6

LEMMA PlannerHolds == Spec => []PlannerInv
<1>1. Init => PlannerInv
  <2> SUFFICES ASSUME Init PROVE PlannerInv
    OBVIOUS
  <2>1. ExactInv /\ PlanInv
    BY ExactIdle DEF Init, PlanInv
  <2>2. pc = "resolve" /\ slot = 1 /\ kept = <<>> /\ fast = NULL
    BY DEF Init
  <2>3. RunInv
    BY <2>2 DEF RunInv, OfSweep, OfReroute, Between, Running
  <2>4. RouteInv
    BY <2>2 DEF RouteInv, WithRoute
  <2>5. BudgetInv
    BY <2>2 DEF BudgetInv, FirstSlot, Between
  <2> QED BY <2>1, <2>3, <2>4, <2>5 DEF PlannerInv
<1>2. PlannerInv /\ [Next]_vars /\ PlanInv' => PlannerInv'
  <2> SUFFICES ASSUME PlannerInv, [Next]_vars, PlanInv' PROVE PlannerInv'
    OBVIOUS
  <2>1. CASE UNCHANGED plannerVars /\ [SearchStep]_searchVars
    <3>1. ExactInv' /\ UNCHANGED <<req, pc, plan, slot, arc, route, floor, fast, kept>>
      BY <2>1, ExactStep DEF PlannerInv, plannerVars
    <3>2. ask' = ask
      BY <2>1 DEF SearchStep, Pop, Finish, searchVars
    <3>3. Replying' = Replying /\ Sweep' = Sweep
      BY <3>1, SameRequest
    <3>4. RunInv' /\ RouteInv'
      BY <3>1, <3>2, <3>3 DEF PlannerInv, RunInv, RouteInv
    <3>5. BudgetInv'
      BY <3>1, <3>2, <3>3 DEF PlannerInv, BudgetInv, FirstSlot, LaterSlots
    <3> QED BY <3>1, <3>4, <3>5, <2>1 DEF PlannerInv
  <2>2. CASE Search \/ UNCHANGED vars
    BY <2>1, <2>2 DEF Search, vars
  <2>3. CASE UNCHANGED searchVars /\ RunInv' /\ RouteInv' /\ BudgetInv'
    BY <2>3, ExactStep DEF PlannerInv
  <2>4. CASE ExactInv' /\ RunInv' /\ RouteInv' /\ BudgetInv'
    BY <2>4 DEF PlannerInv
  <2>5. CASE RunLevel \/ RunAvoiding \/ Diversify \/ RunBaseline
    BY <2>4, <2>5, RunLevelKeeps, RunAvoidingKeeps, DiversifyKeeps, RunBaselineKeeps
  <2>6. CASE Resolve \/ LevelRun \/ AvoidRun \/ Rerun \/ Drop \/ Keep
    <3>1. UNCHANGED searchVars
      BY <2>6 DEF Resolve, LevelRun, AvoidRun, Rerun, Drop, Keep
    <3> QED BY <2>3, <2>6, <3>1, ResolveKeeps, LevelRunKeeps, AvoidRunKeeps, RerunKeeps,
            DropKeeps, KeepKeeps
  <2>7. CASE SingleRun \/ BaselineRun
    <3>1. UNCHANGED searchVars
      BY <2>7 DEF SingleRun, BaselineRun
    <3> QED BY <2>3, <2>7, <3>1, SingleRunKeeps, BaselineRunKeeps
  <2>8. CASE ShortCircuit \/ Reply \/ ReplySingle
    <3>1. PICK r : Answer(r) /\ pc \in {"planned", "single"}
      BY <2>8 DEF ShortCircuit, Reply, ReplySingle
    <3>2. UNCHANGED searchVars
      BY <3>1 DEF Answer
    <3> QED BY <2>3, <3>1, <3>2, AnswerKeeps
  <2> QED BY <2>2, <2>5, <2>6, <2>7, <2>8 DEF Next
<1> QED BY <1>1, <1>2, PlanHolds, PTL DEF Spec

(* search.py: the promises of a search hold for every search a request runs. *)
THEOREM PlannerSearchesAreExact == Spec => [](SearchIsExact /\ ReachedAreFollowed)
<1>1. PlannerInv => SearchIsExact /\ ReachedAreFollowed
  BY ExactIs DEF PlannerInv, ExactInv, SearchInv
<1> QED BY <1>1, PlannerHolds, PTL

-----------------------------------------------------------------------------
(* What is left within the budget. *)
Lefts ==
  LET left[i \in 1..Len(kept)] ==
        IF i = 1 THEN <<kept[1]>>
        ELSE IF Affordable(kept[i].route, req.budget) THEN Append(left[i - 1], kept[i])
        ELSE left[i - 1]
  IN left

(* The fastest route first, then routes that can be afforded. *)
Cheap(S) == {k \in S : Affordable(k.route, req.budget)}
InOrder(S) ==
  {x \in Seq(S) : Len(x) > 0 /\ x[1] = kept[1] /\ \A i \in 2..Len(x) : x[i] \in Cheap(S)}

LEMMA AppendKeepsOrder ==
  ASSUME NEW S, NEW x \in InOrder(S), NEW k \in Cheap(S)
  PROVE  Append(x, k) \in InOrder(S)
<1>1. x \in Seq(S) /\ Len(x) > 0 /\ x[1] = kept[1] /\ \A i \in 2..Len(x) : x[i] \in Cheap(S)
  BY DEF InOrder
<1>2. k \in S
  BY DEF Cheap
<1> DEFINE y == Append(x, k)
<1>3. /\ y \in Seq(S) /\ Len(y) = Len(x) + 1 /\ Len(x) \in Nat
      /\ \A i \in 1..Len(x) : y[i] = x[i]
      /\ y[Len(x) + 1] = k
  BY <1>1, <1>2
<1> HIDE DEF y
<1>4. \A i \in 2..Len(y) : y[i] \in Cheap(S)
  BY <1>1, <1>3
<1>5. y[1] = kept[1] /\ Len(y) > 0
  BY <1>1, <1>3
<1> QED BY <1>3, <1>4, <1>5 DEF InOrder, y

LEMMA CeilingIs ==
  ASSUME NEW S, kept \in Seq(S), kept # <<>>
  PROVE  WithinCeiling \in InOrder(S)
<1> DEFINE N == Len(kept)
           Ok == {n \in 1..N : kept[n] \in Cheap(S)}
           T == InOrder(S)
           b == <<kept[1]>>
           G == [n \in 2..N |-> [x \in T |-> IF n \in Ok THEN Append(x, kept[n]) ELSE x]]
           f == Recursion(1, N, b, G)
           next(n, x) == IF n \in Ok THEN Append(x, kept[n]) ELSE x
<1>1. N \in Nat /\ 1 \in 1..N /\ N \in 1..N /\ \A n \in 1..N : kept[n] \in S
  OBVIOUS
<1>2. b \in T
  <2>1. b \in Seq(S) /\ Len(b) = 1 /\ b[1] = kept[1]
    BY <1>1
  <2> HIDE DEF b
  <2>2. Len(b) > 0 /\ \A i \in 2..Len(b) : b[i] \in Cheap(S)
    BY <2>1
  <2> QED BY <2>1, <2>2, Zenon DEF InOrder
<1>3. ASSUME NEW n \in 2..N, NEW x \in T PROVE next(n, x) \in T /\ G[n][x] = next(n, x)
  <2>1. n \in 1..N /\ kept[n] \in S
    BY <1>1
  <2>2. n \in Ok => Append(x, kept[n]) \in T
    BY <2>1, AppendKeepsOrder
  <2> HIDE DEF T, Ok
  <2> QED BY <2>2
<1>4. \A n \in 1..N : n \in Ok <=> Affordable(kept[n].route, req.budget)
  BY <1>1 DEF Cheap
<1> HIDE DEF T, b, Ok, G, next, N
<1>5. f = [n \in 1..N |-> IF n = 1 THEN b ELSE G[n][f[n - 1]]]
  BY <1>1, RecursionHolds
<1> HIDE DEF f
<1>6. \A n \in 1..N : f[n] = IF n = 1 THEN b ELSE G[n][f[n - 1]]
  BY <1>5, Zenon
<1>7. f[1] = b /\ \A n \in 2..N : n \in 1..N /\ n # 1 /\ f[n] = G[n][f[n - 1]]
  BY <1>1, <1>6
<1> DEFINE P == {n \in 1..N : f[n] \in T}
<1>8. 1 \in Nat /\ 1 + 1 = 2
  OBVIOUS
<1>9. 1..N \subseteq P
  <2>1. 1 \in P
    BY <1>1, <1>2, <1>7
  <2>2. \A n \in 2..N : n - 1 \in P => n \in P
    BY <1>3, <1>7
  <2> HIDE DEF P
  <2> QED BY <2>1, <2>2, <1>1, <1>8, InductionFromTo
<1>10. \A n \in 2..N : n - 1 \in 1..N
  BY <1>1
<1>11. f = [n \in 1..N |-> IF n = 1 THEN b ELSE next(n, f[n - 1])]
  <2> DEFINE r == [n \in 1..N |-> IF n = 1 THEN b ELSE G[n][f[n - 1]]]
             s == [n \in 1..N |-> IF n = 1 THEN b ELSE next(n, f[n - 1])]
  <2>1. ASSUME NEW n \in 1..N PROVE r[n] = s[n]
    <3>1. n # 1 => n \in 2..N
      BY <1>1
    <3>2. n # 1 => G[n][f[n - 1]] = next(n, f[n - 1])
      BY <3>1, <1>3, <1>9, <1>10
    <3> QED BY <3>2
  <2>2. r = s
    <3>1. r = [n \in 1..N |-> r[n]] /\ s = [n \in 1..N |-> s[n]]
      OBVIOUS
    <3> HIDE DEF r, s
    <3> QED BY <3>1, <2>1, Zenon
  <2> QED BY <2>2, <1>5
<1> DEFINE e(g) == [i \in 1..Len(kept) |->
                     IF i = 1 THEN <<kept[1]>>
                     ELSE IF Affordable(kept[i].route, req.budget) THEN Append(g[i - 1], kept[i])
                     ELSE g[i - 1]]
<1>12. ASSUME NEW g PROVE e(g) = [n \in 1..N |-> IF n = 1 THEN b ELSE next(n, g[n - 1])]
  <2> DEFINE s == [n \in 1..N |-> IF n = 1 THEN b ELSE next(n, g[n - 1])]
             r == e(g)
  <2>1. ASSUME NEW n \in 1..N PROVE r[n] = s[n]
    BY <1>4 DEF N, b, next
  <2>2. r = [n \in 1..N |-> r[n]] /\ s = [n \in 1..N |-> s[n]]
    BY DEF N
  <2> HIDE DEF r, s
  <2>3. r = s
    BY <2>1, <2>2, Zenon
  <2> QED BY <2>3 DEF r, s
<1> DEFINE U == Lefts
<1>13. f = e(f)
  BY <1>11, <1>12
<1>14. U = e(U)
  <2>1. \E g : g = e(g)
    BY <1>13
  <2> QED BY <2>1, Zenon DEF Lefts
<1> HIDE DEF U, e
<1>15. U = [n \in 1..N |-> IF n = 1 THEN b ELSE next(n, U[n - 1])]
  BY <1>12, <1>14
<1>16. \A n \in 1..N : U[n] = IF n = 1 THEN b ELSE next(n, U[n - 1])
  BY <1>15, Zenon
<1> DEFINE Q == {n \in 1..N : U[n] \in T}
<1>17. 1..N \subseteq Q
  <2>1. 1 \in Q
    BY <1>1, <1>2, <1>16
  <2>2. \A n \in 2..N : n - 1 \in Q => n \in Q
    BY <1>1, <1>3, <1>16
  <2> HIDE DEF Q
  <2> QED BY <2>1, <2>2, <1>1, <1>8, InductionFromTo
<1>18. WithinCeiling = U[N]
  BY DEF WithinCeiling, Lefts, U, N
<1> QED BY <1>1, <1>17, <1>18 DEF T

-----------------------------------------------------------------------------

-----------------------------------------------------------------------------
(* What is answered. *)
Links(r) == [i \in 1..(Len(r) - 1) |-> <<r[i], r[i + 1]>>]
Points(r) ==
  [i \in {i \in DOMAIN Links(r) : plan.price[Links(r)[i]].unsafe # NULL} |->
    [at |-> Pack.edge[Links(r)[i][1]].head, type |-> plan.price[Links(r)[i]].unsafe,
     wait |-> plan.price[Links(r)[i]].delay]]

Shows(d, r) == d.eta = Eta(r) /\ d.points = Points(r)

LEMMA DescribedIs ==
  ASSUME NEW kind, NEW lambda, NEW r
  PROVE  /\ Shows(Described(kind, lambda, r), r)
         /\ \A x : Shows([Described(kind, lambda, r) EXCEPT !.detour = x], r)
BY DEF Described, Shows, Eta, Delays, Points, Links

LEMMA OneEdgeIsARoute ==
  ASSUME PlanInv, pc # "resolve", NEW e \in SameEdge
  PROVE  <<e>> \in RoutesOf(plan)
<1>1. e \in DOMAIN plan.seed /\ e \in DOMAIN plan.refund
  <2>1. PICK o \in OnOneEdge(plan.origins, plan.dests) : e = o[1]
    BY DEF SameEdge
  <2>2. o \in plan.origins /\ \E d \in plan.dests : d[1] = o[1]
    BY DEF OnOneEdge
  <2> QED BY <2>1, <2>2, PlanIs DEF PlanInv
<1> DEFINE p == TimesOf(plan)
           r == <<e>>
<1>2. IsProblem(p) /\ p.h = plan.h /\ p.seeds = plan.seed /\ p.dests = plan.refund
  BY PlansAreRoads DEF PlanInv, TimesOf, ProblemOf
<1>3. e \in DOMAIN plan.h
  BY <1>1, <1>2 DEF IsProblem
<1>4. r \in Seq(DOMAIN plan.h) /\ Len(r) = 1 /\ r[1] = e
  <2>1. \A S : e \in S => <<e>> \in Seq(S)
    OBVIOUS
  <2>2. r \in Seq(DOMAIN plan.h)
    BY <1>3, <2>1
  <2> QED BY <2>2
<1> HIDE DEF p, r
<1>5. IsRoute(p, r)
  BY <1>1, <1>2, <1>4 DEF IsRoute, IsWay
<1> QED BY <1>4, <1>5 DEF RoutesOf, p, r

(* The routes a request without a search, a sweep and a reroute answer.     *)
LEMMA OneEdgeIsShown ==
  ASSUME PlannerInv, ShortCircuit
  PROVE  \E r \in RoutesOf(plan) : DOMAIN reply' = {1} /\ Shows(reply'[1], r)
<1>1. pc = "planned" /\ PlanInv
  BY DEF ShortCircuit, PlannerInv
<1>2. PICK e \in SameEdge : reply' = <<Described(Level, Lambda, <<e>>)>>
  BY DEF ShortCircuit, Answer
<1>3. <<e>> \in RoutesOf(plan)
  BY <1>1, OneEdgeIsARoute
<1> DEFINE d == Described(Level, Lambda, <<e>>)
<1>4. Shows(d, <<e>>)
  BY DescribedIs
<1> HIDE DEF d
<1>5. reply' = <<d>>
  BY <1>2 DEF d
<1>6. DOMAIN reply' = {1} /\ reply'[1] = d
  BY <1>5
<1> QED BY <1>3, <1>4, <1>6

LEMMA SweepIsShown ==
  ASSUME PlannerInv, Reply, kept # <<>>
  PROVE  /\ WithinCeiling \in InOrder(Alternatives(plan))
         /\ DOMAIN reply' = DOMAIN WithinCeiling
         /\ \A i \in DOMAIN reply' : Shows(reply'[i], WithinCeiling[i].route)
<1> DEFINE left == WithinCeiling
           kind(i) == IF req.safety /\ Len(left) > 1 THEN Label(i, Len(left)) ELSE left[i].kind
           shown == [i \in DOMAIN left |-> Described(kind(i), Cfg.lambda[kind(i)], left[i].route)]
<1>1. left \in InOrder(Alternatives(plan))
  BY CeilingIs DEF PlannerInv, RouteInv
<1>2. reply' = WithDetour(shown)
  BY DEF Reply, Answer
<1>3. \A i \in DOMAIN left : \A x : Shows([shown[i] EXCEPT !.detour = x], left[i].route)
  <2> HIDE DEF left, kind
  <2> QED BY DescribedIs
<1>4. DOMAIN shown = DOMAIN left
  OBVIOUS
<1> HIDE DEF left, shown
<1>5. DOMAIN reply' = DOMAIN left /\ \A i \in DOMAIN left : \E x : reply'[i] = [shown[i] EXCEPT !.detour = x]
  BY <1>2, <1>4 DEF WithDetour
<1> QED BY SMTT(30), <1>1, <1>3, <1>5 DEF left

LEMMA SingleIsShown ==
  ASSUME PlannerInv, ReplySingle
  PROVE  reply' = <<>> \/ \E r \in RoutesOf(plan) : DOMAIN reply' = {1} /\ Shows(reply'[1], r)
<1>1. /\ route = <<>> \/ route \in RoutesOf(plan)
      /\ reply' = IF route = <<>> THEN <<>> ELSE <<Described(req.level, req.lambda, route)>>
  BY DEF PlannerInv, RouteInv, ReplySingle, Answer
<1> DEFINE d == Described(req.level, req.lambda, route)
<1>2. Shows(d, route) /\ (route # <<>> => reply' = <<d>>)
  BY <1>1, DescribedIs
<1> HIDE DEF d
<1>3. route # <<>> => DOMAIN reply' = {1} /\ reply'[1] = d
  BY <1>2
<1> QED BY <1>1, <1>2, <1>3

(* engine.py:44-51, alternatives.py:45-52: on every network and for every    *)
(* request, whatever costs the levels, the avoidance and the reruns were     *)
(* searched at, an alternative shown takes no more than the budget over the  *)
(* first one in the durations that are shown, and never less.                *)
THEOREM BudgetsHold == Spec => []WithinBudget
<1>1. Init => WithinBudget
  BY DEF Init, WithinBudget
<1>2. PlannerInv /\ WithinBudget /\ [Next]_vars => WithinBudget'
  <2> SUFFICES ASSUME PlannerInv, WithinBudget, [Next]_vars PROVE WithinBudget'
    OBVIOUS
  <2>1. CASE UNCHANGED <<req, reply>>
    BY <2>1 DEF WithinBudget, Replying
  <2>2. CASE ~ UNCHANGED <<req, reply>>
    <3>1. ShortCircuit \/ Reply \/ ReplySingle
      BY <2>2 DEF Next, vars, plannerVars, Search, Resolve, RunLevel, LevelRun, RunAvoiding,
         AvoidRun, Diversify, Rerun, Drop, Keep, SingleRun, RunBaseline, BaselineRun
    <3>2. req' = req
      BY <3>1 DEF ShortCircuit, Reply, ReplySingle, Answer
    <3>3. Replying' = Replying
      BY <3>2, SameRequest
    <3>4. PlanInv /\ (~Replying => pc # "single")
      BY DEF PlannerInv, RunInv, OfSweep
    <3>5. CASE ReplySingle
      BY <3>3, <3>4, <3>5 DEF ReplySingle, WithinBudget
    <3>6. CASE ShortCircuit
      <4>1. PICK r \in RoutesOf(plan) : DOMAIN reply' = {1} /\ Shows(reply'[1], r)
        BY <3>6, OneEdgeIsShown
      <4>2. reply'[1].eta \in Int
        BY <4>1, <3>4, <3>6, TimesAreNumbers DEF Shows, ShortCircuit
      <4> QED BY <4>1, <4>2 DEF WithinBudget
    <3>7. CASE Reply
      <4>1. pc = "planned" /\ slot > Len(Sweep) /\ ~Replying /\ slot \in Nat
        BY <3>7 DEF Reply, PlannerInv, RunInv
      <4>2. LaterSlots
        BY <4>1, FirstSlotIsASlot DEF PlannerInv, BudgetInv
      <4>3. CASE kept = <<>>
        BY <3>7, <4>3 DEF Reply, Answer, WithinBudget
      <4>4. CASE kept # <<>>
        <5> DEFINE left == WithinCeiling
                   T(i) == TimeOf(plan, left[i].route)
        <5>1. /\ left \in InOrder(Alternatives(plan)) /\ DOMAIN reply' = DOMAIN left
              /\ \A i \in DOMAIN reply' : Shows(reply'[i], left[i].route)
          BY <3>7, <4>4, SweepIsShown
        <5> HIDE DEF left
        <5>2. /\ DOMAIN left = 1..Len(left) /\ Len(left) \in Nat \ {0} /\ left[1] = kept[1]
              /\ \A i \in DOMAIN left : left[i] \in Alternatives(plan)
              /\ \A i \in DOMAIN left \ {1} : left[i] \in Cheap(Alternatives(plan))
          BY <5>1 DEF InOrder
        <5>3. \A i \in DOMAIN left : left[i].route \in RoutesOf(plan)
          BY <5>2 DEF Alternatives
        <5>4. fast = T(1) /\ \A r \in RoutesOf(plan) : fast <= TimeOf(plan, r)
          BY <4>2, <4>4, <5>2 DEF LaterSlots
        <5>5. \A i \in DOMAIN left : T(i) \in Int /\ T(1) <= T(i) /\ reply'[i].eta = T(i)
                                     /\ T(i) = TravelTime(left[i].route)
          BY <3>4, <4>1, <5>1, <5>3, <5>4, TimesAreNumbers DEF Shows
        <5>6. \A i \in DOMAIN left \ {1} : 100 * T(i) <= (100 + req.budget) * T(1)
          BY <5>2, <5>4, <5>5 DEF Cheap, Affordable
        <5>7. req.budget \in Nat /\ 1 \in DOMAIN left
          BY <3>4, <5>2, RequestsAreSane DEF PlanInv
        <5> HIDE DEF T
        <5>8. \A i \in DOMAIN left \ {1} : 100 * (T(i) - T(1)) <= req.budget * T(1)
          <6> TAKE i \in DOMAIN left \ {1}
          <6> DEFINE x == T(i)
                     y == T(1)
                     b == req.budget
          <6>1. x \in Int /\ y \in Int /\ b \in Int /\ 100 * x <= (100 + b) * y
            BY <5>5, <5>6, <5>7
          <6> HIDE DEF x, y, b
          <6>2. (100 + b) * y = 100 * y + b * y /\ b * y \in Int
            BY <6>1
          <6>3. 100 * (x - y) <= b * y
            BY <6>1, <6>2
          <6> QED BY <6>3 DEF x, y, b
        <5>9. \A i \in DOMAIN reply' :
                /\ 100 * (reply'[i].eta - reply'[1].eta) <= req'.budget * reply'[1].eta \/ i = 1
                /\ reply'[i].eta >= reply'[1].eta
          <6> TAKE i \in DOMAIN reply'
          <6>1. reply'[i].eta = T(i) /\ reply'[1].eta = T(1) /\ T(1) <= T(i) /\ i \in DOMAIN left
                /\ T(1) \in Int /\ T(i) \in Int
            BY <5>1, <5>5, <5>7
          <6>2. i # 1 => 100 * (T(i) - T(1)) <= req'.budget * T(1)
            BY <6>1, <5>8, <3>2
          <6> QED BY <6>1, <6>2
        <5> QED BY <5>9 DEF WithinBudget
      <4> QED BY <4>3, <4>4
    <3> QED BY <3>1, <3>5, <3>6, <3>7
  <2> QED BY <2>1, <2>2
<1> QED BY <1>1, <1>2, PlannerHolds, PTL DEF Spec

-----------------------------------------------------------------------------
(* The walk out along an arm, step by step. *)
WalkOn(g, w) ==
  LET on == g.adj[w.cur] \ {w.prev}
      next == CHOOSE n \in on : TRUE
  IN IF w.cur \in g.junctions \/ Cardinality(on) # 1 THEN w
     ELSE [prev |-> w.cur, cur |-> next, dist |-> w.dist + g.len[{w.cur, next}],
           kinds |-> w.kinds \cup Collected(g, w)]

FirstStep(g, j, n) == [prev |-> j, cur |-> n, dist |-> g.len[{j, n}], kinds |-> {}]

Walk(g, j, n) ==
  CHOOSE f : f = [i \in 1..MaxWalkSteps |->
                   IF i = 1 THEN FirstStep(g, j, n) ELSE WalkOn(g, f[i - 1])]

LEMMA WalkHolds ==
  ASSUME NEW g, NEW j, NEW n
  PROVE  /\ Walk(g, j, n)[1] = FirstStep(g, j, n)
         /\ \A i \in 2..MaxWalkSteps : Walk(g, j, n)[i] = WalkOn(g, Walk(g, j, n)[i - 1])
         /\ ArmFrom(g, j, n).kinds = Walk(g, j, n)[MaxWalkSteps].kinds
<1> DEFINE N == MaxWalkSteps
           b == FirstStep(g, j, n)
           Walks(m, f) == f = [i \in 1..m |-> IF i = 1 THEN b ELSE WalkOn(g, f[i - 1])]
           P == {m \in 1..N : \E f : Walks(m, f)}
<1>1. N \in Nat /\ 1 \in 1..N /\ N \in 1..N /\ 1 \in Nat /\ 1 + 1 = 2
  BY WalksAreBounded
<1>2. 1 \in P
  <2> DEFINE f == [i \in 1..1 |-> b]
  <2>1. \A i \in 1..1 : i = 1
    OBVIOUS
  <2>2. f = [i \in 1..1 |-> IF i = 1 THEN b ELSE WalkOn(g, f[i - 1])]
    BY <2>1
  <2> HIDE DEF f
  <2>3. \E e : Walks(1, e)
    BY <2>2
  <2> HIDE DEF Walks
  <2> QED BY <2>3, <1>1
<1>3. ASSUME NEW m \in 2..N, m - 1 \in P PROVE m \in P
  <2>1. PICK f : Walks(m - 1, f)
    BY <1>3
  <2> DEFINE h == [i \in 1..m |-> IF i = m THEN WalkOn(g, f[m - 1]) ELSE f[i]]
             r == [i \in 1..m |-> IF i = 1 THEN b ELSE WalkOn(g, h[i - 1])]
  <2>2. \A i \in 1..(m - 1) : f[i] = IF i = 1 THEN b ELSE WalkOn(g, f[i - 1])
    BY <2>1
  <2>3. h[m] = WalkOn(g, f[m - 1]) /\ \A i \in 1..(m - 1) : h[i] = f[i]
    OBVIOUS
  <2>4. ASSUME NEW i \in 1..m PROVE h[i] = r[i]
    <3>1. r[i] = IF i = 1 THEN b ELSE WalkOn(g, h[i - 1])
      OBVIOUS
    <3> HIDE DEF h, r, b
    <3>2. CASE i = m
      <4>1. m - 1 \in 1..(m - 1) /\ m # 1
        OBVIOUS
      <4> QED BY <2>3, <3>1, <3>2, <4>1
    <3>3. CASE i # m
      <4>1. i \in 1..(m - 1) /\ (i # 1 => i - 1 \in 1..(m - 1))
        BY <3>3
      <4> QED BY <2>2, <2>3, <3>1, <4>1
    <3> QED BY <3>2, <3>3
  <2>5. h = r
    <3>1. h = [i \in 1..m |-> h[i]] /\ r = [i \in 1..m |-> r[i]]
      OBVIOUS
    <3> HIDE DEF h, r
    <3> QED BY <3>1, <2>4, Zenon
  <2> HIDE DEF h
  <2>6. Walks(m, h)
    BY <2>5
  <2>7. m \in 1..N
    OBVIOUS
  <2> HIDE DEF Walks
  <2> QED BY <2>6, <2>7
<1>4. N \in P
  <2> HIDE DEF P
  <2> QED BY <1>1, <1>2, <1>3, InductionFromTo
<1> DEFINE w == Walk(g, j, n)
<1>5. w = [i \in 1..N |-> IF i = 1 THEN b ELSE WalkOn(g, w[i - 1])]
  BY <1>4, Zenon DEF Walk
<1>6. ArmFrom(g, j, n).kinds = w[N].kinds
  BY DEF ArmFrom, Walk, WalkOn, FirstStep
<1> HIDE DEF w, b, N
<1>7. \A i \in 1..N : w[i] = IF i = 1 THEN b ELSE WalkOn(g, w[i - 1])
  BY <1>5, Zenon
<1>8. \A i \in 2..N : i \in 1..N /\ i # 1
  BY <1>1
<1>9. w[1] = b /\ \A i \in 2..N : w[i] = WalkOn(g, w[i - 1])
  BY <1>1, <1>7, <1>8
<1> QED BY <1>6, <1>9 DEF w, b, N

(* The nodes on the way to a junction, by their number of steps from it. *)
Around(g, j) == {<<n, g.len[{j, n}]>> : n \in g.adj[j] \ g.junctions}
Further(g, s) ==
  s \cup UNION {{<<n, x[2] + g.len[{x[1], n}]>> : n \in g.adj[x[1]] \ g.junctions} : x \in s}

Near(g, j) ==
  CHOOSE f : f = [k \in 1..MaxWalkSteps |-> IF k = 1 THEN Around(g, j) ELSE Further(g, f[k - 1])]

LEMMA NearHolds ==
  ASSUME NEW g, NEW j
  PROVE  /\ Near(g, j)[1] = Around(g, j)
         /\ \A k \in 2..MaxWalkSteps : Near(g, j)[k] = Further(g, Near(g, j)[k - 1])
         /\ WayTo(g, j) = Near(g, j)[MaxWalkSteps]
<1> DEFINE N == MaxWalkSteps
           b == Around(g, j)
           Goes(m, f) == f = [i \in 1..m |-> IF i = 1 THEN b ELSE Further(g, f[i - 1])]
           P == {m \in 1..N : \E f : Goes(m, f)}
<1>1. N \in Nat /\ 1 \in 1..N /\ N \in 1..N /\ 1 \in Nat /\ 1 + 1 = 2
  BY WalksAreBounded
<1>2. 1 \in P
  <2> DEFINE f == [i \in 1..1 |-> b]
  <2>1. \A i \in 1..1 : i = 1
    OBVIOUS
  <2>2. f = [i \in 1..1 |-> IF i = 1 THEN b ELSE Further(g, f[i - 1])]
    BY <2>1
  <2> HIDE DEF f
  <2>3. \E e : Goes(1, e)
    BY <2>2
  <2> HIDE DEF Goes
  <2> QED BY <2>3, <1>1
<1>3. ASSUME NEW m \in 2..N, m - 1 \in P PROVE m \in P
  <2>1. PICK f : Goes(m - 1, f)
    BY <1>3
  <2> DEFINE h == [i \in 1..m |-> IF i = m THEN Further(g, f[m - 1]) ELSE f[i]]
             r == [i \in 1..m |-> IF i = 1 THEN b ELSE Further(g, h[i - 1])]
  <2>2. \A i \in 1..(m - 1) : f[i] = IF i = 1 THEN b ELSE Further(g, f[i - 1])
    BY <2>1
  <2>3. h[m] = Further(g, f[m - 1]) /\ \A i \in 1..(m - 1) : h[i] = f[i]
    OBVIOUS
  <2>4. ASSUME NEW i \in 1..m PROVE h[i] = r[i]
    <3>1. r[i] = IF i = 1 THEN b ELSE Further(g, h[i - 1])
      OBVIOUS
    <3> HIDE DEF h, r, b
    <3>2. CASE i = m
      <4>1. m - 1 \in 1..(m - 1) /\ m # 1
        OBVIOUS
      <4> QED BY <2>3, <3>1, <3>2, <4>1
    <3>3. CASE i # m
      <4>1. i \in 1..(m - 1) /\ (i # 1 => i - 1 \in 1..(m - 1))
        BY <3>3
      <4> QED BY <2>2, <2>3, <3>1, <4>1
    <3> QED BY <3>2, <3>3
  <2>5. h = r
    <3>1. h = [i \in 1..m |-> h[i]] /\ r = [i \in 1..m |-> r[i]]
      OBVIOUS
    <3> HIDE DEF h, r
    <3> QED BY <3>1, <2>4, Zenon
  <2> HIDE DEF h
  <2>6. Goes(m, h)
    BY <2>5
  <2>7. m \in 1..N
    OBVIOUS
  <2> HIDE DEF Goes
  <2> QED BY <2>6, <2>7
<1>4. N \in P
  <2> HIDE DEF P
  <2> QED BY <1>1, <1>2, <1>3, InductionFromTo
<1> DEFINE w == Near(g, j)
<1>5. w = [i \in 1..N |-> IF i = 1 THEN b ELSE Further(g, w[i - 1])]
  BY <1>4, Zenon DEF Near
<1>6. WayTo(g, j) = w[N]
  BY DEF WayTo, Near, Around, Further
<1> HIDE DEF w, b, N
<1>7. \A i \in 1..N : w[i] = IF i = 1 THEN b ELSE Further(g, w[i - 1])
  BY <1>5, Zenon
<1>8. \A i \in 2..N : i \in 1..N /\ i # 1
  BY <1>1
<1>9. w[1] = b /\ \A i \in 2..N : w[i] = Further(g, w[i - 1])
  BY <1>1, <1>7, <1>8
<1> QED BY <1>6, <1>9 DEF w, b, N

(* A walk stays on the way, and collects what is posted there. *)
Posted(g, s, w) ==
  /\ w.cur \notin g.junctions => <<w.cur, w.dist>> \in s
  /\ \A kind \in w.kinds : kind # NULL /\ \E x \in s : x[2] <= MaxOffset /\ Kind(g.tag[x[1]]) = kind

LEMMA WalkIsPosted ==
  ASSUME NEW g, NEW s, NEW w, Posted(g, s, w)
  PROVE  Posted(g, Further(g, s), WalkOn(g, w))
<1> DEFINE on == g.adj[w.cur] \ {w.prev}
           next == CHOOSE n \in on : TRUE
           v == WalkOn(g, w)
           t == Further(g, s)
<1>1. s \subseteq t
  BY DEF Further
<1>2. CASE w.cur \in g.junctions \/ Cardinality(on) # 1
  <2>1. v = w
    BY <1>2 DEF WalkOn
  <2> HIDE DEF v, t
  <2> QED BY <1>1, <2>1 DEF Posted, v, t
<1>3. CASE w.cur \notin g.junctions /\ Cardinality(on) = 1
  <2>1. on # {}
    <3>1. Cardinality({}) # 1
      BY FS_EmptySet
    <3> HIDE DEF on
    <3> QED BY <1>3, <3>1
  <2>2. next \in on
    <3> HIDE DEF on
    <3> QED BY <2>1
  <2>3. next \in g.adj[w.cur]
    BY <2>2
  <2>4. v = [prev |-> w.cur, cur |-> next, dist |-> w.dist + g.len[{w.cur, next}],
             kinds |-> w.kinds \cup Collected(g, w)]
    BY <1>3 DEF WalkOn
  <2> HIDE DEF next, on, v
  <2>5. /\ v.cur = next /\ v.dist = w.dist + g.len[{w.cur, next}]
        /\ v.kinds = w.kinds \cup Collected(g, w)
    BY <2>4
  <2> DEFINE x == <<w.cur, w.dist>>
  <2>6. x \in s /\ x[1] = w.cur /\ x[2] = w.dist
    BY <1>3 DEF Posted
  <2>7. v.cur \notin g.junctions => <<v.cur, v.dist>> \in t
    <3> HIDE DEF x
    <3> SUFFICES ASSUME next \notin g.junctions
                 PROVE  <<next, w.dist + g.len[{w.cur, next}]>> \in t
      BY <2>5
    <3>1. <<next, x[2] + g.len[{x[1], next}]>> \in
            {<<n, x[2] + g.len[{x[1], n}]>> : n \in g.adj[x[1]] \ g.junctions}
      BY <2>3, <2>6
    <3> QED BY <2>6, <3>1 DEF Further
  <2>8. ASSUME NEW kind \in v.kinds
        PROVE  kind # NULL /\ \E y \in t : y[2] <= MaxOffset /\ Kind(g.tag[y[1]]) = kind
    <3>1. CASE kind \in w.kinds
      BY <1>1, <3>1 DEF Posted
    <3>2. CASE kind \in Collected(g, w)
      <4>1. kind = Kind(g.tag[w.cur]) /\ kind # NULL /\ w.dist <= MaxOffset
        BY <3>2 DEF Collected
      <4>2. x \in t
        BY <1>1, <2>6
      <4> HIDE DEF x, t
      <4> QED BY <2>6, <4>1, <4>2
    <3> QED BY <2>5, <3>1, <3>2
  <2> QED BY <2>7, <2>8 DEF Posted, v
<1> QED BY <1>2, <1>3

LEMMA ArmsArePosted ==
  ASSUME NEW g, NEW j, NEW n \in g.adj[j], NEW kind \in ArmFrom(g, j, n).kinds
  PROVE  kind # NULL /\ \E m \in SignPosts(g, j) : Kind(g.tag[m]) = kind
<1> DEFINE N == MaxWalkSteps
           w == Walk(g, j, n)
           s == Near(g, j)
           P == {i \in 1..N : Posted(g, s[i], w[i])}
<1>1. /\ w[1] = FirstStep(g, j, n) /\ (\A i \in 2..N : w[i] = WalkOn(g, w[i - 1]))
      /\ s[1] = Around(g, j) /\ (\A i \in 2..N : s[i] = Further(g, s[i - 1]))
      /\ kind \in w[N].kinds /\ WayTo(g, j) = s[N]
  BY WalkHolds, NearHolds
<1>2. N \in Nat /\ 1 \in 1..N /\ N \in 1..N /\ 1 \in Nat /\ 1 + 1 = 2
  BY WalksAreBounded
<1> HIDE DEF w, s, N
<1>3. 1 \in P
  <2>1. w[1].cur = n /\ w[1].dist = g.len[{j, n}] /\ w[1].kinds = {}
    BY <1>1 DEF FirstStep
  <2>2. n \notin g.junctions => <<n, g.len[{j, n}]>> \in s[1]
    BY <1>1 DEF Around
  <2>3. Posted(g, s[1], w[1])
    BY <2>1, <2>2 DEF Posted
  <2> QED BY <2>3, <1>2
<1>4. ASSUME NEW i \in 2..N, i - 1 \in P PROVE i \in P
  <2>1. Posted(g, Further(g, s[i - 1]), WalkOn(g, w[i - 1]))
    BY <1>4, WalkIsPosted
  <2>2. i \in 1..N
    BY <1>2
  <2> QED BY <2>1, <2>2, <1>1
<1>5. N \in P
  <2> HIDE DEF P
  <2> QED BY <1>2, <1>3, <1>4, InductionFromTo
<1>6. kind # NULL /\ \E x \in s[N] : x[2] <= MaxOffset /\ Kind(g.tag[x[1]]) = kind
  BY <1>1, <1>5 DEF Posted
<1> QED BY <1>1, <1>6 DEF SignPosts

Signs == {"signal", "stop", "give_way", "mini_roundabout"}

LEMMA KindIsASign == ASSUME NEW tag, Kind(tag) # NULL PROVE tag.highway \in Signs /\ Kind(tag) = tag.highway
BY DEF Kind, Signs

(* What was harvested at a junction was posted there. *)
LEMMA HarvestIsPosted ==
  ASSUME NEW g, NEW j, DOMAIN Harvested(g, j) # {}
  PROVE  TaggedAt(g, j)
<1> DEFINE arms == Harmonized(g, j, Arms(g, j))
           tag == g.tag[j]
           k == Kind(tag)
<1>1. \/ k = "signal" \/ k = "mini_roundabout"
      \/ \E far \in DOMAIN arms : arms[far] # {}
  <2> SUFFICES ASSUME k # "signal", k # "mini_roundabout", \A far \in DOMAIN arms : arms[far] = {}
               PROVE  FALSE
    OBVIOUS
  <2> HIDE DEF k, arms
  <2>1. {far \in DOMAIN arms : "stop" \in arms[far]} = {} /\ {far \in DOMAIN arms : "give_way" \in arms[far]} = {}
    OBVIOUS
  <2>2. Resolved(tag, arms) = [far \in {} |-> NULL]
    BY <2>1 DEF Resolved, k
  <2>3. DOMAIN Resolved(tag, arms) = {}
    BY <2>2
  <2> QED BY <2>3 DEF Harvested, arms
<1>2. CASE k = "signal" \/ k = "mini_roundabout"
  <2>1. k # NULL
    BY <1>2, NothingIsNoControl
  <2>2. tag.highway \in Signs
    BY <2>1, KindIsASign
  <2> QED BY <2>2 DEF TaggedAt, Signs
<1>3. CASE \E far \in DOMAIN arms : arms[far] # {}
  <2>1. PICK far \in DOMAIN arms : arms[far] # {}
    BY <1>3
  <2>2. \E f \in DOMAIN Arms(g, j) : Arms(g, j)[f] # {}
    BY <2>1 DEF Harmonized
  <2>3. \E n \in g.adj[j] : ArmFrom(g, j, n).kinds # {}
    BY <2>2 DEF Arms
  <2>4. PICK n \in g.adj[j] : \E kind : kind \in ArmFrom(g, j, n).kinds
    BY <2>3
  <2>5. \E m \in SignPosts(g, j) : Kind(g.tag[m]) # NULL
    BY <2>4, ArmsArePosted
  <2>6. \E m \in SignPosts(g, j) : g.tag[m].highway \in Signs
    BY <2>5, KindIsASign
  <2> QED BY <2>6 DEF TaggedAt, Signs
<1> QED BY <1>1, <1>2, <1>3

LEMMA ClassifiedIsTagged ==
  ASSUME NEW g, NEW j, NEW incident, NEW legs, NEW ranks,
         \A k \in incident : k \in g.links /\ j \in {k.tail, k.head},
         Classified(g.tag[j], incident, legs, ranks).observed
  PROVE  TaggedAt(g, j)
<1> DEFINE tag == g.tag[j]
           ring == \E k \in incident : k.ring
<1>1. \/ tag.override # NULL \/ tag.highway \in Signs \/ ring
  <2> SUFFICES ASSUME ~(tag.override # NULL \/ tag.highway \in Signs \/ ring) PROVE FALSE
    OBVIOUS
  <2>1. \E c : Classified(tag, incident, legs, ranks) = [control |-> c, observed |-> FALSE]
    BY DEF Classified, Signs
  <2> QED BY <2>1
<1> QED BY <1>1 DEF TaggedAt, Signs

LEMMA ObservedIsTagged ==
  ASSUME NEW g, NEW k, ControlOf(g, k).observed
  PROVE  TaggedAt(g, k.head)
<1> DEFINE into == {l \in g.links : l.head = k.head}
           out == {l \in g.links : l.tail = k.head}
           ranks == {RankOf(l) : l \in into}
           legs == {l.tail : l \in into} \cup {l.head : l \in out}
           node == Classified(g.tag[k.head], into \cup out, legs \ {k.head}, ranks)
           seen == Harvested(g, k.head)
<1>1. CASE node.control # "ROUNDABOUT" /\ k.tail \in DOMAIN seen
  <2>1. DOMAIN seen # {}
    BY <1>1
  <2> QED BY <2>1, HarvestIsPosted
<1>2. CASE ~(node.control # "ROUNDABOUT" /\ k.tail \in DOMAIN seen)
  <2>1. ControlOf(g, k) = [control |-> node.control,
                          stop |-> MustStop(node.control, RankOf(k), ranks),
                          observed |-> node.observed]
    BY <1>2 DEF ControlOf
  <2>2. node.observed
    <3> HIDE DEF node, ranks
    <3> QED BY <2>1
  <2>3. \A l \in into \cup out : l \in g.links /\ k.head \in {l.tail, l.head}
    OBVIOUS
  <2> HIDE DEF into, out, legs, ranks
  <2> QED BY <2>2, <2>3, ClassifiedIsTagged
<1> QED BY <1>1, <1>2

(* A turn that is counted leaves from an approach that is tagged. *)
LEMMA FlaggedIsTagged ==
  ASSUME PlanInv, pc # "resolve", NEW t \in DOMAIN plan.price, plan.price[t].unsafe # NULL
  PROVE  TaggedAt(Networks[req.net], Pack.edge[t[1]].head)
<1> DEFINE g == Networks[req.net]
           edges == EdgesOf(g)
           e == t[1]
           k == edges[e]
<1>1. /\ req \in Requests /\ plan = PlanOf(req) /\ plan.pack = BuildPack(g)
      /\ plan.price = Costs(plan.pack, plan.time)
  BY PlanIs DEF PlanInv
<1>2. Unsafe(plan.pack, plan.time, t) # NULL
  BY <1>1, PricesAre
<1>3. plan.pack.edge[e].observed
  BY <1>2 DEF Unsafe, Tagged, Approach
<1>4. e \in DOMAIN edges
  <2>1. t \in DOMAIN plan.pack.turn
    BY <1>1, CostsAre
  <2> QED BY <1>1, <2>1, PackIs
<1>5. plan.pack.edge[e].head = k.head /\ plan.pack.edge[e].observed = ControlOf(g, k).observed
  BY <1>1, <1>4, PackIs
<1>6. TaggedAt(g, k.head)
  BY <1>3, <1>5, ObservedIsTagged
<1> QED BY <1>5, <1>6 DEF Pack

LEMMA PointsAreTagged ==
  ASSUME PlanInv, pc # "resolve", NEW r \in RoutesOf(plan), NEW d, Shows(d, r)
  PROVE  \A i \in DOMAIN d.points : TaggedAt(Networks[req.net], d.points[i].at)
<1> SUFFICES ASSUME NEW i \in DOMAIN Points(r) PROVE TaggedAt(Networks[req.net], Points(r)[i].at)
  BY DEF Shows
<1> DEFINE t == Links(r)[i]
<1>1. i \in 1..(Len(r) - 1) /\ plan.price[t].unsafe # NULL /\ Points(r)[i].at = Pack.edge[t[1]].head
      /\ t = <<r[i], r[i + 1]>>
  BY DEF Points, Links
<1> HIDE DEF t
<1>2. t \in DOMAIN plan.price
  <2>1. Len(r) \in Nat /\ \A n \in 2..Len(r) : <<r[n - 1], r[n]>> \in DOMAIN plan.price
    BY RoutesAre DEF PlanInv
  <2>2. i + 1 \in 2..Len(r) /\ (i + 1) - 1 = i
    BY <1>1, <2>1
  <2> QED BY <1>1, <2>1, <2>2
<1> QED BY <1>1, <1>2, FlaggedIsTagged

(* costs.py:429-435, approach_controls.py:107-215: on every network and for  *)
(* every request, a maneuver that an answer warns of is at a junction with a *)
(* control that somebody tagged, there or on an arm near it.                 *)
THEOREM WarningsAreTagged == Spec => []OnlyTaggedCounts
<1>1. Init => OnlyTaggedCounts
  BY DEF Init, OnlyTaggedCounts
<1>2. PlannerInv /\ OnlyTaggedCounts /\ [Next]_vars => OnlyTaggedCounts'
  <2> SUFFICES ASSUME PlannerInv, OnlyTaggedCounts, [Next]_vars PROVE OnlyTaggedCounts'
    OBVIOUS
  <2>1. CASE UNCHANGED <<req, reply>>
    BY <2>1 DEF OnlyTaggedCounts
  <2>2. CASE ~ UNCHANGED <<req, reply>>
    <3>1. ShortCircuit \/ Reply \/ ReplySingle
      BY <2>2 DEF Next, vars, plannerVars, Search, Resolve, RunLevel, LevelRun, RunAvoiding,
         AvoidRun, Diversify, Rerun, Drop, Keep, SingleRun, RunBaseline, BaselineRun
    <3>2. req' = req /\ PlanInv /\ pc # "resolve"
      BY <3>1 DEF ShortCircuit, Reply, ReplySingle, Answer, PlannerInv
    <3>3. \A i \in DOMAIN reply' : \E r \in RoutesOf(plan) : Shows(reply'[i], r)
      <4>1. CASE ShortCircuit
        BY <4>1, OneEdgeIsShown
      <4>2. CASE ReplySingle
        <5>1. reply' = <<>> => DOMAIN reply' = {}
          OBVIOUS
        <5> QED BY <4>2, <5>1, SingleIsShown
      <4>3. CASE Reply /\ kept = <<>>
        <5>1. reply' = <<>>
          BY <4>3 DEF Reply, Answer
        <5>2. DOMAIN reply' = {}
          BY <5>1
        <5> QED BY <5>2
      <4>4. CASE Reply /\ kept # <<>>
        <5> DEFINE left == WithinCeiling
        <5>1. /\ left \in InOrder(Alternatives(plan)) /\ DOMAIN reply' = DOMAIN left
              /\ \A i \in DOMAIN reply' : Shows(reply'[i], left[i].route)
          BY <4>4, SweepIsShown
        <5> HIDE DEF left
        <5>2. \A i \in DOMAIN left : left[i] \in Alternatives(plan)
          BY <5>1 DEF InOrder
        <5>3. \A i \in DOMAIN left : left[i].route \in RoutesOf(plan)
          BY <5>2 DEF Alternatives
        <5> QED BY <5>1, <5>3
      <4> QED BY <3>1, <4>1, <4>2, <4>3, <4>4
    <3>4. \A i \in DOMAIN reply' : \A n \in DOMAIN reply'[i].points :
            TaggedAt(Networks[req.net], reply'[i].points[n].at)
      BY <3>2, <3>3, PointsAreTagged
    <3> QED BY <3>2, <3>4 DEF OnlyTaggedCounts
  <2> QED BY <2>1, <2>2
<1> QED BY <1>1, <1>2, PlannerHolds, PTL DEF Spec
=============================================================================
