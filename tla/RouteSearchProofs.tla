------------------------- MODULE RouteSearchProofs -------------------------
(***************************************************************************)
(* What RouteSearch guarantees on every finite graph, for every cost of a  *)
(* turn, every consistent heuristic, and every share of the first and the  *)
(* last edge.  Lazy deletion loses nothing; with that, a tree of           *)
(* predecessors without a cycle, and a best destination that is only       *)
(* overtaken by what still waits, the result is a route of least cost.     *)
(***************************************************************************)
EXTENDS RouteSearch, FiniteSetTheorems, WellFoundedInduction, TLAPS

-----------------------------------------------------------------------------
(* A set of numbers that is not empty has a least. *)
LEMMA LeastNat ==
  ASSUME NEW S, S \subseteq Nat, S # {}
  PROVE  \E n \in S : \A m \in S : n <= m
<1>1. PICK n \in S : \A m \in S : ~(<<m, n>> \in OpToRel(<, Nat))
  BY NatLessThanWellFounded, WFMin, Zenon
<1>2. ASSUME NEW m \in S PROVE n <= m
  <2>1. n \in Nat /\ m \in Nat /\ <<m, n>> \in Nat \X Nat
    OBVIOUS
  <2>2. ~(<<m, n>>[1] < <<m, n>>[2])
    BY <1>1, <2>1 DEF OpToRel
  <2> QED BY <2>1, <2>2
<1> QED BY <1>2

(* Induction from a to N: a set that holds a and, up to N, the successor of *)
(* every member.                                                            *)
LEMMA InductionFromTo ==
  ASSUME NEW a \in Nat, NEW N \in Nat, NEW P,
         a <= N => a \in P, \A n \in (a + 1)..N : n - 1 \in P => n \in P
  PROVE  a..N \subseteq P
<1> SUFFICES ASSUME (a..N) \ P # {} PROVE FALSE
  OBVIOUS
<1> DEFINE Q == (a..N) \ P
<1>1. PICK n \in Q : \A m \in Q : n <= m
  <2>1. Q \subseteq Nat /\ Q # {}
    OBVIOUS
  <2> HIDE DEF Q
  <2> QED BY <2>1, LeastNat
<1>2. n # a
  BY <1>1
<1>3. n \in (a + 1)..N /\ n - 1 \in a..N /\ n - 1 \notin Q
  BY <1>1, <1>2
<1> QED BY <1>1, <1>3

(* A function defined by recursion from a to N exists, whatever its steps.  *)
Recursion(a, N, b, G) ==
  CHOOSE f : f = [n \in a..N |-> IF n = a THEN b ELSE G[n][f[n - 1]]]

LEMMA RecursionHolds ==
  ASSUME NEW a \in Nat, NEW N \in Nat, NEW b, NEW G
  PROVE  Recursion(a, N, b, G) =
           [n \in a..N |-> IF n = a THEN b ELSE G[n][Recursion(a, N, b, G)[n - 1]]]
<1> DEFINE Is(m, f) == f = [n \in a..m |-> IF n = a THEN b ELSE G[n][f[n - 1]]]
           P == {m \in a..N : \E f : Is(m, f)}
<1>1. a <= N => a \in P
  <2> DEFINE f == [n \in a..a |-> b]
  <2>1. \A n \in a..a : n = a
    OBVIOUS
  <2>2. f = [n \in a..a |-> IF n = a THEN b ELSE G[n][f[n - 1]]]
    BY <2>1
  <2> HIDE DEF f
  <2>3. \E e : Is(a, e)
    BY <2>2
  <2> HIDE DEF Is
  <2> QED BY <2>3
<1>2. ASSUME NEW m \in (a + 1)..N, m - 1 \in P PROVE m \in P
  <2>1. PICK f : Is(m - 1, f)
    BY <1>2
  <2> DEFINE g == [n \in a..m |-> IF n = m THEN G[m][f[m - 1]] ELSE f[n]]
             r == [n \in a..m |-> IF n = a THEN b ELSE G[n][g[n - 1]]]
  <2>2. \A n \in a..(m - 1) : f[n] = IF n = a THEN b ELSE G[n][f[n - 1]]
    BY <2>1
  <2>3. g[m] = G[m][f[m - 1]] /\ \A n \in a..(m - 1) : g[n] = f[n]
    OBVIOUS
  <2>4. ASSUME NEW n \in a..m PROVE g[n] = r[n]
    <3>1. r[n] = IF n = a THEN b ELSE G[n][g[n - 1]]
      OBVIOUS
    <3> HIDE DEF g, r
    <3>2. CASE n = m
      BY <2>3, <3>1, <3>2
    <3>3. CASE n # m
      <4>1. n \in a..(m - 1) /\ (n # a => n - 1 \in a..(m - 1))
        BY <3>3
      <4> QED BY <2>2, <2>3, <3>1, <4>1
    <3> QED BY <3>2, <3>3
  <2>5. g = r
    <3>1. g = [n \in a..m |-> g[n]] /\ r = [n \in a..m |-> r[n]]
      OBVIOUS
    <3> HIDE DEF g, r
    <3> QED BY <3>1, <2>4, Zenon
  <2> HIDE DEF g
  <2>6. Is(m, g)
    BY <2>5
  <2> HIDE DEF Is
  <2> QED BY <2>6
<1>3. CASE a <= N
  <2> HIDE DEF P
  <2>1. N \in P
    BY <1>1, <1>2, <1>3, InductionFromTo
  <2>2. \E f : Is(N, f)
    BY <2>1 DEF P
  <2> QED BY <2>2 DEF Recursion
<1>4. CASE ~(a <= N)
  <2> DEFINE e == [n \in a..N |-> b]
  <2>1. a..N = {}
    BY <1>4
  <2>2. e = [n \in a..N |-> IF n = a THEN b ELSE G[n][e[n - 1]]]
    BY <2>1
  <2> QED BY <2>2 DEF Recursion
<1> QED BY <1>3, <1>4

(* A finite set of numbers that is not empty has a greatest. *)
LEMMA MaxIs ==
  ASSUME NEW S, S \subseteq Int, IsFiniteSet(S), S # {}
  PROVE  Max(S) \in S /\ \A x \in S : x <= Max(S)
<1>0. PICK N \in Nat : ExistsSurjection(1..N, S)
  BY FS_NatSurjection
<1>1. PICK f : f \in Surjection(1..N, S)
  BY <1>0 DEF ExistsSurjection
<1>2. f \in [1..N -> S] /\ \A x \in S : \E n \in 1..N : f[n] = x
  BY <1>1 DEF Surjection
<1> HIDE DEF Max
<1>a. \A n \in 1..N : f[n] \in Int
  BY <1>2
<1>3. N \in Nat \ {0}
  <2>1. PICK x \in S : TRUE
    OBVIOUS
  <2>2. PICK n \in 1..N : f[n] = x
    BY <1>2, <2>1
  <2> QED BY <2>2
<1> DEFINE P == {n \in 1..N : \E m \in 1..n : \A k \in 1..n : f[k] <= f[m]}
<1>4. 1 \in P
  BY <1>a, <1>3
<1>5. ASSUME NEW n \in 2..N, n - 1 \in P PROVE n \in P
  <2>1. PICK m \in 1..(n - 1) : \A k \in 1..(n - 1) : f[k] <= f[m]
    BY <1>5
  <2>2. m \in 1..n /\ n \in 1..n /\ \A k \in 1..n : k = n \/ k \in 1..(n - 1)
    OBVIOUS
  <2>3. \A k \in 1..n : f[k] \in Int
    BY <1>a
  <2>4. CASE f[n] <= f[m]
    BY <2>1, <2>2, <2>3, <2>4
  <2>5. CASE f[m] <= f[n]
    <3>1. \A k \in 1..n : f[k] <= f[n]
      BY <2>1, <2>2, <2>3, <2>5
    <3> QED BY <2>2, <3>1
  <2> QED BY <2>2, <2>3, <2>4, <2>5
<1> HIDE DEF P
<1>6. N \in P
  BY <1>3, <1>4, <1>5, InductionFromTo
<1>7. PICK m \in 1..N : \A k \in 1..N : f[k] <= f[m]
  BY <1>6 DEF P
<1>8. f[m] \in S /\ \A x \in S : x <= f[m]
  BY <1>2, <1>7
<1>9. \A x \in S : f[m] >= x
  BY <1>8
<1> QED BY <1>8, <1>9 DEF Max

(* P2, search.py:16: the heap has a first entry, whatever ties there are. *)
LEMMA FirstIsInHeap ==
  ASSUME NEW H, H # {}, \A x \in H : x[1] \in Nat /\ x[2] \in Nat
  PROVE  First(H) \in H /\ \A y \in H : First(H)[1] <= y[1]
<1>1. PICK x \in H : \A y \in H : x[1] <= y[1]
  <2> DEFINE F == {x[1] : x \in H}
  <2>1. F \subseteq Nat /\ F # {}
    OBVIOUS
  <2>2. PICK f \in F : \A g \in F : f <= g
    BY <2>1, LeastNat
  <2> QED BY <2>2
<1>2. PICK z \in H : z[1] = x[1] /\ \A y \in H : y[1] = x[1] => z[2] <= y[2]
  <2> DEFINE E == {y[2] : y \in {y \in H : y[1] = x[1]}}
  <2>1. E \subseteq Nat /\ E # {}
    OBVIOUS
  <2>2. PICK e \in E : \A d \in E : e <= d
    BY <2>1, LeastNat
  <2> QED BY <2>2
<1>3. \A y \in H : z[1] < y[1] \/ (z[1] = y[1] /\ z[2] <= y[2])
  BY <1>1, <1>2
<1>4. First(H) \in H /\ \A y \in H :
        First(H)[1] < y[1] \/ (First(H)[1] = y[1] /\ First(H)[2] <= y[2])
  BY <1>3 DEF First
<1> QED BY <1>4

-----------------------------------------------------------------------------
(* Costs are what they should be, edges are those of the problem, and every  *)
(* entry of the heap is one that some cost of a reached edge has made.       *)
SearchTypes ==
  /\ IsProblem(ask)
  /\ DOMAIN dist \subseteq DOMAIN ask.h
  /\ \A e \in DOMAIN dist : dist[e] \in Nat
  /\ \A x \in heap : \E e \in DOMAIN dist, g \in Nat : x = Entry(ask, e, g)

SearchInv == SearchTypes /\ ReachedAreFollowed

(* What an entry of the heap is made of. *)
LEMMA EntryIs ==
  \A p, e, g : Entry(p, e, g)[1] = g + p.h[e] /\ Entry(p, e, g)[2] = e /\ Entry(p, e, g)[3] = g
BY DEF Entry

(* What is popped is an entry of an edge reached, and none comes before it. *)
LEMMA TopIsReached ==
  ASSUME SearchTypes, heap # {}
  PROVE  /\ First(heap) \in heap
         /\ First(heap)[2] \in DOMAIN dist /\ First(heap)[3] \in Nat
         /\ First(heap) = Entry(ask, First(heap)[2], First(heap)[3])
         /\ First(heap)[1] \in Nat /\ \A x \in heap : First(heap)[1] <= x[1]
<1>1. \A x \in heap : /\ x[1] \in Nat /\ x[2] \in Nat /\ x[3] \in Nat /\ x[2] \in DOMAIN dist
                      /\ x = Entry(ask, x[2], x[3])
  BY EntryIs DEF SearchTypes, IsProblem
<1> QED BY <1>1, FirstIsInHeap

(* Settling the first entry of the heap, search.py:103-119. *)
LEMMA SettleKeeps ==
  ASSUME SearchInv, heap # {}, First(heap)[3] = dist[First(heap)[2]],
         Settle(First(heap)[2]), UNCHANGED <<ask, found>>
  PROVE  SearchInv'
<1> DEFINE top == First(heap)
           e   == top[2]
           g(o) == dist[e] + ask.arc[<<e, o>>]
<1>1. e \in DOMAIN dist /\ top = Entry(ask, e, dist[e]) /\ dist[e] \in Nat
  BY TopIsReached DEF SearchInv, SearchTypes
<1>2. \A o \in Improved(e) : <<e, o>> \in ask.turns /\ o \in DOMAIN ask.h /\ g(o) \in Nat
  BY <1>1 DEF SearchInv, SearchTypes, IsProblem, Improved
<1>3. /\ DOMAIN dist' = DOMAIN dist \cup Improved(e)
      /\ \A o \in DOMAIN dist' : dist'[o] = IF o \in Improved(e) THEN g(o) ELSE dist[o]
      /\ heap' = (heap \ {top}) \cup {Entry(ask, o, g(o)) : o \in Improved(e)}
  BY DEF Settle
<1> HIDE DEF top, e, g
<1>4. SearchTypes'
  <2>1. DOMAIN dist' \subseteq DOMAIN ask.h /\ \A o \in DOMAIN dist' : dist'[o] \in Nat
    BY <1>2, <1>3 DEF SearchInv, SearchTypes
  <2>2. \A x \in heap' : \E o \in DOMAIN dist', c \in Nat : x = Entry(ask, o, c)
    BY ZenonT(40), <1>2, <1>3 DEF SearchInv, SearchTypes
  <2>3. \A o, c : Entry(ask, o, c)' = Entry(ask, o, c)
    BY DEF Entry
  <2> QED BY <2>1, <2>2, <2>3 DEF SearchInv, SearchTypes
<1>5. ASSUME NEW o \in DOMAIN dist'
      PROVE  \/ Entry(ask, o, dist'[o]) \in heap'
             \/ \A t \in {t \in ask.turns : t[1] = o} :
                  t[2] \in DOMAIN dist' /\ dist'[t[2]] <= dist'[o] + ask.arc[t]
  <2>1. CASE o \in Improved(e)
    BY <1>3, <2>1
  <2>2. CASE o \notin Improved(e) /\ o = e
    <3> SUFFICES ASSUME NEW t \in ask.turns, t[1] = e
                 PROVE  t[2] \in DOMAIN dist' /\ dist'[t[2]] <= dist'[o] + ask.arc[t]
      BY <2>2
    <3>1. t = <<e, t[2]>> /\ ask.arc[t] \in Nat /\ g(t[2]) = dist[e] + ask.arc[t]
      BY DEF SearchInv, SearchTypes, IsProblem, g
    <3>2. dist'[o] = dist[e]
      BY <1>3, <2>2
    <3>3. CASE t[2] \in Improved(e)
      BY <1>1, <1>3, <3>1, <3>2, <3>3
    <3>4. CASE t[2] \notin Improved(e)
      <4>1. t[2] \in DOMAIN dist /\ ~(g(t[2]) < dist[t[2]])
        BY <3>1, <3>4 DEF Improved
      <4> QED BY <1>1, <1>3, <3>1, <3>2, <3>4, <4>1 DEF SearchInv, SearchTypes
    <3> QED BY <3>3, <3>4
  <2>3. CASE o \notin Improved(e) /\ o # e
    <3>1. o \in DOMAIN dist /\ dist'[o] = dist[o] /\ dist[o] \in Nat
      BY <1>3, <2>3 DEF SearchInv, SearchTypes
    <3>2. CASE Entry(ask, o, dist[o]) \in heap
      <4>1. Entry(ask, o, dist[o]) # top
        BY <1>1, <2>3, EntryIs
      <4> QED BY <1>3, <3>1, <3>2, <4>1
    <3>3. CASE \A t \in {t \in ask.turns : t[1] = o} :
                 t[2] \in DOMAIN dist /\ dist[t[2]] <= dist[o] + ask.arc[t]
      <4> SUFFICES ASSUME NEW t \in ask.turns, t[1] = o
                   PROVE  t[2] \in DOMAIN dist' /\ dist'[t[2]] <= dist'[o] + ask.arc[t]
        OBVIOUS
      <4>1. /\ t[2] \in DOMAIN dist /\ dist[t[2]] <= dist[o] + ask.arc[t]
            /\ dist[t[2]] \in Nat /\ ask.arc[t] \in Nat
        BY <3>3 DEF SearchInv, SearchTypes, IsProblem
      <4>2. t[2] \in Improved(e) => g(t[2]) \in Nat /\ g(t[2]) < dist[t[2]]
        BY <1>2, <4>1 DEF Improved, g
      <4> QED BY <1>3, <3>1, <4>1, <4>2
    <3> QED BY <3>1, <3>2, <3>3 DEF SearchInv, ReachedAreFollowed
  <2> QED BY <2>1, <2>2, <2>3
<1>6. ReachedAreFollowed'
  BY <1>5 DEF ReachedAreFollowed, Entry
<1> QED BY <1>4, <1>6 DEF SearchInv

(* One round of the loop, search.py:97-119. *)
LEMMA PopKeeps == ASSUME SearchInv, Pop PROVE SearchInv'
<1>1. heap # {} /\ UNCHANGED <<ask, found>>
  BY DEF Pop
<1>2. CASE First(heap)[3] = dist[First(heap)[2]]
  BY <1>1, <1>2, SettleKeeps DEF Pop
<1>3. CASE First(heap)[3] # dist[First(heap)[2]]
  <2>1. heap' = heap \ {First(heap)} /\ UNCHANGED <<ask, dist>>
    BY <1>3 DEF Pop
  <2>2. \A e \in DOMAIN dist : Entry(ask, e, dist[e]) # First(heap)
    BY <1>3, EntryIs
  <2>3. SearchTypes'
    BY <2>1 DEF SearchInv, SearchTypes, Entry
  <2>4. ReachedAreFollowed'
    BY <2>1, <2>2 DEF SearchInv, ReachedAreFollowed, Entry
  <2> QED BY <2>3, <2>4 DEF SearchInv
<1> QED BY <1>2, <1>3

(* The seeds of a call, search.py:87-92. *)
LEMMA BeginKeeps == ASSUME NEW p, IsProblem(p), Begin(p) PROVE SearchInv'
<1>1. ask' = p /\ dist' = p.seeds /\ heap' = {Entry(p, e, p.seeds[e]) : e \in DOMAIN p.seeds}
  BY DEF Begin, Entries
<1>2. SearchTypes'
  BY <1>1 DEF SearchTypes, IsProblem, Entry
<1>3. ReachedAreFollowed'
  BY <1>1 DEF ReachedAreFollowed, Entry
<1> QED BY <1>2, <1>3 DEF SearchInv

(* The problem of no call. *)
LEMMA NothingIsAProblem ==
  IsProblem(NoProblem) /\ DOMAIN NoProblem.seeds = {} /\ DOMAIN NoProblem.dests = {}
<1>1. DOMAIN <<>> = {}
  OBVIOUS
<1> QED BY <1>1, FS_EmptySet DEF NoProblem, IsProblem

(* search.py:97-119: whatever is overtaken, settled twice or dropped as a    *)
(* duplicate, an edge that was reached is still waiting, at its cost of now, *)
(* or all its turns have been followed at that cost.                         *)
THEOREM LazyDeletionLosesNothing == SearchSpec => []ReachedAreFollowed
<1>1. Idle => SearchInv
  BY NothingIsAProblem DEF Idle, SearchInv, SearchTypes, ReachedAreFollowed
<1>2. SearchInv /\ [SearchNext]_searchVars => SearchInv'
  <2> SUFFICES ASSUME SearchInv, [SearchNext]_searchVars PROVE SearchInv'
    OBVIOUS
  <2>1. CASE Pop
    BY <2>1, PopKeeps
  <2>2. CASE Finish \/ UNCHANGED searchVars
    BY <2>2 DEF Finish, searchVars, SearchInv, SearchTypes, ReachedAreFollowed, Entry
  <2>3. ASSUME NEW p \in Problems, Begin(p) PROVE SearchInv'
    BY <2>3, BeginKeeps, ProblemsAreRoads
  <2> QED BY <2>1, <2>2, <2>3 DEF SearchNext, SearchStep
<1>3. SearchInv => ReachedAreFollowed
  BY DEF SearchInv
<1> QED BY <1>1, <1>2, <1>3, PTL DEF SearchSpec

-----------------------------------------------------------------------------
(* The edge an edge was reached from: driven at no more than its cost, and, *)
(* where turns are free, reached before.                                    *)
FromPred(stamp) ==
  /\ stamp \in [DOMAIN dist -> Nat]
  /\ \A o \in DOMAIN dist : pred[o] # 0 =>
       /\ pred[o] \in DOMAIN dist /\ <<pred[o], o>> \in ask.turns
       /\ dist[pred[o]] + ask.arc[<<pred[o], o>>] <= dist[o]
       /\ dist[pred[o]] < dist[o] \/ stamp[pred[o]] < stamp[o]

TreeInv ==
  /\ DOMAIN pred = DOMAIN dist
  /\ \A o \in DOMAIN dist : pred[o] = 0 => o \in DOMAIN ask.seeds /\ ask.seeds[o] <= dist[o]
  /\ \A o \in DOMAIN ask.seeds : o \in DOMAIN dist /\ dist[o] <= ask.seeds[o]
  /\ \E stamp : FromPred(stamp)

(* The best destination is one, and a destination that is reached waits in  *)
(* the heap or is no better.                                                *)
BestInv ==
  /\ \A b, c \in best : b = c
  /\ \A b \in best : /\ b.final \in Int /\ b.edge \in DOMAIN ask.dests /\ b.edge \in DOMAIN dist
                     /\ dist[b.edge] + ask.dests[b.edge] <= b.final
  /\ \A d \in DOMAIN ask.dests : d \in DOMAIN dist =>
       \/ Entry(ask, d, dist[d]) \in heap
       \/ \E b \in best : b.final <= dist[d] + ask.dests[d]

(* A search ends with an empty heap, or a first entry past the bound. *)
EndInv == found => heap = {} \/ Beaten(First(heap)[1])

ExactInv == SearchInv /\ TreeInv /\ BestInv /\ EndInv

(* What a settled edge improves. *)
LEMMA ImprovedIs ==
  ASSUME SearchInv, TreeInv, NEW e \in DOMAIN dist
  PROVE  /\ e \notin Improved(e)
         /\ \A o \in Improved(e) :
              /\ <<e, o>> \in ask.turns /\ o \in DOMAIN ask.h /\ o \in Nat \ {0}
              /\ ask.arc[<<e, o>>] \in Nat
              /\ o \in DOMAIN dist => dist[e] + ask.arc[<<e, o>>] < dist[o]
<1>0. \A t \in ask.turns : t = <<t[1], t[2]>>
  BY DEF SearchInv, SearchTypes, IsProblem
<1>1. \A o \in Improved(e) : /\ <<e, o>> \in ask.turns
                             /\ o \notin DOMAIN dist \/ dist[e] + ask.arc[<<e, o>>] < dist[o]
  BY <1>0 DEF Improved
<1>2. \A t \in ask.turns : t[2] \in DOMAIN ask.h /\ ask.arc[t] \in Nat
  BY DEF SearchInv, SearchTypes, IsProblem
<1>3. DOMAIN ask.h \subseteq Nat \ {0} /\ dist[e] \in Nat
  BY DEF SearchInv, SearchTypes, IsProblem
<1>4. \A o \in Improved(e) : /\ o \in DOMAIN ask.h /\ ask.arc[<<e, o>>] \in Nat
                             /\ o \in DOMAIN dist => dist[e] + ask.arc[<<e, o>>] < dist[o]
  <2> TAKE o \in Improved(e)
  <2>1. <<e, o>> \in ask.turns /\ <<e, o>>[2] = o
    BY <1>1
  <2> QED BY <2>1, <1>1, <1>2
<1>5. e \notin Improved(e)
  <2> SUFFICES ASSUME e \in Improved(e) PROVE FALSE
    OBVIOUS
  <2>1. ask.arc[<<e, e>>] \in Nat /\ dist[e] + ask.arc[<<e, e>>] < dist[e]
    BY <1>4
  <2> QED BY <2>1, <1>3
<1> QED BY <1>1, <1>3, <1>4, <1>5

(* What is improved comes after the edge it is improved from. *)
LEMMA SettleTree ==
  ASSUME SearchInv, TreeInv, NEW e \in DOMAIN dist, Settle(e), UNCHANGED ask
  PROVE  TreeInv'
<1> DEFINE g(o) == dist[e] + ask.arc[<<e, o>>]
<1>1. /\ DOMAIN dist' = DOMAIN dist \cup Improved(e)
      /\ \A o \in DOMAIN dist' : dist'[o] = IF o \in Improved(e) THEN g(o) ELSE dist[o]
      /\ DOMAIN pred' = DOMAIN pred \cup Improved(e)
      /\ \A o \in DOMAIN pred' : pred'[o] = IF o \in Improved(e) THEN e ELSE pred[o]
  BY DEF Settle
<1>2. DOMAIN pred' = DOMAIN dist'
  BY <1>1 DEF TreeInv
<1>3. /\ dist[e] \in Nat /\ e \in Nat \ {0}
      /\ \A o \in DOMAIN dist : dist[o] \in Nat /\ (o \in DOMAIN ask.seeds => ask.seeds[o] \in Nat)
      /\ \A t \in ask.turns : ask.arc[t] \in Nat
  BY DEF SearchInv, SearchTypes, IsProblem
<1>a. \A o \in Improved(e) : g(o) \in Nat
  BY <1>3, ImprovedIs
<1>b. \A o \in Improved(e) : o \in DOMAIN dist => g(o) < dist[o]
  BY ImprovedIs
<1>4. \A o \in DOMAIN dist : o \in DOMAIN dist' /\ dist'[o] \in Nat /\ dist'[o] <= dist[o]
  <2> TAKE o \in DOMAIN dist
  <2> HIDE DEF g
  <2>1. o \in DOMAIN dist' /\ dist[o] \in Nat
    BY <1>1, <1>3
  <2>2. CASE o \in Improved(e)
    <3>1. dist'[o] = g(o) /\ g(o) \in Nat /\ g(o) < dist[o]
      BY <2>1, <2>2, <1>1, <1>a, <1>b
    <3> QED BY <2>1, <3>1
  <2>3. CASE o \notin Improved(e)
    BY <2>1, <2>3, <1>1
  <2> QED BY <2>2, <2>3
<1>5. \A o \in DOMAIN dist' : pred'[o] = 0 =>
         o \notin Improved(e) /\ o \in DOMAIN dist /\ dist'[o] = dist[o] /\ pred[o] = 0
  BY <1>1, <1>2, <1>3
<1>6. PICK stamp : FromPred(stamp)
  BY DEF TreeInv
<1> DEFINE late == [o \in DOMAIN dist' |-> IF o \in Improved(e) THEN stamp[e] + 1 ELSE stamp[o]]
<1>7. stamp \in [DOMAIN dist -> Nat] /\ stamp[e] \in Nat
  BY <1>6 DEF FromPred
<1>8. late \in [DOMAIN dist' -> Nat]
  BY <1>1, <1>7
<1>9. late[e] = stamp[e] /\ dist'[e] = dist[e] /\ e \in DOMAIN dist'
  BY <1>1, ImprovedIs
<1>10. ASSUME NEW o \in DOMAIN dist', pred'[o] # 0
       PROVE  /\ pred'[o] \in DOMAIN dist' /\ <<pred'[o], o>> \in ask.turns
              /\ dist'[pred'[o]] + ask.arc[<<pred'[o], o>>] <= dist'[o]
              /\ dist'[pred'[o]] < dist'[o] \/ late[pred'[o]] < late[o]
  <2>1. CASE o \in Improved(e)
    <3>1. pred'[o] = e /\ dist'[o] = g(o) /\ late[o] = stamp[e] + 1
      BY <2>1, <1>1, <1>2
    <3>2. <<e, o>> \in ask.turns /\ ask.arc[<<e, o>>] \in Nat
      BY <2>1, ImprovedIs
    <3> QED BY <3>1, <3>2, <1>3, <1>7, <1>9
  <2>2. CASE o \notin Improved(e)
    <3> DEFINE q == pred[o]
    <3>1. o \in DOMAIN dist /\ pred'[o] = q /\ dist'[o] = dist[o] /\ late[o] = stamp[o] /\ q # 0
      BY <2>2, <1>1, <1>2, <1>10
    <3>2. /\ q \in DOMAIN dist /\ <<q, o>> \in ask.turns
          /\ dist[q] + ask.arc[<<q, o>>] <= dist[o]
          /\ dist[q] < dist[o] \/ stamp[q] < stamp[o]
      BY <3>1, <1>6 DEF FromPred
    <3>3. q \in DOMAIN dist' /\ dist'[q] <= dist[q] /\ dist'[q] \in Nat
      BY <3>2, <1>4
    <3>4. dist[q] \in Nat /\ dist[o] \in Nat /\ ask.arc[<<q, o>>] \in Nat
      BY <3>1, <3>2, <1>3
    <3>5. dist'[q] < dist[q] \/ late[q] = stamp[q]
      <4>1. CASE q \in Improved(e)
        BY <4>1, <3>2, <3>3, <1>1, <1>b
      <4>2. CASE q \notin Improved(e)
        BY <4>2, <3>3
      <4> QED BY <4>1, <4>2
    <3> HIDE DEF q, late
    <3>6. dist'[q] + ask.arc[<<q, o>>] <= dist[o]
      BY <3>2, <3>3, <3>4
    <3>7. dist'[q] < dist[o] \/ late[q] < late[o]
      BY <3>1, <3>2, <3>3, <3>4, <3>5
    <3> QED BY <3>1, <3>2, <3>3, <3>6, <3>7
  <2> QED BY <2>1, <2>2
<1> HIDE DEF late, g
<1>c. PICK s : s = late
  OBVIOUS
<1>11. FromPred(s)'
  BY <1>8, <1>10, <1>c DEF FromPred
<1>12. \A o \in DOMAIN dist' : pred'[o] = 0 => o \in DOMAIN ask.seeds /\ ask.seeds[o] <= dist'[o]
  BY <1>5 DEF TreeInv
<1>13. \A o \in DOMAIN ask.seeds : o \in DOMAIN dist' /\ dist'[o] <= ask.seeds[o]
  <2> TAKE o \in DOMAIN ask.seeds
  <2>1. o \in DOMAIN dist /\ dist[o] <= ask.seeds[o]
    BY DEF TreeInv
  <2> QED BY <2>1, <1>3, <1>4
<1>14. (\E t : FromPred(t))'
  BY <1>11
<1> QED BY <1>2, <1>12, <1>13, <1>14 DEF TreeInv

(* A destination is settled with the cost it was reached at. *)
LEMMA SettleBest ==
  ASSUME SearchInv, TreeInv, BestInv, heap # {}, First(heap)[3] = dist[First(heap)[2]],
         Settle(First(heap)[2]), UNCHANGED ask
  PROVE  BestInv'
<1> DEFINE top == First(heap)
           e   == top[2]
           g(o) == dist[e] + ask.arc[<<e, o>>]
           here == {[edge |-> d, final |-> dist[d] + ask.dests[d]] : d \in {e} \cap DOMAIN ask.dests}
<1>1. e \in DOMAIN dist /\ top = Entry(ask, e, dist[e]) /\ dist[e] \in Nat
  BY TopIsReached DEF SearchInv, SearchTypes
<1>2. /\ DOMAIN dist' = DOMAIN dist \cup Improved(e)
      /\ \A o \in DOMAIN dist' : dist'[o] = IF o \in Improved(e) THEN g(o) ELSE dist[o]
      /\ heap' = (heap \ {top}) \cup {Entry(ask, o, g(o)) : o \in Improved(e)}
      /\ best' = IF \E x \in here : \A b \in best : x.final < b.final THEN here ELSE best
  BY DEF Settle
<1>3. /\ \A d \in DOMAIN ask.dests : ask.dests[d] \in Int
      /\ \A o \in DOMAIN dist : dist[o] \in Nat
  BY DEF SearchInv, SearchTypes, IsProblem
<1>4. \A x \in here : /\ e \in DOMAIN ask.dests /\ x.edge = e
                      /\ x.final = dist[e] + ask.dests[e] /\ x.final \in Int
  BY <1>1, <1>3
<1>4a. \A x, y \in here : x = y
  OBVIOUS
<1>4b. e \in DOMAIN ask.dests => \E x \in here : x.final = dist[e] + ask.dests[e]
  <2> SUFFICES ASSUME e \in DOMAIN ask.dests
               PROVE  \E x \in here : x.final = dist[e] + ask.dests[e]
    OBVIOUS
  <2>1. [edge |-> e, final |-> dist[e] + ask.dests[e]] \in here
    OBVIOUS
  <2> HIDE DEF here
  <2> QED BY <2>1
<1>5. e \notin Improved(e) /\ \A o \in Improved(e) : g(o) \in Nat /\ (o \in DOMAIN dist => g(o) < dist[o])
  <2>1. \A o \in Improved(e) : /\ ask.arc[<<e, o>>] \in Nat
                               /\ o \in DOMAIN dist => dist[e] + ask.arc[<<e, o>>] < dist[o]
    BY <1>1, ImprovedIs
  <2> QED BY <1>1, <2>1, ImprovedIs
<1> HIDE DEF top, e, g, here
<1>6. \A o \in DOMAIN dist : o \in DOMAIN dist' /\ dist'[o] \in Nat /\ dist'[o] <= dist[o]
  <2> TAKE o \in DOMAIN dist
  <2>1. CASE o \in Improved(e)
    BY <2>1, <1>2, <1>3, <1>5
  <2>2. CASE o \notin Improved(e)
    BY <2>2, <1>2, <1>3
  <2> QED BY <2>1, <2>2
<1>7. dist'[e] = dist[e]
  BY <1>1, <1>2, <1>5
<1>8. \A b, c \in best' : b = c
  BY <1>2, <1>4a DEF BestInv
<1>9. ASSUME NEW b \in best'
      PROVE  /\ b.final \in Int /\ b.edge \in DOMAIN ask.dests /\ b.edge \in DOMAIN dist'
             /\ dist'[b.edge] + ask.dests[b.edge] <= b.final
  <2>1. CASE b \in here
    BY <2>1, <1>1, <1>3, <1>4, <1>6, <1>7
  <2>2. CASE b \in best
    <3>1. /\ b.final \in Int /\ b.edge \in DOMAIN ask.dests /\ b.edge \in DOMAIN dist
          /\ dist[b.edge] + ask.dests[b.edge] <= b.final
      BY <2>2 DEF BestInv
    <3> QED BY <3>1, <1>3, <1>6
  <2> QED BY <2>1, <2>2, <1>2
(* What is found is never given up for a worse. *)
<1>10. ASSUME NEW b \in best PROVE \E c \in best' : c.final <= b.final
  <2>1. b.final \in Int
    BY DEF BestInv
  <2>2. CASE best' = best
    BY <2>1, <2>2
  <2>3. CASE best' # best
    <3>1. PICK x \in here : best' = here /\ x.final < b.final
      BY <1>2, <2>3
    <3> QED BY <3>1, <1>4, <2>1
  <2> QED BY <2>2, <2>3
<1>11. ASSUME NEW d \in DOMAIN ask.dests, d \in DOMAIN dist'
       PROVE  \/ Entry(ask, d, dist'[d]) \in heap'
              \/ \E b \in best' : b.final <= dist'[d] + ask.dests[d]
  <2>1. CASE d \in Improved(e)
    BY <2>1, <1>2, <1>11
  <2>2. CASE d = e
    <3>1. PICK x \in here : x.final = dist[e] + ask.dests[e]
      BY <2>2, <1>4b
    <3>2. x.final \in Int
      BY <1>4
    <3>3. CASE \A b \in best : x.final < b.final
      <4>1. best' = here
        BY <3>3, <1>2
      <4> QED BY <4>1, <3>1, <3>2, <2>2, <1>7
    <3>4. CASE ~\A b \in best : x.final < b.final
      <4>1. PICK b \in best : ~(x.final < b.final)
        BY <3>4
      <4>2. b.final \in Int /\ b.final <= x.final
        BY <4>1, <3>2 DEF BestInv
      <4>3. PICK c \in best' : c.final <= b.final
        BY <1>10
      <4>4. c.final \in Int
        BY <1>9
      <4> QED BY <4>2, <4>3, <4>4, <3>1, <3>2, <2>2, <1>7
    <3> QED BY <3>3, <3>4
  <2>3. CASE d \notin Improved(e) /\ d # e
    <3>1. d \in DOMAIN dist /\ dist'[d] = dist[d]
      BY <2>3, <1>2, <1>11
    <3>2. CASE Entry(ask, d, dist[d]) \in heap
      <4>1. Entry(ask, d, dist[d]) # top
        BY <1>1, <2>3, EntryIs
      <4> QED BY <1>2, <3>1, <3>2, <4>1
    <3>3. ASSUME NEW b \in best, b.final <= dist[d] + ask.dests[d]
          PROVE  \E c \in best' : c.final <= dist'[d] + ask.dests[d]
      <4>1. PICK c \in best' : c.final <= b.final
        BY <1>10
      <4>2. c.final \in Int /\ b.final \in Int
        BY <1>9 DEF BestInv
      <4> QED BY <4>1, <4>2, <3>1, <3>3, <1>3
    <3> QED BY <3>1, <3>2, <3>3 DEF BestInv
  <2> QED BY <2>1, <2>2, <2>3
<1> QED BY <1>8, <1>9, <1>11 DEF BestInv, Entry

(* The strengthening of SearchInv is inductive: the step of the loop, ... *)
LEMMA ExactPop == ASSUME ExactInv, Pop PROVE ExactInv'
<1>1. SearchInv'
  BY PopKeeps DEF ExactInv
<1>2. heap # {} /\ UNCHANGED <<ask, found>> /\ ~found
  BY DEF Pop
<1>3. EndInv'
  BY <1>2 DEF EndInv
<1>4. CASE First(heap)[3] = dist[First(heap)[2]]
  <2>1. Settle(First(heap)[2])
    BY <1>4 DEF Pop
  <2>2. First(heap)[2] \in DOMAIN dist
    BY <1>2, TopIsReached DEF ExactInv, SearchInv
  <2>3. TreeInv'
    BY <1>2, <2>1, <2>2, SettleTree DEF ExactInv
  <2>4. BestInv'
    BY <1>2, <1>4, <2>1, SettleBest DEF ExactInv
  <2> QED BY <1>1, <1>3, <2>3, <2>4 DEF ExactInv
<1>5. CASE First(heap)[3] # dist[First(heap)[2]]
  <2>1. heap' = heap \ {First(heap)} /\ UNCHANGED <<ask, dist, pred, best>>
    BY <1>5 DEF Pop
  <2>2. \A e \in DOMAIN dist : Entry(ask, e, dist[e]) # First(heap)
    BY <1>5, EntryIs
  <2>3. TreeInv'
    BY <2>1 DEF ExactInv, TreeInv, FromPred
  <2>4. BestInv'
    BY <2>1, <2>2 DEF ExactInv, BestInv, Entry
  <2> QED BY <1>1, <1>3, <2>3, <2>4 DEF ExactInv
<1> QED BY <1>4, <1>5

(* ... the start of a call, ... *)
LEMMA ExactBegin == ASSUME NEW p, IsProblem(p), Begin(p) PROVE ExactInv'
<1>1. SearchInv'
  BY BeginKeeps
<1>2. /\ ask' = p /\ dist' = p.seeds /\ pred' = [e \in DOMAIN p.seeds |-> 0]
      /\ heap' = {Entry(p, e, p.seeds[e]) : e \in DOMAIN p.seeds} /\ best' = {} /\ ~found'
  BY DEF Begin, Entries
<1>3. \A e \in DOMAIN p.seeds : p.seeds[e] \in Nat
  BY DEF IsProblem
<1>4. TreeInv'
  <2> DEFINE s == [e \in DOMAIN p.seeds |-> 0]
  <2>1. FromPred(s)'
    BY <1>2 DEF FromPred
  <2>2. (\E stamp : FromPred(stamp))'
    <3> HIDE DEF s
    <3> QED BY <2>1
  <2> QED BY <1>2, <1>3, <2>2 DEF TreeInv
<1>5. BestInv'
  BY <1>2 DEF BestInv, Entry
<1> QED BY <1>1, <1>2, <1>4, <1>5 DEF ExactInv, EndInv

(* ... and no call yet. *)
LEMMA ExactIdle == Idle => ExactInv
<1> SUFFICES ASSUME Idle PROVE ExactInv
  OBVIOUS
<1>1. IsProblem(ask) /\ DOMAIN ask.seeds = {} /\ DOMAIN ask.dests = {}
  BY NothingIsAProblem DEF Idle
<1>2. DOMAIN dist = {} /\ DOMAIN pred = {} /\ heap = {} /\ best = {}
  <2>1. DOMAIN <<>> = {}
    OBVIOUS
  <2> QED BY <2>1 DEF Idle
<1>3. SearchInv
  BY <1>1, <1>2 DEF SearchInv, SearchTypes, ReachedAreFollowed
<1>4. TreeInv
  <2> DEFINE s == [e \in {} |-> 0]
  <2>1. FromPred(s)
    BY <1>2 DEF FromPred
  <2>2. \E stamp : FromPred(stamp)
    <3> HIDE DEF s
    <3> QED BY <2>1
  <2> QED BY <1>1, <1>2, <2>2 DEF TreeInv
<1> QED BY <1>1, <1>2, <1>3, <1>4 DEF ExactInv, BestInv, EndInv

(* A step of a search that was begun, or no step.                          *)
LEMMA ExactStep == ASSUME ExactInv, [SearchStep]_searchVars PROVE ExactInv'
<1>1. CASE Pop
  BY <1>1, ExactPop
<1>2. CASE Finish
  <2>1. UNCHANGED <<ask, dist, pred, heap, best>>
    BY <1>2 DEF Finish
  <2>2. SearchInv' /\ TreeInv' /\ BestInv'
    BY <2>1 DEF ExactInv, SearchInv, SearchTypes, ReachedAreFollowed, Entry,
       TreeInv, FromPred, BestInv
  <2>3. EndInv'
    BY <1>2, <2>1 DEF Finish, EndInv, Beaten
  <2> QED BY <2>2, <2>3 DEF ExactInv
<1>3. CASE UNCHANGED searchVars
  BY <1>3 DEF searchVars, ExactInv, SearchInv, SearchTypes, ReachedAreFollowed, Entry,
     TreeInv, FromPred, BestInv, EndInv, Beaten
<1> QED BY <1>1, <1>2, <1>3 DEF SearchStep

LEMMA ExactHolds == SearchSpec => []ExactInv
<1>1. ExactInv /\ [SearchNext]_searchVars => ExactInv'
  <2> SUFFICES ASSUME ExactInv, [SearchNext]_searchVars PROVE ExactInv'
    OBVIOUS
  <2>1. CASE [SearchStep]_searchVars
    BY <2>1, ExactStep
  <2>2. ASSUME NEW p \in Problems, Begin(p) PROVE ExactInv'
    BY <2>2, ExactBegin, ProblemsAreRoads
  <2> QED BY <2>1, <2>2 DEF SearchNext
<1> QED BY <1>1, ExactIdle, PTL DEF SearchSpec

-----------------------------------------------------------------------------
(* Walking back from an edge to a seed. *)

Reached == DOMAIN pred

(* What holds of an edge whenever it does of the one before holds of all:   *)
(* pred has no cycles.                                                      *)
LEMMA FromTheSeeds ==
  ASSUME SearchInv, TreeInv, NEW P,
         \A d \in Reached : (pred[d] # 0 => pred[d] \in P) => d \in P
  PROVE  Reached \subseteq P
<1> SUFFICES ASSUME Reached \ P # {} PROVE FALSE
  OBVIOUS
<1> DEFINE Q == Reached \ P
<1>1. PICK stamp : FromPred(stamp)
  BY DEF TreeInv
<1>2. Reached = DOMAIN dist /\ \A d \in Reached : dist[d] \in Nat /\ stamp[d] \in Nat
  BY <1>1 DEF Reached, TreeInv, FromPred, SearchInv, SearchTypes
<1>3. PICK c \in {dist[d] : d \in Q} : \A x \in {dist[d] : d \in Q} : c <= x
  <2>1. {dist[d] : d \in Q} \subseteq Nat /\ {dist[d] : d \in Q} # {}
    BY <1>2
  <2> QED BY <2>1, LeastNat
<1> DEFINE R == {d \in Q : dist[d] = c}
<1>4. PICK s \in {stamp[d] : d \in R} : \A x \in {stamp[d] : d \in R} : s <= x
  <2>1. {stamp[d] : d \in R} \subseteq Nat /\ {stamp[d] : d \in R} # {}
    BY <1>2, <1>3
  <2> QED BY <2>1, LeastNat
<1>5. PICK d \in R : stamp[d] = s
  BY <1>4
<1>6. d \in Reached /\ d \notin P /\ dist[d] = c
  BY <1>5
<1>7. pred[d] # 0 /\ pred[d] \notin P
  BY <1>6
<1>8. /\ pred[d] \in Reached /\ <<pred[d], d>> \in ask.turns
      /\ dist[pred[d]] + ask.arc[<<pred[d], d>>] <= dist[d]
      /\ dist[pred[d]] < dist[d] \/ stamp[pred[d]] < stamp[d]
  BY <1>1, <1>2, <1>6, <1>7 DEF FromPred
<1>9. pred[d] \in Q /\ c <= dist[pred[d]]
  BY <1>3, <1>7, <1>8
<1>10. ask.arc[<<pred[d], d>>] \in Nat
  BY <1>8 DEF SearchInv, SearchTypes, IsProblem
<1>11. dist[pred[d]] = c
  BY <1>2, <1>6, <1>8, <1>9, <1>10
<1>12. s <= stamp[pred[d]]
  BY <1>4, <1>9, <1>11
<1> QED BY <1>2, <1>5, <1>6, <1>8, <1>11, <1>12

(* The number of steps back from d to a seed, by a walk w. *)
IsWalk(w, n, d) ==
  /\ w[0] = d /\ pred[w[n]] = 0
  /\ \A k \in 0..n : w[k] \in Reached
  /\ \A k \in 1..n : w[k] = pred[w[k - 1]]

Steps(d) == {n \in Nat : \E w : IsWalk(w, n, d)}

Least(S) == CHOOSE n \in S : \A m \in S : n <= m

(* A walk is one step longer than that from the edge before. *)
LEMMA StepsAre ==
  ASSUME SearchInv, TreeInv, NEW d \in Reached
  PROVE  /\ pred[d] = 0 => 0 \in Steps(d)
         /\ pred[d] # 0 => Steps(d) = {n + 1 : n \in Steps(pred[d])}
<1>1. ASSUME pred[d] = 0 PROVE 0 \in Steps(d)
  <2> DEFINE w == [k \in 0..0 |-> d]
  <2>1. IsWalk(w, 0, d)
    BY <1>1 DEF IsWalk
  <2> HIDE DEF w
  <2> QED BY <2>1 DEF Steps
<1>2. ASSUME pred[d] # 0, NEW n \in Nat, NEW v, IsWalk(v, n, pred[d])
      PROVE  n + 1 \in Steps(d)
  <2> DEFINE w == [k \in 0..(n + 1) |-> IF k = 0 THEN d ELSE v[k - 1]]
  <2>1. w[0] = d /\ \A k \in 1..(n + 1) : w[k] = v[k - 1] /\ k - 1 \in 0..n
    OBVIOUS
  <2>2. w[n + 1] = v[n]
    BY <2>1
  <2> HIDE DEF w
  <2>3. \A k \in 0..(n + 1) : w[k] \in Reached
    BY <2>1, <1>2 DEF IsWalk
  <2>4. ASSUME NEW k \in 1..(n + 1) PROVE w[k] = pred[w[k - 1]]
    <3>1. CASE k = 1
      BY <3>1, <2>1, <1>2 DEF IsWalk
    <3>2. CASE k # 1
      <4>1. k - 1 \in 1..n /\ k - 1 \in 1..(n + 1)
        BY <3>2
      <4> QED BY <4>1, <2>1, <1>2 DEF IsWalk
    <3> QED BY <3>1, <3>2
  <2>5. IsWalk(w, n + 1, d)
    BY <2>1, <2>2, <2>3, <2>4, <1>2 DEF IsWalk
  <2> QED BY <2>5 DEF Steps
<1>3. ASSUME pred[d] # 0, NEW n \in Nat, NEW w, IsWalk(w, n, d)
      PROVE  n # 0 /\ n - 1 \in Steps(pred[d])
  <2>1. n # 0 /\ n \in Nat \ {0}
    BY <1>3 DEF IsWalk
  <2> DEFINE v == [k \in 0..(n - 1) |-> w[k + 1]]
  <2>2. \A k \in 0..(n - 1) : v[k] = w[k + 1] /\ k + 1 \in 1..n /\ k + 1 \in 0..n
    BY <2>1
  <2>3. v[0] = w[1] /\ v[n - 1] = w[n] /\ w[1] = pred[d]
    BY <2>1, <2>2, <1>3 DEF IsWalk
  <2> HIDE DEF v
  <2>4. \A k \in 0..(n - 1) : v[k] \in Reached
    BY <2>2, <1>3 DEF IsWalk
  <2>5. ASSUME NEW k \in 1..(n - 1) PROVE v[k] = pred[v[k - 1]]
    <3>1. k - 1 \in 0..(n - 1) /\ k \in 0..(n - 1) /\ k + 1 \in 1..n
      BY <2>1
    <3>2. v[k] = w[k + 1] /\ v[k - 1] = w[k]
      BY <3>1, <2>2
    <3>3. w[k + 1] = pred[w[k]]
      BY <3>1, <1>3 DEF IsWalk
    <3> QED BY <3>2, <3>3
  <2>6. IsWalk(v, n - 1, pred[d])
    BY <2>3, <2>4, <2>5, <1>3 DEF IsWalk
  <2> QED BY <2>1, <2>6 DEF Steps
<1>4. ASSUME pred[d] # 0 PROVE Steps(d) = {n + 1 : n \in Steps(pred[d])}
  <2>1. \A n \in Steps(pred[d]) : n + 1 \in Steps(d)
    BY <1>2, <1>4 DEF Steps
  <2>2. ASSUME NEW n \in Steps(d) PROVE \E m \in Steps(pred[d]) : n = m + 1
    <3>1. n \in Nat /\ n # 0 /\ n - 1 \in Steps(pred[d])
      BY <1>3, <1>4 DEF Steps
    <3>2. n = (n - 1) + 1
      BY <3>1
    <3> QED BY <3>1, <3>2
  <2> QED BY <2>1, <2>2
<1> QED BY <1>1, <1>4

(* Every edge reached was reached from a seed. *)
LEMMA EveryWalkEnds ==
  ASSUME SearchInv, TreeInv
  PROVE  \A d \in Reached : Steps(d) # {}
<1> DEFINE P == {d \in Reached : Steps(d) # {}}
<1>1. ASSUME NEW d \in Reached, pred[d] # 0 => pred[d] \in P PROVE d \in P
  <2>1. CASE pred[d] = 0
    BY <2>1, StepsAre
  <2>2. CASE pred[d] # 0
    BY SMTT(30), <2>2, <1>1, StepsAre
  <2> QED BY <2>1, <2>2
<1> HIDE DEF P
<1>2. Reached \subseteq P
  BY <1>1, FromTheSeeds
<1> QED BY <1>2 DEF P

Depth == CHOOSE f : f = [d \in Reached |-> IF pred[d] = 0 THEN 1 ELSE 1 + f[pred[d]]]

(* The depths of all edges, as the recursion of Back has them.              *)
LEMMA DepthHolds ==
  ASSUME SearchInv, TreeInv
  PROVE  /\ Depth = [d \in Reached |-> IF pred[d] = 0 THEN 1 ELSE 1 + Depth[pred[d]]]
         /\ \A d \in Reached : Depth[d] \in Nat \ {0}
<1> DEFINE f == [d \in Reached |-> 1 + Least(Steps(d))]
           r == [d \in Reached |-> IF pred[d] = 0 THEN 1 ELSE 1 + f[pred[d]]]
<1>1. \A d \in Reached : pred[d] # 0 => pred[d] \in Reached
  BY DEF Reached, TreeInv, FromPred
<1>2. ASSUME NEW d \in Reached
      PROVE  Least(Steps(d)) \in Steps(d) /\ \A n \in Steps(d) : Least(Steps(d)) <= n
  <2>1. Steps(d) \subseteq Nat /\ Steps(d) # {}
    BY EveryWalkEnds DEF Steps
  <2>2. \E n \in Steps(d) : \A m \in Steps(d) : n <= m
    BY <2>1, LeastNat
  <2> QED BY <2>2 DEF Least
<1>3. \A d \in Reached : Steps(d) \subseteq Nat
  BY DEF Steps
<1>4. ASSUME NEW d \in Reached
      PROVE  1 + Least(Steps(d)) = IF pred[d] = 0 THEN 1 ELSE 1 + (1 + Least(Steps(pred[d])))
  <2>1. CASE pred[d] = 0
    <3>1. Least(Steps(d)) \in Nat /\ Least(Steps(d)) <= 0
      BY <2>1, <1>2, <1>3, StepsAre
    <3> QED BY <3>1, <2>1
  <2>2. CASE pred[d] # 0
    <3> DEFINE k == Least(Steps(d))
               m == Least(Steps(pred[d]))
    <3>1. /\ k \in Steps(d) /\ \A n \in Steps(d) : k <= n
          /\ m \in Steps(pred[d]) /\ \A n \in Steps(pred[d]) : m <= n
          /\ Steps(d) \subseteq Nat /\ Steps(pred[d]) \subseteq Nat
          /\ Steps(d) = {n + 1 : n \in Steps(pred[d])}
      BY <2>2, <1>1, <1>2, <1>3, StepsAre
    <3> HIDE DEF k, m
    <3>2. PICK n \in Steps(pred[d]) : k = n + 1
      BY <3>1
    <3>3. k = m + 1
      BY <3>1, <3>2
    <3>4. 1 + k = 1 + (1 + m)
      BY <3>1, <3>3
    <3> QED BY <3>4, <2>2 DEF k, m
  <2> QED BY <2>1, <2>2
<1>5. \A d \in Reached : f[d] = r[d]
  <2> TAKE d \in Reached
  <2>1. f[d] = 1 + Least(Steps(d))
    OBVIOUS
  <2>2. r[d] = IF pred[d] = 0 THEN 1 ELSE 1 + f[pred[d]]
    OBVIOUS
  <2>3. pred[d] # 0 => f[pred[d]] = 1 + Least(Steps(pred[d]))
    BY <1>1
  <2> HIDE DEF f, r
  <2> QED BY <2>1, <2>2, <2>3, <1>4
<1>6. f = r
  <2>1. f = [d \in Reached |-> f[d]] /\ r = [d \in Reached |-> r[d]]
    OBVIOUS
  <2> HIDE DEF f, r
  <2> QED BY <2>1, <1>5, Zenon
<1>7. \E g : g = [d \in Reached |-> IF pred[d] = 0 THEN 1 ELSE 1 + g[pred[d]]]
  <2>1. f = [d \in Reached |-> IF pred[d] = 0 THEN 1 ELSE 1 + f[pred[d]]]
    BY <1>6
  <2> HIDE DEF f
  <2> QED BY <2>1
<1>8. Depth = [d \in Reached |-> IF pred[d] = 0 THEN 1 ELSE 1 + Depth[pred[d]]]
  BY <1>7, Zenon DEF Depth
<1> DEFINE P == {d \in Reached : Depth[d] \in Nat \ {0}}
<1>9. ASSUME NEW d \in Reached, pred[d] # 0 => pred[d] \in P PROVE d \in P
  <2>1. Depth[d] = IF pred[d] = 0 THEN 1 ELSE 1 + Depth[pred[d]]
    BY <1>8, Zenon
  <2> QED BY <2>1, <1>9
<1> HIDE DEF P
<1>10. Reached \subseteq P
  BY <1>9, FromTheSeeds
<1> QED BY <1>8, <1>10 DEF P

(* The walk back from e, and on from the seed wherever that leads.          *)
Up(e) ==
  CHOOSE f : f = [k \in 0..Cardinality(Reached) |-> IF k = 0 THEN e ELSE pred[f[k - 1]]]

LEMMA UpHolds ==
  ASSUME NEW e, IsFiniteSet(Reached)
  PROVE  /\ Up(e)[0] = e
         /\ \A k \in 1..Cardinality(Reached) : Up(e)[k] = pred[Up(e)[k - 1]]
<1> DEFINE N == Cardinality(Reached)
           G == [k \in 1..N |-> pred]
           f == Recursion(0, N, e, G)
<1>1. N \in Nat
  BY FS_CardinalityType
<1>2. f = [k \in 0..N |-> IF k = 0 THEN e ELSE G[k][f[k - 1]]]
  <2> HIDE DEF G, N
  <2> QED BY <1>1, RecursionHolds
<1>3. f = [k \in 0..N |-> IF k = 0 THEN e ELSE pred[f[k - 1]]]
  <2> DEFINE r == [k \in 0..N |-> IF k = 0 THEN e ELSE G[k][f[k - 1]]]
             s == [k \in 0..N |-> IF k = 0 THEN e ELSE pred[f[k - 1]]]
  <2>1. \A k \in 0..N : k # 0 => G[k] = pred
    BY <1>1
  <2> HIDE DEF f, G, N
  <2>2. r = s
    BY <2>1
  <2> QED BY <1>2, <2>2
<1>4. \E g : g = [k \in 0..N |-> IF k = 0 THEN e ELSE pred[g[k - 1]]]
  <2> HIDE DEF f, N
  <2> QED BY <1>3
<1>5. Up(e) = [k \in 0..N |-> IF k = 0 THEN e ELSE pred[Up(e)[k - 1]]]
  BY <1>4, Zenon DEF Up
<1> HIDE DEF N
<1>6. \A k \in 0..N : Up(e)[k] = IF k = 0 THEN e ELSE pred[Up(e)[k - 1]]
  BY <1>5, Zenon
<1>7. 0 \in 0..N /\ \A k \in 1..N : k \in 0..N /\ k # 0
  BY <1>1
<1> QED BY <1>6, <1>7, Zenon DEF N

(* The route walked back to a reached edge begins with a seed, ends with    *)
(* that edge, and has no edge twice.                                        *)
LEMMA BackIs ==
  ASSUME SearchInv, TreeInv, NEW e \in Reached
  PROVE  LET r == Back(e)
         IN /\ r \in Seq(Reached) /\ Len(r) \in 1..Cardinality(Reached)
            /\ r[Len(r)] = e /\ pred[r[1]] = 0
            /\ \A i \in 1..(Len(r) - 1) : pred[r[i + 1]] = r[i] /\ pred[r[i + 1]] # 0
            /\ \A i, j \in 1..Len(r) : r[i] = r[j] => i = j
<1> DEFINE N == Cardinality(Reached)
           D == Depth[e]
           up == Up(e)
           r == [i \in 1..D |-> up[D - i]]
<1>1. Back(e) = r
  BY DEF Back, Up, Depth, Reached
<1>2. IsFiniteSet(Reached) /\ Reached \subseteq Nat \ {0}
  <2>1. IsFiniteSet(DOMAIN ask.h) /\ Reached \subseteq DOMAIN ask.h
    BY DEF SearchInv, SearchTypes, IsProblem, TreeInv, Reached
  <2> QED BY <2>1, FS_Subset DEF SearchInv, SearchTypes, IsProblem
<1>3. N \in Nat
  BY <1>2, FS_CardinalityType
<1>4. /\ \A d \in Reached : Depth[d] = IF pred[d] = 0 THEN 1 ELSE 1 + Depth[pred[d]]
      /\ \A d \in Reached : Depth[d] \in Nat \ {0}
  BY DepthHolds, Zenon
<1>5. up[0] = e /\ \A k \in 1..N : up[k] = pred[up[k - 1]]
  BY <1>2, UpHolds
<1>6. D \in Nat \ {0}
  BY <1>4
<1>7. \A d \in Reached : pred[d] # 0 => pred[d] \in Reached
  BY DEF Reached, TreeInv, FromPred
<1> HIDE DEF D, up, r, N
<1> DEFINE M == IF D - 1 <= N THEN D - 1 ELSE N
           P == {k \in 0..M : up[k] \in Reached /\ Depth[up[k]] = D - k}
<1>8. M \in Nat /\ M <= N /\ M <= D - 1
  BY <1>3, <1>6
<1> HIDE DEF M
<1>9. 0 \in P
  BY <1>5, <1>6, <1>8 DEF D
<1>10. ASSUME NEW k \in 1..M, k - 1 \in P PROVE k \in P
  <2> DEFINE d == up[k - 1]
  <2>1. d \in Reached /\ Depth[d] = D - (k - 1)
    BY <1>10
  <2>2. k \in 1..N /\ k <= D - 1
    BY <1>3, <1>6, <1>8
  <2>3. up[k] = pred[d]
    BY <2>2, <1>5
  <2> HIDE DEF d
  <2>4. Depth[d] = IF pred[d] = 0 THEN 1 ELSE 1 + Depth[pred[d]]
    BY <2>1, <1>4
  <2>5. pred[d] # 0
    BY <2>1, <2>2, <2>4, <1>6
  <2>6. pred[d] \in Reached /\ Depth[pred[d]] \in Nat
    BY <2>1, <2>5, <1>4, <1>7
  <2>7. Depth[pred[d]] = D - k
    BY <2>1, <2>2, <2>4, <2>5, <2>6, <1>6
  <2> QED BY <2>3, <2>6, <2>7
<1>11. \A k \in 0..M : up[k] \in Reached /\ Depth[up[k]] = D - k
  <2> HIDE DEF P
  <2>0. 0 \in Nat /\ 0 + 1 = 1
    OBVIOUS
  <2>1. 0..M \subseteq P
    BY <2>0, <1>8, <1>9, <1>10, InductionFromTo
  <2> QED BY <2>1 DEF P
(* The walk has as many steps as it has edges, and all are different.       *)
<1>12. D <= N
  <2> SUFFICES ASSUME N < D PROVE FALSE
    BY <1>3, <1>6
  <2>1. M = N
    BY <1>3, <1>6 DEF M
  <2> DEFINE w == [k \in 0..N |-> up[k]]
  <2>2. w \in [0..N -> Reached]
    BY <2>1, <1>11
  <2>3. IsFiniteSet(0..N) /\ Cardinality(0..N) = N + 1
    BY <1>3, FS_Interval
  <2>4. PICK x \in 0..N, y \in 0..N : x # y /\ w[x] = w[y]
    <3>1. Cardinality(Reached) < Cardinality(0..N)
      BY <2>3, <1>3 DEF N
    <3> DEFINE S == 0..N
    <3>2. IsFiniteSet(S) /\ Cardinality(Reached) < Cardinality(S) /\ w \in [S -> Reached]
      BY <2>2, <2>3, <3>1
    <3> HIDE DEF w, S
    <3>3. \E x, y \in S : x # y /\ w[x] = w[y]
      BY <3>2, <1>2, FS_PigeonHole
    <3> QED BY <3>3 DEF S
  <2>5. Depth[up[x]] = D - x /\ Depth[up[y]] = D - y
    BY <2>1, <1>11
  <2> QED BY <2>4, <2>5, <1>6
<1>13. M = D - 1
  BY <1>3, <1>6, <1>12 DEF M
<1>14. \A i \in 1..D : D - i \in 0..M /\ r[i] = up[D - i]
  BY <1>6, <1>13 DEF r
<1>15. r \in Seq(Reached) /\ Len(r) = D
  <2>1. \A i \in 1..D : r[i] \in Reached
    BY <1>11, <1>14
  <2>2. r \in [1..D -> Reached]
    BY <2>1 DEF r
  <2> QED BY <2>2, <1>6
<1>16. r[D] = e
  <2>1. D \in 1..D /\ D - D = 0
    BY <1>6
  <2> QED BY <2>1, <1>5, <1>14
<1>17. pred[r[1]] = 0
  <2>0. 1 \in 1..D
    BY <1>6
  <2>1. r[1] = up[D - 1] /\ D - 1 \in 0..M
    BY <2>0, <1>14
  <2>2. up[D - 1] \in Reached /\ Depth[up[D - 1]] = 1
    <3>1. D - (D - 1) = 1
      BY <1>6
    <3> QED BY <2>1, <3>1, <1>11
  <2>3. pred[up[D - 1]] # 0 => pred[up[D - 1]] \in Reached
    BY <2>2, <1>7
  <2> QED BY <2>1, <2>2, <2>3, <1>4
<1>18. ASSUME NEW i \in 1..(D - 1)
       PROVE  pred[r[i + 1]] = r[i] /\ pred[r[i + 1]] # 0
  <2>1. i \in 1..D /\ i + 1 \in 1..D /\ D - i \in 1..N /\ D - (i + 1) = (D - i) - 1
    BY <1>3, <1>6, <1>12
  <2>2. r[i] = up[D - i] /\ r[i + 1] = up[(D - i) - 1]
    BY <2>1, <1>14
  <2>3. up[D - i] = pred[up[(D - i) - 1]]
    BY <2>1, <1>5
  <2>4. up[D - i] \in Reached
    BY <2>1, <1>11, <1>14
  <2> QED BY <2>2, <2>3, <2>4, <1>2
<1>19. ASSUME NEW i \in 1..D, NEW j \in 1..D, r[i] = r[j] PROVE i = j
  <2>1. Depth[r[i]] = D - (D - i) /\ Depth[r[j]] = D - (D - j)
    BY <1>11, <1>14
  <2> QED BY <2>1, <1>6, <1>19
<1> QED BY <1>1, <1>6, <1>12, <1>15, <1>16, <1>17, <1>18, <1>19 DEF N

-----------------------------------------------------------------------------
(* The least costs over ever more turns, as Cheapest computes them. *)

Start(p) == {<<e, p.seeds[e]>> : e \in DOMAIN p.seeds}

Via(p, costs) ==
  UNION {{<<t[2], x[2] + p.arc[t]>> : x \in {x \in costs : x[1] = t[1]}} : t \in p.turns}

LeastOf(costs) == {x \in costs : \A y \in costs : x[1] = y[1] => x[2] <= y[2]}

Longer(p, costs) == LeastOf(costs \cup Via(p, costs))

ByTurns(p) ==
  CHOOSE f : f = [n \in 0..Cardinality(DOMAIN p.h) |->
                   IF n = 0 THEN Start(p) ELSE Longer(p, f[n - 1])]

LEMMA CheapestIs ==
  ASSUME NEW p
  PROVE  Cheapest(p) = ByTurns(p)[Cardinality(DOMAIN p.h)]
BY DEF Cheapest, ByTurns, Longer, LeastOf, Via, Start

PairSets(p) == SUBSET ((DOMAIN p.h) \X Nat)

(* One more turn.                                                           *)
LEMMA LongerIs ==
  ASSUME NEW p, IsProblem(p), NEW costs \in PairSets(p)
  PROVE  /\ costs \cup Via(p, costs) \in PairSets(p) /\ Longer(p, costs) \in PairSets(p)
         /\ Longer(p, costs) \subseteq costs \cup Via(p, costs)
         /\ \A x \in costs \cup Via(p, costs) : \E m \in Longer(p, costs) :
              m[1] = x[1] /\ m[2] <= x[2]
<1> DEFINE both == costs \cup Via(p, costs)
<1>1. ASSUME NEW x \in Via(p, costs) PROVE x \in (DOMAIN p.h) \X Nat
  <2>1. PICK t \in p.turns : x \in {<<t[2], y[2] + p.arc[t]>> : y \in {y \in costs : y[1] = t[1]}}
    BY DEF Via
  <2>2. PICK y \in costs : x = <<t[2], y[2] + p.arc[t]>>
    BY <2>1
  <2>3. t[2] \in DOMAIN p.h /\ p.arc[t] \in Nat /\ y[2] \in Nat
    BY <2>1, <2>2 DEF IsProblem, PairSets
  <2> QED BY <2>2, <2>3
<1>2. both \in PairSets(p)
  BY <1>1 DEF PairSets
<1>3. ASSUME NEW x \in both PROVE \E m \in LeastOf(both) : m[1] = x[1] /\ m[2] <= x[2]
  <2> DEFINE S == {y[2] : y \in {y \in both : y[1] = x[1]}}
  <2>1. S \subseteq Nat /\ x[2] \in S
    BY <1>2 DEF PairSets
  <2>2. PICK c \in S : \A d \in S : c <= d
    <3> HIDE DEF S
    <3> QED BY <2>1, LeastNat
  <2>3. PICK m \in both : m[1] = x[1] /\ m[2] = c
    BY <2>2
  <2>4. \A y \in both : m[1] = y[1] => m[2] <= y[2]
    BY <2>2, <2>3
  <2> HIDE DEF both
  <2> QED BY <2>1, <2>2, <2>3, <2>4 DEF LeastOf
<1>4. LeastOf(both) \subseteq both
  BY DEF LeastOf
<1> QED BY <1>2, <1>3, <1>4 DEF Longer, PairSets

(* The recursion of Cheapest, unfolded. *)
LEMMA ByTurnsIs ==
  ASSUME NEW p, IsProblem(p)
  PROVE  /\ Cardinality(DOMAIN p.h) \in Nat
         /\ ByTurns(p)[0] = Start(p)
         /\ \A n \in 0..Cardinality(DOMAIN p.h) : ByTurns(p)[n] \in PairSets(p)
         /\ \A n \in 1..Cardinality(DOMAIN p.h) : ByTurns(p)[n] = Longer(p, ByTurns(p)[n - 1])
<1> DEFINE N == Cardinality(DOMAIN p.h)
           G == [n \in 1..N |-> [costs \in PairSets(p) |-> Longer(p, costs)]]
           f == Recursion(0, N, Start(p), G)
<1>1. N \in Nat
  BY FS_CardinalityType DEF IsProblem
<1>2. f = [n \in 0..N |-> IF n = 0 THEN Start(p) ELSE G[n][f[n - 1]]]
  <2> HIDE DEF G, N
  <2> QED BY <1>1, RecursionHolds
<1>3. \A n \in 0..N : f[n] = IF n = 0 THEN Start(p) ELSE G[n][f[n - 1]]
  <2> HIDE DEF f, G, N
  <2> QED BY <1>2, Zenon
<1>4. \A n \in 1..N : \A costs \in PairSets(p) : G[n][costs] = Longer(p, costs)
  OBVIOUS
<1>5. f[0] = Start(p) /\ \A n \in 1..N : f[n] = G[n][f[n - 1]]
  <2>1. 0 \in 0..N /\ \A n \in 1..N : n \in 0..N /\ n # 0
    BY <1>1
  <2> HIDE DEF f, G, N
  <2> QED BY <1>3, <2>1, Zenon
<1> HIDE DEF f, G, N
<1>6. Start(p) \in PairSets(p)
  BY DEF Start, PairSets, IsProblem
<1> DEFINE P == {n \in 0..N : f[n] \in PairSets(p)}
<1>7. 0 \in P
  BY <1>1, <1>5, <1>6
<1>8. ASSUME NEW n \in 1..N, n - 1 \in P PROVE n \in P
  <2>1. f[n] = Longer(p, f[n - 1]) /\ f[n - 1] \in PairSets(p)
    BY <1>4, <1>5, <1>8
  <2>2. f[n] \in PairSets(p)
    BY <2>1, LongerIs
  <2> QED BY <2>2, <1>1
<1>9. \A n \in 0..N : f[n] \in PairSets(p)
  <2> HIDE DEF P
  <2>1. 0 \in Nat /\ 0 + 1 = 1
    OBVIOUS
  <2>2. 0..N \subseteq P
    BY <2>1, <1>1, <1>7, <1>8, InductionFromTo
  <2> QED BY <2>2 DEF P
<1>10. \A n \in 1..N : n - 1 \in 0..N
  BY <1>1
<1>11. f = [n \in 0..N |-> IF n = 0 THEN Start(p) ELSE Longer(p, f[n - 1])]
  <2> DEFINE r == [n \in 0..N |-> IF n = 0 THEN Start(p) ELSE G[n][f[n - 1]]]
             s == [n \in 0..N |-> IF n = 0 THEN Start(p) ELSE Longer(p, f[n - 1])]
  <2>1. ASSUME NEW n \in 0..N PROVE r[n] = s[n]
    <3>1. n # 0 => n \in 1..N
      BY <1>1
    <3>2. n # 0 => G[n][f[n - 1]] = Longer(p, f[n - 1])
      BY <3>1, <1>4, <1>9, <1>10
    <3> QED BY <3>2
  <2>2. r = s
    <3>1. r = [n \in 0..N |-> r[n]] /\ s = [n \in 0..N |-> s[n]]
      OBVIOUS
    <3> HIDE DEF r, s
    <3> QED BY <3>1, <2>1, Zenon
  <2> QED BY <2>2, <1>2
<1>12. \E g : g = [n \in 0..N |-> IF n = 0 THEN Start(p) ELSE Longer(p, g[n - 1])]
  BY <1>11
<1> DEFINE U == ByTurns(p)
<1>13. U = [n \in 0..N |-> IF n = 0 THEN Start(p) ELSE Longer(p, U[n - 1])]
  BY <1>12, Zenon DEF ByTurns, N
<1> HIDE DEF U
<1>14. U[0] = Start(p) /\ \A n \in 1..N : U[n] = Longer(p, U[n - 1])
  <2>1. \A n \in 0..N : U[n] = IF n = 0 THEN Start(p) ELSE Longer(p, U[n - 1])
    BY <1>13, Zenon
  <2>2. 0 \in 0..N /\ \A n \in 1..N : n \in 0..N /\ n # 0
    BY <1>1
  <2> QED BY <2>1, <2>2, Zenon
<1> DEFINE Q == {n \in 0..N : U[n] \in PairSets(p)}
<1>15. 0 \in Q
  BY <1>1, <1>6, <1>14
<1>16. ASSUME NEW n \in 1..N, n - 1 \in Q PROVE n \in Q
  <2>1. U[n] \in PairSets(p)
    BY <1>14, <1>16, LongerIs
  <2> QED BY <2>1, <1>1
<1>17. \A n \in 0..N : U[n] \in PairSets(p)
  <2> HIDE DEF Q
  <2>1. 0 \in Nat /\ 0 + 1 = 1
    OBVIOUS
  <2>2. 0..N \subseteq Q
    BY <2>1, <1>1, <1>15, <1>16, InductionFromTo
  <2> QED BY <2>2 DEF Q
<1> QED BY <1>1, <1>14, <1>17 DEF N, U

(* What Cheapest finds by n turns it finds by more, or cheaper.             *)
LEMMA MoreTurnsAreNoWorse ==
  ASSUME NEW p, IsProblem(p), NEW n \in 0..Cardinality(DOMAIN p.h), NEW x \in ByTurns(p)[n]
  PROVE  \E m \in Cheapest(p) : m[1] = x[1] /\ m[2] <= x[2]
<1> DEFINE N == Cardinality(DOMAIN p.h)
           U == ByTurns(p)
           P == {k \in n..N : \E m \in U[k] : m[1] = x[1] /\ m[2] <= x[2]}
<1>1. N \in Nat /\ (\A k \in 0..N : U[k] \in PairSets(p)) /\ \A k \in 1..N : U[k] = Longer(p, U[k - 1])
  BY ByTurnsIs
<1> HIDE DEF N, U
<1>2. n \in Nat /\ n \in 0..N /\ n <= N /\ x \in U[n]
  BY <1>1 DEF N, U
<1>3. x[2] \in Nat
  BY <1>1, <1>2 DEF PairSets
<1>4. n \in P
  BY <1>2, <1>3
<1>5. ASSUME NEW k \in (n + 1)..N, k - 1 \in P PROVE k \in P
  <2>1. k \in n..N /\ k \in 1..N /\ k - 1 \in 0..N
    BY <1>1, <1>2
  <2>2. PICK m \in U[k - 1] : m[1] = x[1] /\ m[2] <= x[2]
    BY <1>5
  <2>3. PICK l \in U[k] : l[1] = m[1] /\ l[2] <= m[2]
    <3>1. U[k - 1] \in PairSets(p) /\ U[k] = Longer(p, U[k - 1])
      BY <2>1, <1>1
    <3>2. m \in U[k - 1] \cup Via(p, U[k - 1])
      BY <2>2
    <3>3. \E l \in Longer(p, U[k - 1]) : l[1] = m[1] /\ l[2] <= m[2]
      BY <3>1, <3>2, LongerIs
    <3> QED BY <3>1, <3>3
  <2>4. m[2] \in Nat /\ l[2] \in Nat
    <3>1. U[k - 1] \in PairSets(p) /\ U[k] \in PairSets(p)
      BY <2>1, <1>1
    <3> QED BY <3>1, <2>2, <2>3 DEF PairSets
  <2>5. l[1] = x[1] /\ l[2] <= x[2]
    BY <2>2, <2>3, <2>4, <1>3
  <2> QED BY <2>1, <2>5
<1> HIDE DEF P
<1>6. N \in P
  <2>1. n..N \subseteq P
    BY <1>1, <1>2, <1>4, <1>5, InductionFromTo
  <2> QED BY <2>1, <1>1, <1>2
<1> QED BY <1>6, CheapestIs DEF P, N, U

-----------------------------------------------------------------------------
(* What a route costs, edge by edge. *)

Driven(p, r) ==
  CHOOSE f : f = [n \in 1..Len(r) |->
                   IF n = 1 THEN p.seeds[r[1]] ELSE f[n - 1] + p.arc[<<r[n - 1], r[n]>>]]

(* The recursion of CostOf, unfolded. *)
LEMMA DrivenIs ==
  ASSUME NEW p, NEW r, Len(r) \in Nat \ {0}, p.seeds[r[1]] \in Nat,
         \A n \in 2..Len(r) : p.arc[<<r[n - 1], r[n]>>] \in Nat
  PROVE  /\ Driven(p, r)[1] = p.seeds[r[1]]
         /\ \A n \in 2..Len(r) :
              Driven(p, r)[n] = Driven(p, r)[n - 1] + p.arc[<<r[n - 1], r[n]>>]
<1> DEFINE L == Len(r)
           b == p.seeds[r[1]]
           a(n) == p.arc[<<r[n - 1], r[n]>>]
           G == [n \in 2..L |-> [c \in Nat |-> c + a(n)]]
           f == Recursion(1, L, b, G)
<1>1. L \in Nat /\ 1 \in Nat /\ 1 + 1 = 2 /\ b \in Nat /\ \A n \in 2..L : a(n) \in Nat
  OBVIOUS
<1>2. f = [n \in 1..L |-> IF n = 1 THEN b ELSE G[n][f[n - 1]]]
  <2> HIDE DEF G, L, b
  <2> QED BY <1>1, RecursionHolds
<1>3. \A n \in 1..L : f[n] = IF n = 1 THEN b ELSE G[n][f[n - 1]]
  <2> HIDE DEF f, G, L, b
  <2> QED BY <1>2, Zenon
<1>4. \A n \in 2..L : \A c \in Nat : G[n][c] = c + a(n)
  OBVIOUS
<1> HIDE DEF f, G, L, b, a
<1>5. 1 \in 1..L /\ \A n \in 2..L : n \in 1..L /\ n # 1 /\ n - 1 \in 1..L
  BY <1>1 DEF L
<1>6. f[1] = b /\ \A n \in 2..L : f[n] = G[n][f[n - 1]]
  BY <1>3, <1>5, Zenon
<1> DEFINE P == {n \in 1..L : f[n] \in Nat}
<1>7. 1 \in P
  BY <1>1, <1>5, <1>6
<1>8. ASSUME NEW n \in 2..L, n - 1 \in P PROVE n \in P
  <2>1. f[n] = f[n - 1] + a(n) /\ f[n - 1] \in Nat /\ a(n) \in Nat
    BY <1>1, <1>4, <1>6, <1>8
  <2> QED BY <2>1, <1>5
<1>9. \A n \in 1..L : f[n] \in Nat
  <2> HIDE DEF P
  <2>1. 1..L \subseteq P
    BY <1>1, <1>7, <1>8, InductionFromTo
  <2> QED BY <2>1 DEF P
<1>10. f = [n \in 1..L |-> IF n = 1 THEN b ELSE f[n - 1] + a(n)]
  <2> DEFINE u == [n \in 1..L |-> IF n = 1 THEN b ELSE G[n][f[n - 1]]]
             v == [n \in 1..L |-> IF n = 1 THEN b ELSE f[n - 1] + a(n)]
  <2>1. ASSUME NEW n \in 1..L PROVE u[n] = v[n]
    <3>1. n # 1 => n \in 2..L
      BY <1>1
    <3>2. n # 1 => G[n][f[n - 1]] = f[n - 1] + a(n)
      BY <3>1, <1>4, <1>5, <1>9
    <3> QED BY <3>2
  <2>2. u = v
    <3>1. u = [n \in 1..L |-> u[n]] /\ v = [n \in 1..L |-> v[n]]
      OBVIOUS
    <3> HIDE DEF u, v
    <3> QED BY <3>1, <2>1, Zenon
  <2> QED BY <2>2, <1>2
<1>11. \E g : g = [n \in 1..L |-> IF n = 1 THEN b ELSE g[n - 1] + a(n)]
  BY <1>10
<1> DEFINE D == Driven(p, r)
<1>12. D = [n \in 1..L |-> IF n = 1 THEN b ELSE D[n - 1] + a(n)]
  BY <1>11, Zenon DEF Driven, L, b, a
<1> HIDE DEF D
<1>13. \A n \in 1..L : D[n] = IF n = 1 THEN b ELSE D[n - 1] + a(n)
  BY <1>12, Zenon
<1>14. D[1] = b /\ \A n \in 2..L : D[n] = D[n - 1] + a(n)
  BY <1>5, <1>13, Zenon
<1> QED BY <1>14 DEF D, L, b, a

(* A way through the problem: from a seed over its turns, no edge twice.    *)
IsWay(p, r) ==
  /\ r \in Seq(DOMAIN p.h) /\ Len(r) > 0
  /\ r[1] \in DOMAIN p.seeds
  /\ \A i \in 1..(Len(r) - 1) : <<r[i], r[i + 1]>> \in p.turns
  /\ \A i, j \in 1..Len(r) : r[i] = r[j] => i = j

(* A way has no more edges than there are. *)
LEMMA WayIsShort ==
  ASSUME NEW p, IsProblem(p), NEW r, IsWay(p, r)
  PROVE  Len(r) \in 1..Cardinality(DOMAIN p.h)
<1> DEFINE E == DOMAIN p.h
           L == Len(r)
           S == 1..L
<1>1. IsFiniteSet(E) /\ Cardinality(E) \in Nat
  BY FS_CardinalityType DEF IsProblem
<1>2. L \in Nat \ {0} /\ r \in [S -> E] /\ \A i, j \in S : r[i] = r[j] => i = j
  BY DEF IsWay
<1>3. IsFiniteSet(S) /\ Cardinality(S) = L
  BY <1>2, FS_Interval
<1> HIDE DEF E, L, S
<1>4. ~(Cardinality(E) < Cardinality(S))
  BY <1>1, <1>2, <1>3, FS_PigeonHole
<1> QED BY <1>1, <1>2, <1>3, <1>4 DEF E, L

(* What every way costs, and Cheapest has found one to its end that costs   *)
(* no more.                                                                 *)
LEMMA WayCosts ==
  ASSUME NEW p, IsProblem(p), NEW r, IsWay(p, r)
  PROVE  /\ Driven(p, r)[1] = p.seeds[r[1]]
         /\ \A n \in 2..Len(r) :
              /\ p.arc[<<r[n - 1], r[n]>>] \in Nat
              /\ Driven(p, r)[n] = Driven(p, r)[n - 1] + p.arc[<<r[n - 1], r[n]>>]
         /\ \A n \in 1..Len(r) : Driven(p, r)[n] \in Nat
         /\ \E m \in Cheapest(p) : m[1] = r[Len(r)] /\ m[2] \in Nat /\ m[2] <= Driven(p, r)[Len(r)]
<1> DEFINE L == Len(r)
           D == Driven(p, r)
           N == Cardinality(DOMAIN p.h)
           U == ByTurns(p)
           a(n) == p.arc[<<r[n - 1], r[n]>>]
<1>3. /\ N \in Nat /\ U[0] = Start(p)
      /\ \A n \in 0..N : U[n] \in PairSets(p)
      /\ \A n \in 1..N : U[n] = Longer(p, U[n - 1])
  BY ByTurnsIs
<1>6. L \in Nat \ {0} /\ L <= N
  BY <1>3, WayIsShort
<1>7. r[1] \in DOMAIN p.seeds /\ p.seeds[r[1]] \in Nat
  BY DEF IsWay, IsProblem
<1>8. ASSUME NEW n \in 2..L PROVE <<r[n - 1], r[n]>> \in p.turns /\ a(n) \in Nat
  <2>1. n - 1 \in 1..(L - 1) /\ (n - 1) + 1 = n
    BY <1>6
  <2>2. <<r[n - 1], r[n]>> \in p.turns
    BY <2>1 DEF IsWay
  <2> QED BY <2>2 DEF IsProblem
<1>9. D[1] = p.seeds[r[1]] /\ \A n \in 2..L : D[n] = D[n - 1] + a(n)
  BY <1>6, <1>7, <1>8, DrivenIs
<1> DEFINE Good(n) == D[n] \in Nat /\ \E x \in U[n - 1] : x[1] = r[n] /\ x[2] <= D[n]
           P == {n \in 1..L : Good(n)}
<1> HIDE DEF L, D, N, U, a
<1>10. Good(1)
  <2>1. <<r[1], p.seeds[r[1]]>> \in U[0]
    BY <1>3, <1>7 DEF Start
  <2> QED BY <2>1, <1>7, <1>9
<1>11. ASSUME NEW n \in 2..L, Good(n - 1) PROVE Good(n)
  <2>1. n - 1 \in 1..L /\ n \in 1..L /\ (n - 1) - 1 \in 0..N /\ n - 1 \in 1..N /\ n - 1 \in 0..N
    BY <1>3, <1>6
  <2>2. D[n] = D[n - 1] + a(n) /\ D[n - 1] \in Nat /\ a(n) \in Nat
    BY <1>8, <1>9, <1>11
  <2>4. PICK x \in U[(n - 1) - 1] : x[1] = r[n - 1] /\ x[2] <= D[n - 1]
    BY <1>11
  <2>5. U[(n - 1) - 1] \in PairSets(p) /\ U[n - 1] \in PairSets(p)
        /\ U[n - 1] = Longer(p, U[(n - 1) - 1])
    BY <1>3, <2>1
  <2>6. x[2] \in Nat
    BY <2>4, <2>5 DEF PairSets
  <2> DEFINE t == <<r[n - 1], r[n]>>
             y == <<t[2], x[2] + p.arc[t]>>
  <2>7. y \in Via(p, U[(n - 1) - 1])
    <3>1. t \in p.turns /\ x \in {z \in U[(n - 1) - 1] : z[1] = t[1]}
      BY <1>8, <2>4
    <3> HIDE DEF t
    <3> QED BY <3>1 DEF Via
  <2>8. y[1] = r[n] /\ y[2] = x[2] + a(n)
    BY DEF a
  <2> HIDE DEF y
  <2>9. PICK m \in U[n - 1] : m[1] = y[1] /\ m[2] <= y[2]
    <3>1. y \in U[(n - 1) - 1] \cup Via(p, U[(n - 1) - 1])
      BY <2>7
    <3>2. \E m \in Longer(p, U[(n - 1) - 1]) : m[1] = y[1] /\ m[2] <= y[2]
      BY <3>1, <2>5, LongerIs
    <3> QED BY <3>2, <2>5
  <2>10. m[2] \in Nat
    BY <2>5, <2>9 DEF PairSets
  <2>11. m[1] = r[n] /\ m[2] <= D[n]
    BY <2>2, <2>4, <2>6, <2>8, <2>9, <2>10
  <2> QED BY <2>2, <2>9, <2>11
<1>12. L \in P /\ \A n \in 1..L : D[n] \in Nat
  <2>1. 1 \in P /\ \A n \in 2..L : n - 1 \in P => n \in P
    <3>1. 1 \in 1..L /\ \A n \in 2..L : n \in 1..L
      BY <1>6
    <3> HIDE DEF Good
    <3> QED BY <3>1, <1>10, <1>11
  <2>2. 1 \in Nat /\ 1 + 1 = 2 /\ L \in Nat /\ L \in 1..L
    BY <1>6
  <2>3. 1..L \subseteq P
    <3> HIDE DEF P
    <3> QED BY <2>1, <2>2, InductionFromTo
  <2> QED BY <2>2, <2>3
<1>13. PICK x \in U[L - 1] : x[1] = r[L] /\ x[2] <= D[L]
  BY <1>12
<1>15. L - 1 \in 0..N
  BY <1>3, <1>6
<1>16. PICK m \in Cheapest(p) : m[1] = x[1] /\ m[2] <= x[2]
  BY <1>13, <1>15, MoreTurnsAreNoWorse DEF U, N
<1>17. x[2] \in Nat /\ m[2] \in Nat
  <2>1. U[L - 1] \in PairSets(p) /\ U[N] \in PairSets(p)
    BY <1>3, <1>15
  <2>2. Cheapest(p) = U[N]
    BY CheapestIs DEF U, N
  <2> QED BY <2>1, <2>2, <1>13, <1>16 DEF PairSets
<1>18. D[L] \in Nat /\ L \in 1..L
  BY <1>6, <1>12
<1>19. m[1] = r[L] /\ m[2] <= D[L]
  BY <1>13, <1>16, <1>17, <1>18
<1> QED BY <1>8, <1>9, <1>12, <1>16, <1>17, <1>19 DEF D, L, a

(* A route: a way to a destination.                                         *)
IsRoute(p, r) == IsWay(p, r) /\ r[Len(r)] \in DOMAIN p.dests

(* Every route costs what it drives, less the share it does not, and no     *)
(* less than some cost that is promised.                                    *)
LEMMA RouteCosts ==
  ASSUME NEW p, IsProblem(p), NEW r, IsRoute(p, r)
  PROVE  /\ CostOf(p, r) \in Int
         /\ CostOf(p, r) = Driven(p, r)[Len(r)] + p.dests[r[Len(r)]]
         /\ \E c \in CheapestTo(p) : c \in Int /\ c <= CostOf(p, r)
<1> DEFINE e == r[Len(r)]
           drove == Driven(p, r)[Len(r)]
<1>1. CostOf(p, r) = drove + p.dests[e]
  BY DEF CostOf, Driven
<1>2. p.dests[e] \in Int /\ e \in DOMAIN p.dests /\ IsWay(p, r) /\ Len(r) \in 1..Len(r)
  <2>1. IsWay(p, r) /\ e \in DOMAIN p.dests
    BY DEF IsRoute
  <2>2. \A d \in DOMAIN p.dests : p.dests[d] \in Int
    BY DEF IsProblem
  <2>3. Len(r) \in Nat /\ Len(r) > 0
    BY <2>1 DEF IsWay
  <2> HIDE DEF e
  <2> QED BY <2>1, <2>2, <2>3
<1>3. drove \in Nat /\ \E m \in Cheapest(p) : m[1] = e /\ m[2] \in Nat /\ m[2] <= drove
  BY <1>2, WayCosts
<1>4. PICK m \in Cheapest(p) : m[1] = e /\ m[2] \in Nat /\ m[2] <= drove
  BY <1>3
<1> HIDE DEF drove, e
<1>5. m[2] + p.dests[e] \in CheapestTo(p)
  BY <1>2, <1>4 DEF CheapestTo
<1>6. m[2] + p.dests[e] <= CostOf(p, r) /\ m[2] + p.dests[e] \in Int
  BY <1>1, <1>2, <1>3, <1>4
<1> QED BY <1>1, <1>2, <1>3, <1>5, <1>6 DEF drove, e

(* The route walked back to an edge is a way to it, and costs no more than  *)
(* the search has it down for.                                              *)
LEMMA BackCosts ==
  ASSUME SearchInv, TreeInv, NEW e \in Reached, NEW r, r = Back(e)
  PROVE  /\ IsWay(ask, r) /\ r[Len(r)] = e
         /\ Driven(ask, r)[Len(r)] <= dist[e]
<1> DEFINE L == Len(r)
           D == Driven(ask, r)
           a(n) == ask.arc[<<r[n - 1], r[n]>>]
<1>1. /\ r \in Seq(Reached) /\ L \in 1..Cardinality(Reached)
      /\ r[L] = e /\ pred[r[1]] = 0
      /\ \A i \in 1..(L - 1) : pred[r[i + 1]] = r[i] /\ pred[r[i + 1]] # 0
      /\ \A i, j \in 1..L : r[i] = r[j] => i = j
  BY SMTT(30), BackIs
<1>2. IsProblem(ask)
  BY DEF SearchInv, SearchTypes
<1>4. Reached \subseteq DOMAIN ask.h /\ Reached = DOMAIN dist /\ \A d \in Reached : dist[d] \in Nat
  BY DEF Reached, TreeInv, SearchInv, SearchTypes
<1>6. L \in Nat \ {0} /\ \A n \in 1..L : r[n] \in Reached
  BY <1>1
<1>7. r[1] \in DOMAIN ask.seeds /\ ask.seeds[r[1]] \in Nat /\ ask.seeds[r[1]] <= dist[r[1]]
  <2>1. r[1] \in Reached
    BY <1>6
  <2> QED BY <2>1, <1>1, <1>2, <1>4 DEF TreeInv, IsProblem
<1>8. ASSUME NEW n \in 2..L
      PROVE  /\ <<r[n - 1], r[n]>> \in ask.turns
             /\ r[n - 1] \in Reached /\ r[n] \in Reached
             /\ dist[r[n - 1]] + a(n) <= dist[r[n]]
  <2>1. n - 1 \in 1..(L - 1) /\ (n - 1) + 1 = n /\ n \in 1..L /\ n - 1 \in 1..L
    BY <1>6
  <2>2. pred[r[n]] = r[n - 1] /\ pred[r[n]] # 0
    BY <1>1, <2>1
  <2>3. r[n - 1] \in Reached /\ r[n] \in Reached
    BY <1>6, <2>1
  <2>4. PICK stamp : FromPred(stamp)
    BY DEF TreeInv
  <2>5. <<r[n - 1], r[n]>> \in ask.turns /\ dist[r[n - 1]] + a(n) <= dist[r[n]]
    BY <1>4, <2>2, <2>3, <2>4 DEF FromPred
  <2> QED BY <2>3, <2>5
<1>9. IsWay(ask, r)
  <2>1. ASSUME NEW i \in 1..(L - 1) PROVE <<r[i], r[i + 1]>> \in ask.turns
    <3>1. i + 1 \in 2..L /\ (i + 1) - 1 = i
      BY <1>6
    <3> QED BY <3>1, <1>8
  <2>2. r \in Seq(DOMAIN ask.h)
    BY <1>1, <1>4
  <2> QED BY <2>1, <2>2, <1>1, <1>6, <1>7 DEF IsWay
<1>10. /\ D[1] = ask.seeds[r[1]]
       /\ \A n \in 2..L : a(n) \in Nat /\ D[n] = D[n - 1] + a(n)
       /\ \A n \in 1..L : D[n] \in Nat
  BY <1>2, <1>9, WayCosts
<1> DEFINE P == {n \in 1..L : D[n] <= dist[r[n]]}
<1> HIDE DEF L, D, a
<1>11. 1 \in P
  BY <1>6, <1>7, <1>10
<1>12. ASSUME NEW n \in 2..L, n - 1 \in P PROVE n \in P
  <2>1. n \in 1..L /\ n - 1 \in 1..L
    BY <1>6
  <2>2. dist[r[n - 1]] \in Nat /\ dist[r[n]] \in Nat /\ D[n - 1] \in Nat /\ a(n) \in Nat
    BY <2>1, <1>4, <1>8, <1>10
  <2>3. D[n] = D[n - 1] + a(n) /\ D[n - 1] <= dist[r[n - 1]] /\ dist[r[n - 1]] + a(n) <= dist[r[n]]
    BY <1>8, <1>10, <1>12
  <2> QED BY <2>1, <2>2, <2>3
<1>13. L \in P
  <2> HIDE DEF P
  <2>1. 1 \in Nat /\ 1 + 1 = 2 /\ L \in Nat /\ L \in 1..L
    BY <1>6
  <2>2. 1..L \subseteq P
    BY <2>1, <1>11, <1>12, InductionFromTo
  <2> QED BY <2>1, <2>2
<1> QED BY <1>1, <1>9, <1>13 DEF D, L

-----------------------------------------------------------------------------
(* What Cheapest finds the search has found as well, or an entry no later   *)
(* than its bound still waits in the heap.                                  *)
Covered(x) ==
  \/ x[1] \in DOMAIN dist /\ dist[x[1]] <= x[2]
  \/ \E y \in heap : y[1] <= x[2] + ask.h[x[1]]

LEMMA CheapestIsCovered ==
  ASSUME SearchInv, TreeInv
  PROVE  \A x \in Cheapest(ask) : x[1] \in DOMAIN ask.h /\ x[2] \in Nat /\ Covered(x)
<1> DEFINE N == Cardinality(DOMAIN ask.h)
           U == ByTurns(ask)
           P == {n \in 0..N : \A x \in U[n] : Covered(x)}
<1>1. IsProblem(ask)
  BY DEF SearchInv, SearchTypes
<1>2. /\ N \in Nat /\ U[0] = Start(ask)
      /\ \A n \in 0..N : U[n] \in PairSets(ask)
      /\ \A n \in 1..N : U[n] = Longer(ask, U[n - 1])
  BY <1>1, ByTurnsIs
<1>3. /\ \A e \in DOMAIN dist : dist[e] \in Nat
      /\ \A y \in heap : y[1] \in Nat
      /\ \A e \in DOMAIN ask.h : ask.h[e] \in Nat
  BY <1>1, EntryIs DEF SearchInv, SearchTypes, IsProblem
<1> HIDE DEF N, U
<1>4. 0 \in P
  <2>1. ASSUME NEW x \in U[0] PROVE Covered(x)
    <3>1. PICK e \in DOMAIN ask.seeds : x = <<e, ask.seeds[e]>>
      BY <1>2 DEF Start
    <3> QED BY <3>1 DEF TreeInv, Covered
  <2> QED BY <2>1, <1>2
<1>5. ASSUME NEW n \in 1..N, n - 1 \in P PROVE n \in P
  <2>1. n - 1 \in 0..N /\ n \in 0..N
    BY <1>2
  <2>2. U[n - 1] \in PairSets(ask) /\ U[n] = Longer(ask, U[n - 1])
    BY <2>1, <1>2
  <2>3. ASSUME NEW x \in Via(ask, U[n - 1]) PROVE Covered(x)
    <3>1. PICK t \in ask.turns :
            x \in {<<t[2], z[2] + ask.arc[t]>> : z \in {z \in U[n - 1] : z[1] = t[1]}}
      BY DEF Via
    <3>2. PICK z \in U[n - 1] : z[1] = t[1] /\ x = <<t[2], z[2] + ask.arc[t]>>
      BY <3>1
    <3>3. /\ t[1] \in DOMAIN ask.h /\ t[2] \in DOMAIN ask.h /\ ask.arc[t] \in Nat
          /\ ask.h[t[1]] <= ask.arc[t] + ask.h[t[2]]
      BY <1>1 DEF IsProblem
    <3>4. x[1] = t[2] /\ x[2] = z[2] + ask.arc[t] /\ z[2] \in Nat /\ Covered(z)
      BY <2>2, <3>2, <1>5 DEF PairSets
    <3>5. ask.h[t[1]] \in Nat /\ ask.h[t[2]] \in Nat
      BY <3>3, <1>3
    <3>6. ASSUME NEW y \in heap, y[1] <= z[2] + ask.h[t[1]] PROVE Covered(x)
      <4>1. y[1] \in Nat
        BY <1>3
      <4>2. y[1] <= x[2] + ask.h[x[1]]
        BY <3>3, <3>4, <3>5, <3>6, <4>1
      <4> QED BY <4>2 DEF Covered
    <3>7. ASSUME t[1] \in DOMAIN dist, dist[t[1]] <= z[2] PROVE Covered(x)
      <4>1. dist[t[1]] \in Nat
        BY <3>7, <1>3
      <4>2. CASE Entry(ask, t[1], dist[t[1]]) \in heap
        <5>1. PICK y \in heap : y = Entry(ask, t[1], dist[t[1]])
          BY <4>2
        <5>2. y[1] = dist[t[1]] + ask.h[t[1]]
          BY <5>1, EntryIs
        <5>3. y[1] <= z[2] + ask.h[t[1]]
          BY <5>2, <4>1, <3>4, <3>5, <3>7
        <5> QED BY <5>3, <3>6
      <4>3. CASE t[2] \in DOMAIN dist /\ dist[t[2]] <= dist[t[1]] + ask.arc[t]
        <5>1. dist[t[2]] \in Nat
          BY <4>3, <1>3
        <5>2. dist[x[1]] <= x[2] /\ x[1] \in DOMAIN dist
          BY <5>1, <4>1, <4>3, <3>3, <3>4, <3>7
        <5> QED BY <5>2 DEF Covered
      <4> QED BY <3>7, <4>2, <4>3 DEF SearchInv, ReachedAreFollowed
    <3> QED BY <3>2, <3>4, <3>6, <3>7 DEF Covered
  <2>4. \A x \in U[n] : x \in U[n - 1] \/ x \in Via(ask, U[n - 1])
    BY <2>2, <1>1, LongerIs
  <2> QED BY <2>1, <2>3, <2>4, <1>5
<1>6. N \in P
  <2> HIDE DEF P
  <2>1. 0 \in Nat /\ 0 + 1 = 1 /\ N \in 0..N
    BY <1>2
  <2>2. 0..N \subseteq P
    BY <2>1, <1>2, <1>4, <1>5, InductionFromTo
  <2> QED BY <2>1, <2>2
<1>7. Cheapest(ask) = U[N] /\ U[N] \in PairSets(ask)
  <2>1. N \in 0..N
    BY <1>2
  <2> QED BY <2>1, <1>2, CheapestIs DEF U, N
<1> QED BY <1>6, <1>7 DEF PairSets

(* The slack is no less than what any destination's bound and refund make.  *)
LEMMA SlackIs ==
  ASSUME NEW p, IsProblem(p)
  PROVE  Slack(p) \in Int /\ \A d \in DOMAIN p.dests : p.h[d] - p.dests[d] <= Slack(p)
<1> DEFINE F == {p.h[d] - p.dests[d] : d \in DOMAIN p.dests}
           S == F \cup {0}
<1>1. IsFiniteSet(F)
  <2>1. IsFiniteSet(DOMAIN p.dests)
    BY FS_Subset DEF IsProblem
  <2> DEFINE g == [d \in DOMAIN p.dests |-> p.h[d] - p.dests[d]]
  <2>2. g \in Surjection(DOMAIN p.dests, F)
    BY DEF Surjection
  <2> HIDE DEF g, F
  <2> QED BY <2>1, <2>2, FS_Surjection
<1>2. IsFiniteSet(S)
  <2> HIDE DEF F
  <2> QED BY <1>1, FS_AddElement
<1>3. S \subseteq Int /\ S # {}
  BY DEF IsProblem
<1>4. \A d \in DOMAIN p.dests : p.h[d] - p.dests[d] \in S
  OBVIOUS
<1>5. Slack(p) = Max(S)
  BY DEF Slack
<1> HIDE DEF S
<1> QED BY <1>2, <1>3, <1>4, <1>5, MaxIs

(* A search that has ended has found what costs no more than any cost that  *)
(* is promised.                                                             *)
LEMMA FoundIsCheapest ==
  ASSUME ExactInv, found, NEW c \in CheapestTo(ask)
  PROVE  c \in Int /\ \E b \in best : b.final <= c
<1>1. IsProblem(ask) /\ SearchInv /\ TreeInv /\ BestInv /\ SearchTypes
  BY DEF ExactInv, SearchInv, SearchTypes
<1>2. PICK x \in Cheapest(ask) : x[1] \in DOMAIN ask.dests /\ c = x[2] + ask.dests[x[1]]
  BY DEF CheapestTo
<1> DEFINE d == x[1]
<1>3. x[2] \in Nat /\ ask.h[d] \in Nat /\ ask.dests[d] \in Int /\ Covered(x)
  BY <1>1, <1>2, CheapestIsCovered DEF IsProblem
<1>4. Slack(ask) \in Int /\ ask.h[d] - ask.dests[d] <= Slack(ask)
  BY <1>1, <1>2, SlackIs
<1>5. c \in Int
  BY <1>2, <1>3
<1> HIDE DEF d
<1>6. ASSUME NEW y \in heap, y[1] <= x[2] + ask.h[d] PROVE \E b \in best : b.final <= c
  <2>1. heap # {} /\ First(heap)[1] \in Nat /\ First(heap)[1] <= y[1] /\ y[1] \in Nat
    <3>1. y[1] \in Nat
      BY <1>1, EntryIs DEF SearchTypes, IsProblem
    <3> QED BY <1>1, <3>1, TopIsReached
  <2>2. PICK b \in best : First(heap)[1] > b.final + Slack(ask)
    BY <2>1 DEF ExactInv, EndInv, Beaten
  <2>3. b.final \in Int
    BY <1>1 DEF BestInv
  <2> QED BY <1>2, <1>3, <1>4, <1>6, <2>1, <2>2, <2>3 DEF d
<1>7. ASSUME d \in DOMAIN dist, dist[d] <= x[2] PROVE \E b \in best : b.final <= c
  <2>1. dist[d] \in Nat
    BY <1>1, <1>7 DEF SearchTypes
  <2>2. CASE Entry(ask, d, dist[d]) \in heap
    <3>1. PICK y \in heap : y = Entry(ask, d, dist[d])
      BY <2>2
    <3>2. y[1] <= x[2] + ask.h[d]
      BY <3>1, <2>1, <1>3, <1>7, EntryIs
    <3> QED BY <3>2, <1>6
  <2>3. ASSUME NEW b \in best, b.final <= dist[d] + ask.dests[d]
        PROVE  b.final <= c
    <3>1. b.final \in Int
      BY <1>1 DEF BestInv
    <3> QED BY <3>1, <2>1, <2>3, <1>2, <1>3, <1>7 DEF d
  <2> QED BY <1>1, <1>2, <1>7, <2>2, <2>3 DEF BestInv, d
<1> QED BY <1>3, <1>5, <1>6, <1>7 DEF Covered, d

(* The route of a search that has ended. *)
LEMMA ResultIsCheapest ==
  ASSUME ExactInv, found, NEW b \in best
  PROVE  LET r == Back(b.edge)
         IN /\ IsRoute(ask, r)
            /\ CostOf(ask, r) \in CheapestTo(ask)
            /\ \A c \in CheapestTo(ask) : c \in Int /\ CostOf(ask, r) <= c
<1> DEFINE e == b.edge
           r == Back(e)
           drove == Driven(ask, r)[Len(r)]
           cost == CostOf(ask, r)
<1>1. IsProblem(ask) /\ SearchInv /\ TreeInv /\ BestInv /\ SearchTypes
  BY DEF ExactInv, SearchInv, SearchTypes
<1>2. /\ e \in Reached /\ e \in DOMAIN ask.dests /\ dist[e] \in Nat
      /\ b.final \in Int /\ dist[e] + ask.dests[e] <= b.final
      /\ ask.dests[e] \in Int
  BY <1>1 DEF BestInv, TreeInv, Reached, SearchTypes, IsProblem
<1> HIDE DEF e
<1>3. /\ r \in Seq(Reached) /\ Len(r) \in 1..Cardinality(Reached)
      /\ r[Len(r)] = e /\ pred[r[1]] = 0
      /\ \A i \in 1..(Len(r) - 1) : pred[r[i + 1]] = r[i] /\ pred[r[i + 1]] # 0
  BY <1>1, <1>2, BackIs
<1>4. cost = drove + ask.dests[e]
  BY <1>3 DEF CostOf, Driven
<1>a. IsWay(ask, r) /\ drove <= dist[e]
  BY <1>1, <1>2, BackCosts
<1> HIDE DEF r
<1>5. drove \in Nat /\ \E m \in Cheapest(ask) : m[1] = e /\ m[2] <= drove
  <2>1. Len(r) \in 1..Len(r)
    BY <1>3
  <2> QED BY <2>1, <1>1, <1>3, <1>a, WayCosts
<1> HIDE DEF drove, cost
<1>6. PICK m \in Cheapest(ask) : m[1] = e /\ m[2] <= drove
  BY <1>5
<1>7. m[2] \in Nat
  BY <1>1, <1>6, CheapestIsCovered
<1>8. m[2] + ask.dests[e] \in CheapestTo(ask)
  BY <1>2, <1>6 DEF CheapestTo
<1>9. cost \in Int /\ cost <= b.final
  BY <1>2, <1>4, <1>5, <1>a
<1>10. \A c \in CheapestTo(ask) : c \in Int /\ cost <= c
  <2> TAKE c \in CheapestTo(ask)
  <2>1. PICK a \in best : c \in Int /\ a.final <= c
    BY FoundIsCheapest
  <2>2. a = b
    BY <1>1 DEF BestInv
  <2> QED BY <2>1, <2>2, <1>2, <1>9
<1>11. cost = m[2] + ask.dests[e]
  BY <1>2, <1>4, <1>5, <1>6, <1>7, <1>8, <1>9, <1>10
<1> QED BY <1>2, <1>3, <1>a, <1>8, <1>10, <1>11 DEF cost, r, e, IsRoute

(* A search that has ended without a result has no route, and one with a    *)
(* result has none that costs less.                                         *)
LEMMA ResultsAreBest ==
  ASSUME ExactInv, found
  PROVE  /\ Result = {} => \A s : ~IsRoute(ask, s)
         /\ \A r \in Result : /\ IsRoute(ask, r) /\ CostOf(ask, r) \in Int
                             /\ \A s : IsRoute(ask, s) => CostOf(ask, r) <= CostOf(ask, s)
<1>1. IsProblem(ask)
  BY DEF ExactInv, SearchInv, SearchTypes
<1>2. Result = {} => best = {}
  BY DEF Result
<1>3. ASSUME NEW s, IsRoute(ask, s)
      PROVE  CostOf(ask, s) \in Int /\ \E c \in CheapestTo(ask) : c <= CostOf(ask, s)
    BY <1>1, <1>3, RouteCosts
<1>4. ASSUME Result = {}, NEW s, IsRoute(ask, s) PROVE FALSE
  BY <1>2, <1>3, <1>4, FoundIsCheapest
<1>5. ASSUME NEW r \in Result
      PROVE  /\ IsRoute(ask, r) /\ CostOf(ask, r) \in Int
             /\ \A s : IsRoute(ask, s) => CostOf(ask, r) <= CostOf(ask, s)
  <2>1. PICK b \in best : r = Back(b.edge)
    BY DEF Result
  <2>2. /\ IsRoute(ask, r) /\ CostOf(ask, r) \in CheapestTo(ask)
        /\ \A c \in CheapestTo(ask) : c \in Int /\ CostOf(ask, r) <= c
    BY <2>1, ResultIsCheapest
  <2>3. ASSUME NEW s, IsRoute(ask, s) PROVE CostOf(ask, r) <= CostOf(ask, s)
    <3>1. PICK c \in CheapestTo(ask) : c <= CostOf(ask, s)
      BY <1>3, <2>3
    <3> QED BY <1>3, <2>2, <2>3, <3>1
  <2> QED BY <2>2, <2>3
<1> QED BY <1>4, <1>5

(* What these give of the result is what is promised. *)
LEMMA ExactIs == ExactInv => SearchIsExact
<1> SUFFICES ASSUME ExactInv PROVE SearchIsExact
  OBVIOUS
<1>1. IsProblem(ask)
  BY DEF ExactInv, SearchInv, SearchTypes
<1>2. ASSUME found PROVE (Result = {}) = (CheapestTo(ask) = {})
  <2>1. (Result = {}) = (best = {})
    BY DEF Result
  <2>2. best = {} => CheapestTo(ask) = {}
    BY <1>2, FoundIsCheapest
  <2>3. best # {} => CheapestTo(ask) # {}
    BY <1>2, ResultIsCheapest
  <2> QED BY <2>1, <2>2, <2>3
<1>3. ASSUME found, NEW r \in Result
      PROVE  /\ \A i \in 1..(Len(r) - 1) : <<r[i], r[i + 1]>> \in ask.turns
             /\ CostOf(ask, r) = Min(CheapestTo(ask))
  <2>1. PICK b \in best : r = Back(b.edge)
    BY <1>3 DEF Result
  <2> DEFINE k == CostOf(ask, r)
             C == CheapestTo(ask)
  <2>2. /\ \A i \in 1..(Len(r) - 1) : <<r[i], r[i + 1]>> \in ask.turns
        /\ k \in C /\ \A c \in C : c \in Int /\ k <= c
    BY <1>3, <2>1, ResultIsCheapest DEF IsRoute, IsWay
  <2> HIDE DEF k, C
  <2>3. k = Min(C)
    <3>1. \E c \in C : \A x \in C : c <= x
      BY <2>2
    <3>2. Min(C) \in C /\ \A x \in C : Min(C) <= x
      BY <3>1 DEF Min
    <3> QED BY <2>2, <3>2
  <2> QED BY <2>2, <2>3 DEF k, C
<1> QED BY <1>1, <1>2, <1>3 DEF SearchIsExact

(* search.py:22-25, :97-135, the fixed slack bound is exact: on every finite *)
(* graph whose turns cost nothing negative and no less than the bound drops  *)
(* by, and with any refunds at the destinations, a search that has ended has *)
(* a result if and only if there is a route, and it is a route of least cost.*)
THEOREM SearchesAreExact == SearchSpec => []SearchIsExact
BY ExactIs, ExactHolds, PTL
=============================================================================
