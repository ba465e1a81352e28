---------------------------- MODULE TripRecorderProofs ----------------------------
(***************************************************************************)
(* What TripRecorder guarantees for every drive, every set of tokens,      *)
(* trips, routes and fixes, every trim distance and every bound.           *)
(*                                                                         *)
(* Inv is inductive: it ties what memory, the disk, the queued             *)
(* transactions and the operation under way hold of a trip to all that was *)
(* ever sealed for it.  Three invariants are built on it: TakenInv, about  *)
(* the fixes each trip took; Kept, that storage and memory agree while     *)
(* storage rejects nothing; and AgeInv, that ages follow the order of      *)
(* sealing while the clock is not set back.                                *)
(***************************************************************************)
EXTENDS TripRecorder, SequenceTheorems, FiniteSetTheorems, WellFoundedInduction, TLAPS

-----------------------------------------------------------------------------
(* Sequences built by recursion, and what a seal takes of the fixes. *)

(* A set of naturals that is not empty has a least member. *)
LEMMA LeastNat ==
  ASSUME NEW S, S \subseteq Nat, S # {}
  PROVE  \E n \in S : \A m \in S : n <= m
<1>1. PICK n \in S : \A m \in S : ~(<<m, n>> \in OpToRel(<, Nat))
  BY NatLessThanWellFounded, WFMin, Zenon
<1>2. ASSUME NEW m \in S PROVE n <= m
  <2>1. n \in Nat /\ m \in Nat /\ <<m, n>> \in Nat \X Nat
    OBVIOUS
  <2>2. ~(<<m, n>>[1] < <<m, n>>[2])
    BY <1>1, <2>1 DEF OpToRel
  <2> QED BY <2>1, <2>2
<1> QED BY <1>2

(* Induction up to N: a set that holds 0 and every successor of its members. *)
LEMMA InductionTo ==
  ASSUME NEW N \in Nat, NEW P,
         0 \in P, \A n \in 1..N : n - 1 \in P => n \in P
  PROVE  0..N \subseteq P
<1> SUFFICES ASSUME (0..N) \ P # {} PROVE FALSE
  OBVIOUS
<1> DEFINE Q == (0..N) \ P
<1>1. PICK n \in Q : \A m \in Q : n <= m
  <2>1. Q \subseteq Nat /\ Q # {}
    OBVIOUS
  <2> HIDE DEF Q
  <2> QED BY <2>1, LeastNat
<1> QED BY <1>1

(* A function defined by recursion up to N exists: S is where its values    *)
(* are, G[n] its n-th step.                                                 *)
IsRecursion(N, S, b, G) == N \in Nat /\ b \in S /\ G \in [1..N -> [S -> S]]
Recurses(f, N, S, b, G) ==
  /\ f \in [0..N -> S] /\ f[0] = b
  /\ \A n \in 1..N : f[n - 1] \in S /\ f[n] = G[n][f[n - 1]]

(* A function defined by recursion up to N exists. *)
LEMMA RecursionTo ==
  ASSUME NEW N, NEW S, NEW b, NEW G, IsRecursion(N, S, b, G)
  PROVE  \E f : Recurses(f, N, S, b, G)
<1> USE DEF IsRecursion
<1> DEFINE Upto(m) == \E f \in [0..m -> S] :
                        f[0] = b /\ \A n \in 1..m : f[n] = G[n][f[n - 1]]
           P == {m \in 0..N : Upto(m)}
<1>1. Upto(0)
  <2> DEFINE f == [n \in 0..0 |-> b]
  <2>1. f \in [0..0 -> S] /\ f[0] = b
    OBVIOUS
  <2>2. \A n \in 1..0 : f[n] = G[n][f[n - 1]]
    OBVIOUS
  <2> HIDE DEF f
  <2> QED BY <2>1, <2>2
<1>2. ASSUME NEW n \in 1..N, Upto(n - 1) PROVE Upto(n)
  <2>1. PICK f \in [0..(n - 1) -> S] :
          f[0] = b /\ \A m \in 1..(n - 1) : f[m] = G[m][f[m - 1]]
    BY <1>2
  <2> DEFINE g == [m \in 0..n |-> IF m = n THEN G[n][f[n - 1]] ELSE f[m]]
  <2>2. \A m \in 0..(n - 1) : f[m] \in S
    OBVIOUS
  <2>3. G[n] \in [S -> S] /\ f[n - 1] \in S
    BY <2>2
  <2>4. G[n][f[n - 1]] \in S
    BY <2>3
  <2>5. g \in [0..n -> S]
    BY <2>2, <2>4
  <2>6. g[0] = b /\ g[n] = G[n][f[n - 1]] /\ \A m \in 0..(n - 1) : g[m] = f[m]
    BY <2>1
  <2> HIDE DEF g
  <2>7. ASSUME NEW m \in 1..n PROVE g[m] = G[m][g[m - 1]]
    <3>1. CASE m = n
      BY <3>1, <2>6
    <3>2. CASE m # n
      <4>1. m \in 1..(n - 1) /\ m - 1 \in 0..(n - 1) /\ m \in 0..(n - 1)
        BY <3>2
      <4> QED BY <4>1, <2>1, <2>6
    <3> QED BY <3>1, <3>2
  <2> QED BY <2>5, <2>6, <2>7
<1>3. Upto(N)
  <2> HIDE DEF Upto
  <2>1. 0 \in P /\ \A n \in 1..N : n - 1 \in P => n \in P
    BY <1>1, <1>2
  <2> HIDE DEF P
  <2>2. 0..N \subseteq P
    BY <2>1, InductionTo
  <2>3. N \in P
    BY <2>2
  <2> QED BY <2>3 DEF P
<1>4. PICK f \in [0..N -> S] : f[0] = b /\ \A n \in 1..N : f[n] = G[n][f[n - 1]]
  BY <1>3
<1>5. \A n \in 0..N : f[n] \in S
  OBVIOUS
<1> QED BY <1>4, <1>5 DEF Recurses

Rising(fixes) ==
  \A m, n \in 1..Len(fixes) : m < n => fixes[m].t < fixes[n].t

(* What the seal's filter leaves of the fixes: those clear of the anchors,  *)
(* in their order.                                                          *)
LEMMA ClearFixesAre ==
  ASSUME NEW fixes \in Seq(Fixes), NEW anchors
  PROVE  LET ready == ClearFixes(fixes, anchors)
         IN /\ ready \in Seq(Fixes)
            /\ \A m \in 1..Len(ready) :
                 \E k \in 1..Len(fixes) : ready[m] = fixes[k] /\ ClearOf(fixes[k], anchors)
            /\ Rising(fixes) => Rising(ready)
<1> DEFINE N == Len(fixes)
           Step(n, s) == IF ClearOf(fixes[n], anchors) THEN Append(s, fixes[n]) ELSE s
           IsUpTo(f) == f = [n \in 0..N |-> IF n = 0 THEN <<>>
                               ELSE IF ClearOf(fixes[n], anchors)
                               THEN Append(f[n - 1], fixes[n]) ELSE f[n - 1]]
           upTo == CHOOSE f : IsUpTo(f)
           G == [n \in 1..N |-> [s \in Seq(Fixes) |-> Step(n, s)]]
<1>1. N \in Nat /\ \A n \in 1..N : fixes[n] \in Fixes
  OBVIOUS
<1>2. \A n \in 1..N : \A s \in Seq(Fixes) : Step(n, s) \in Seq(Fixes)
  BY <1>1
<1>3. <<>> \in Seq(Fixes) /\ G \in [1..N -> [Seq(Fixes) -> Seq(Fixes)]]
  BY <1>2
<1>4. PICK f : Recurses(f, N, Seq(Fixes), <<>>, G)
  <2>1. IsRecursion(N, Seq(Fixes), <<>>, G)
    BY <1>1, <1>3 DEF IsRecursion
  <2> HIDE DEF G, N
  <2> QED BY <2>1, RecursionTo
<1>5. /\ f \in [0..N -> Seq(Fixes)] /\ f[0] = <<>>
      /\ \A n \in 1..N : f[n - 1] \in Seq(Fixes) /\ f[n] = Step(n, f[n - 1])
  BY <1>4, <1>1 DEF Recurses
<1>6. IsUpTo(f)
  <2>1. \A n \in 0..N : f[n] = IF n = 0 THEN <<>>
                                ELSE IF ClearOf(fixes[n], anchors)
                                THEN Append(f[n - 1], fixes[n]) ELSE f[n - 1]
    <3>1. \A n \in 0..N : n # 0 => n \in 1..N
      BY <1>1
    <3> HIDE DEF G, N
    <3> QED BY <3>1, <1>5, Zenon
  <2>2. f = [n \in 0..N |-> f[n]]
    BY <1>5
  <2> HIDE DEF G
  <2> QED BY <2>1, <2>2, Zenon
<1>7. IsUpTo(upTo)
  <2> HIDE DEF IsUpTo
  <2> QED BY <1>6
<1>8. upTo[0] = <<>> /\ \A n \in 1..N : upTo[n] = Step(n, upTo[n - 1])
  <2> HIDE DEF upTo
  <2>1. \A n \in 0..N : upTo[n] = IF n = 0 THEN <<>>
                                   ELSE IF ClearOf(fixes[n], anchors)
                                   THEN Append(upTo[n - 1], fixes[n]) ELSE upTo[n - 1]
    BY <1>7, Zenon
  <2>2. \A n \in 1..N : n \in 0..N /\ n # 0
    BY <1>1
  <2>3. 0 \in 0..N
    BY <1>1
  <2> QED BY <2>1, <2>2, <2>3, Zenon
<1> DEFINE Good(n, s) ==
      /\ s \in Seq(Fixes)
      /\ \A m \in 1..Len(s) : \E k \in 1..n : s[m] = fixes[k] /\ ClearOf(fixes[k], anchors)
      /\ Rising(fixes) => Rising(s)
    P == {n \in 0..N : Good(n, upTo[n])}
<1> HIDE DEF upTo, G
<1>9. Good(0, upTo[0])
  BY <1>8 DEF Rising
<1>10. ASSUME NEW n \in 1..N, Good(n - 1, upTo[n - 1])
       PROVE  Good(n, upTo[n])
  <2> DEFINE s == upTo[n - 1]
  <2>1. s \in Seq(Fixes) /\ \A m \in 1..Len(s) : \E k \in 1..(n - 1) :
          s[m] = fixes[k] /\ ClearOf(fixes[k], anchors)
    BY <1>10
  <2>2. CASE ~ClearOf(fixes[n], anchors)
    <3>1. upTo[n] = s
      BY <2>2, <1>8
    <3>2. \A k \in 1..(n - 1) : k \in 1..n
      BY <1>1
    <3> QED BY <3>1, <3>2, <1>10
  <2>3. CASE ClearOf(fixes[n], anchors)
    <3>1. upTo[n] = Append(s, fixes[n])
      BY <2>3, <1>8
    <3> DEFINE r == Append(s, fixes[n])
    <3> HIDE DEF s
    <3>2. r \in Seq(Fixes) /\ Len(r) = Len(s) + 1 /\ r[Len(s) + 1] = fixes[n]
          /\ \A m \in 1..Len(s) : r[m] = s[m]
      BY <2>1, <1>1
    <3> HIDE DEF r
    <3>3. ASSUME NEW m \in 1..Len(r)
          PROVE  \E k \in 1..n : r[m] = fixes[k] /\ ClearOf(fixes[k], anchors)
      <4>1. CASE m \in 1..Len(s)
        BY <4>1, <3>2, <2>1, <1>1
      <4>2. CASE m = Len(s) + 1
        BY <4>2, <3>2, <2>3, <1>1
      <4> QED BY <4>1, <4>2, <3>2, <2>1
    <3>4. ASSUME Rising(fixes) PROVE Rising(r)
      <4>1. Rising(s)
        BY <3>4, <1>10 DEF s
      <4> SUFFICES ASSUME NEW m \in 1..Len(r), NEW l \in 1..Len(r), m < l
                   PROVE  r[m].t < r[l].t
        BY DEF Rising
      <4>2. m \in 1..Len(s) /\ r[m] = s[m]
        BY <3>2, <2>1
      <4>3. CASE l \in 1..Len(s)
        BY <4>1, <4>2, <4>3, <3>2 DEF Rising
      <4>4. CASE l = Len(s) + 1
        <5>1. PICK k \in 1..(n - 1) : s[m] = fixes[k]
          BY <4>2, <2>1
        <5>2. fixes[k].t < fixes[n].t
          BY <3>4, <1>1 DEF Rising
        <5>3. r[m].t = fixes[k].t
          BY <5>1, <4>2
        <5>4. r[l].t = fixes[n].t
          BY <4>4, <3>2
        <5> QED BY <5>2, <5>3, <5>4
      <4>5. l \in 1..Len(s) \/ l = Len(s) + 1
        <5>1. Len(s) \in Nat /\ Len(r) = Len(s) + 1
          BY <3>2, <2>1
        <5> HIDE DEF r, s
        <5> QED BY <5>1
      <4> QED BY <4>3, <4>4, <4>5
    <3> QED BY <3>1, <3>2, <3>3, <3>4 DEF r
  <2> QED BY <2>2, <2>3
<1>11. Good(N, upTo[N])
  <2> HIDE DEF Good
  <2>1. 0 \in P /\ \A n \in 1..N : n - 1 \in P => n \in P
    BY <1>9, <1>10, <1>1
  <2> HIDE DEF P
  <2>2. 0..N \subseteq P
    BY <2>1, <1>1, InductionTo
  <2>3. N \in P
    BY <2>2, <1>1
  <2> QED BY <2>3 DEF P
<1>12. ClearFixes(fixes, anchors) = upTo[N]
  BY DEF ClearFixes, upTo
<1> QED BY <1>11, <1>12

Held == [effective_at : Nat, line : Routes]
Artifact == [effective_at : Nat, line : Seq(Places)]
ChunkBody == [fixes : Seq(Fixes), artifacts : Seq(Artifact)]

(* sealablePrefix: a number of pending fixes, each of them Trim from the    *)
(* head.                                                                    *)
LEMMA PrefixIs ==
  ASSUME NEW pending \in Seq(Fixes), NEW head
  PROVE  LET n == SealablePrefix(pending, head)
         IN /\ n \in 0..Len(pending)
            /\ n > 0 => head # NULL
            /\ \A i \in 1..n : Separation(pending[i], head) >= Trim
<1> DEFINE N == Len(pending)
           Clear(n) == \A i \in 1..n : Separation(pending[i], head) >= Trim
           Is(n) == Clear(n) /\ (n = Len(pending) \/ ~Clear(n + 1))
<1>1. N \in Nat
  OBVIOUS
<1>2. \E n \in 0..N : Is(n)
  <2> SUFFICES ASSUME \A n \in 0..N : ~Is(n) PROVE FALSE
    OBVIOUS
  <2> DEFINE P == {n \in 0..N : Clear(n)}
  <2>1. 0 \in P
    BY <1>1
  <2>2. ASSUME NEW n \in 1..N, n - 1 \in P PROVE n \in P
    <3>1. n - 1 \in 0..N /\ n - 1 # N /\ (n - 1) + 1 = n /\ Clear(n - 1) /\ n \in 0..N
      BY <1>1, <2>2
    <3> HIDE DEF Clear
    <3>2. Clear(n)
      BY <3>1
    <3> QED BY <3>1, <3>2
  <2>3. 0..N \subseteq P
    <3> HIDE DEF P, N
    <3> QED BY <1>1, <2>1, <2>2, InductionTo
  <2>4. N \in 0..N /\ N \in P
    BY <1>1, <2>3
  <2> HIDE DEF Clear
  <2> QED BY <2>4
<1>3. CASE head = NULL
  BY <1>3, <1>1 DEF SealablePrefix
<1>4. CASE head # NULL
  <2>1. SealablePrefix(pending, head) = CHOOSE n \in 0..N : Is(n)
    BY <1>4 DEF SealablePrefix
  <2> DEFINE n == SealablePrefix(pending, head)
  <2>2. n \in 0..N /\ Is(n)
    <3> HIDE DEF Is, N
    <3> QED BY <2>1, <1>2
  <2> QED BY <2>2, <1>4
<1> QED BY <1>3, <1>4

(* Every place of the stretch ClipArtifact keeps is clear of the anchors.   *)
LEMMA ClippedIsClear ==
  ASSUME NEW line \in Seq(Places), NEW anchors, ClipArtifact(line, anchors) # NULL
  PROVE  LET kept == ClipArtifact(line, anchors)
         IN /\ kept \in Seq(Places)
            /\ \A k \in 1..Len(kept) : ClearOf(Point(kept[k]), anchors)
<1> DEFINE N == Len(line)
           centers == anchors \cup {Point(line[1]), Point(line[Len(line)])}
           Run(r) == r[1] < r[2] /\ \A k \in r[1]..r[2] : ClearOf(Point(line[k]), centers)
           runs == {r \in (1..Len(line)) \X (1..Len(line)) : Run(r)}
           Best(r) == \A s \in runs :
                        \/ r[2] - r[1] > s[2] - s[1]
                        \/ r[2] - r[1] = s[2] - s[1] /\ r[1] <= s[1]
           best == CHOOSE r \in runs : Best(r)
<1>1. N \in Nat /\ \A r \in runs : r[1] \in 1..N /\ r[2] \in 1..N /\ Run(r)
  <2> HIDE DEF Run
  <2> QED OBVIOUS
<1>2. runs # {} /\ ClipArtifact(line, anchors) = SubSeq(line, best[1], best[2])
  BY DEF ClipArtifact
<1>3. \E r \in runs : Best(r)
  <2> HIDE DEF runs
  <2> DEFINE Short == {N - (r[2] - r[1]) : r \in runs}
  <2>1. Short \subseteq Nat /\ Short # {}
    <3>1. ASSUME NEW r \in runs PROVE N - (r[2] - r[1]) \in Nat
      <4>1. r[1] \in 1..N /\ r[2] \in 1..N /\ r[1] < r[2]
        <5> HIDE DEF N, runs
        <5> QED BY <1>1
      <4> HIDE DEF N, runs
      <4> QED BY <4>1, <1>1
    <3> HIDE DEF N, runs
    <3> QED BY <3>1, <1>2
  <2>2. PICK n \in Short : \A m \in Short : n <= m
    <3> HIDE DEF Short
    <3> QED BY <2>1, LeastNat
  <2>3. PICK q \in runs : n = N - (q[2] - q[1])
    BY <2>2
  <2>4. \A s \in runs : q[2] - q[1] >= s[2] - s[1]
    <3> SUFFICES ASSUME NEW s \in runs PROVE q[2] - q[1] >= s[2] - s[1]
      OBVIOUS
    <3>1. N - (q[2] - q[1]) <= N - (s[2] - s[1])
      BY <2>2, <2>3
    <3> QED BY <3>1, <1>1
  <2> DEFINE Longest == {r \in runs : r[2] - r[1] = q[2] - q[1]}
             Starts == {r[1] : r \in Longest}
  <2>5. Starts \subseteq Nat /\ Starts # {}
    BY <1>1, <2>3
  <2>6. PICK f \in Starts : \A g \in Starts : f <= g
    <3> HIDE DEF Starts
    <3> QED BY <2>5, LeastNat
  <2>7. PICK r \in Longest : f = r[1]
    BY <2>6
  <2>8. r \in runs /\ r[2] - r[1] = q[2] - q[1]
    BY <2>7
  <2>9. ASSUME NEW s \in runs
        PROVE  \/ r[2] - r[1] > s[2] - s[1]
               \/ r[2] - r[1] = s[2] - s[1] /\ r[1] <= s[1]
    <3>1. CASE s[2] - s[1] = q[2] - q[1]
      <4>1. s[1] \in Starts
        BY <3>1
      <4> QED BY <4>1, <3>1, <2>6, <2>7, <2>8
    <3>2. CASE s[2] - s[1] # q[2] - q[1]
      <4>1. /\ s[1] \in Int /\ s[2] \in Int /\ r[1] \in Int /\ r[2] \in Int
            /\ q[1] \in Int /\ q[2] \in Int
        <5> HIDE DEF runs, N, Best, best, Longest, Starts
        <5>1. r \in runs /\ s \in runs /\ q \in runs
          BY <2>8
        <5>2. \A u \in runs : u[1] \in Int /\ u[2] \in Int
          BY <1>1
        <5> QED BY <5>1, <5>2
      <4>2. q[2] - q[1] >= s[2] - s[1]
        BY <2>4
      <4> HIDE DEF runs
      <4> QED BY <3>2, <4>1, <4>2, <2>8
    <3> QED BY <3>1, <3>2
  <2> QED BY <2>8, <2>9
<1>4. best \in runs
  <2> HIDE DEF Best, runs
  <2> QED BY <1>3
<1> DEFINE a == best[1]
           b == best[2]
<1>5. a \in 1..N /\ b \in 1..N /\ a < b /\ \A k \in a..b : ClearOf(Point(line[k]), centers)
  <2> HIDE DEF best, runs
  <2> QED BY <1>1, <1>4
<1> HIDE DEF best
<1>6. \A k \in a..b : line[k] \in Places
  BY <1>5
<1>7. /\ SubSeq(line, a, b) \in Seq(Places) /\ Len(SubSeq(line, a, b)) = b - a + 1
      /\ \A i \in 1..(b - a + 1) : SubSeq(line, a, b)[i] = line[a + i - 1]
  BY <1>5, <1>6, SubSeqProperties
<1>8. ASSUME NEW k \in 1..(b - a + 1)
      PROVE  ClearOf(Point(SubSeq(line, a, b)[k]), anchors)
  <2>1. a + k - 1 \in a..b
    BY <1>5
  <2>2. ClearOf(Point(line[a + k - 1]), centers)
    BY <2>1, <1>5
  <2>3. ClearOf(Point(line[a + k - 1]), anchors)
    BY <2>2 DEF ClearOf
  <2> QED BY <2>3, <1>7
<1> QED BY <1>2, <1>7, <1>8

(* What a body of a chunk may be: one artifact, or fixes.                   *)
ArtifactOnly(b, e, anchors) ==
  /\ b \in ChunkBody /\ b.fixes = <<>> /\ Len(b.artifacts) = 1
  /\ b.artifacts[1].effective_at = e
  /\ \A k \in 1..Len(b.artifacts[1].line) :
       ClearOf(Point(b.artifacts[1].line[k]), anchors)

(* A held artifact becomes one body without fixes, its line clipped, or     *)
(* none.                                                                    *)
LEMMA ArtifactBodiesAre ==
  ASSUME NEW fa \in Held, NEW anchors
  PROVE  LET bodies == ArtifactBodies(fa, anchors)
         IN \/ bodies = <<>>
            \/ \E b : bodies = <<b>> /\ ArtifactOnly(b, fa.effective_at, anchors)
<1> DEFINE kept == ClipArtifact(fa.line, anchors)
           a == [effective_at |-> fa.effective_at, line |-> kept]
           b == [fixes |-> <<>>, artifacts |-> <<a>>]
<1>1. CASE kept = NULL
  BY <1>1 DEF ArtifactBodies
<1>2. CASE kept # NULL
  <2>1. fa.line \in Seq(Places) /\ fa.effective_at \in Nat
    BY DeviceAssumption DEF Held
  <2>2. kept \in Seq(Places) /\ \A k \in 1..Len(kept) : ClearOf(Point(kept[k]), anchors)
    BY <1>2, <2>1, ClippedIsClear
  <2>3. ArtifactBodies(fa, anchors) = <<b>>
    BY <1>2 DEF ArtifactBodies, ArtifactBody
  <2> HIDE DEF kept
  <2>4. a \in Artifact /\ a.effective_at = fa.effective_at /\ a.line = kept
    BY <2>1, <2>2 DEF Artifact
  <2> HIDE DEF a
  <2>5. <<a>> \in Seq(Artifact) /\ Len(<<a>>) = 1 /\ <<a>>[1] = a /\ <<>> \in Seq(Fixes)
    BY <2>4
  <2>6. b \in ChunkBody /\ b.fixes = <<>> /\ b.artifacts = <<a>>
    BY <2>5 DEF ChunkBody
  <2> HIDE DEF b
  <2>7. ArtifactOnly(b, fa.effective_at, anchors)
    BY <2>2, <2>4, <2>5, <2>6 DEF ArtifactOnly
  <2> QED BY <2>3, <2>7
<1> QED BY <1>1, <1>2

-----------------------------------------------------------------------------
(* The bodies of a seal, in order, and their numbers. *)

HeldRising(held) ==
  \A m, n \in 1..Len(held) : m < n => held[m].effective_at < held[n].effective_at

(* The bodies of the first n held artifacts: at most one each, in order.    *)
HeldUpTo(s, n, held, anchors) ==
  /\ s \in Seq(ChunkBody) /\ Len(s) <= n
  /\ \A m \in 1..Len(s) : \E k \in 1..n : ArtifactOnly(s[m], held[k].effective_at, anchors)
  /\ HeldRising(held) =>
       \A m, l \in 1..Len(s) :
         m < l => s[m].artifacts[1].effective_at < s[l].artifacts[1].effective_at

(* One more held artifact keeps the bodies in order. *)
LEMMA HeldUpToNext ==
  ASSUME NEW held \in Seq(Held), NEW anchors, NEW n \in 1..Len(held), NEW s,
         HeldUpTo(s, n - 1, held, anchors)
  PROVE  HeldUpTo(s \o ArtifactBodies(held[n], anchors), n, held, anchors)
<1> DEFINE r == s \o ArtifactBodies(held[n], anchors)
<1>1. n \in Nat /\ held[n] \in Held /\ s \in Seq(ChunkBody) /\ Len(s) <= n - 1
  BY DEF HeldUpTo
<1>2. \A k \in 1..(n - 1) : k \in 1..n /\ k < n /\ k \in 1..Len(held)
  BY <1>1
<1>3. CASE ArtifactBodies(held[n], anchors) = <<>>
  <2>1. r = s
    BY <1>1, <1>3
  <2>2. HeldUpTo(s, n, held, anchors)
    BY <1>1, <1>2 DEF HeldUpTo
  <2> QED BY <2>1, <2>2
<1>4. ASSUME NEW b, ArtifactBodies(held[n], anchors) = <<b>>,
             ArtifactOnly(b, held[n].effective_at, anchors)
      PROVE  HeldUpTo(r, n, held, anchors)
  <2>1. b \in ChunkBody
    BY <1>4 DEF ArtifactOnly
  <2>2. /\ r \in Seq(ChunkBody) /\ Len(r) = Len(s) + 1 /\ r[Len(s) + 1] = b
        /\ \A m \in 1..Len(s) : r[m] = s[m]
    <3>1. <<b>> \in Seq(ChunkBody) /\ Len(<<b>>) = 1 /\ <<b>>[1] = b
      BY <2>1
    <3>2. s \o <<b>> \in Seq(ChunkBody) /\ Len(s \o <<b>>) = Len(s) + 1
          /\ \A m \in 1..(Len(s) + 1) : (s \o <<b>>)[m] = IF m <= Len(s) THEN s[m] ELSE <<b>>[m - Len(s)]
      BY <3>1, <1>1, ConcatProperties
    <3>3. Len(s) \in Nat
      BY <1>1
    <3> QED BY <3>1, <3>2, <3>3, <1>4
  <2> HIDE DEF r
  <2>3. Len(s) \in Nat
    BY <1>1
  <2>4. \A m \in 1..Len(r) : m \in 1..Len(s) \/ m = Len(s) + 1
    BY <2>2, <2>3
  <2>5. ASSUME NEW m \in 1..Len(r)
        PROVE  \E k \in 1..n : ArtifactOnly(r[m], held[k].effective_at, anchors)
    <3>1. CASE m \in 1..Len(s)
      BY <3>1, <2>2, <1>2 DEF HeldUpTo
    <3>2. CASE m = Len(s) + 1
      BY <3>2, <2>2, <1>1, <1>4
    <3> QED BY <3>1, <3>2, <2>4
  <2>6. ASSUME HeldRising(held), NEW m \in 1..Len(r), NEW l \in 1..Len(r), m < l
        PROVE  r[m].artifacts[1].effective_at < r[l].artifacts[1].effective_at
    <3>1. m \in 1..Len(s) /\ r[m] = s[m]
      BY <2>2, <2>3, <2>6
    <3>2. CASE l \in 1..Len(s)
      BY <2>2, <3>1, <3>2, <2>6 DEF HeldUpTo
    <3>3. CASE l = Len(s) + 1
      <4>1. PICK k \in 1..(n - 1) : ArtifactOnly(s[m], held[k].effective_at, anchors)
        BY <3>1 DEF HeldUpTo
      <4>2. held[k].effective_at < held[n].effective_at
        BY <1>2, <2>6 DEF HeldRising
      <4>3. r[m].artifacts[1].effective_at = held[k].effective_at
        BY <4>1, <3>1 DEF ArtifactOnly
      <4>4. r[l].artifacts[1].effective_at = held[n].effective_at
        BY <3>3, <2>2, <1>4 DEF ArtifactOnly
      <4> QED BY <4>2, <4>3, <4>4
    <3> QED BY <3>2, <3>3, <2>4
  <2>7. Len(r) <= n
    BY <1>1, <2>2, <2>3
  <2> QED BY <2>2, <2>5, <2>6, <2>7 DEF HeldUpTo
<1> QED BY <1>1, <1>3, <1>4, ArtifactBodiesAre

(* The bodies of all held artifacts are clipped, at most one each, and in   *)
(* order.                                                                   *)
LEMMA HeldBodiesAre ==
  ASSUME NEW t, t.heldArtifacts \in Seq(Held)
  PROVE  HeldUpTo(HeldBodies(t), Len(t.heldArtifacts), t.heldArtifacts, t.anchors)
<1> DEFINE held == t.heldArtifacts
           N == Len(t.heldArtifacts)
           Step(n, s) == s \o ArtifactBodies(t.heldArtifacts[n], t.anchors)
           IsUpTo(f) == f = [n \in 0..N |-> IF n = 0 THEN <<>>
                               ELSE f[n - 1] \o ArtifactBodies(t.heldArtifacts[n], t.anchors)]
           upTo == CHOOSE f : IsUpTo(f)
           G == [n \in 1..N |-> [s \in Seq(ChunkBody) |-> Step(n, s)]]
<1>1. N \in Nat /\ \A n \in 1..N : held[n] \in Held
  OBVIOUS
<1>2. \A n \in 1..N : \A s \in Seq(ChunkBody) : Step(n, s) \in Seq(ChunkBody)
  <2> SUFFICES ASSUME NEW n \in 1..N, NEW s \in Seq(ChunkBody)
               PROVE  Step(n, s) \in Seq(ChunkBody)
    OBVIOUS
  <2>1. ArtifactBodies(held[n], t.anchors) \in Seq(ChunkBody)
    <3>1. ASSUME NEW b, ArtifactBodies(held[n], t.anchors) = <<b>>, b \in ChunkBody
          PROVE  ArtifactBodies(held[n], t.anchors) \in Seq(ChunkBody)
      BY <3>1
    <3>2. held[n] \in Held
      BY <1>1
    <3>3. \/ ArtifactBodies(held[n], t.anchors) = <<>>
          \/ \E b : /\ ArtifactBodies(held[n], t.anchors) = <<b>>
                    /\ ArtifactOnly(b, held[n].effective_at, t.anchors)
      BY <3>2, ArtifactBodiesAre
    <3>4. <<>> \in Seq(ChunkBody)
      OBVIOUS
    <3>5. \A b : ArtifactOnly(b, held[n].effective_at, t.anchors) => b \in ChunkBody
      BY DEF ArtifactOnly
    <3> QED BY <3>1, <3>3, <3>4, <3>5, Zenon
  <2> QED BY <2>1
<1>3. <<>> \in Seq(ChunkBody) /\ G \in [1..N -> [Seq(ChunkBody) -> Seq(ChunkBody)]]
  <2> HIDE DEF Step
  <2> QED BY <1>2
<1>4. PICK f : Recurses(f, N, Seq(ChunkBody), <<>>, G)
  <2>1. IsRecursion(N, Seq(ChunkBody), <<>>, G)
    BY <1>1, <1>3 DEF IsRecursion
  <2> HIDE DEF G, N
  <2> QED BY <2>1, RecursionTo
<1>5. /\ f \in [0..N -> Seq(ChunkBody)] /\ f[0] = <<>>
      /\ \A n \in 1..N : f[n - 1] \in Seq(ChunkBody) /\ f[n] = Step(n, f[n - 1])
  <2> HIDE DEF Step, N
  <2> QED BY <1>4, <1>1 DEF Recurses
<1>6. IsUpTo(f)
  <2>1. \A n \in 0..N : n # 0 => n \in 1..N
    BY <1>1
  <2>2. \A n \in 0..N : f[n] = IF n = 0 THEN <<>>
                                ELSE f[n - 1] \o ArtifactBodies(t.heldArtifacts[n], t.anchors)
    <3> HIDE DEF G, N
    <3> QED BY <2>1, <1>5, Zenon
  <2>3. f = [n \in 0..N |-> f[n]]
    BY <1>5
  <2> HIDE DEF G
  <2> QED BY <2>2, <2>3, Zenon
<1>7. IsUpTo(upTo)
  <2> HIDE DEF IsUpTo
  <2> QED BY <1>6
<1>8. upTo[0] = <<>> /\ \A n \in 1..N : upTo[n] = Step(n, upTo[n - 1])
  <2> HIDE DEF upTo
  <2>1. \A n \in 0..N : upTo[n] = IF n = 0 THEN <<>>
                                  ELSE upTo[n - 1] \o ArtifactBodies(t.heldArtifacts[n], t.anchors)
    BY <1>7, Zenon
  <2>2. (\A n \in 1..N : n \in 0..N /\ n # 0) /\ 0 \in 0..N
    BY <1>1
  <2> QED BY <2>1, <2>2, Zenon
<1> DEFINE P == {n \in 0..N : HeldUpTo(upTo[n], n, held, t.anchors)}
<1> HIDE DEF upTo, G
<1>9. HeldUpTo(upTo[0], 0, held, t.anchors)
  BY <1>8 DEF HeldUpTo
<1>10. 0 \in P /\ \A n \in 1..N : n - 1 \in P => n \in P
  <2>1. ASSUME NEW n \in 1..N, HeldUpTo(upTo[n - 1], n - 1, held, t.anchors)
        PROVE  HeldUpTo(upTo[n], n, held, t.anchors)
    BY <2>1, <1>8, HeldUpToNext
  <2> QED BY <2>1, <1>9, <1>1
<1>11. HeldUpTo(upTo[N], N, held, t.anchors)
  <2>1. 0..N \subseteq P
    <3> HIDE DEF P
    <3> QED BY <1>10, <1>1, InductionTo
  <2> QED BY <2>1, <1>1
<1>12. HeldBodies(t) = upTo[N]
  BY DEF HeldBodies, upTo
<1> QED BY <1>11, <1>12

(* The m-th of the chunks of Max fixes holds those from (m - 1) * Max on.   *)
LEMMA ChunkBounds ==
  ASSUME NEW L \in Nat, NEW M \in Nat \ {0}, NEW m \in 1..((L + M - 1) \div M)
  PROVE  /\ (m - 1) * M \in Nat /\ m * M = (m - 1) * M + M
         /\ (m - 1) * M < L
<1>1. m \in Nat /\ m >= 1
  OBVIOUS
<1> DEFINE q == (L + M - 1) \div M
<1>2. q \in Int /\ q * M <= L + M - 1 /\ m <= q
  OBVIOUS
<1> HIDE DEF q
<1>3. m * M <= q * M
  <2>1. (q - m) \in Nat
    BY <1>1, <1>2
  <2>2. (q - m) * M >= 0
    BY <2>1
  <2>3. q * M = (q - m) * M + m * M
    BY <1>1, <1>2
  <2> QED BY <2>2, <2>3, <1>1, <1>2
<1>4. m * M = (m - 1) * M + M
  BY <1>1
<1>5. (m - 1) * M \in Nat
  <2>1. m - 1 \in Nat
    BY <1>1
  <2> QED BY <2>1
<1> QED BY <1>1, <1>2, <1>3, <1>4, <1>5

(* A later chunk starts where an earlier one has ended. *)
LEMMA ChunkOrder ==
  ASSUME NEW M \in Nat \ {0}, NEW m \in Nat, NEW l \in Nat, m < l
  PROVE  m * M <= (l - 1) * M
<1>1. l - 1 - m \in Nat
  OBVIOUS
<1>2. (l - 1 - m) * M >= 0
  BY <1>1
<1>3. (l - 1) * M = (l - 1 - m) * M + m * M
  OBVIOUS
<1>4. m * M \in Int /\ (l - 1) * M \in Int
  OBVIOUS
<1> QED BY <1>2, <1>3, <1>4

FixesOnly(b, from) ==
  /\ b \in ChunkBody /\ b.artifacts = <<>>
  /\ Len(b.fixes) \in 1..MaxFixesPerChunk
  /\ \A x \in 1..Len(b.fixes) : \E k \in 1..Len(from) : b.fixes[x] = from[k]
  /\ Rising(from) => Rising(b.fixes)

AllBefore(s1, s2) ==
  \A x \in 1..Len(s1), y \in 1..Len(s2) : s1[x].t < s2[y].t

(* Chunks of at most MaxFixesPerChunk fixes, each before the next. *)
LEMMA ChunksAre ==
  ASSUME NEW fixes \in Seq(Fixes)
  PROVE  LET s == ChunksOf(fixes)
         IN /\ s \in Seq(ChunkBody) /\ (fixes # <<>> => Len(s) >= 1)
            /\ \A m \in 1..Len(s) : FixesOnly(s[m], fixes)
            /\ Rising(fixes) =>
                 \A m, l \in 1..Len(s) : m < l => AllBefore(s[m].fixes, s[l].fixes)
<1> DEFINE M == MaxFixesPerChunk
           L == Len(fixes)
           K == (L + M - 1) \div M
           To(m) == IF m * M < Len(fixes) THEN m * M ELSE Len(fixes)
           Cut(m) == SubSeq(fixes, (m - 1) * M + 1, To(m))
           s == [m \in 1..K |-> FixesBody(Cut(m))]
<1>1. M \in Nat \ {0} /\ L \in Nat
  BY SealingAssumption
<1>2. K \in Nat /\ (fixes # <<>> => K >= 1)
  <2>1. fixes # <<>> => L >= 1
    OBVIOUS
  <2> QED BY <1>1, <2>1
<1>3. ChunksOf(fixes) = s
  BY DEF ChunksOf
<1> HIDE DEF K
<1>4. ASSUME NEW m \in 1..K
      PROVE  /\ (m - 1) * M \in Nat /\ (m - 1) * M < L
             /\ To(m) \in (m - 1) * M + 1 .. L /\ To(m) <= (m - 1) * M + M
             /\ To(m) <= m * M
  <2>1. /\ (m - 1) * M \in Nat /\ m * M = (m - 1) * M + M /\ (m - 1) * M < L
    BY <1>1, ChunkBounds DEF K
  <2> DEFINE a == (m - 1) * M
             b == m * M
  <2>2. a \in Nat /\ b = a + M /\ a < L
    BY <2>1
  <2>3. To(m) = IF b < L THEN b ELSE L
    OBVIOUS
  <2> HIDE DEF a, b, To, M, L
  <2>4. /\ a \in Nat /\ a < L /\ To(m) \in a + 1 .. L /\ To(m) <= a + M /\ To(m) <= b
    BY <2>2, <2>3, <1>1
  <2> QED BY <2>4 DEF a, b
<1>5. ASSUME NEW m \in 1..K
      PROVE  /\ Cut(m) \in Seq(Fixes) /\ Len(Cut(m)) \in 1..M
             /\ Len(Cut(m)) = To(m) - (m - 1) * M
             /\ \A x \in 1..Len(Cut(m)) :
                  /\ (m - 1) * M + x \in 1..L /\ (m - 1) * M + x <= m * M
                  /\ Cut(m)[x] = fixes[(m - 1) * M + x]
  <2> DEFINE a == (m - 1) * M
             c == To(m)
  <2>1. a \in Nat /\ c \in a + 1 .. L /\ c <= a + M /\ c <= m * M
    BY <1>4
  <2> HIDE DEF a, c, M
  <2>2. \A i \in a + 1 .. c : fixes[i] \in Fixes
    BY <2>1
  <2>3. /\ SubSeq(fixes, a + 1, c) \in Seq(Fixes) /\ Len(SubSeq(fixes, a + 1, c)) = c - a
        /\ \A i \in 1..(c - a) : SubSeq(fixes, a + 1, c)[i] = fixes[a + i]
    <3>1. a + 1 \in Int /\ c \in Int /\ c - (a + 1) + 1 = c - a /\ a + 1 <= c
      BY <2>1
    <3>2. \A i \in Int : (a + 1) + i - 1 = a + i
      BY <2>1
    <3>3. /\ SubSeq(fixes, a + 1, c) \in Seq(Fixes)
          /\ Len(SubSeq(fixes, a + 1, c)) = IF a + 1 <= c THEN c - (a + 1) + 1 ELSE 0
          /\ \A i \in 1 .. c - (a + 1) + 1 : SubSeq(fixes, a + 1, c)[i] = fixes[(a + 1) + i - 1]
      BY <3>1, <2>2, SubSeqProperties
    <3>4. \A i \in 1..(c - a) : i \in Int
      BY <2>1
    <3> QED BY <3>1, <3>2, <3>3, <3>4
  <2>4. Cut(m) = SubSeq(fixes, a + 1, c)
    BY DEF a, c
  <2>5. \A i \in 1..(c - a) : a + i \in 1..L /\ a + i <= m * M
    <3>1. m * M \in Int
      BY <1>1
    <3> QED BY <3>1, <2>1
  <2>6. c - a \in 1..M
    BY <2>1, <1>1
  <2> HIDE DEF Cut
  <2> QED BY <2>3, <2>4, <2>5, <2>6 DEF a, c
<1> HIDE DEF Cut
<1>6. ASSUME NEW m \in 1..K PROVE FixesOnly(s[m], fixes)
  <2>1. s[m].fixes = Cut(m) /\ s[m].artifacts = <<>> /\ s[m] \in ChunkBody
    <3>1. s[m] = [fixes |-> Cut(m), artifacts |-> <<>>]
      BY DEF FixesBody
    <3>2. <<>> \in Seq(Artifact) /\ Cut(m) \in Seq(Fixes)
      BY <1>5
    <3> HIDE DEF s
    <3> QED BY <3>1, <3>2 DEF ChunkBody
  <2> HIDE DEF s
  <2>2. ASSUME Rising(fixes), NEW x \in 1..Len(Cut(m)), NEW y \in 1..Len(Cut(m)), x < y
        PROVE  Cut(m)[x].t < Cut(m)[y].t
    <3> DEFINE a == (m - 1) * M
    <3>1. a + x \in 1..L /\ a + y \in 1..L /\ a + x < a + y
      <4>1. a \in Nat
        BY <1>4
      <4>2. a + x \in 1..L /\ a + y \in 1..L
        BY <1>5
      <4> HIDE DEF a
      <4>3. x \in Int /\ y \in Int
        BY <1>5
      <4> QED BY <2>2, <4>1, <4>2, <4>3
    <3>2. Cut(m)[x] = fixes[a + x] /\ Cut(m)[y] = fixes[a + y]
      BY <1>5
    <3> HIDE DEF a
    <3> QED BY <3>1, <3>2, <2>2 DEF Rising
  <2>3. Rising(fixes) => Rising(Cut(m))
    BY <2>2 DEF Rising
  <2>4. \A x \in 1..Len(Cut(m)) : \E k \in 1..Len(fixes) : Cut(m)[x] = fixes[k]
    BY <1>5
  <2> QED BY <2>1, <2>3, <2>4, <1>5 DEF FixesOnly
<1>7. ASSUME Rising(fixes), NEW m \in 1..K, NEW l \in 1..K, m < l
      PROVE  AllBefore(s[m].fixes, s[l].fixes)
  <2>1. s[m].fixes = Cut(m) /\ s[l].fixes = Cut(l)
    BY DEF FixesBody
  <2> HIDE DEF s
  <2> SUFFICES ASSUME NEW x \in 1..Len(Cut(m)), NEW y \in 1..Len(Cut(l))
               PROVE  Cut(m)[x].t < Cut(l)[y].t
    BY <2>1 DEF AllBefore
  <2> DEFINE a == (m - 1) * M
             b == (l - 1) * M
  <2>2. /\ a + x \in 1..L /\ a + x <= m * M /\ Cut(m)[x] = fixes[a + x]
        /\ b + y \in 1..L /\ Cut(l)[y] = fixes[b + y]
    BY <1>5
  <2>3. m * M <= b /\ b \in Nat
    BY <1>1, <1>4, <1>7, ChunkOrder
  <2>4. m * M \in Int /\ x \in Int /\ y \in Int /\ y >= 1
    BY <1>1, <1>5
  <2> HIDE DEF a, b
  <2>5. a + x < b + y
    <3> DEFINE c == m * M
               u == a + x
    <3>1. u \in 1..L /\ u <= c /\ c <= b /\ b \in Nat /\ c \in Int /\ y \in Int /\ y >= 1
      BY <2>2, <2>3, <2>4
    <3> HIDE DEF c, u
    <3>2. u < b + y
      BY <3>1, <1>1
    <3> QED BY <3>2 DEF u
  <2> QED BY <2>2, <2>5, <1>7 DEF Rising
<1>8. s \in Seq(ChunkBody) /\ Len(s) = K
  <2>1. \A m \in 1..K : s[m] \in ChunkBody
    BY <1>6 DEF FixesOnly
  <2>2. s = [m \in 1..K |-> s[m]]
    OBVIOUS
  <2> HIDE DEF s
  <2>3. s \in [1..K -> ChunkBody]
    BY <2>1, <2>2
  <2> QED BY <2>3, <1>2
<1> HIDE DEF s
<1> QED BY <1>2, <1>3, <1>6, <1>7, <1>8

(* sealChunk for each body in turn: k of them get a number.                 *)
Numbers(k, t, bodies, now) ==
  /\ k \in 0..Len(bodies)
  /\ NextSeqAfter(t, bodies) = t.nextSeq + k /\ t.nextSeq + k <= MaxSeq + 1
  /\ k = Len(bodies) \/ t.nextSeq + k = MaxSeq + 1
  /\ Numbered(t, bodies, now) =
       {Item(t.tripId, t.nextSeq + i - 1, bodies[i], now) : i \in 1..k}

(* sealChunk numbers the bodies in turn from nextSeq on, while there are    *)
(* numbers.                                                                 *)
LEMMA NumberedAre ==
  ASSUME NEW t, t.nextSeq \in 0..(MaxSeq + 1), NEW bodies \in Seq(ChunkBody), NEW now
  PROVE  \E k : Numbers(k, t, bodies, now)
<1> DEFINE L == Len(bodies)
           n == t.nextSeq
           k == IF L <= MaxSeq + 1 - n THEN L ELSE MaxSeq + 1 - n
           I(i, w) == Item(t.tripId, t.nextSeq + i - 1, bodies[i], w)
<1>1. L \in Nat /\ n \in 0..(MaxSeq + 1) /\ MaxSeq \in Nat
  BY SealingAssumption
<1>2. k \in 0..L /\ n + k <= MaxSeq + 1 /\ (k = L \/ n + k = MaxSeq + 1)
  <2> HIDE DEF L, n
  <2> QED BY <1>1
<1>3. {j \in 1..L : n + j - 1 <= MaxSeq} = 1..k
  <2> HIDE DEF L, n
  <2> QED BY <1>1
<1>4. \A w : Numbered(t, bodies, w) = {I(i, w) : i \in 1..k}
  <2> HIDE DEF k
  <2> QED BY <1>3 DEF Numbered
<1>5. Cardinality(Numbered(t, bodies, 0)) = k
  <2> DEFINE S == Numbered(t, bodies, 0)
             f == [i \in 1..k |-> I(i, 0)]
  <2> HIDE DEF k
  <2>1. S = {I(i, 0) : i \in 1..k}
    BY <1>4
  <2> HIDE DEF S
  <2>2. \A i, j \in 1..k : f[i] = f[j] => i = j
    <3> SUFFICES ASSUME NEW i \in 1..k, NEW j \in 1..k, f[i] = f[j] PROVE i = j
      OBVIOUS
    <3>1. f[i].part = n + i - 1 /\ f[j].part = n + j - 1
      BY DEF Item
    <3> HIDE DEF f, n
    <3> QED BY <3>1, <1>1, <1>2
  <2>3. f \in [1..k -> S] /\ \A s \in S : \E i \in 1..k : f[i] = s
    <3> HIDE DEF I
    <3> QED BY <2>1
  <2>4. f \in Bijection(1..k, S)
    <3> HIDE DEF f
    <3> QED BY <2>2, <2>3 DEF Bijection, Injection, Surjection, IsInjective
  <2>5. ExistsBijection(1..k, S)
    BY <2>4 DEF ExistsBijection
  <2>6. k \in Nat
    BY <1>1, <1>2
  <2>7. Cardinality(S) = k
    BY <2>5, <2>6, FS_CountingElements
  <2> QED BY <2>7 DEF S
<1>6. NextSeqAfter(t, bodies) = n + k
  BY <1>5 DEF NextSeqAfter
<1> HIDE DEF k
<1> QED BY <1>2, <1>4, <1>6 DEF Numbers

ItemBefore(i, j) ==
  /\ i.part \in Nat
  /\ \/ j.part = End
     \/ /\ j.part \in Nat /\ i.part < j.part
        /\ AllBefore(i.body.fixes, j.body.fixes)
        /\ \A x \in 1..Len(i.body.artifacts), y \in 1..Len(j.body.artifacts) :
             i.body.artifacts[x].effective_at < j.body.artifacts[y].effective_at

BodyBefore(b, c) ==
  /\ AllBefore(b.fixes, c.fixes)
  /\ \A x \in 1..Len(b.artifacts), y \in 1..Len(c.artifacts) :
       b.artifacts[x].effective_at < c.artifacts[y].effective_at

(* An artifact of its own is a body the service accepts. *)
LEMMA ArtifactIsValid ==
  ASSUME NEW b, NEW e, NEW anchors, ArtifactOnly(b, e, anchors)
  PROVE  ValidChunk(b)
<1>1. b.fixes = <<>> /\ Len(b.artifacts) = 1 /\ b.artifacts \in Seq(Artifact)
  BY DEF ArtifactOnly, ChunkBody
<1>2. b.artifacts # <<>>
  <2>1. b.artifacts = <<>> => Len(b.artifacts) = 0
    OBVIOUS
  <2> QED BY <1>1, <2>1
<1>3. MaxFixesPerChunk \in Nat
  BY SealingAssumption
<1>4. Len(b.fixes) = 0
  BY <1>1
<1>5. Increasing([i \in 1..Len(b.fixes) |-> b.fixes[i].t])
  BY <1>4 DEF Increasing
<1>6. Increasing([i \in 1..Len(b.artifacts) |-> b.artifacts[i].effective_at])
  BY <1>1 DEF Increasing
<1> QED BY <1>1, <1>2, <1>3, <1>4, <1>5, <1>6 DEF ValidChunk

(* Fixes in the order of their times have increasing times. *)
LEMMA RisingIsIncreasing ==
  ASSUME NEW s \in Seq(Fixes), Rising(s)
  PROVE  Increasing([n \in 1..Len(s) |-> s[n].t])
<1> DEFINE times == [n \in 1..Len(s) |-> s[n].t]
<1>1. Len(s) \in Nat
  OBVIOUS
<1>2. \A f \in Fixes : f.t \in Nat
  BY DeviceAssumption
<1>3. times \in Seq(Nat) /\ Len(times) = Len(s)
  <2>1. times \in [1..Len(s) -> Nat]
    BY <1>2
  <2> HIDE DEF times
  <2> QED BY <1>1, <2>1
<1>4. ASSUME NEW i \in 1..(Len(times) - 1) PROVE times[i] < times[i + 1]
  <2>1. i \in 1..Len(s) /\ i + 1 \in 1..Len(s) /\ i < i + 1
    BY <1>1, <1>3
  <2>2. times[i] = s[i].t /\ times[i + 1] = s[i + 1].t
    BY <2>1
  <2> QED BY <2>1, <2>2 DEF Rising
<1> HIDE DEF times
<1>5. Increasing(times)
  BY <1>4 DEF Increasing
<1> QED BY <1>5 DEF times

(* A chunk of fixes in order is a body the service accepts. *)
LEMMA FixesAreValid ==
  ASSUME NEW b, NEW from, FixesOnly(b, from), Rising(from)
  PROVE  ValidChunk(b)
<1>1. /\ b.artifacts = <<>> /\ b.fixes \in Seq(Fixes) /\ Rising(b.fixes)
      /\ Len(b.fixes) \in 1..MaxFixesPerChunk
  BY DEF FixesOnly, ChunkBody
<1>2. MaxFixesPerChunk \in Nat
  BY SealingAssumption
<1>3. b.fixes # <<>> /\ Len(b.fixes) <= MaxFixesPerChunk
  BY <1>1, <1>2
<1>4. Len(b.artifacts) = 0
  BY <1>1
<1>5. Increasing([i \in 1..Len(b.artifacts) |-> b.artifacts[i].effective_at])
  BY <1>4 DEF Increasing
<1>6. Increasing([i \in 1..Len(b.fixes) |-> b.fixes[i].t])
  BY <1>1, RisingIsIncreasing
<1> QED BY <1>3, <1>5, <1>6 DEF ValidChunk

-----------------------------------------------------------------------------
(* What a trip has left behind, and what it may seal. *)

EndBodies == [ended_at : Nat, arrived : BOOLEAN, effective_at : Nat]

GoodTrip(t) ==
  /\ t \in TripRecord
  /\ Rising(t.pending)
  /\ t.head = NULL => t.pending = <<>>
  /\ \A n \in 1..Len(t.pending) : t.pending[n] = t.head \/ t.pending[n].t < t.head.t
  /\ HeldRising(t.heldArtifacts)
  /\ \A n \in 1..Len(t.heldArtifacts) : t.heldArtifacts[n].effective_at <= t.prediction
  /\ t.sealedFixes => t.heldArtifacts = <<>>
  /\ ~t.sealedFixes => t.nextSeq = 0
  /\ Len(t.heldArtifacts) <= t.prediction + 1

GoodItem(i) ==
  /\ i.trip \in Trips /\ i.part \in 0..MaxSeq \cup {End} /\ i.createdAt \in Nat
  /\ i.part # End => i.body \in ChunkBody /\ ValidChunk(i.body)
  /\ i.part = End => i.body \in EndBodies /\ ValidEnd(i.body)

(* What t, and every later version of it, leaves behind.                    *)
Behind(t, i) ==
  /\ i.part \in Nat /\ i.part < t.nextSeq /\ i.body \in ChunkBody
  /\ \A x \in 1..Len(i.body.fixes) :
       /\ t.head # NULL /\ i.body.fixes[x].t <= t.head.t
       /\ \A n \in 1..Len(t.pending) : i.body.fixes[x].t < t.pending[n].t
  /\ \A x \in 1..Len(i.body.artifacts) :
       t.sealedFixes /\ i.body.artifacts[x].effective_at <= t.prediction

(* What t may put into a body at this moment.                               *)
MaySeal(t, b) ==
  /\ b \in ChunkBody /\ ValidChunk(b)
  /\ \A x \in 1..Len(b.fixes) :
       /\ ClearOf(b.fixes[x], t.anchors)
       /\ t.head # NULL /\ Separation(b.fixes[x], t.head) >= Trim
       /\ b.fixes[x] = t.head \/ b.fixes[x].t < t.head.t
       /\ \A n \in 1..Len(t.pending) : b.fixes[x].t < t.pending[n].t
  /\ \A x \in 1..Len(b.artifacts) :
       /\ t.sealedFixes /\ b.artifacts[x].effective_at <= t.prediction
       /\ \A k \in 1..Len(b.artifacts[x].line) :
            ClearOf(Point(b.artifacts[x].line[k]), t.anchors)

(* Of the trip t0 the step makes t and the items.                           *)
Follows(t0, t, items, now) ==
  /\ GoodTrip(t) /\ t.tripId = t0.tripId
  /\ \A i \in items :
       /\ GoodItem(i) /\ i.trip = t.tripId /\ i.createdAt = now
       /\ i.part # End => i.part < t.nextSeq /\ MaySeal(t, i.body)
  /\ \A j : Behind(t0, j) => Behind(t, j) /\ \A i \in items : ItemBefore(j, i)
  /\ \A i, j \in items : i = j \/ ItemBefore(i, j) \/ ItemBefore(j, i)

(* What a trip may seal below its nextSeq, it has left behind. *)
LEMMA SealableIsBehind ==
  ASSUME NEW t \in TripRecord, NEW i, i.part \in Nat, i.part < t.nextSeq, MaySeal(t, i.body)
  PROVE  Behind(t, i)
<1>1. ASSUME NEW x \in 1..Len(i.body.fixes)
      PROVE  t.head # NULL /\ i.body.fixes[x].t <= t.head.t
  <2>1. i.body.fixes[x] \in Fixes
    BY DEF MaySeal, ChunkBody
  <2>2. t.head \in Fixes
    BY DEF MaySeal, TripRecord
  <2>3. i.body.fixes[x].t \in Nat /\ t.head.t \in Nat
    BY <2>1, <2>2, DeviceAssumption
  <2> QED BY <2>3 DEF MaySeal
<1> QED BY <1>1 DEF Behind, MaySeal

(* Numbering a batch of bodies t may seal, after what t0 has sealed.        *)
LEMMA BatchIsNumbered ==
  ASSUME NEW t0, t0 \in TripRecord, NEW bodies \in Seq(ChunkBody), NEW now \in Nat, NEW t,
         GoodTrip(t), t.tripId = t0.tripId,
         t.nextSeq = NextSeqAfter(t0, bodies),
         \A m \in 1..Len(bodies) : MaySeal(t, bodies[m]),
         \A m, l \in 1..Len(bodies) : m < l => BodyBefore(bodies[m], bodies[l]),
         \A j : Behind(t0, j) => \A m \in 1..Len(bodies) : BodyBefore(j.body, bodies[m]),
         \A j : Behind(t0, j) => Behind([t EXCEPT !.nextSeq = t0.nextSeq], j)
  PROVE  Follows(t0, t, Numbered(t0, bodies, now), now)
<1>1. t0.nextSeq \in 0..(MaxSeq + 1) /\ t0.tripId \in Trips /\ MaxSeq \in Nat /\ t \in TripRecord
  BY SealingAssumption DEF TripRecord, GoodTrip
<1>2. PICK k : Numbers(k, t0, bodies, now)
  BY <1>1, NumberedAre
<1>a. /\ k \in 0..Len(bodies) /\ t.nextSeq = t0.nextSeq + k /\ t0.nextSeq + k <= MaxSeq + 1
      /\ Numbered(t0, bodies, now) =
           {Item(t0.tripId, t0.nextSeq + i - 1, bodies[i], now) : i \in 1..k}
  BY <1>2, Zenon DEF Numbers
<1> DEFINE n == t0.nextSeq
           items == Numbered(t0, bodies, now)
<1>3. Len(bodies) \in Nat /\ \A m \in 1..k : m \in 1..Len(bodies)
  BY <1>a
<1>4. ASSUME NEW i \in items
      PROVE  \E m \in 1..k : /\ i.trip = t0.tripId /\ i.part = n + m - 1
                             /\ i.body = bodies[m] /\ i.createdAt = now
  BY <1>a DEF Item
<1>5. \A i, j \in items : i.part = j.part => i = j
  <2> SUFFICES ASSUME NEW i \in items, NEW j \in items, i.part = j.part PROVE i = j
    OBVIOUS
  <2>1. PICK m \in 1..k : i = Item(t0.tripId, n + m - 1, bodies[m], now)
    BY <1>a
  <2>2. PICK l \in 1..k : j = Item(t0.tripId, n + l - 1, bodies[l], now)
    BY <1>a
  <2>3. i.part = n + m - 1 /\ j.part = n + l - 1
    BY <2>1, <2>2 DEF Item
  <2>4. n \in Int
    BY <1>1
  <2> HIDE DEF n
  <2>5. n + m - 1 = n + l - 1
    BY <2>3, Zenon
  <2>6. m = l
    BY <2>4, <2>5
  <2> QED BY <2>1, <2>2, <2>6
<1> HIDE DEF items
<1>6. ASSUME NEW i \in items
      PROVE  /\ GoodItem(i) /\ i.trip = t.tripId /\ i.createdAt = now
             /\ i.part \in Nat /\ i.part < t.nextSeq /\ MaySeal(t, i.body)
  <2>1. PICK m \in 1..k : /\ i.trip = t0.tripId /\ i.part = n + m - 1
                          /\ i.body = bodies[m] /\ i.createdAt = now
    BY <1>4
  <2>2. n + m - 1 \in 0..MaxSeq /\ n + m - 1 < t.nextSeq
    BY <1>1, <1>a
  <2>3. MaySeal(t, i.body)
    BY <1>3, <2>1
  <2>4. i.part \in 0..MaxSeq /\ i.part # End /\ i.part \in Nat
    BY <2>1, <2>2, SealingAssumption
  <2> QED BY <2>1, <2>2, <2>3, <2>4, <1>1 DEF GoodItem, MaySeal
<1>7. ASSUME NEW i \in items, NEW j \in items
      PROVE  i = j \/ ItemBefore(i, j) \/ ItemBefore(j, i)
  <2>1. PICK m \in 1..k : i.part = n + m - 1 /\ i.body = bodies[m]
    BY <1>4
  <2>2. PICK l \in 1..k : j.part = n + l - 1 /\ j.body = bodies[l]
    BY <1>4
  <2>3. i.part \in Nat /\ j.part \in Nat
    BY <1>6
  <2>4. CASE m = l
    BY <2>1, <2>2, <2>4, <1>5
  <2>5. CASE m < l
    <3>1. BodyBefore(i.body, j.body) /\ i.part < j.part
      BY <2>1, <2>2, <2>5, <1>1, <1>3
    <3> QED BY <3>1, <2>3 DEF BodyBefore, ItemBefore
  <2>6. CASE l < m
    <3>1. BodyBefore(j.body, i.body) /\ j.part < i.part
      BY <2>1, <2>2, <2>6, <1>1, <1>3
    <3> QED BY <3>1, <2>3 DEF BodyBefore, ItemBefore
  <2> QED BY <2>4, <2>5, <2>6
<1>8. ASSUME NEW j, Behind(t0, j)
      PROVE  Behind(t, j) /\ \A i \in items : ItemBefore(j, i)
  <2>1. j.part \in Nat /\ j.part < n
    BY <1>8 DEF Behind
  <2>2. Behind(t, j)
    <3> DEFINE u == [t EXCEPT !.nextSeq = t0.nextSeq]
    <3>1. Behind(u, j)
      BY <1>8
    <3>2. /\ u.head = t.head /\ u.pending = t.pending /\ u.sealedFixes = t.sealedFixes
          /\ u.prediction = t.prediction
      BY <1>1 DEF TripRecord
    <3> HIDE DEF u
    <3>3. j.part < t.nextSeq
      BY <2>1, <1>1, <1>a
    <3> QED BY <3>1, <3>2, <3>3, <2>1 DEF Behind
  <2>3. ASSUME NEW i \in items PROVE ItemBefore(j, i)
    <3>1. PICK m \in 1..k : i.part = n + m - 1 /\ i.body = bodies[m]
      BY <1>4
    <3>2. BodyBefore(j.body, i.body)
      BY <3>1, <1>3, <1>8
    <3>3. i.part \in Nat /\ j.part < i.part
      BY <3>1, <2>1, <1>1, <1>6
    <3> QED BY <2>1, <3>2, <3>3 DEF BodyBefore, ItemBefore
  <2> QED BY <2>2, <2>3
<1> QED BY <1>6, <1>7, <1>8 DEF Follows, items

(* The fields of a trip. *)
LEMMA TripFields ==
  ASSUME NEW t \in TripRecord
  PROVE  /\ t.tripId \in Trips /\ t.startedAt \in Nat
         /\ t.anchors \subseteq [at : Places, acc : Nat]
         /\ t.head \in Fixes \cup {NULL} /\ t.pending \in Seq(Fixes)
         /\ t.lastSealAt \in Nat /\ t.nextSeq \in 0..(MaxSeq + 1)
         /\ t.sealedFixes \in BOOLEAN /\ t.heldArtifacts \in Seq(Held)
         /\ t.prediction \in 0..MaxEffective
         /\ t = [tripId |-> t.tripId, startedAt |-> t.startedAt, anchors |-> t.anchors,
                 head |-> t.head, pending |-> t.pending, lastSealAt |-> t.lastSealAt,
                 nextSeq |-> t.nextSeq, sealedFixes |-> t.sealedFixes,
                 heldArtifacts |-> t.heldArtifacts, prediction |-> t.prediction]
BY DEF TripRecord, Held

(* A trip whose first n pending fixes are taken away.                       *)
Rest(t, n) == [t EXCEPT !.pending = SubSeq(t.pending, n + 1, Len(t.pending)),
                        !.lastSealAt = IF t.head = NULL THEN @ ELSE t.head.t]

(* Taking a prefix of the pending fixes away leaves a good trip. *)
LEMMA RestIs ==
  ASSUME NEW t, GoodTrip(t), NEW n \in 0..Len(t.pending)
  PROVE  LET r == Rest(t, n)
         IN /\ GoodTrip(r)
            /\ r = [tripId |-> t.tripId, startedAt |-> t.startedAt, anchors |-> t.anchors,
                    head |-> t.head, pending |-> r.pending, lastSealAt |-> r.lastSealAt,
                    nextSeq |-> t.nextSeq, sealedFixes |-> t.sealedFixes,
                    heldArtifacts |-> t.heldArtifacts, prediction |-> t.prediction]
            /\ Len(r.pending) = Len(t.pending) - n
            /\ \A i \in 1..Len(r.pending) :
                 n + i \in 1..Len(t.pending) /\ r.pending[i] = t.pending[n + i]
<1> DEFINE r == Rest(t, n)
           L == Len(t.pending)
           q == SubSeq(t.pending, n + 1, L)
<1>1. t \in TripRecord
  BY DEF GoodTrip
<1>2. t.pending \in Seq(Fixes) /\ t.head \in Fixes \cup {NULL} /\ t.lastSealAt \in Nat /\ L \in Nat
  BY <1>1, TripFields
<1>3. /\ q \in Seq(Fixes) /\ Len(q) = L - n
      /\ \A i \in 1..(L - n) : n + i \in 1..L /\ q[i] = t.pending[n + i]
  <2>1. \A i \in n + 1 .. L : t.pending[i] \in Fixes
    BY <1>2
  <2>2. n + 1 \in Int /\ L \in Int /\ n \in 0..L
    BY <1>2
  <2>3. /\ q \in Seq(Fixes)
        /\ Len(q) = IF n + 1 <= L THEN L - (n + 1) + 1 ELSE 0
        /\ \A i \in 1 .. L - (n + 1) + 1 : q[i] = t.pending[(n + 1) + i - 1]
    BY <2>1, <2>2, SubSeqProperties
  <2> HIDE DEF L, q
  <2>4. \A i \in 1..(L - n) : i \in 1 .. L - (n + 1) + 1 /\ (n + 1) + i - 1 = n + i /\ n + i \in 1..L
    BY <1>2
  <2>5. Len(q) = L - n
    BY <2>2, <2>3, <1>2
  <2>6. \A i \in 1..(L - n) : q[i] = t.pending[n + i]
    BY <2>3, <2>4
  <2> QED BY <2>3, <2>4, <2>5, <2>6
<1>4. DEFINE w == IF t.head = NULL THEN t.lastSealAt ELSE t.head.t
<1>5. w \in Nat
  BY <1>2, DeviceAssumption
<1>6. r = [tripId |-> t.tripId, startedAt |-> t.startedAt, anchors |-> t.anchors,
           head |-> t.head, pending |-> q, lastSealAt |-> w,
           nextSeq |-> t.nextSeq, sealedFixes |-> t.sealedFixes,
           heldArtifacts |-> t.heldArtifacts, prediction |-> t.prediction]
  <2> HIDE DEF q, w
  <2>1. r = [t EXCEPT !.pending = q, !.lastSealAt = w]
    BY DEF Rest, q, w
  <2> HIDE DEF r
  <2>2. t = [tripId |-> t.tripId, startedAt |-> t.startedAt, anchors |-> t.anchors,
             head |-> t.head, pending |-> t.pending, lastSealAt |-> t.lastSealAt,
             nextSeq |-> t.nextSeq, sealedFixes |-> t.sealedFixes,
             heldArtifacts |-> t.heldArtifacts, prediction |-> t.prediction]
    BY <1>1, TripFields
  <2> QED BY <2>1, <2>2
<1> HIDE DEF r, q, w
<1>7. /\ r.tripId = t.tripId /\ r.startedAt = t.startedAt /\ r.anchors = t.anchors
      /\ r.head = t.head /\ r.pending = q /\ r.lastSealAt = w /\ r.nextSeq = t.nextSeq
      /\ r.sealedFixes = t.sealedFixes /\ r.heldArtifacts = t.heldArtifacts
      /\ r.prediction = t.prediction
  BY <1>6
<1>8. r \in TripRecord
  BY <1>1, <1>3, <1>5, <1>6, TripFields DEF TripRecord, Held
<1>9. Rising(q)
  <2> SUFFICES ASSUME NEW i \in 1..Len(q), NEW j \in 1..Len(q), i < j PROVE q[i].t < q[j].t
    BY DEF Rising
  <2>1. n + i \in 1..L /\ n + j \in 1..L /\ n + i < n + j
    BY <1>2, <1>3
  <2>2. q[i] = t.pending[n + i] /\ q[j] = t.pending[n + j]
    BY <1>3
  <2> QED BY <2>1, <2>2 DEF GoodTrip, Rising
<1>10. t.head = NULL => q = <<>>
  <2> SUFFICES ASSUME t.head = NULL PROVE q = <<>>
    OBVIOUS
  <2>1. L = 0
    BY DEF GoodTrip
  <2>2. Len(q) = 0
    BY <2>1, <1>3
  <2> QED BY <2>2, <1>3
<1>11. \A i \in 1..Len(q) : q[i] = t.head \/ q[i].t < t.head.t
  <2> SUFFICES ASSUME NEW i \in 1..Len(q) PROVE q[i] = t.head \/ q[i].t < t.head.t
    OBVIOUS
  <2>1. n + i \in 1..Len(t.pending) /\ q[i] = t.pending[n + i]
    BY <1>3 DEF L
  <2> QED BY <2>1 DEF GoodTrip
<1>12. GoodTrip(r)
  BY <1>7, <1>8, <1>9, <1>10, <1>11 DEF GoodTrip
<1> QED BY <1>3, <1>6, <1>7, <1>12 DEF r

Ready(t) == ClearFixes(SubSeq(t.pending, 1, SealablePrefix(t.pending, t.head)), t.anchors)
Batch(t) == (IF t.sealedFixes THEN <<>> ELSE HeldBodies(t)) \o ChunksOf(Ready(t))

(* A fix of a seal was pending, is clear of all there is to be clear of,    *)
(* and is older than every fix the trip keeps.                              *)
LEMMA ReadyAre ==
  ASSUME NEW t, GoodTrip(t)
  PROVE  LET n == SealablePrefix(t.pending, t.head)
         IN /\ n \in 0..Len(t.pending)
            /\ Ready(t) \in Seq(Fixes) /\ Rising(Ready(t))
            /\ \A x \in 1..Len(Ready(t)) :
                 /\ ClearOf(Ready(t)[x], t.anchors)
                 /\ t.head # NULL /\ Separation(Ready(t)[x], t.head) >= Trim
                 /\ Ready(t)[x] = t.head \/ Ready(t)[x].t < t.head.t
                 /\ \E k \in 1..n : Ready(t)[x] = t.pending[k]
<1> DEFINE n == SealablePrefix(t.pending, t.head)
           p == SubSeq(t.pending, 1, n)
           L == Len(t.pending)
<1>1. t \in TripRecord /\ Rising(t.pending)
  BY DEF GoodTrip
<1>2. t.pending \in Seq(Fixes) /\ L \in Nat
  BY <1>1, TripFields
<1>3. /\ n \in 0..L /\ (n > 0 => t.head # NULL)
      /\ \A i \in 1..n : Separation(t.pending[i], t.head) >= Trim
  BY <1>2, PrefixIs
<1>4. p \in Seq(Fixes) /\ Len(p) = n /\ \A i \in 1..n : i \in 1..L /\ p[i] = t.pending[i]
  <2>1. \A i \in 1..n : i \in 1..L /\ t.pending[i] \in Fixes
    BY <1>2, <1>3
  <2>2. n \in Nat
    BY <1>3
  <2> HIDE DEF n, L
  <2>3. /\ p \in Seq(Fixes) /\ Len(p) = IF 1 <= n THEN n - 1 + 1 ELSE 0
        /\ \A i \in 1 .. n - 1 + 1 : p[i] = t.pending[1 + i - 1]
    BY <2>1, <2>2, SubSeqProperties
  <2> HIDE DEF p
  <2>4. \A i \in 1..n : i \in 1 .. n - 1 + 1 /\ 1 + i - 1 = i
    BY <2>2
  <2>5. Len(p) = n
    BY <2>2, <2>3
  <2>6. \A i \in 1..n : p[i] = t.pending[i]
    BY <2>3, <2>4
  <2> QED BY <2>1, <2>3, <2>5, <2>6
<1> HIDE DEF n, p
<1>5. Rising(p)
  BY <1>1, <1>4 DEF Rising
<1>6. /\ Ready(t) \in Seq(Fixes) /\ Rising(Ready(t))
      /\ \A x \in 1..Len(Ready(t)) :
           \E k \in 1..Len(p) : Ready(t)[x] = p[k] /\ ClearOf(p[k], t.anchors)
  <2>1. Ready(t) = ClearFixes(p, t.anchors)
    BY DEF Ready, p, n
  <2> QED BY <2>1, <1>4, <1>5, ClearFixesAre
<1>7. ASSUME NEW x \in 1..Len(Ready(t))
      PROVE  /\ ClearOf(Ready(t)[x], t.anchors)
             /\ t.head # NULL /\ Separation(Ready(t)[x], t.head) >= Trim
             /\ Ready(t)[x] = t.head \/ Ready(t)[x].t < t.head.t
             /\ \E k \in 1..n : Ready(t)[x] = t.pending[k]
  <2>1. PICK k \in 1..n : Ready(t)[x] = p[k] /\ ClearOf(p[k], t.anchors)
    BY <1>4, <1>6
  <2>2. p[k] = t.pending[k] /\ k \in 1..L /\ n > 0
    BY <1>3, <1>4
  <2>3. t.pending[k] = t.head \/ t.pending[k].t < t.head.t
    BY <2>2 DEF GoodTrip
  <2> QED BY <2>1, <2>2, <2>3, <1>3
<1> QED BY <1>3, <1>6, <1>7 DEF n

(* The trip a seal of something leaves.                                     *)
After(t) ==
  [Rest(t, SealablePrefix(t.pending, t.head)) EXCEPT
     !.sealedFixes = TRUE, !.heldArtifacts = <<>>, !.nextSeq = NextSeqAfter(t, Batch(t))]

(* A seal with nothing to seal, and one with a batch. *)
LEMMA SealCases ==
  ASSUME NEW t, NEW now
  PROVE  Seal(t, now) = IF Ready(t) = <<>>
                        THEN Sealed(Rest(t, SealablePrefix(t.pending, t.head)), {})
                        ELSE Sealed(After(t), Numbered(t, Batch(t), now))
BY DEF Seal, Ready, Rest, After, Batch

(* The bodies of a seal: the held artifacts if nothing was sealed yet, then *)
(* the fixes.                                                               *)
LEMMA BatchIs ==
  ASSUME NEW t, GoodTrip(t)
  PROVE  LET H == IF t.sealedFixes THEN <<>> ELSE HeldBodies(t)
             C == ChunksOf(Ready(t))
         IN /\ H \in Seq(ChunkBody) /\ C \in Seq(ChunkBody)
            /\ Len(H) <= Len(t.heldArtifacts)
            /\ t.sealedFixes => Len(H) = 0
            /\ \A m \in 1..Len(H) : \E k \in 1..Len(t.heldArtifacts) :
                 ArtifactOnly(H[m], t.heldArtifacts[k].effective_at, t.anchors)
            /\ \A m, l \in 1..Len(H) : m < l => BodyBefore(H[m], H[l])
            /\ \A m \in 1..Len(C) : FixesOnly(C[m], Ready(t))
            /\ \A m, l \in 1..Len(C) : m < l => BodyBefore(C[m], C[l])
            /\ Ready(t) # <<>> => Len(C) >= 1
<1> DEFINE held == t.heldArtifacts
           H == IF t.sealedFixes THEN <<>> ELSE HeldBodies(t)
           C == ChunksOf(Ready(t))
<1>1. t \in TripRecord /\ HeldRising(held) /\ held \in Seq(Held) /\ Len(held) \in Nat
  BY TripFields DEF GoodTrip
<1>2. HeldUpTo(H, Len(held), held, t.anchors)
  <2>1. CASE t.sealedFixes
    <3>1. H = <<>>
      BY <2>1
    <3>2. HeldUpTo(<<>>, Len(held), held, t.anchors)
      BY <1>1 DEF HeldUpTo
    <3> QED BY <3>1, <3>2
  <2>2. CASE ~t.sealedFixes
    BY <2>2, <1>1, HeldBodiesAre
  <2> QED BY <2>1, <2>2
<1>3. t.sealedFixes => Len(H) = 0
  OBVIOUS
<1> HIDE DEF H, C
<1>4. ASSUME NEW m \in 1..Len(H), NEW l \in 1..Len(H), m < l PROVE BodyBefore(H[m], H[l])
  <2>1. H[m].fixes = <<>> /\ Len(H[m].artifacts) = 1 /\ Len(H[l].artifacts) = 1
    BY <1>2 DEF HeldUpTo, ArtifactOnly
  <2>2. H[m].artifacts[1].effective_at < H[l].artifacts[1].effective_at
    BY <1>1, <1>2, <1>4 DEF HeldUpTo
  <2>3. Len(H[m].fixes) = 0
    BY <2>1
  <2> QED BY <2>1, <2>2, <2>3 DEF BodyBefore, AllBefore
<1>5. Ready(t) \in Seq(Fixes) /\ Rising(Ready(t))
  BY ReadyAre
<1>6. /\ C \in Seq(ChunkBody) /\ (Ready(t) # <<>> => Len(C) >= 1)
      /\ \A m \in 1..Len(C) : FixesOnly(C[m], Ready(t))
      /\ \A m, l \in 1..Len(C) : m < l => AllBefore(C[m].fixes, C[l].fixes)
  BY <1>5, ChunksAre DEF C
<1>7. ASSUME NEW m \in 1..Len(C), NEW l \in 1..Len(C), m < l PROVE BodyBefore(C[m], C[l])
  <2>1. C[m].artifacts = <<>>
    BY <1>6 DEF FixesOnly
  <2>2. Len(C[m].artifacts) = 0
    BY <2>1
  <2> QED BY <1>6, <1>7, <2>2 DEF BodyBefore
<1> QED BY <1>2, <1>3, <1>4, <1>6, <1>7 DEF HeldUpTo, H, C

(* The trip a seal leaves is good, and its batch is of chunk bodies. *)
LEMMA AfterIs ==
  ASSUME NEW t, GoodTrip(t)
  PROVE  LET n == SealablePrefix(t.pending, t.head)
             r == Rest(t, n)
         IN /\ GoodTrip(After(t))
            /\ After(t).tripId = t.tripId /\ After(t).anchors = t.anchors
            /\ After(t).head = t.head /\ After(t).pending = r.pending
            /\ After(t).nextSeq = NextSeqAfter(t, Batch(t))
            /\ After(t).sealedFixes = TRUE /\ After(t).heldArtifacts = <<>>
            /\ After(t).prediction = t.prediction
            /\ Batch(t) \in Seq(ChunkBody)
<1> DEFINE n == SealablePrefix(t.pending, t.head)
           r == Rest(t, n)
           q == NextSeqAfter(t, Batch(t))
           a == After(t)
<1>1. t \in TripRecord /\ n \in 0..Len(t.pending)
  BY ReadyAre DEF GoodTrip
<1>2. GoodTrip(r) /\ r \in TripRecord
      /\ r = [tripId |-> t.tripId, startedAt |-> t.startedAt, anchors |-> t.anchors,
              head |-> t.head, pending |-> r.pending, lastSealAt |-> r.lastSealAt,
              nextSeq |-> t.nextSeq, sealedFixes |-> t.sealedFixes,
              heldArtifacts |-> t.heldArtifacts, prediction |-> t.prediction]
  BY <1>1, RestIs DEF GoodTrip
<1>3. Batch(t) \in Seq(ChunkBody)
  BY BatchIs DEF Batch
<1>4. q \in 0..(MaxSeq + 1)
  <2>1. t.nextSeq \in 0..(MaxSeq + 1)
    BY <1>1, TripFields
  <2>2. PICK k : Numbers(k, t, Batch(t), 0)
    BY <1>3, <2>1, NumberedAre
  <2>3. k \in 0..Len(Batch(t)) /\ q = t.nextSeq + k /\ t.nextSeq + k <= MaxSeq + 1
    BY <2>2 DEF Numbers
  <2>4. k \in Nat
    BY <2>3
  <2> QED BY <2>1, <2>3, <2>4, SealingAssumption
<1> HIDE DEF q, r, n
<1>5. a = [r EXCEPT !.sealedFixes = TRUE, !.heldArtifacts = <<>>, !.nextSeq = q]
  BY DEF After, r, q, n
<1> HIDE DEF a
<1>6. /\ r.tripId = t.tripId /\ r.anchors = t.anchors /\ r.head = t.head
      /\ r.prediction = t.prediction
  BY <1>2
<1>7. /\ a.tripId = t.tripId /\ a.anchors = t.anchors
      /\ a.head = t.head /\ a.pending = r.pending
      /\ a.nextSeq = q /\ a.sealedFixes = TRUE /\ a.heldArtifacts = <<>>
      /\ a.prediction = t.prediction
  <2>1. r \in TripRecord
    BY <1>2
  <2> QED BY <2>1, <1>5, <1>6 DEF TripRecord
<1>8. a \in TripRecord
  <2>1. r \in TripRecord /\ <<>> \in Seq([effective_at : Nat, line : Routes])
    BY <1>2
  <2> QED BY <1>4, <1>5, <2>1 DEF TripRecord
<1>9. r.head = t.head
  BY <1>2
<1>10. /\ Rising(r.pending) /\ (t.head = NULL => r.pending = <<>>)
       /\ \A i \in 1..Len(r.pending) : r.pending[i] = t.head \/ r.pending[i].t < t.head.t
  BY <1>2, <1>9 DEF GoodTrip
<1>11. Len(a.heldArtifacts) = 0 /\ a.prediction \in Nat
  BY <1>1, <1>7, TripFields, DeviceAssumption
<1>12. GoodTrip(a)
  BY <1>7, <1>8, <1>10, <1>11 DEF GoodTrip, HeldRising
<1> QED BY <1>3, <1>7, <1>12 DEF a, q, r, n

(* A seal keeps the trip good, and what it seals follows what was sealed    *)
(* before.                                                                  *)
LEMMA SealIs ==
  ASSUME NEW t, GoodTrip(t), NEW now \in Nat
  PROVE  LET s == Seal(t, now)
         IN /\ Follows(t, s.trip, s.items, now)
            /\ s.trip.anchors = t.anchors /\ s.trip.head = t.head
            /\ s.trip.prediction = t.prediction
            /\ \A i \in s.items : i.part # End
            /\ Len(t.heldArtifacts) <= MaxSeq /\ s.trip.sealedFixes =>
                 t.sealedFixes \/ \E i \in s.items : Len(i.body.fixes) > 0
<1> DEFINE n == SealablePrefix(t.pending, t.head)
           r == Rest(t, n)
           a == After(t)
           B == Batch(t)
<1>1. t \in TripRecord /\ n \in 0..Len(t.pending)
  BY ReadyAre DEF GoodTrip
<1>2. /\ GoodTrip(r) /\ r.tripId = t.tripId /\ r.anchors = t.anchors /\ r.head = t.head
      /\ r.prediction = t.prediction /\ r.sealedFixes = t.sealedFixes /\ r.nextSeq = t.nextSeq
      /\ Len(r.pending) = Len(t.pending) - n
      /\ \A i \in 1..Len(r.pending) :
           n + i \in 1..Len(t.pending) /\ r.pending[i] = t.pending[n + i]
  BY <1>1, RestIs
<1>3. \A j : Behind(t, j) => Behind(r, j)
  BY <1>2 DEF Behind
<1>4. CASE Ready(t) = <<>>
  <2>1. Seal(t, now).trip = r /\ Seal(t, now).items = {}
    BY <1>4, SealCases DEF Sealed
  <2>2. Follows(t, r, {}, now)
    BY <1>2, <1>3 DEF Follows
  <2> HIDE DEF r
  <2> QED BY <2>1, <2>2, <1>2
<1>5. CASE Ready(t) # <<>>
  <2>1. Seal(t, now).trip = a /\ Seal(t, now).items = Numbered(t, B, now)
    BY <1>5, SealCases DEF Sealed
  <2>2. /\ GoodTrip(a) /\ a \in TripRecord /\ a.tripId = t.tripId /\ a.anchors = t.anchors
        /\ a.head = t.head /\ a.pending = r.pending /\ a.nextSeq = NextSeqAfter(t, B)
        /\ a.sealedFixes = TRUE /\ a.heldArtifacts = <<>> /\ a.prediction = t.prediction
        /\ B \in Seq(ChunkBody)
    BY AfterIs DEF GoodTrip
  <2> DEFINE held == t.heldArtifacts
             H == IF t.sealedFixes THEN <<>> ELSE HeldBodies(t)
             C == ChunksOf(Ready(t))
  <2>3. /\ H \in Seq(ChunkBody) /\ C \in Seq(ChunkBody)
        /\ Len(H) <= Len(held)
        /\ (t.sealedFixes => Len(H) = 0)
        /\ \A m \in 1..Len(H) : \E k \in 1..Len(held) :
             ArtifactOnly(H[m], held[k].effective_at, t.anchors)
        /\ \A m, l \in 1..Len(H) : m < l => BodyBefore(H[m], H[l])
        /\ \A m \in 1..Len(C) : FixesOnly(C[m], Ready(t))
        /\ \A m, l \in 1..Len(C) : m < l => BodyBefore(C[m], C[l])
        /\ Len(C) >= 1
    BY <1>5, BatchIs
  <2>4. B = H \o C
    BY DEF Batch
  <2> HIDE DEF H, C, a, r, n, B
  <2>5. /\ Len(H) \in Nat /\ Len(C) \in Nat /\ Len(B) = Len(H) + Len(C)
        /\ \A m \in 1..Len(B) : IF m \in 1..Len(H) THEN B[m] = H[m]
                                ELSE m - Len(H) \in 1..Len(C) /\ B[m] = C[m - Len(H)]
        /\ B[Len(H) + 1] = C[1]
    <3>1. /\ Len(B) = Len(H) + Len(C)
          /\ \A i \in 1 .. Len(H) + Len(C) :
               B[i] = IF i <= Len(H) THEN H[i] ELSE C[i - Len(H)]
      BY <2>3, <2>4, ConcatProperties
    <3>2. Len(H) \in Nat /\ Len(C) \in Nat /\ Len(C) >= 1
      BY <2>3
    <3> HIDE DEF B
    <3> DEFINE h == Len(H)
               c == Len(C)
    <3> HIDE DEF h, c
    <3>3. h \in Nat /\ c \in Nat /\ c >= 1 /\ Len(B) = h + c
          /\ \A i \in 1 .. h + c : B[i] = IF i <= h THEN H[i] ELSE C[i - h]
      BY <3>1, <3>2 DEF h, c
    <3>4. \A m \in 1..(h + c) : IF m \in 1..h THEN B[m] = H[m]
                                ELSE m - h \in 1..c /\ B[m] = C[m - h]
      BY <3>3
    <3>5. h + 1 \in 1 .. h + c /\ ~(h + 1 <= h) /\ h + 1 - h = 1
      BY <3>3
    <3>6. B[h + 1] = C[1]
      BY <3>3, <3>5
    <3> QED BY <3>3, <3>4, <3>6 DEF h, c
  <2>6. \A m \in 1..Len(H) :
          /\ H[m].fixes = <<>> /\ Len(H[m].fixes) = 0 /\ Len(H[m].artifacts) = 1
          /\ MaySeal(a, H[m])
    <3> SUFFICES ASSUME NEW m \in 1..Len(H)
                 PROVE  /\ H[m].fixes = <<>> /\ Len(H[m].fixes) = 0
                        /\ Len(H[m].artifacts) = 1 /\ MaySeal(a, H[m])
      OBVIOUS
    <3>1. PICK k \in 1..Len(held) : ArtifactOnly(H[m], held[k].effective_at, t.anchors)
      BY <2>3
    <3>2. held[k].effective_at <= t.prediction
      BY DEF GoodTrip
    <3>3. H[m].fixes = <<>> /\ Len(H[m].fixes) = 0 /\ Len(H[m].artifacts) = 1
      BY <3>1 DEF ArtifactOnly
    <3>4. ValidChunk(H[m]) /\ H[m] \in ChunkBody
      BY <3>1, ArtifactIsValid DEF ArtifactOnly
    <3>5. ASSUME NEW x \in 1..Len(H[m].artifacts)
          PROVE  /\ a.sealedFixes /\ H[m].artifacts[x].effective_at <= a.prediction
                 /\ \A l \in 1..Len(H[m].artifacts[x].line) :
                      ClearOf(Point(H[m].artifacts[x].line[l]), a.anchors)
      <4>1. x = 1
        BY <3>3
      <4> QED BY <4>1, <3>1, <3>2, <2>2 DEF ArtifactOnly
    <3> QED BY <3>3, <3>4, <3>5 DEF MaySeal
  <2>7. \A m \in 1..Len(C) :
          /\ C[m].artifacts = <<>> /\ Len(C[m].artifacts) = 0 /\ Len(C[m].fixes) > 0
          /\ MaySeal(a, C[m])
          /\ \A x \in 1..Len(C[m].fixes) :
               \E k \in 1..Len(t.pending) : C[m].fixes[x] = t.pending[k]
    <3> SUFFICES ASSUME NEW m \in 1..Len(C)
                 PROVE  /\ C[m].artifacts = <<>> /\ Len(C[m].artifacts) = 0
                        /\ Len(C[m].fixes) > 0 /\ MaySeal(a, C[m])
                        /\ \A x \in 1..Len(C[m].fixes) :
                             \E k \in 1..Len(t.pending) : C[m].fixes[x] = t.pending[k]
      OBVIOUS
    <3>1. FixesOnly(C[m], Ready(t)) /\ Rising(Ready(t))
      BY <2>3, ReadyAre
    <3>2. C[m].artifacts = <<>> /\ Len(C[m].artifacts) = 0 /\ Len(C[m].fixes) > 0
      BY <3>1 DEF FixesOnly
    <3>3. ValidChunk(C[m]) /\ C[m] \in ChunkBody
      BY <3>1, FixesAreValid DEF FixesOnly
    <3>4. ASSUME NEW x \in 1..Len(C[m].fixes)
          PROVE  /\ ClearOf(C[m].fixes[x], a.anchors)
                 /\ a.head # NULL /\ Separation(C[m].fixes[x], a.head) >= Trim
                 /\ C[m].fixes[x] = a.head \/ C[m].fixes[x].t < a.head.t
                 /\ \A i \in 1..Len(a.pending) : C[m].fixes[x].t < a.pending[i].t
                 /\ \E k \in 1..Len(t.pending) : C[m].fixes[x] = t.pending[k]
      <4>1. PICK y \in 1..Len(Ready(t)) : C[m].fixes[x] = Ready(t)[y]
        BY <3>1 DEF FixesOnly
      <4>2. /\ ClearOf(Ready(t)[y], t.anchors)
            /\ t.head # NULL /\ Separation(Ready(t)[y], t.head) >= Trim
            /\ Ready(t)[y] = t.head \/ Ready(t)[y].t < t.head.t
            /\ \E k \in 1..n : Ready(t)[y] = t.pending[k]
        BY ReadyAre DEF n
      <4>3. PICK k \in 1..n : Ready(t)[y] = t.pending[k]
        BY <4>2
      <4>4. t.pending \in Seq(Fixes) /\ Len(t.pending) \in Nat
        BY <1>1, TripFields
      <4>5. k \in 1..Len(t.pending)
        BY <1>1, <4>4
      <4>6. ASSUME NEW i \in 1..Len(a.pending) PROVE t.pending[k].t < a.pending[i].t
        <5>1. n + i \in 1..Len(t.pending) /\ a.pending[i] = t.pending[n + i]
          BY <1>2, <2>2
        <5>2. k < n + i
          BY <1>1, <1>2, <2>2, <4>4
        <5> QED BY <5>1, <5>2, <4>5 DEF GoodTrip, Rising
      <4> QED BY <4>1, <4>2, <4>3, <4>5, <4>6, <2>2
    <3> QED BY <3>2, <3>3, <3>4 DEF MaySeal
  <2>8. \A m \in 1..Len(B) : MaySeal(a, B[m])
    BY <2>5, <2>6, <2>7
  <2>9. ASSUME NEW m \in 1..Len(B), NEW l \in 1..Len(B), m < l PROVE BodyBefore(B[m], B[l])
    <3> DEFINE h == Len(H)
    <3>1. h \in Nat /\ m \in Int /\ l \in Int
      BY <2>5
    <3>2. CASE m \in 1..h /\ l \in 1..h
      BY <2>3, <2>5, <2>9, <3>2
    <3>3. CASE m \in 1..h /\ l \notin 1..h
      <4>1. B[m] = H[m] /\ l - h \in 1..Len(C) /\ B[l] = C[l - h]
        BY <2>5, <3>3
      <4> QED BY <4>1, <3>3, <2>6, <2>7 DEF BodyBefore, AllBefore
    <3>4. CASE m \notin 1..h
      <4>1. m - h \in 1..Len(C) /\ B[m] = C[m - h]
        BY <2>5, <3>4
      <4>2. l \notin 1..h
        BY <2>5, <2>9, <3>1, <3>4
      <4>3. l - h \in 1..Len(C) /\ B[l] = C[l - h]
        BY <2>5, <4>2
      <4>4. m - h < l - h
        BY <2>9, <3>1
      <4> QED BY <4>1, <4>3, <4>4, <2>3
    <3> QED BY <3>2, <3>3, <3>4
  <2>10. ASSUME NEW j, Behind(t, j), NEW m \in 1..Len(B) PROVE BodyBefore(j.body, B[m])
    <3>1. CASE m \in 1..Len(H)
      <4>1. B[m] = H[m] /\ Len(H[m].fixes) = 0
        BY <2>5, <2>6, <3>1
      <4>2. ~t.sealedFixes
        BY <2>3, <2>5, <3>1
      <4>3. \A x \in 1..Len(j.body.artifacts) : FALSE
        BY <4>2, <2>10 DEF Behind
      <4> QED BY <4>1, <4>3 DEF BodyBefore, AllBefore
    <3>2. CASE m \notin 1..Len(H)
      <4> DEFINE l == m - Len(H)
      <4>1. l \in 1..Len(C) /\ B[m] = C[l]
        BY <2>5, <3>2
      <4> HIDE DEF l
      <4>2. Len(C[l].artifacts) = 0
        BY <2>7, <4>1
      <4>3. ASSUME NEW x \in 1..Len(j.body.fixes), NEW y \in 1..Len(C[l].fixes)
            PROVE  j.body.fixes[x].t < C[l].fixes[y].t
        <5>1. PICK k \in 1..Len(t.pending) : C[l].fixes[y] = t.pending[k]
          BY <2>7, <4>1
        <5> QED BY <5>1, <2>10 DEF Behind
      <4> QED BY <4>1, <4>2, <4>3 DEF BodyBefore, AllBefore
    <3> QED BY <3>1, <3>2
  <2>11. ASSUME NEW j, Behind(t, j) PROVE Behind([a EXCEPT !.nextSeq = t.nextSeq], j)
    <3> DEFINE u == [a EXCEPT !.nextSeq = t.nextSeq]
    <3>1. /\ u.nextSeq = t.nextSeq /\ u.head = t.head /\ u.pending = r.pending
          /\ u.sealedFixes = TRUE /\ u.prediction = t.prediction
      BY <2>2 DEF TripRecord
    <3> HIDE DEF u
    <3>2. Behind(r, j)
      BY <1>3, <2>11
    <3>3. Behind(u, j)
      BY <3>1, <3>2, <2>11, <1>2 DEF Behind
    <3> QED BY <3>3 DEF u
  <2>12. Follows(t, a, Numbered(t, B, now), now)
    BY <1>1, <2>2, <2>8, <2>9, <2>10, <2>11, BatchIsNumbered
  <2>13. PICK k : Numbers(k, t, B, now)
    <3>1. t.nextSeq \in 0..(MaxSeq + 1)
      BY <1>1, TripFields
    <3> QED BY <3>1, <2>2, NumberedAre
  <2>14. \A i \in Numbered(t, B, now) : i.part # End
    <3>1. t.nextSeq \in 0..(MaxSeq + 1)
      BY <1>1, TripFields
    <3> QED BY <2>13, <3>1, SealingAssumption DEF Numbers, Item
  <2>15. ASSUME Len(held) <= MaxSeq, ~t.sealedFixes
         PROVE  \E i \in Numbered(t, B, now) : Len(i.body.fixes) > 0
    <3>1. t.nextSeq = 0 /\ Len(held) <= MaxSeq
      BY <1>1, <2>15 DEF GoodTrip
    <3>2. k \in 0..Len(B) /\ (k = Len(B) \/ t.nextSeq + k = MaxSeq + 1)
      BY <2>13 DEF Numbers
    <3>3. Len(held) \in Nat
      BY <1>1, TripFields
    <3>4. Len(H) + 1 \in 1..k
      BY <3>1, <3>2, <3>3, <2>3, <2>5, <2>15, SealingAssumption
    <3> DEFINE i == Item(t.tripId, t.nextSeq + (Len(H) + 1) - 1, B[Len(H) + 1], now)
    <3>5. i \in Numbered(t, B, now)
      BY <2>13, <3>4 DEF Numbers
    <3>6. i.body = C[1] /\ Len(C[1].fixes) > 0
      BY <2>3, <2>5, <2>7 DEF Item
    <3> QED BY <3>5, <3>6
  <2> QED BY <2>1, <2>2, <2>12, <2>14, <2>15
<1> QED BY <1>4, <1>5

-----------------------------------------------------------------------------
(* Every handler keeps its trip good, and seals only what follows. *)

(* A step that only leaves more behind may come before one that seals. *)
LEMMA FollowsAfter ==
  ASSUME NEW t0, NEW t1, NEW t, NEW items, NEW now, t1.tripId = t0.tripId,
         \A j : Behind(t0, j) => Behind(t1, j), Follows(t1, t, items, now)
  PROVE  Follows(t0, t, items, now)
BY DEF Follows

(* The fields of a fix. *)
LEMMA FixFields ==
  ASSUME NEW f \in Fixes
  PROVE  f.t \in Nat /\ f.acc \in Nat /\ f.at \in Places
BY DeviceAssumption

(* A route has a first and a last place. *)
LEMMA RouteEnds ==
  ASSUME NEW line \in Routes
  PROVE  /\ line \in Seq(Places) /\ Len(line) \in Nat \ {0}
         /\ Point(line[1]) \in [at : Places, acc : Nat]
         /\ Point(line[Len(line)]) \in [at : Places, acc : Nat]
<1>1. line \in Seq(Places) /\ Len(line) \in Nat \ {0}
  BY DeviceAssumption
<1>2. line[1] \in Places /\ line[Len(line)] \in Places
  BY <1>1
<1> QED BY <1>1, <1>2 DEF Point

(* A destination that is not absent is a place. *)
LEMMA HeadingsArePlaces == Destinations \ {NULL} \subseteq Places
BY DEF Places

(* beginTrip makes a good trip that has taken no fix. *)
LEMMA NewTripIs ==
  ASSUME NEW id \in Trips, NEW line \in Routes, NEW dest \in Destinations,
         clock \in 0..MaxClock
  PROVE  LET t == NewTrip(id, line, dest)
         IN GoodTrip(t) /\ t.tripId = id /\ t.head = NULL /\ ~t.sealedFixes /\ t # NULL
<1> DEFINE private == {Point(line[1]), Point(line[Len(line)])}
                        \cup (IF dest = NULL THEN {} ELSE {Point(dest)})
           first == [effective_at |-> clock, line |-> line]
           held == <<first>>
           t == NewTrip(id, line, dest)
<1>1. private \subseteq [at : Places, acc : Nat]
  <2>1. dest # NULL => dest \in Places
    <3> SUFFICES ASSUME dest # NULL PROVE dest \in Places
      OBVIOUS
    <3>1. dest \in Destinations \ {NULL}
      OBVIOUS
    <3> QED BY <3>1, HeadingsArePlaces
  <2>2. dest # NULL => Point(dest) \in [at : Places, acc : Nat]
    BY <2>1 DEF Point
  <2> QED BY <2>2, RouteEnds
<1>2. clock \in Nat /\ clock \in 0..MaxEffective
  BY DeviceAssumption
<1>3. first \in Held
  BY <1>2 DEF Held
<1>4. held \in Seq(Held) /\ Len(held) = 1 /\ held[1] = first
  <2> HIDE DEF first
  <2> QED BY <1>3
<1>5. held[1].effective_at = clock
  BY <1>4
<1> HIDE DEF private, held
<1>6. t = [tripId |-> id, startedAt |-> clock, anchors |-> private, head |-> NULL,
           pending |-> <<>>, lastSealAt |-> clock, nextSeq |-> 0, sealedFixes |-> FALSE,
           heldArtifacts |-> held, prediction |-> clock]
  BY DEF NewTrip, private, held
<1> HIDE DEF t
<1>7. t \in TripRecord
  <2>1. <<>> \in Seq(Fixes) /\ 0 \in 0..(MaxSeq + 1)
    BY SealingAssumption
  <2> QED BY <1>1, <1>2, <1>4, <1>6, <2>1 DEF TripRecord, Held
<1>8. /\ t.tripId = id /\ t.head = NULL /\ t.pending = <<>> /\ t.nextSeq = 0
      /\ t.sealedFixes = FALSE /\ t.heldArtifacts = held /\ t.prediction = clock
  BY <1>6
<1>9. Rising(<<>>) /\ HeldRising(held)
  BY <1>4 DEF Rising, HeldRising
<1>10. \A n \in 1..Len(held) : held[n].effective_at <= clock
  BY <1>2, <1>4, <1>5
<1>11. Len(held) <= clock + 1
  BY <1>2, <1>4
<1>12. \A n \in 1..Len(t.pending) : FALSE
  BY <1>8
<1>13. GoodTrip(t)
  BY <1>7, <1>8, <1>9, <1>10, <1>11, <1>12 DEF GoodTrip
<1>14. t # NULL
  BY <1>7, DeviceAssumption
<1> QED BY <1>8, <1>13, <1>14 DEF t

(* Taking a fix keeps the trip good, with the fix as head and the first one *)
(* as anchor.                                                               *)
LEMMA TakenIs ==
  ASSUME NEW t, GoodTrip(t), NEW fix \in Fixes, FollowsHead(t.head, fix)
  PROVE  LET r == Taken(t, fix)
         IN /\ GoodTrip(r) /\ r.tripId = t.tripId /\ r.head = fix
            /\ r.sealedFixes = t.sealedFixes /\ r.heldArtifacts = t.heldArtifacts
            /\ t.anchors \subseteq r.anchors
            /\ t.head = NULL => [at |-> fix.at, acc |-> fix.acc] \in r.anchors
            /\ \A j : Behind(t, j) => Behind(r, j)
<1> DEFINE private == IF t.head # NULL THEN t.anchors
                      ELSE t.anchors \cup {[at |-> fix.at, acc |-> fix.acc]}
           pending == IF ClearOf(fix, private) THEN Append(t.pending, fix) ELSE t.pending
           r == Taken(t, fix)
           L == Len(t.pending)
<1>1. t \in TripRecord
  BY DEF GoodTrip
<1>2. /\ t.anchors \subseteq [at : Places, acc : Nat] /\ t.head \in Fixes \cup {NULL}
      /\ t.pending \in Seq(Fixes) /\ L \in Nat
  BY <1>1, TripFields
<1>3. private \subseteq [at : Places, acc : Nat]
  BY <1>2, FixFields
<1>4. t.head # NULL => t.head.t < fix.t
  BY <1>2, FixFields, SealingAssumption DEF FollowsHead
<1>5. \A n \in 1..L : t.pending[n].t < fix.t /\ t.pending[n] \in Fixes
  <2> SUFFICES ASSUME NEW n \in 1..L PROVE t.pending[n].t < fix.t /\ t.pending[n] \in Fixes
    OBVIOUS
  <2>1. t.pending[n] \in Fixes /\ t.head # NULL
    BY <1>2 DEF GoodTrip
  <2>2. t.pending[n] = t.head \/ t.pending[n].t < t.head.t
    BY DEF GoodTrip
  <2>3. t.pending[n].t \in Nat /\ fix.t \in Nat /\ t.head.t \in Nat
    BY <1>2, <2>1, FixFields
  <2> QED BY <1>4, <2>1, <2>2, <2>3
<1>6. /\ pending \in Seq(Fixes)
      /\ \A n \in 1..Len(pending) :
           (n \in 1..L /\ pending[n] = t.pending[n]) \/ (n = L + 1 /\ pending[n] = fix)
  <2>1. CASE ClearOf(fix, private)
    <3>1. pending = Append(t.pending, fix)
      BY <2>1
    <3>2. /\ Append(t.pending, fix) \in Seq(Fixes) /\ Len(Append(t.pending, fix)) = L + 1
          /\ Append(t.pending, fix)[L + 1] = fix
          /\ \A n \in 1..L : Append(t.pending, fix)[n] = t.pending[n]
      BY <1>2
    <3> HIDE DEF pending, L
    <3> QED BY <1>2, <3>1, <3>2
  <2>2. CASE ~ClearOf(fix, private)
    <3>1. pending = t.pending
      BY <2>2
    <3> HIDE DEF pending
    <3> QED BY <1>2, <3>1
  <2> QED BY <2>1, <2>2
<1> HIDE DEF pending, private
<1>7. r = [t EXCEPT !.anchors = private, !.head = fix, !.pending = pending]
  BY DEF Taken, private, pending
<1> HIDE DEF r
<1>8. /\ r \in TripRecord /\ r.tripId = t.tripId /\ r.anchors = private /\ r.head = fix
      /\ r.pending = pending /\ r.nextSeq = t.nextSeq /\ r.sealedFixes = t.sealedFixes
      /\ r.heldArtifacts = t.heldArtifacts /\ r.prediction = t.prediction
  BY <1>1, <1>3, <1>6, <1>7 DEF TripRecord
<1>9. fix # NULL /\ fix.t \in Nat
  BY DeviceAssumption
<1>10. Rising(pending)
  <2> SUFFICES ASSUME NEW m \in 1..Len(pending), NEW n \in 1..Len(pending), m < n
               PROVE  pending[m].t < pending[n].t
    BY DEF Rising
  <2>1. m \in 1..L /\ pending[m] = t.pending[m]
    BY <1>2, <1>6
  <2>2. CASE n \in 1..L /\ pending[n] = t.pending[n]
    BY <2>1, <2>2 DEF GoodTrip, Rising
  <2>3. CASE n = L + 1 /\ pending[n] = fix
    BY <2>1, <2>3, <1>5
  <2> QED BY <2>2, <2>3, <1>6
<1>11. \A n \in 1..Len(pending) : pending[n] = fix \/ pending[n].t < fix.t
  BY <1>5, <1>6
<1>12. GoodTrip(r)
  BY <1>8, <1>9, <1>10, <1>11 DEF GoodTrip
<1>13. ASSUME NEW j, Behind(t, j) PROVE Behind(r, j)
  <2>1. ASSUME NEW x \in 1..Len(j.body.fixes)
        PROVE  /\ j.body.fixes[x].t < fix.t /\ j.body.fixes[x].t <= fix.t
               /\ \A n \in 1..Len(pending) : j.body.fixes[x].t < pending[n].t
    <3>1. t.head # NULL /\ j.body.fixes[x].t <= t.head.t
      BY <1>13 DEF Behind
    <3>2. j.body.fixes[x].t < fix.t
      <4> DEFINE d == j.body.fixes[x].t
                 e == t.head.t
      <4>1. j.body.fixes[x] \in Fixes
        BY <1>13 DEF Behind, ChunkBody
      <4>2. d \in Nat /\ e \in Nat /\ d <= e /\ e < fix.t
        BY <1>2, <1>4, <3>1, <4>1, FixFields
      <4> HIDE DEF d, e
      <4>3. d < fix.t
        BY <4>2, <1>9
      <4> QED BY <4>3 DEF d
    <3>3. j.body.fixes[x].t <= fix.t
      <4>1. j.body.fixes[x] \in Fixes
        BY <1>13 DEF Behind, ChunkBody
      <4> QED BY <3>2, <4>1, FixFields
    <3>4. ASSUME NEW n \in 1..Len(pending) PROVE j.body.fixes[x].t < pending[n].t
      <4>1. CASE n \in 1..L /\ pending[n] = t.pending[n]
        BY <4>1, <1>13 DEF Behind
      <4>2. CASE n = L + 1 /\ pending[n] = fix
        BY <4>2, <3>2
      <4> QED BY <4>1, <4>2, <1>6
    <3> QED BY <3>2, <3>3, <3>4
  <2> QED BY <2>1, <1>8, <1>9, <1>13 DEF Behind
<1>14. /\ t.anchors \subseteq private
       /\ t.head = NULL => [at |-> fix.at, acc |-> fix.acc] \in private
  BY DEF private
<1> QED BY <1>8, <1>12, <1>13, <1>14 DEF r

(* The artifacts of a body. *)
LEMMA BodyArtifacts ==
  ASSUME NEW b \in ChunkBody, NEW x \in 1..Len(b.artifacts)
  PROVE  b.artifacts[x] \in Artifact /\ b.artifacts[x].effective_at \in Nat
<1>1. b.artifacts \in Seq(Artifact)
  BY DEF ChunkBody
<1>2. b.artifacts[x] \in Artifact
  BY <1>1
<1> QED BY <1>2 DEF Artifact

(* The artifacts a trip holds. *)
LEMMA HeldFields ==
  ASSUME NEW held \in Seq(Held), NEW n \in 1..Len(held)
  PROVE  held[n] \in Held /\ held[n].effective_at \in Nat /\ held[n].line \in Routes
<1>1. held[n] \in Held
  OBVIOUS
<1> QED BY <1>1 DEF Held

(* A step of a trip that seals nothing. *)
LEMMA FollowsNothing ==
  ASSUME NEW t0, NEW t, GoodTrip(t), t.tripId = t0.tripId,
         \A j : Behind(t0, j) => Behind(t, j), NEW now
  PROVE  Follows(t0, t, {}, now)
BY DEF Follows

(* What AddFix puts. *)
Added(t, fix) ==
  LET r == Taken(t, fix)
  IN IF fix.t - r.lastSealAt >= SealInterval THEN Seal(r, clock) ELSE Sealed(r, {})

(* addFix keeps the trip good, and seals only what follows. *)
LEMMA AddedIs ==
  ASSUME NEW t, GoodTrip(t), NEW fix \in Fixes, FollowsHead(t.head, fix), clock \in Nat
  PROVE  LET s == Added(t, fix)
         IN /\ Follows(t, s.trip, s.items, clock)
            /\ s.trip.head = fix
            /\ t.anchors \subseteq s.trip.anchors
            /\ t.head = NULL => [at |-> fix.at, acc |-> fix.acc] \in s.trip.anchors
            /\ \A i \in s.items : i.part # End
            /\ Len(t.heldArtifacts) <= MaxSeq /\ s.trip.sealedFixes =>
                 t.sealedFixes \/ \E i \in s.items : Len(i.body.fixes) > 0
<1> DEFINE r == Taken(t, fix)
           s == Added(t, fix)
<1>1. /\ GoodTrip(r) /\ r.tripId = t.tripId /\ r.head = fix
      /\ r.sealedFixes = t.sealedFixes /\ r.heldArtifacts = t.heldArtifacts
      /\ t.anchors \subseteq r.anchors
      /\ t.head = NULL => [at |-> fix.at, acc |-> fix.acc] \in r.anchors
      /\ \A j : Behind(t, j) => Behind(r, j)
  BY TakenIs
<1> HIDE DEF r
<1>2. CASE fix.t - r.lastSealAt >= SealInterval
  <2>1. s = Seal(r, clock)
    BY <1>2 DEF Added, r
  <2> HIDE DEF s
  <2>2. /\ Follows(r, s.trip, s.items, clock)
        /\ s.trip.anchors = r.anchors /\ s.trip.head = r.head
        /\ \A i \in s.items : i.part # End
        /\ Len(r.heldArtifacts) <= MaxSeq /\ s.trip.sealedFixes =>
             r.sealedFixes \/ \E i \in s.items : Len(i.body.fixes) > 0
    BY <1>1, <2>1, SealIs
  <2>3. Follows(t, s.trip, s.items, clock)
    BY <1>1, <2>2, FollowsAfter
  <2> QED BY <1>1, <2>2, <2>3 DEF s
<1>3. CASE ~(fix.t - r.lastSealAt >= SealInterval)
  <2>1. s = Sealed(r, {})
    BY <1>3 DEF Added, r
  <2> HIDE DEF s
  <2>2. s.trip = r /\ s.items = {}
    BY <2>1 DEF Sealed
  <2>3. Follows(t, r, {}, clock)
    BY <1>1, FollowsNothing
  <2> QED BY <1>1, <2>2, <2>3 DEF s
<1> QED BY <1>2, <1>3

(* What Reroute makes of its trip before it seals or holds the artifact.    *)
Rerouted(t, line) ==
  [t EXCEPT !.anchors = @ \cup {Point(line[Len(line)])}, !.prediction = TakesEffect(t)]
Replacing(t, line) == [effective_at |-> TakesEffect(t), line |-> line]

(* A reroute takes effect after every earlier one, and keeps what is behind *)
(* behind.                                                                  *)
LEMMA ReroutedIs ==
  ASSUME NEW t, GoodTrip(t), NEW line \in Routes, clock \in Nat, TakesEffect(t) <= MaxEffective
  PROVE  LET r == Rerouted(t, line)
         IN /\ GoodTrip(r) /\ r.tripId = t.tripId /\ r.head = t.head /\ r.nextSeq = t.nextSeq
            /\ r.sealedFixes = t.sealedFixes /\ t.anchors \subseteq r.anchors
            /\ r.heldArtifacts = t.heldArtifacts /\ r.pending = t.pending
            /\ r.prediction = TakesEffect(t) /\ t.prediction < TakesEffect(t)
            /\ TakesEffect(t) \in Nat /\ Replacing(t, line) \in Held
            /\ \A j : Behind(t, j) => Behind(r, j)
<1> DEFINE at == TakesEffect(t)
           private == t.anchors \cup {Point(line[Len(line)])}
           r == Rerouted(t, line)
<1>1. /\ t \in TripRecord /\ t.anchors \subseteq [at : Places, acc : Nat]
      /\ t.prediction \in 0..MaxEffective /\ MaxEffective \in Nat
      /\ t.heldArtifacts \in Seq(Held)
  BY TripFields, DeviceAssumption DEF GoodTrip
<1>2. at \in 0..MaxEffective /\ t.prediction < at /\ at \in Nat
  BY <1>1 DEF TakesEffect, Larger
<1>3. private \subseteq [at : Places, acc : Nat]
  BY <1>1, RouteEnds
<1>4. r = [t EXCEPT !.anchors = private, !.prediction = at]
  BY DEF Rerouted
<1> HIDE DEF at, private, r
<1>5. /\ r \in TripRecord /\ r.tripId = t.tripId /\ r.anchors = private /\ r.head = t.head
      /\ r.pending = t.pending /\ r.nextSeq = t.nextSeq /\ r.sealedFixes = t.sealedFixes
      /\ r.heldArtifacts = t.heldArtifacts /\ r.prediction = at
  BY <1>1, <1>2, <1>3, <1>4 DEF TripRecord
<1>6. ASSUME NEW n \in 1..Len(t.heldArtifacts) PROVE t.heldArtifacts[n].effective_at <= at
  <2>1. t.heldArtifacts[n].effective_at <= t.prediction
    BY DEF GoodTrip
  <2>2. t.heldArtifacts[n].effective_at \in Nat
    BY <1>1, HeldFields
  <2> QED BY <2>1, <2>2, <1>1, <1>2
<1>7. Len(t.heldArtifacts) <= at + 1
  <2>1. Len(t.heldArtifacts) \in Nat /\ Len(t.heldArtifacts) <= t.prediction + 1
    BY <1>1 DEF GoodTrip
  <2> QED BY <2>1, <1>1, <1>2
<1>8. GoodTrip(r)
  BY <1>5, <1>6, <1>7 DEF GoodTrip
<1>9. ASSUME NEW j, Behind(t, j) PROVE Behind(r, j)
  <2>1. ASSUME NEW x \in 1..Len(j.body.artifacts)
        PROVE  t.sealedFixes /\ j.body.artifacts[x].effective_at <= at
    <3>1. t.sealedFixes /\ j.body.artifacts[x].effective_at <= t.prediction
      BY <1>9 DEF Behind
    <3>2. j.body.artifacts[x].effective_at \in Nat
      BY <1>9, BodyArtifacts DEF Behind
    <3> QED BY <3>1, <3>2, <1>1, <1>2
  <2> QED BY <2>1, <1>5, <1>9 DEF Behind
<1>10. Replacing(t, line) \in Held
  BY <1>2 DEF Replacing, Held, at
<1>11. t.anchors \subseteq private
  BY DEF private
<1> QED BY <1>2, <1>5, <1>8, <1>9, <1>10, <1>11 DEF r, at

(* A reroute of a trip that has sealed fixes seals its artifact at once. *)
LEMMA ReroutedAtOnce ==
  ASSUME NEW t, GoodTrip(t), NEW line \in Routes, clock \in Nat, TakesEffect(t) <= MaxEffective,
         t.sealedFixes
  PROVE  LET r == Rerouted(t, line)
             bodies == ArtifactBodies(Replacing(t, line), r.anchors)
             a == [r EXCEPT !.nextSeq = NextSeqAfter(r, bodies)]
         IN /\ Follows(t, a, Numbered(r, bodies, clock), clock)
            /\ a.anchors = r.anchors /\ a.head = t.head /\ a.sealedFixes = t.sealedFixes
            /\ \A i \in Numbered(r, bodies, clock) : i.part # End
<1> DEFINE r == Rerouted(t, line)
           fa == Replacing(t, line)
           bodies == ArtifactBodies(fa, r.anchors)
           q == NextSeqAfter(r, bodies)
           a == [r EXCEPT !.nextSeq = q]
<1>1. /\ GoodTrip(r) /\ r.tripId = t.tripId /\ r.head = t.head /\ r.nextSeq = t.nextSeq
      /\ r.sealedFixes = t.sealedFixes /\ r.heldArtifacts = t.heldArtifacts
      /\ r.pending = t.pending
      /\ r.prediction = TakesEffect(t) /\ t.prediction < TakesEffect(t)
      /\ TakesEffect(t) \in Nat /\ fa \in Held
      /\ \A j : Behind(t, j) => Behind(r, j)
  BY ReroutedIs
<1>2. r \in TripRecord /\ r.nextSeq \in 0..(MaxSeq + 1) /\ t \in TripRecord
  BY <1>1, TripFields DEF GoodTrip
<1> HIDE DEF r
<1>3. /\ bodies \in Seq(ChunkBody) /\ Len(bodies) <= 1
      /\ \A m \in 1..Len(bodies) : ArtifactOnly(bodies[m], TakesEffect(t), r.anchors)
  <2>1. fa.effective_at = TakesEffect(t)
    BY DEF Replacing
  <2> HIDE DEF fa
  <2>2. CASE bodies = <<>>
    BY <2>2
  <2>3. ASSUME NEW b, bodies = <<b>>, ArtifactOnly(b, TakesEffect(t), r.anchors)
        PROVE  /\ bodies \in Seq(ChunkBody) /\ Len(bodies) <= 1
               /\ \A m \in 1..Len(bodies) : ArtifactOnly(bodies[m], TakesEffect(t), r.anchors)
    <3>1. b \in ChunkBody
      BY <2>3 DEF ArtifactOnly
    <3>2. <<b>> \in Seq(ChunkBody) /\ Len(<<b>>) = 1 /\ <<b>>[1] = b
      BY <3>1
    <3>3. \A m \in 1..Len(<<b>>) : <<b>>[m] = b
      BY <3>2
    <3> HIDE DEF bodies
    <3> QED BY <2>3, <3>2, <3>3
  <2> QED BY <1>1, <2>1, <2>2, <2>3, ArtifactBodiesAre
<1> HIDE DEF fa, bodies
<1>4. PICK k : Numbers(k, r, bodies, clock)
  BY <1>2, <1>3, NumberedAre
<1>5. q \in 0..(MaxSeq + 1)
  <2>1. k \in 0..Len(bodies) /\ q = r.nextSeq + k /\ r.nextSeq + k <= MaxSeq + 1
    BY <1>4 DEF Numbers
  <2>2. k \in Nat
    BY <2>1
  <2> HIDE DEF q
  <2> QED BY <1>2, <2>1, <2>2, SealingAssumption
<1> HIDE DEF q
<1>6. /\ a \in TripRecord /\ a.tripId = t.tripId /\ a.anchors = r.anchors /\ a.head = t.head
      /\ a.pending = t.pending /\ a.nextSeq = q /\ a.sealedFixes = t.sealedFixes
      /\ a.heldArtifacts = t.heldArtifacts /\ a.prediction = TakesEffect(t)
  BY <1>1, <1>2, <1>5 DEF TripRecord
<1>7. GoodTrip(a)
  <2> HIDE DEF a
  <2> QED BY <1>1, <1>6 DEF GoodTrip
<1>8. \A m \in 1..Len(bodies) : /\ MaySeal(a, bodies[m]) /\ Len(bodies[m].fixes) = 0
                                /\ Len(bodies[m].artifacts) = 1
                                /\ bodies[m].artifacts[1].effective_at = TakesEffect(t)
  <2> HIDE DEF a
  <2> SUFFICES ASSUME NEW m \in 1..Len(bodies)
               PROVE  /\ MaySeal(a, bodies[m]) /\ Len(bodies[m].fixes) = 0
                      /\ Len(bodies[m].artifacts) = 1
                      /\ bodies[m].artifacts[1].effective_at = TakesEffect(t)
    OBVIOUS
  <2>1. ArtifactOnly(bodies[m], TakesEffect(t), r.anchors)
    BY <1>3
  <2>2. Len(bodies[m].fixes) = 0 /\ Len(bodies[m].artifacts) = 1
        /\ bodies[m].artifacts[1].effective_at = TakesEffect(t)
    BY <2>1 DEF ArtifactOnly
  <2>3. ValidChunk(bodies[m]) /\ bodies[m] \in ChunkBody
    BY <2>1, ArtifactIsValid DEF ArtifactOnly
  <2>4. ASSUME NEW x \in 1..Len(bodies[m].artifacts)
        PROVE  /\ a.sealedFixes /\ bodies[m].artifacts[x].effective_at <= a.prediction
               /\ \A l \in 1..Len(bodies[m].artifacts[x].line) :
                    ClearOf(Point(bodies[m].artifacts[x].line[l]), a.anchors)
    <3>1. x = 1
      BY <2>2
    <3>2. bodies[m].artifacts[x].effective_at <= a.prediction
      BY <3>1, <2>2, <1>1, <1>6
    <3> QED BY <3>1, <3>2, <2>1, <1>6 DEF ArtifactOnly
  <2> QED BY <2>2, <2>3, <2>4 DEF MaySeal
<1>9. \A m, l \in 1..Len(bodies) : ~(m < l)
  BY <1>3
<1>10. ASSUME NEW j, Behind(t, j), NEW m \in 1..Len(bodies) PROVE BodyBefore(j.body, bodies[m])
  <2>1. ASSUME NEW x \in 1..Len(j.body.artifacts), NEW y \in 1..Len(bodies[m].artifacts)
        PROVE  j.body.artifacts[x].effective_at < bodies[m].artifacts[y].effective_at
    <3>1. y = 1 /\ bodies[m].artifacts[y].effective_at = TakesEffect(t)
      BY <1>8
    <3>2. j.body.artifacts[x].effective_at <= t.prediction
      BY <1>10 DEF Behind
    <3>3. j.body.artifacts[x].effective_at \in Nat
      BY <1>10, BodyArtifacts DEF Behind
    <3>4. t.prediction \in Nat
      BY <1>2, TripFields
    <3> QED BY <3>1, <3>2, <3>3, <3>4, <1>1
  <2> QED BY <2>1, <1>8 DEF BodyBefore, AllBefore
<1>11. Numbered(r, bodies, clock) = Numbered(t, bodies, clock) /\ q = NextSeqAfter(t, bodies)
  BY <1>1 DEF Numbered, NextSeqAfter, q
<1>12. ASSUME NEW j, Behind(t, j) PROVE Behind([a EXCEPT !.nextSeq = t.nextSeq], j)
  <2> DEFINE u == [a EXCEPT !.nextSeq = t.nextSeq]
  <2>1. /\ u.nextSeq = r.nextSeq /\ u.head = r.head /\ u.pending = r.pending
        /\ u.sealedFixes = r.sealedFixes /\ u.prediction = r.prediction
    <3> HIDE DEF a
    <3> QED BY <1>1, <1>6 DEF TripRecord
  <2> HIDE DEF u
  <2>2. Behind(r, j)
    BY <1>1, <1>12
  <2>3. Behind(u, j)
    BY <2>1, <2>2 DEF Behind
  <2> QED BY <2>3 DEF u
<1>13. Follows(t, a, Numbered(t, bodies, clock), clock)
  <2> HIDE DEF a
  <2> QED BY <1>2, <1>3, <1>6, <1>7, <1>8, <1>9, <1>10, <1>11, <1>12, BatchIsNumbered
<1>14. \A i \in Numbered(r, bodies, clock) : i.part # End
  BY <1>2, <1>4, SealingAssumption DEF Numbers, Item
<1> QED BY <1>6, <1>11, <1>13, <1>14 DEF q, bodies, fa, r

(* A reroute of a trip that has sealed no fixes holds its artifact. *)
LEMMA ReroutedHeld ==
  ASSUME NEW t, GoodTrip(t), NEW line \in Routes, clock \in Nat, TakesEffect(t) <= MaxEffective,
         ~t.sealedFixes
  PROVE  LET r == Rerouted(t, line)
             a == [r EXCEPT !.heldArtifacts = Append(@, Replacing(t, line))]
         IN /\ Follows(t, a, {}, clock)
            /\ a.anchors = r.anchors /\ a.head = t.head /\ a.sealedFixes = t.sealedFixes
<1> DEFINE r == Rerouted(t, line)
           fa == Replacing(t, line)
           held == t.heldArtifacts
           more == Append(held, fa)
           a == [r EXCEPT !.heldArtifacts = Append(@, Replacing(t, line))]
<1>1. /\ GoodTrip(r) /\ r.tripId = t.tripId /\ r.head = t.head /\ r.nextSeq = t.nextSeq
      /\ r.sealedFixes = t.sealedFixes /\ r.heldArtifacts = held
      /\ r.pending = t.pending
      /\ r.prediction = TakesEffect(t) /\ t.prediction < TakesEffect(t)
      /\ TakesEffect(t) \in Nat /\ fa \in Held
      /\ \A j : Behind(t, j) => Behind(r, j)
  BY ReroutedIs
<1>2. r \in TripRecord /\ t \in TripRecord /\ held \in Seq(Held) /\ t.prediction \in Nat
  BY <1>1, TripFields DEF GoodTrip
<1>3. fa.effective_at = TakesEffect(t)
  BY DEF Replacing
<1> HIDE DEF r, fa, held
<1>4. /\ more \in Seq(Held) /\ Len(more) = Len(held) + 1 /\ more[Len(held) + 1] = fa
      /\ \A n \in 1..Len(held) : more[n] = held[n]
      /\ Len(held) \in Nat
  BY <1>1, <1>2
<1>5. a = [r EXCEPT !.heldArtifacts = more]
  BY <1>1 DEF fa, held
<1> HIDE DEF more, a
<1>6. /\ a \in TripRecord /\ a.tripId = t.tripId /\ a.anchors = r.anchors /\ a.head = t.head
      /\ a.pending = t.pending /\ a.nextSeq = t.nextSeq /\ a.sealedFixes = t.sealedFixes
      /\ a.heldArtifacts = more /\ a.prediction = TakesEffect(t)
  BY <1>1, <1>2, <1>4, <1>5 DEF TripRecord, Held
<1>7. ASSUME NEW n \in 1..Len(held)
      PROVE  /\ held[n].effective_at \in Nat /\ held[n].effective_at <= t.prediction
             /\ held[n].effective_at < TakesEffect(t)
  <2>1. held[n].effective_at \in Nat
    BY <1>2, HeldFields
  <2>2. held[n].effective_at <= t.prediction
    BY DEF GoodTrip, held
  <2> QED BY <2>1, <2>2, <1>1, <1>2
<1>8. \A n \in 1..Len(more) : n \in 1..Len(held) \/ n = Len(held) + 1
  BY <1>4
<1>9. HeldRising(more)
  <2> SUFFICES ASSUME NEW m \in 1..Len(more), NEW n \in 1..Len(more), m < n
               PROVE  more[m].effective_at < more[n].effective_at
    BY DEF HeldRising
  <2>1. m \in 1..Len(held) /\ more[m] = held[m]
    BY <1>4
  <2>2. CASE n \in 1..Len(held)
    BY <2>1, <2>2, <1>4 DEF GoodTrip, HeldRising, held
  <2>3. CASE n = Len(held) + 1
    <3>1. more[n].effective_at = TakesEffect(t)
      BY <2>3, <1>3, <1>4
    <3> QED BY <3>1, <2>1, <1>7
  <2> QED BY <2>2, <2>3, <1>8
<1>10. ASSUME NEW n \in 1..Len(more) PROVE more[n].effective_at <= TakesEffect(t)
  <2>1. CASE n \in 1..Len(held)
    <3>1. more[n] = held[n]
      BY <2>1, <1>4
    <3>2. held[n].effective_at \in Nat /\ held[n].effective_at < TakesEffect(t)
      BY <2>1, <1>7
    <3> QED BY <3>1, <3>2, <1>1
  <2>2. CASE n = Len(held) + 1
    BY <2>2, <1>1, <1>3, <1>4
  <2> QED BY <2>1, <2>2, <1>8
<1>11. Len(more) <= TakesEffect(t) + 1
  <2>1. Len(held) <= t.prediction + 1
    BY DEF GoodTrip, held
  <2> QED BY <2>1, <1>1, <1>2, <1>4
<1>12. GoodTrip(a)
  BY <1>1, <1>6, <1>9, <1>10, <1>11 DEF GoodTrip
<1>13. ASSUME NEW j, Behind(t, j) PROVE Behind(a, j)
  <2>1. Behind(r, j)
    BY <1>1, <1>13
  <2> QED BY <2>1, <1>1, <1>6 DEF Behind
<1>14. Follows(t, a, {}, clock)
  BY <1>6, <1>12, <1>13, FollowsNothing
<1> QED BY <1>6, <1>14 DEF r, a

(* A trip ends no earlier than its last artifact takes effect. *)
LEMMA EndTimeIs ==
  ASSUME NEW t, GoodTrip(t), NEW at \in Nat
  PROVE  EndTime(t, at) \in Nat /\ t.prediction <= EndTime(t, at)
<1>1. t.prediction \in Nat /\ (t.head = NULL \/ t.head.t \in Nat)
  <2>1. t \in TripRecord
    BY DEF GoodTrip
  <2>2. t.prediction \in Nat /\ t.head \in Fixes \cup {NULL}
    BY <2>1, TripFields
  <2>3. \A f \in Fixes : f.t \in Nat
    BY DeviceAssumption
  <2> QED BY <2>2, <2>3
<1> DEFINE h == IF t.head = NULL THEN 0 ELSE t.head.t
<1>2. h \in Nat
  BY <1>1
<1> HIDE DEF h
<1>3. EndTime(t, at) = Larger(Larger(at, h), t.prediction)
  BY DEF EndTime, h
<1> QED BY <1>1, <1>2, <1>3 DEF Larger

(* The final seal and the end follow what was sealed before. *)
LEMMA FinalIs ==
  ASSUME NEW t, GoodTrip(t), NEW arrived \in BOOLEAN, NEW at \in Nat, clock \in Nat
  PROVE  LET s == Final(t, arrived, EndTime(t, at), clock)
         IN /\ Follows(t, s.trip, s.items, clock)
            /\ s.trip.anchors = t.anchors /\ s.trip.head = t.head
            /\ Len(t.heldArtifacts) <= MaxSeq /\ s.trip.sealedFixes =>
                 t.sealedFixes \/ \E i \in s.items : i.part # End /\ Len(i.body.fixes) > 0
<1> DEFINE z == Seal(t, clock)
           endedAt == EndTime(t, at)
           e == Item(t.tripId, End, EndBody(t, arrived, endedAt), clock)
           s == Final(t, arrived, endedAt, clock)
<1>1. /\ Follows(t, z.trip, z.items, clock)
      /\ z.trip.anchors = t.anchors /\ z.trip.head = t.head
      /\ \A i \in z.items : i.part # End
      /\ Len(t.heldArtifacts) <= MaxSeq /\ z.trip.sealedFixes =>
           t.sealedFixes \/ \E i \in z.items : Len(i.body.fixes) > 0
  BY SealIs
<1>2. endedAt \in Nat /\ t.prediction <= endedAt
  BY EndTimeIs
<1>3. t \in TripRecord /\ t.tripId \in Trips /\ t.prediction \in Nat
  BY TripFields DEF GoodTrip
<1> HIDE DEF z, endedAt
<1>4. s.trip = z.trip /\ s.items = z.items \cup {e}
  BY DEF Final, Sealed, z
<1>5. e.trip = t.tripId /\ e.part = End /\ e.createdAt = clock
      /\ e.body = [ended_at |-> endedAt, arrived |-> arrived, effective_at |-> t.prediction]
  BY DEF Item, EndBody
<1>6. GoodItem(e)
  BY <1>2, <1>3, <1>5 DEF GoodItem, EndBodies, ValidEnd
<1> HIDE DEF e, s
<1>7. \A i \in z.items : i.part \in Nat
  BY <1>1, SealingAssumption DEF Follows, GoodItem
<1>8. ASSUME NEW j, Behind(t, j) PROVE Behind(z.trip, j) /\ \A i \in s.items : ItemBefore(j, i)
  <2>1. Behind(z.trip, j) /\ \A i \in z.items : ItemBefore(j, i)
    BY <1>1, <1>8 DEF Follows
  <2>2. ItemBefore(j, e)
    BY <1>5, <1>8 DEF Behind, ItemBefore
  <2> QED BY <2>1, <2>2, <1>4
<1>9. \A i \in z.items : ItemBefore(i, e)
  BY <1>5, <1>7 DEF ItemBefore
<1>10. \A i, j \in s.items : i = j \/ ItemBefore(i, j) \/ ItemBefore(j, i)
  <2>1. \A i, j \in z.items : i = j \/ ItemBefore(i, j) \/ ItemBefore(j, i)
    BY <1>1 DEF Follows
  <2> QED BY <2>1, <1>4, <1>9
<1>11. ASSUME NEW i \in s.items
       PROVE  /\ GoodItem(i) /\ i.trip = z.trip.tripId /\ i.createdAt = clock
              /\ i.part # End => i.part < z.trip.nextSeq /\ MaySeal(z.trip, i.body)
  <2>1. z.trip.tripId = t.tripId
    BY <1>1 DEF Follows
  <2>2. CASE i = e
    BY <2>1, <2>2, <1>5, <1>6
  <2>3. CASE i \in z.items
    BY <2>3, <1>1 DEF Follows
  <2> QED BY <2>2, <2>3, <1>4
<1>12. GoodTrip(z.trip) /\ z.trip.tripId = t.tripId
  BY <1>1 DEF Follows
<1>13. Follows(t, z.trip, s.items, clock)
  BY <1>8, <1>10, <1>11, <1>12 DEF Follows
<1> QED BY <1>1, <1>4, <1>13 DEF s, endedAt

-----------------------------------------------------------------------------
(* Commits, the queue of transactions and the inductive invariant. *)

(* A live trip is sound against what was sealed so far.                     *)
Sound(t, S) == GoodTrip(t) /\ \A i \in S : i.trip = t.tripId => Behind(t, i)

Orderly(S) ==
  /\ \A i \in S : GoodItem(i)
  /\ \A i, j \in S : i.trip = j.trip => i = j \/ ItemBefore(i, j) \/ ItemBefore(j, i)

(* Items about to be sealed with their trip t.                              *)
Proposed(t, items, S) ==
  /\ Sound(t, S)
  /\ \A i \in items :
       /\ GoodItem(i) /\ i.trip = t.tripId
       /\ i.part # End => i.part < t.nextSeq /\ MaySeal(t, i.body)
       /\ \A j \in S : j.trip = t.tripId => ItemBefore(j, i)
  /\ \A i, j \in items : i = j \/ ItemBefore(i, j) \/ ItemBefore(j, i)

(* What follows a sound trip may be committed with it. *)
LEMMA FollowedIsProposed ==
  ASSUME NEW t0, NEW t, NEW items, NEW now, NEW S, Sound(t0, S), Follows(t0, t, items, now)
  PROVE  Proposed(t, items, S)
<1>1. GoodTrip(t) /\ t.tripId = t0.tripId
  BY DEF Follows
<1>2. \A j \in S : j.trip = t.tripId => Behind(t, j) /\ \A i \in items : ItemBefore(j, i)
  BY <1>1 DEF Follows, Sound
<1> QED BY <1>1, <1>2 DEF Proposed, Sound, Follows

(* Committing what is proposed keeps the parts of every trip in order. *)
LEMMA CommitKeepsOrder ==
  ASSUME NEW t, NEW items, NEW S, Orderly(S), Proposed(t, items, S)
  PROVE  Orderly(S \cup items)
BY DEF Orderly, Proposed

(* Committing chunks keeps their own trip sound. *)
LEMMA CommitKeepsTrip ==
  ASSUME NEW t, NEW items, NEW S, Proposed(t, items, S), \A i \in items : i.part # End
  PROVE  Sound(t, S \cup items)
<1>1. t \in TripRecord
  BY DEF Proposed, Sound, GoodTrip
<1>2. ASSUME NEW i \in items PROVE Behind(t, i)
  <2>1. i.part \in Nat /\ i.part < t.nextSeq /\ MaySeal(t, i.body)
    BY SealingAssumption DEF Proposed, GoodItem
  <2> QED BY <1>1, <2>1, SealableIsBehind
<1> QED BY <1>2 DEF Proposed, Sound

(* Committing chunks of one trip keeps every other trip sound. *)
LEMMA CommitKeepsOthers ==
  ASSUME NEW t, NEW items, NEW S, Proposed(t, items, S), NEW u, Sound(u, S), u.tripId # t.tripId
  PROVE  Sound(u, S \cup items)
BY DEF Proposed, Sound

(* The queue: at most one transaction of the operation, one of the drain.   *)
Queued(q, os, ds) ==
  \/ q = <<>> /\ os = {} /\ ds = {}
  \/ \E o : q = << <<"op", o>> >> /\ os = {o} /\ ds = {}
  \/ \E d : q = << <<"drain", d>> >> /\ os = {} /\ ds = {d}
  \/ \E o, d : q = << <<"op", o>>, <<"drain", d>> >> /\ os = {o} /\ ds = {d}
  \/ \E o, d : q = << <<"drain", d>>, <<"op", o>> >> /\ os = {o} /\ ds = {d}

(* Appending to a queue of one. *)
LEMMA AppendPair ==
  ASSUME NEW x, NEW y
  PROVE  Append(<<x>>, y) = <<x, y>>
<1> DEFINE T == {x, y}
           a == Append(<<x>>, y)
           b == <<x, y>>
<1>1. <<x>> \in Seq(T) /\ Len(<<x>>) = 1 /\ <<x>>[1] = x /\ y \in T
  OBVIOUS
<1>2. b \in Seq(T) /\ Len(b) = 2 /\ b[1] = x /\ b[2] = y
  OBVIOUS
<1>3. a \in Seq(T) /\ Len(a) = 2 /\ a[1] = x /\ a[2] = y
  BY <1>1, AppendProperties
<1> HIDE DEF a, b, T
<1>4. \A n \in 1..Len(a) : a[n] = b[n]
  BY <1>2, <1>3
<1>5. a = b
  BY <1>2, <1>3, <1>4, SeqEqual
<1> QED BY <1>5 DEF a, b

(* The operation queues its transaction. *)
LEMMA OpQueues ==
  ASSUME NEW q, NEW ds, Queued(q, {}, ds), NEW o
  PROVE  Queued(Append(q, <<"op", o>>), {o}, ds)
<1>1. CASE q = <<>> /\ ds = {}
  BY <1>1 DEF Queued
<1>2. ASSUME NEW d, q = << <<"drain", d>> >>, ds = {d}
      PROVE  Queued(Append(q, <<"op", o>>), {o}, ds)
  <2>1. Append(q, <<"op", o>>) = << <<"drain", d>>, <<"op", o>> >>
    BY <1>2, AppendPair
  <2> QED BY <1>2, <2>1 DEF Queued
<1> QED BY <1>1, <1>2 DEF Queued

(* The drain queues its transaction. *)
LEMMA DrainQueues ==
  ASSUME NEW q, NEW os, Queued(q, os, {}), NEW d
  PROVE  Queued(Append(q, <<"drain", d>>), os, {d})
<1>1. CASE q = <<>> /\ os = {}
  BY <1>1 DEF Queued
<1>2. ASSUME NEW o, q = << <<"op", o>> >>, os = {o}
      PROVE  Queued(Append(q, <<"drain", d>>), os, {d})
  <2>1. Append(q, <<"drain", d>>) = << <<"op", o>>, <<"drain", d>> >>
    BY <1>2, AppendPair
  <2> QED BY <1>2, <2>1 DEF Queued
<1> QED BY <1>1, <1>2 DEF Queued

(* The operation's transaction leaves the queue. *)
LEMMA OpLeaves ==
  ASSUME NEW q, NEW os, NEW ds, Queued(q, os, ds), q # <<>>, q[1][1] = "op"
  PROVE  os = {q[1][2]} /\ Queued(Tail(q), {}, ds)
<1>1. ASSUME NEW o, q = << <<"op", o>> >>, os = {o}, ds = {}
      PROVE  os = {q[1][2]} /\ Queued(Tail(q), {}, ds)
  <2>1. q[1] = <<"op", o>> /\ Tail(q) = <<>>
    BY <1>1
  <2> QED BY <1>1, <2>1 DEF Queued
<1>2. ASSUME NEW o, NEW d, q = << <<"op", o>>, <<"drain", d>> >>, os = {o}, ds = {d}
      PROVE  os = {q[1][2]} /\ Queued(Tail(q), {}, ds)
  <2>1. q[1] = <<"op", o>> /\ Tail(q) = << <<"drain", d>> >>
    BY <1>2
  <2> QED BY <1>2, <2>1 DEF Queued
<1>3. ASSUME NEW o, NEW d, q = << <<"drain", d>>, <<"op", o>> >> \/ q = << <<"drain", d>> >>
      PROVE  FALSE
  BY <1>3
<1> QED BY <1>1, <1>2, <1>3 DEF Queued

(* The drain's transaction leaves the queue. *)
LEMMA DrainLeaves ==
  ASSUME NEW q, NEW os, NEW ds, Queued(q, os, ds), q # <<>>, q[1][1] = "drain"
  PROVE  ds = {q[1][2]} /\ Queued(Tail(q), os, {})
<1>1. ASSUME NEW d, q = << <<"drain", d>> >>, ds = {d}, os = {}
      PROVE  ds = {q[1][2]} /\ Queued(Tail(q), os, {})
  <2>1. q[1] = <<"drain", d>> /\ Tail(q) = <<>>
    BY <1>1
  <2> QED BY <1>1, <2>1 DEF Queued
<1>2. ASSUME NEW o, NEW d, q = << <<"drain", d>>, <<"op", o>> >>, os = {o}, ds = {d}
      PROVE  ds = {q[1][2]} /\ Queued(Tail(q), os, {})
  <2>1. q[1] = <<"drain", d>> /\ Tail(q) = << <<"op", o>> >>
    BY <1>2
  <2> QED BY <1>2, <2>1 DEF Queued
<1>3. ASSUME NEW o, NEW d, q = << <<"op", o>>, <<"drain", d>> >> \/ q = << <<"op", o>> >>
      PROVE  FALSE
  BY <1>3
<1> QED BY <1>1, <1>2, <1>3 DEF Queued

(* At most two transactions are queued. *)
LEMMA QueuedLen ==
  ASSUME NEW q, NEW os, NEW ds, Queued(q, os, ds)
  PROVE  Len(q) <= 2
<1>1. ASSUME NEW x, NEW y, q \in {<<>>, <<x>>, <<x, y>>} PROVE Len(q) <= 2
  BY <1>1
<1> QED BY <1>1 DEF Queued

(* The item the drain sends is one of the queue.                            *)
LEMMA FirstOfIs ==
  ASSUME NEW S, S # {}, \A i \in S : GoodItem(i)
  PROVE  /\ FirstOf(S) \in S
         /\ \A j \in S \ {FirstOf(S)} : ~OutboxBefore(j, FirstOf(S))
<1> DEFINE First(i) == \A j \in S \ {i} : ~OutboxBefore(j, i)
           Times == {i.createdAt : i \in S}
<1>1. /\ Times \subseteq Nat /\ Times # {}
      /\ \A i \in S : i.createdAt \in Nat /\ i.trip \in Nat /\ i.part \in Nat \cup {End}
      /\ End \notin Nat
  <2>1. Trips \subseteq Nat /\ End \notin Nat /\ \A n \in 0..MaxSeq : n \in Nat
    BY DeviceAssumption, SealingAssumption
  <2>2. \A i \in S : i.createdAt \in Nat /\ i.trip \in Nat /\ i.part \in Nat \cup {End}
    BY <2>1 DEF GoodItem
  <2> QED BY <2>1, <2>2
<1>2. PICK c \in Times : \A d \in Times : c <= d
  <2> HIDE DEF Times
  <2> QED BY <1>1, LeastNat
<1> DEFINE Old == {i \in S : i.createdAt = c}
           Ids == {i.trip : i \in Old}
<1>3. Ids \subseteq Nat /\ Ids # {} /\ \A j \in S : c <= j.createdAt
  BY <1>1, <1>2
<1>4. PICK id \in Ids : \A e \in Ids : id <= e
  <2> HIDE DEF Ids
  <2> QED BY <1>3, LeastNat
<1> DEFINE Mine == {i \in Old : i.trip = id}
           Parts == {i.part : i \in {k \in Mine : k.part # End}}
<1>5. Mine # {} /\ Parts \subseteq Nat
  BY <1>1, <1>4
<1>6. \E i \in Mine : \/ i.part = End /\ Parts = {}
                      \/ i.part \in Parts /\ \A p \in Parts : i.part <= p
  <2>1. CASE Parts = {}
    BY <2>1, <1>5
  <2>2. CASE Parts # {}
    <3>1. PICK p \in Parts : \A q \in Parts : p <= q
      <4> HIDE DEF Parts
      <4> QED BY <2>2, <1>5, LeastNat
    <3> QED BY <3>1
  <2> QED BY <2>1, <2>2
<1>7. PICK i \in Mine : \/ i.part = End /\ Parts = {}
                        \/ i.part \in Parts /\ \A p \in Parts : i.part <= p
  BY <1>6
<1>8. i \in S /\ First(i)
  <2>1. i \in S /\ i.createdAt = c /\ i.trip = id
    BY <1>7
  <2>2. ASSUME NEW j \in S, OutboxBefore(j, i) PROVE FALSE
    <3>1. j.createdAt \in Nat /\ c \in Nat /\ c <= j.createdAt
      BY <1>1, <1>3, <2>1
    <3>2. /\ j.createdAt = c
          /\ \/ j.trip < id
             \/ j.trip = id /\ PartBefore(j.part, i.part)
      <4>1. \/ j.createdAt < c
            \/ /\ j.createdAt = c
               /\ \/ j.trip < id
                  \/ j.trip = id /\ PartBefore(j.part, i.part)
        BY <2>1, <2>2, Zenon DEF OutboxBefore
      <4>2. ~(j.createdAt < c)
        BY <3>1
      <4> QED BY <4>1, <4>2, Zenon
    <3>3. j \in Old /\ j.trip \in Ids /\ id <= j.trip
      BY <3>2, <1>4
    <3>4. j.trip \in Nat /\ id \in Nat
      BY <1>1, <2>1
    <3>5. j.trip = id /\ PartBefore(j.part, i.part)
      BY <3>2, <3>3, <3>4
    <3>6. j.part \in Parts /\ j.part \in Nat
      BY <3>3, <3>5, <1>1 DEF PartBefore
    <3>7. i.part \in Parts /\ i.part <= j.part /\ i.part \in Nat
      BY <3>6, <1>5, <1>7
    <3>8. j.part < i.part
      BY <3>5, <3>7, <1>1 DEF PartBefore
    <3> QED BY <3>6, <3>7, <3>8
  <2> QED BY <2>1, <2>2
<1>9. FirstOf(S) = CHOOSE k \in S : First(k)
  BY DEF FirstOf
<1> HIDE DEF First
<1>10. FirstOf(S) \in S /\ First(FirstOf(S))
  BY <1>8, <1>9
<1> QED BY <1>10 DEF First

(* The invariant.                                                           *)
Storing == {"put", "finalize"}
Waits == {"load", "optIn", "setEnabled", "forgetLoad", "forget"} \cup Storing

Open(t) == IF t = NULL THEN {} ELSE {t}
Pending == IF op.await \in Storing THEN {op.t} ELSE {}
Live == disk.trips \cup Open(trip) \cup Pending

(* What the operation, or the drain, has queued.                            *)
OpOps(o) ==
  /\ op.await \in Waits
  /\ op.await \in {"load", "forgetLoad"} => o = NoOps
  /\ op.await \in {"optIn", "setEnabled"} =>
       \E s \in Settings : o = [NoOps EXCEPT !.settings = {s}]
  /\ op.await = "forget" =>
       /\ o.settings = {NULL} /\ o.putTrips = {} /\ o.putOutbox = {}
       /\ {t.tripId : t \in disk.trips} \subseteq o.deleteTrips
       /\ {Key(i) : i \in disk.outbox} \subseteq o.deleteOutbox
  /\ op.await = "put" => o = [NoOps EXCEPT !.putTrips = {op.t}, !.putOutbox = op.items]
  /\ op.await = "finalize" => o = FinalOps(op.t, op.items)

DrainOps(d) ==
  \/ drain.await = "delete" /\ d = [NoOps EXCEPT !.deleteOutbox = {Key(drain.item)}]
  \/ drain.await = "reject" /\ \E s \in Settings : d = [NoOps EXCEPT !.settings = {s}]

QueueInv ==
  \E os, ds : /\ Queued(txns, os, ds)
              /\ \A o \in os : OpOps(o)
              /\ \A d \in ds : DrainOps(d)

TypeInv ==
  /\ settings \in Settings \cup {NULL} /\ disk.settings \in Settings \cup {NULL}
  /\ retry \in BOOLEAN /\ clock \in 0..MaxClock /\ crashes \in 0..MaxCrashes

ItemInv ==
  /\ Orderly(sealed)
  /\ outbox \subseteq sealed /\ disk.outbox \subseteq sealed /\ sent \subseteq sealed
  /\ \/ drain = Idle \/ drain.await = "reject"
     \/ drain.await \in {"answer", "delete"} /\ drain.item \in sealed

TripInv ==
  /\ \A t \in Live : Sound(t, sealed)
  /\ \A t, u \in disk.trips : t.tripId = u.tripId => t = u

OpInv ==
  /\ op.await \in Waits \cup {"nothing", "launch", "me"}
  /\ op.await = "nothing" => op = Idle
  /\ op.await \in {"launch", "load"} => trip = NULL
  /\ op.await = "me" => op.token \in Tokens
  /\ op.await \in Storing => Proposed(op.t, op.items, sealed)
  /\ op.await = "put" => trip = op.t /\ \A i \in op.items : i.part # End
  /\ op.await = "finalize" =>
       \/ op.then.do = "leave" /\ trip = op.t
       \/ /\ op.then.do = "start" /\ trip = op.t
          /\ op.then.line \in Routes /\ op.then.destination \in Destinations
       \/ /\ op.then.do = "orphans" /\ trip = NULL
          /\ op.then.trips = {u \in disk.trips : u.tripId # op.t.tripId}

Inv == TypeInv /\ QueueInv /\ ItemInv /\ TripInv /\ OpInv

FreeForOp(q) == \E ds : Queued(q, {}, ds) /\ \A d \in ds : DrainOps(d)
FreeForDrain(q) == \E os : Queued(q, os, {}) /\ \A o \in os : OpOps(o)

(* An operation that awaits no storage has nothing queued. *)
LEMMA NoOpQueued ==
  ASSUME QueueInv, op.await \notin Waits
  PROVE  FreeForOp(txns)
<1>1. PICK os, ds : Queued(txns, os, ds) /\ (\A o \in os : OpOps(o)) /\ \A d \in ds : DrainOps(d)
  BY DEF QueueInv
<1>2. os = {}
  BY <1>1 DEF OpOps
<1> QED BY <1>1, <1>2 DEF FreeForOp

(* The operation's transaction is what the operation awaits, and it has no  *)
(* other.                                                                   *)
LEMMA OpIsDone ==
  ASSUME QueueInv, Front("op")
  PROVE  OpOps(txns[1][2]) /\ FreeForOp(Tail(txns))
<1>1. PICK os, ds : Queued(txns, os, ds) /\ (\A o \in os : OpOps(o)) /\ \A d \in ds : DrainOps(d)
  BY DEF QueueInv
<1>2. os = {txns[1][2]} /\ Queued(Tail(txns), {}, ds)
  BY <1>1, OpLeaves DEF Front
<1> QED BY <1>1, <1>2 DEF FreeForOp

(* A drain that awaits no storage has nothing queued. *)
LEMMA NoDrainQueued ==
  ASSUME QueueInv, drain.await \notin {"delete", "reject"}
  PROVE  FreeForDrain(txns)
<1>1. PICK os, ds : Queued(txns, os, ds) /\ (\A o \in os : OpOps(o)) /\ \A d \in ds : DrainOps(d)
  BY DEF QueueInv
<1>2. ds = {}
  BY <1>1 DEF DrainOps
<1> QED BY <1>1, <1>2 DEF FreeForDrain

(* The drain's transaction is what the drain awaits, and it has no other. *)
LEMMA DrainIsDone ==
  ASSUME QueueInv, Front("drain")
  PROVE  DrainOps(txns[1][2]) /\ FreeForDrain(Tail(txns))
<1>1. PICK os, ds : Queued(txns, os, ds) /\ (\A o \in os : OpOps(o)) /\ \A d \in ds : DrainOps(d)
  BY DEF QueueInv
<1>2. ds = {txns[1][2]} /\ Queued(Tail(txns), os, {})
  BY <1>1, DrainLeaves DEF Front
<1> QED BY <1>1, <1>2 DEF FreeForDrain

(* The operation calls a transaction, or leaves none.                       *)
LEMMA OpCalls ==
  ASSUME NEW q, NEW o, FreeForOp(q), Call(q, "op", o), OpOps(o)', drain' = drain
  PROVE  QueueInv'
<1>1. PICK ds : Queued(q, {}, ds) /\ \A d \in ds : DrainOps(d)
  BY DEF FreeForOp
<1>2. Queued(txns', {o}, ds)
  BY <1>1, OpQueues DEF Call
<1>3. \A d \in ds : DrainOps(d)'
  BY <1>1 DEF DrainOps
<1> QED BY <1>2, <1>3 DEF QueueInv

(* The operation goes on without a transaction. *)
LEMMA OpLeavesNone ==
  ASSUME NEW q, FreeForOp(q), txns' = q, drain' = drain \/ drain = Idle
  PROVE  QueueInv'
<1>1. PICK ds : Queued(q, {}, ds) /\ \A d \in ds : DrainOps(d)
  BY DEF FreeForOp
<1>2. \A d \in ds : DrainOps(d)'
  BY <1>1 DEF DrainOps, Idle
<1> QED BY <1>1, <1>2 DEF QueueInv

(* The drain calls a transaction. *)
LEMMA DrainCalls ==
  ASSUME NEW q, NEW d, FreeForDrain(q), Call(q, "drain", d), DrainOps(d)',
         \A o : OpOps(o) => OpOps(o)'
  PROVE  QueueInv'
<1>1. PICK os : Queued(q, os, {}) /\ \A o \in os : OpOps(o)
  BY DEF FreeForDrain
<1>2. Queued(txns', os, {d})
  BY <1>1, DrainQueues DEF Call
<1> QED BY <1>1, <1>2 DEF QueueInv

(* The drain goes on without a transaction. *)
LEMMA DrainLeavesNone ==
  ASSUME NEW q, FreeForDrain(q), txns' = q, \A o : OpOps(o) => OpOps(o)'
  PROVE  QueueInv'
<1>1. PICK os : Queued(q, os, {}) /\ \A o \in os : OpOps(o)
  BY DEF FreeForDrain
<1> QED BY <1>1 DEF QueueInv

(* A step beside the operation. *)
Aside ==
  /\ op' = op /\ trip' = trip /\ sealed' = sealed
  /\ disk'.trips = disk.trips /\ disk'.outbox \subseteq disk.outbox

(* A step beside the operation keeps the trips and the operation as they    *)
(* are.                                                                     *)
LEMMA AsideKeeps ==
  ASSUME Aside, TripInv, OpInv
  PROVE  TripInv' /\ OpInv' /\ \A o : OpOps(o) => OpOps(o)'
<1>1. TripInv'
  BY DEF Aside, TripInv, Live, Pending, Sound
<1>2. OpInv'
  BY DEF Aside, OpInv
<1>3. \A o : OpOps(o) => OpOps(o)'
  BY DEF Aside, OpOps
<1> QED BY <1>1, <1>2, <1>3

(* What a drain's transaction does to the disk. *)
LEMMA DrainApplied ==
  ASSUME NEW d, DrainOps(d)
  PROVE  /\ Applied(disk, d).trips = disk.trips
         /\ Applied(disk, d).outbox \subseteq disk.outbox
         /\ Applied(disk, d).settings \in Settings \cup {disk.settings}
         /\ d.putOutbox = {}
<1>1. /\ d.putTrips = {} /\ d.deleteTrips = {} /\ d.putOutbox = {}
      /\ d.settings = {} \/ \E s \in Settings : d.settings = {s}
  BY DEF DrainOps, NoOps
<1>2. ASSUME NEW s \in Settings, d.settings = {s}
      PROVE  Applied(disk, d).settings \in Settings
  <2>1. (CHOOSE x \in {s} : TRUE) = s
    OBVIOUS
  <2> QED BY <1>2, <2>1 DEF Applied
<1> QED BY <1>1, <1>2 DEF Applied

(* flush sends an item of the outbox, or joins the drain that runs. *)
LEMMA FlushIs ==
  ASSUME NEW s, NEW ob, NEW rt, NEW S, Flush(s, ob, rt), Orderly(S), ob \subseteq S, sent \subseteq S
  PROVE  /\ sent' \subseteq S
         /\ \/ drain' = drain
            \/ /\ drain = Idle
               /\ drain' = Idle \/ (drain'.await = "answer" /\ drain'.item \in S)
<1>1. CASE drain # Idle
  BY <1>1 DEF Flush
<1>2. CASE drain = Idle
  <2> DEFINE d == Looped(s, ob, rt)
  <2>1. d = Idle \/ (d.await = "answer" /\ d.item \in S)
    <3>1. ob # {} => FirstOf(ob) \in S
      <4>1. \A i \in ob : GoodItem(i)
        BY DEF Orderly
      <4> QED BY <4>1, FirstOfIs
    <3> QED BY <3>1 DEF Looped
  <2>2. drain' = d /\ sent' = IF d.await = "answer" THEN sent \cup {d.item} ELSE sent
    BY <1>2 DEF Flush, Loop, Sends
  <2> HIDE DEF d
  <2> QED BY <1>2, <2>1, <2>2 DEF Idle
<1> QED BY <1>1, <1>2

(* The drain's loop sends the first item of the outbox, or ends. *)
LEMMA LoopIs ==
  ASSUME NEW s, NEW ob, NEW rt, NEW S, Loop(s, ob, rt), Orderly(S), ob \subseteq S, sent \subseteq S
  PROVE  sent' \subseteq S /\ (drain' = Idle \/ (drain'.await = "answer" /\ drain'.item \in S))
<1> DEFINE d == Looped(s, ob, rt)
<1>1. d = Idle \/ (d.await = "answer" /\ d.item \in S)
  <2>1. ob # {} => FirstOf(ob) \in S
    <3>1. \A i \in ob : GoodItem(i)
      BY DEF Orderly
    <3> QED BY <3>1, FirstOfIs
  <2> QED BY <2>1 DEF Looped
<1>2. drain' = d /\ sent' = IF d.await = "answer" THEN sent \cup {d.item} ELSE sent
  BY DEF Loop, Sends
<1> HIDE DEF d
<1> QED BY <1>1, <1>2 DEF Idle

(* The drain's steps. *)
LEMMA DrainAnswerInv ==
  ASSUME Inv, NEW kind \in Kinds, DrainAnswer(kind)
  PROVE  Inv'
<1> USE DEF Inv
<1>1. Aside
  BY DEF DrainAnswer, Aside
<1>2. TripInv' /\ OpInv' /\ \A o : OpOps(o) => OpOps(o)'
  BY <1>1, AsideKeeps
<1>3. drain.item \in sealed /\ drain.await = "answer"
  BY DEF ItemInv, DrainAnswer, Idle
<1>4. FreeForDrain(txns)
  BY <1>3, NoDrainQueued
<1>5. CASE kind \in {"done", "permanent"}
  <2>0. PICK d : d = [NoOps EXCEPT !.deleteOutbox = {Key(drain.item)}]
    OBVIOUS
  <2>1. Call(txns, "drain", d) /\ drain' = [await |-> "delete", item |-> drain.item]
        /\ UNCHANGED <<settings, retry, outbox, disk, clock, crashes, sealed, sent>>
    BY <1>5, <2>0 DEF DrainAnswer
  <2>2. DrainOps(d)'
    BY <2>0, <2>1 DEF DrainOps
  <2>3. QueueInv'
    BY <1>2, <1>4, <2>1, <2>2, DrainCalls
  <2>4. ItemInv'
    BY <1>3, <2>1 DEF ItemInv
  <2>5. TypeInv'
    BY <2>1 DEF TypeInv
  <2> QED BY <1>2, <2>3, <2>4, <2>5
<1>6. CASE kind = "unauthorized" /\ settings = NULL
  <2>1. drain' = Idle /\ UNCHANGED <<settings, retry, txns, outbox, disk, clock, crashes, sealed, sent>>
    BY <1>6 DEF DrainAnswer
  <2>2. QueueInv'
    BY <1>2, <1>4, <2>1, DrainLeavesNone
  <2>3. ItemInv' /\ TypeInv'
    BY <2>1 DEF ItemInv, TypeInv
  <2> QED BY <1>2, <2>2, <2>3
<1>7. CASE kind = "unauthorized" /\ settings # NULL
  <2>0. PICK s, d : s = [settings EXCEPT !.rejected = TRUE] /\ d = [NoOps EXCEPT !.settings = {s}]
    OBVIOUS
  <2>1. /\ Call(txns, "drain", d) /\ drain' = [await |-> "reject"] /\ settings' = s
        /\ UNCHANGED <<retry, outbox, disk, clock, crashes, sealed, sent>>
    BY <1>7, <2>0 DEF DrainAnswer
  <2>2. s \in Settings
    BY <1>7, <2>0 DEF TypeInv, Settings
  <2>3. DrainOps(d)'
    BY <2>0, <2>1, <2>2 DEF DrainOps
  <2>4. QueueInv'
    BY <1>2, <1>4, <2>1, <2>3, DrainCalls
  <2>5. ItemInv' /\ TypeInv'
    BY <2>1, <2>2 DEF ItemInv, TypeInv
  <2> QED BY <1>2, <2>4, <2>5
<1>8. CASE kind = "transient"
  <2>1. drain' = Idle /\ retry' = TRUE
        /\ UNCHANGED <<settings, txns, outbox, disk, clock, crashes, sealed, sent>>
    BY <1>8 DEF DrainAnswer
  <2>2. QueueInv'
    BY <1>2, <1>4, <2>1, DrainLeavesNone
  <2>3. ItemInv' /\ TypeInv'
    BY <2>1 DEF ItemInv, TypeInv
  <2> QED BY <1>2, <2>2, <2>3
<1> QED BY <1>5, <1>6, <1>7, <1>8 DEF Kinds

(* A committed transaction of the drain leaves the trips alone. *)
LEMMA DrainCommitted ==
  ASSUME Inv, Commits("drain"), op' = op, trip' = trip
  PROVE  /\ TripInv' /\ OpInv' /\ \A o : OpOps(o) => OpOps(o)'
         /\ sealed' = sealed /\ disk'.outbox \subseteq disk.outbox
         /\ disk'.trips = disk.trips
         /\ disk'.settings \in Settings \cup {disk.settings}
         /\ FreeForDrain(Tail(txns)) /\ DrainOps(txns[1][2])
<1>1. DrainOps(txns[1][2]) /\ FreeForDrain(Tail(txns))
  BY DrainIsDone DEF Inv, Commits
<1>2. /\ disk'.trips = disk.trips /\ disk'.outbox \subseteq disk.outbox
      /\ disk'.settings \in Settings \cup {disk.settings} /\ sealed' = sealed
  BY <1>1, DrainApplied DEF Commits
<1>3. Aside
  BY <1>2 DEF Aside
<1> QED BY <1>1, <1>2, <1>3, AsideKeeps DEF Inv

(* The drain goes on after its delete. *)
LEMMA DrainDeletedInv ==
  ASSUME Inv, DrainDeleted
  PROVE  Inv'
<1>1. /\ Commits("drain") /\ op' = op /\ trip' = trip /\ txns' = Tail(txns)
      /\ UNCHANGED <<settings, retry, clock, crashes>>
      /\ outbox' \subseteq outbox /\ Loop(settings, outbox', retry)
  BY DEF DrainDeleted
<1>2. /\ TripInv' /\ OpInv' /\ \A o : OpOps(o) => OpOps(o)'
      /\ sealed' = sealed /\ disk'.outbox \subseteq disk.outbox
      /\ disk'.settings \in Settings \cup {disk.settings} /\ FreeForDrain(Tail(txns))
  BY <1>1, DrainCommitted
<1>3. QueueInv'
  BY <1>1, <1>2, DrainLeavesNone
<1>4. sent' \subseteq sealed /\ (drain' = Idle \/ (drain'.await = "answer" /\ drain'.item \in sealed))
  BY <1>1, LoopIs DEF Inv, ItemInv
<1>5. ItemInv' /\ TypeInv'
  BY <1>1, <1>2, <1>4 DEF Inv, ItemInv, TypeInv
<1> QED BY <1>2, <1>3, <1>5 DEF Inv

(* The drain ends after a rejected token. *)
LEMMA DrainRejectedInv ==
  ASSUME Inv, DrainRejected
  PROVE  Inv'
<1>1. /\ Commits("drain") /\ op' = op /\ trip' = trip /\ txns' = Tail(txns)
      /\ UNCHANGED <<settings, retry, outbox, clock, crashes, sent>> /\ drain' = Idle
  BY DEF DrainRejected, memory
<1>2. /\ TripInv' /\ OpInv' /\ \A o : OpOps(o) => OpOps(o)'
      /\ sealed' = sealed /\ disk'.outbox \subseteq disk.outbox
      /\ disk'.settings \in Settings \cup {disk.settings} /\ FreeForDrain(Tail(txns))
  BY <1>1, DrainCommitted
<1>3. QueueInv'
  BY <1>1, <1>2, DrainLeavesNone
<1>4. ItemInv' /\ TypeInv'
  BY <1>1, <1>2 DEF Inv, ItemInv, TypeInv
<1> QED BY <1>2, <1>3, <1>4 DEF Inv

(* The drain ends after a transaction that failed. *)
LEMMA DrainFailedInv ==
  ASSUME Inv, DrainFailed
  PROVE  Inv'
<1>1. /\ Front("drain") /\ txns' = Tail(txns) /\ drain' = Idle
      /\ UNCHANGED <<settings, trip, outbox, retry, op, disk, clock, crashes, sealed, sent>>
  BY DEF DrainFailed, memory, history
<1>2. FreeForDrain(Tail(txns))
  BY <1>1, DrainIsDone DEF Inv
<1>3. TripInv' /\ OpInv' /\ \A o : OpOps(o) => OpOps(o)'
  BY <1>1, AsideKeeps DEF Aside, Inv
<1>4. QueueInv'
  BY <1>1, <1>2, <1>3, DrainLeavesNone
<1>5. ItemInv' /\ TypeInv'
  BY <1>1 DEF Inv, ItemInv, TypeInv
<1> QED BY <1>3, <1>4, <1>5 DEF Inv

(* The retry timer, and retryNow. *)
LEMMA RetriesInv ==
  ASSUME Inv, RetryFires \/ RetryNow
  PROVE  Inv'
<1>1. /\ retry' = FALSE /\ Flush(settings, outbox, FALSE)
      /\ UNCHANGED <<settings, trip, outbox, op, txns, disk, clock, crashes, sealed>>
  BY DEF RetryFires, RetryNow
<1>2. TripInv' /\ OpInv' /\ \A o : OpOps(o) => OpOps(o)'
  BY <1>1, AsideKeeps DEF Aside, Inv
<1>3. /\ sent' \subseteq sealed
      /\ \/ drain' = drain
         \/ /\ drain = Idle
            /\ drain' = Idle \/ (drain'.await = "answer" /\ drain'.item \in sealed)
  BY <1>1, FlushIs DEF Inv, ItemInv
<1>4. QueueInv'
  <2>1. CASE drain' = drain
    BY <1>1, <1>2, <2>1 DEF Inv, QueueInv, DrainOps
  <2>2. CASE drain = Idle
    <3>1. FreeForDrain(txns)
      BY <2>2, NoDrainQueued DEF Inv, Idle
    <3> QED BY <3>1, <1>1, <1>2, DrainLeavesNone
  <2> QED BY <1>3, <2>1, <2>2
<1>5. ItemInv' /\ TypeInv'
  BY <1>1, <1>3 DEF Inv, ItemInv, TypeInv
<1> QED BY <1>2, <1>4, <1>5 DEF Inv

-----------------------------------------------------------------------------
(* Every step keeps the invariant. *)

(* What an operation has committed. *)
LEMMA SettingsCommit ==
  ASSUME Inv, Commits("op"), op.await \in {"optIn", "setEnabled"}
  PROVE  /\ sealed' = sealed /\ disk'.trips = disk.trips /\ disk'.outbox = disk.outbox
         /\ disk'.settings \in Settings /\ FreeForOp(Tail(txns))
<1> DEFINE o == txns[1][2]
<1>1. OpOps(o) /\ FreeForOp(Tail(txns)) /\ disk' = Applied(disk, o)
      /\ sealed' = sealed \cup o.putOutbox
  BY OpIsDone DEF Inv, Commits
<1> HIDE DEF o
<1>2. PICK s \in Settings : o = [NoOps EXCEPT !.settings = {s}]
  BY <1>1 DEF OpOps
<1>3. /\ o.settings = {s} /\ o.putTrips = {} /\ o.deleteTrips = {} /\ o.putOutbox = {}
      /\ o.deleteOutbox = {}
  BY <1>2 DEF NoOps
<1>4. (CHOOSE x \in {s} : TRUE) = s
  OBVIOUS
<1> QED BY <1>1, <1>3, <1>4 DEF Applied

(* forget leaves nothing on the disk. *)
LEMMA ForgetCommit ==
  ASSUME Inv, Commits("op"), op.await = "forget"
  PROVE  /\ sealed' = sealed /\ disk'.trips = {} /\ disk'.outbox = {}
         /\ disk'.settings = NULL /\ FreeForOp(Tail(txns))
<1> DEFINE o == txns[1][2]
<1>1. OpOps(o) /\ FreeForOp(Tail(txns)) /\ disk' = Applied(disk, o)
      /\ sealed' = sealed \cup o.putOutbox
  BY OpIsDone DEF Inv, Commits
<1> HIDE DEF o
<1>2. /\ o.settings = {NULL} /\ o.putTrips = {} /\ o.putOutbox = {}
      /\ \A t \in disk.trips : t.tripId \in o.deleteTrips
      /\ \A i \in disk.outbox : Key(i) \in o.deleteOutbox
  BY <1>1 DEF OpOps, Waits, Storing
<1>3. (CHOOSE x \in {NULL} : TRUE) = NULL
  OBVIOUS
<1> QED BY <1>1, <1>2, <1>3 DEF Applied

(* A put commits its trip and its items. *)
LEMMA PutCommit ==
  ASSUME Inv, Commits("op"), op.await = "put"
  PROVE  /\ sealed' = sealed \cup op.items /\ Orderly(sealed')
         /\ disk'.trips = {u \in disk.trips : u.tripId # op.t.tripId} \cup {op.t}
         /\ disk'.outbox = {j \in disk.outbox : \A p \in op.items : Key(p) # Key(j)} \cup op.items
         /\ disk'.settings = disk.settings /\ FreeForOp(Tail(txns))
         /\ \A u \in disk'.trips : Sound(u, sealed')
         /\ \A t, u \in disk'.trips : t.tripId = u.tripId => t = u
<1> DEFINE o == txns[1][2]
<1>1. OpOps(o) /\ FreeForOp(Tail(txns)) /\ disk' = Applied(disk, o)
      /\ sealed' = sealed \cup o.putOutbox
  BY OpIsDone DEF Inv, Commits
<1> HIDE DEF o
<1>2. o = [NoOps EXCEPT !.putTrips = {op.t}, !.putOutbox = op.items]
  BY <1>1 DEF OpOps
<1>3. /\ o.settings = {} /\ o.putTrips = {op.t} /\ o.deleteTrips = {} /\ o.putOutbox = op.items
      /\ o.deleteOutbox = {}
  BY <1>2 DEF NoOps
<1>4. /\ disk'.trips = {u \in disk.trips : u.tripId # op.t.tripId} \cup {op.t}
      /\ disk'.outbox = {j \in disk.outbox : \A p \in op.items : Key(p) # Key(j)} \cup op.items
      /\ disk'.settings = disk.settings /\ sealed' = sealed \cup op.items
  BY <1>1, <1>3 DEF Applied
<1>5. /\ Proposed(op.t, op.items, sealed) /\ Orderly(sealed)
      /\ \A i \in op.items : i.part # End
      /\ \A u \in disk.trips : Sound(u, sealed)
      /\ \A t, u \in disk.trips : t.tripId = u.tripId => t = u
  BY DEF Inv, OpInv, ItemInv, TripInv, Live, Storing
<1>6. Orderly(sealed \cup op.items)
  BY <1>5, CommitKeepsOrder
<1>7. Sound(op.t, sealed \cup op.items)
  BY <1>5, CommitKeepsTrip
<1>8. ASSUME NEW u \in disk.trips, u.tripId # op.t.tripId PROVE Sound(u, sealed \cup op.items)
  BY <1>5, <1>8, CommitKeepsOthers
<1>9. \A u \in disk'.trips : Sound(u, sealed')
  BY <1>4, <1>7, <1>8
<1>10. \A t, u \in disk'.trips : t.tripId = u.tripId => t = u
  BY <1>4, <1>5
<1> QED BY <1>1, <1>4, <1>6, <1>9, <1>10

(* A finalization deletes its trip and commits its items. *)
LEMMA FinalCommit ==
  ASSUME Inv, Commits("op"), op.await = "finalize"
  PROVE  /\ sealed' = sealed \cup op.items /\ Orderly(sealed')
         /\ disk'.trips = {u \in disk.trips : u.tripId # op.t.tripId}
         /\ disk'.outbox = {j \in disk.outbox : \A p \in op.items : Key(p) # Key(j)} \cup op.items
         /\ disk'.settings = disk.settings /\ FreeForOp(Tail(txns))
         /\ \A u \in disk'.trips : Sound(u, sealed')
         /\ \A t, u \in disk'.trips : t.tripId = u.tripId => t = u
<1> DEFINE o == txns[1][2]
<1>1. OpOps(o) /\ FreeForOp(Tail(txns)) /\ disk' = Applied(disk, o)
      /\ sealed' = sealed \cup o.putOutbox
  BY OpIsDone DEF Inv, Commits
<1> HIDE DEF o
<1>2. o = [NoOps EXCEPT !.putOutbox = op.items, !.deleteTrips = {op.t.tripId}]
  BY <1>1 DEF OpOps, FinalOps
<1>3. /\ o.settings = {} /\ o.putTrips = {} /\ o.deleteTrips = {op.t.tripId}
      /\ o.putOutbox = op.items /\ o.deleteOutbox = {}
  BY <1>2 DEF NoOps
<1>4. /\ disk'.trips = {u \in disk.trips : u.tripId # op.t.tripId}
      /\ disk'.outbox = {j \in disk.outbox : \A p \in op.items : Key(p) # Key(j)} \cup op.items
      /\ disk'.settings = disk.settings /\ sealed' = sealed \cup op.items
  BY <1>1, <1>3 DEF Applied
<1>5. /\ Proposed(op.t, op.items, sealed) /\ Orderly(sealed)
      /\ \A u \in disk.trips : Sound(u, sealed)
      /\ \A t, u \in disk.trips : t.tripId = u.tripId => t = u
  BY DEF Inv, OpInv, ItemInv, TripInv, Live, Storing
<1>6. Orderly(sealed \cup op.items)
  BY <1>5, CommitKeepsOrder
<1>8. ASSUME NEW u \in disk.trips, u.tripId # op.t.tripId PROVE Sound(u, sealed \cup op.items)
  BY <1>5, <1>8, CommitKeepsOthers
<1>9. \A u \in disk'.trips : Sound(u, sealed')
  BY <1>4, <1>8
<1>10. \A t, u \in disk'.trips : t.tripId = u.tripId => t = u
  BY <1>4, <1>5
<1> QED BY <1>1, <1>4, <1>6, <1>9, <1>10

(* What an operation leaves behind when it goes on. *)
SendInv ==
  /\ sent \subseteq sealed
  /\ \/ drain = Idle \/ drain.await = "reject"
     \/ drain.await \in {"answer", "delete"} /\ drain.item \in sealed

(* flush sends what is sealed. *)
LEMMA FlushSends ==
  ASSUME NEW s, NEW ob, NEW rt, Flush(s, ob, rt), SendInv, sealed \subseteq sealed',
         Orderly(sealed'), ob \subseteq sealed'
  PROVE  SendInv' /\ (drain' = drain \/ drain = Idle)
<1>1. sent \subseteq sealed'
  BY DEF SendInv
<1>2. /\ sent' \subseteq sealed'
      /\ \/ drain' = drain
         \/ drain = Idle /\ (drain' = Idle \/ (drain'.await = "answer" /\ drain'.item \in sealed'))
  BY <1>1, FlushIs
<1> QED BY <1>2 DEF SendInv

(* A step that sends nothing. *)
LEMMA QuietSends ==
  ASSUME UNCHANGED <<drain, sent>>, SendInv, sealed \subseteq sealed'
  PROVE  SendInv'
BY DEF SendInv

TripsOnDisk(ts, S) ==
  (\A u \in ts : Sound(u, S)) /\ \A t, u \in ts : t.tripId = u.tripId => t = u

(* The operation puts a trip with what it seals. *)
LEMMA PutStep ==
  ASSUME NEW q, NEW t, NEW items, Putting(q, t, items), FreeForOp(q), drain' = drain,
         Proposed(t, items, sealed'), \A i \in items : i.part # End,
         TripsOnDisk(disk'.trips, sealed')
  PROVE  QueueInv' /\ TripInv' /\ OpInv'
<1>1. /\ Call(q, "op", [NoOps EXCEPT !.putTrips = {t}, !.putOutbox = items])
      /\ op' = [await |-> "put", t |-> t, items |-> items] /\ trip' = t
  BY DEF Putting
<1>2. PICK o : o = [NoOps EXCEPT !.putTrips = {t}, !.putOutbox = items]
  OBVIOUS
<1>3. OpOps(o)'
  BY <1>1, <1>2 DEF OpOps, Waits, Storing
<1>4. QueueInv'
  BY <1>1, <1>2, <1>3, OpCalls
<1>5. Sound(t, sealed')
  BY DEF Proposed
<1>6. TripInv'
  <2>1. Live' \subseteq disk'.trips \cup {t}
    BY <1>1 DEF Live, Pending, Open, Storing
  <2> QED BY <2>1, <1>5 DEF TripInv, TripsOnDisk
<1>7. OpInv'
  BY <1>1 DEF OpInv, Waits, Storing
<1> QED BY <1>4, <1>6, <1>7

(* The operation finalizes a trip. *)
LEMMA FinalStep ==
  ASSUME NEW q, NEW t0, NEW arrived \in BOOLEAN, NEW at \in Nat, NEW then,
         Finalizing(q, t0, arrived, EndTime(t0, at), then), FreeForOp(q), drain' = drain,
         Sound(t0, sealed'), clock \in Nat, TripsOnDisk(disk'.trips, sealed'),
         \/ then.do = "leave" /\ trip' = op'.t
         \/ /\ then.do = "start" /\ trip' = op'.t
            /\ then.line \in Routes /\ then.destination \in Destinations
         \/ /\ then.do = "orphans" /\ trip' = NULL
            /\ then.trips = {u \in disk'.trips : u.tripId # t0.tripId}
  PROVE  QueueInv' /\ TripInv' /\ OpInv'
<1>1. PICK s : s = Final(t0, arrived, EndTime(t0, at), clock)
  OBVIOUS
<1>2. PICK t, items : t = s.trip /\ items = s.items
  OBVIOUS
<1>3. /\ Call(q, "op", FinalOps(t0, items))
      /\ op' = [await |-> "finalize", t |-> t, items |-> items, then |-> then]
  BY <1>1, <1>2 DEF Finalizing
<1>4. Follows(t0, t, items, clock)
  <2>1. GoodTrip(t0)
    BY DEF Sound
  <2> QED BY <2>1, <1>1, <1>2, FinalIs
<1>5. Proposed(t, items, sealed') /\ t.tripId = t0.tripId
  <2>1. PICK now : now = clock
    OBVIOUS
  <2>2. Follows(t0, t, items, now)
    BY <1>4, <2>1
  <2>3. PICK S : S = sealed'
    OBVIOUS
  <2>4. Sound(t0, S)
    BY <2>3
  <2>5. Proposed(t, items, S)
    BY <2>2, <2>4, FollowedIsProposed
  <2> QED BY <2>3, <2>5, <1>4 DEF Follows
<1>6. PICK o : o = FinalOps(t0, items)
  OBVIOUS
<1>7. OpOps(o)'
  <2>1. o = FinalOps(t, items)
    BY <1>5, <1>6 DEF FinalOps
  <2> QED BY <1>3, <2>1 DEF OpOps, Waits, Storing
<1>8. QueueInv'
  BY <1>3, <1>6, <1>7, OpCalls
<1>9. op'.t = t /\ op'.items = items /\ op'.then = then /\ op'.await = "finalize"
  BY <1>3
<1>10. TripInv'
  <2>1. Live' \subseteq disk'.trips \cup {t}
    BY <1>9 DEF Live, Pending, Open, Storing
  <2>2. Sound(t, sealed')
    BY <1>5 DEF Proposed
  <2> QED BY <2>1, <2>2 DEF TripInv, TripsOnDisk
<1>11. OpInv'
  BY <1>5, <1>9 DEF OpInv, Waits, Storing
<1> QED BY <1>8, <1>10, <1>11

(* The operation ends. *)
LEMMA IdleStep ==
  ASSUME NEW q, FreeForOp(q), txns' = q, op' = Idle, drain' = drain \/ drain = Idle,
         TripsOnDisk(disk'.trips, sealed'), \A t \in Open(trip') : Sound(t, sealed')
  PROVE  QueueInv' /\ TripInv' /\ OpInv'
<1>1. QueueInv'
  BY OpLeavesNone
<1>2. TripInv'
  <2>1. Live' = disk'.trips \cup Open(trip')
    BY DEF Live, Pending, Storing, Idle
  <2> QED BY <2>1 DEF TripInv, TripsOnDisk
<1>3. OpInv'
  BY DEF OpInv, Idle, Storing, Waits
<1> QED BY <1>1, <1>2, <1>3

(* init finalizes the first orphaned trip, or ends and flushes. *)
LEMMA EndOrphansStep ==
  ASSUME NEW q, NEW ts, NEW s, NEW ob, NEW rt, EndOrphans(q, ts, s, ob, rt),
         FreeForOp(q), trip' = NULL, ts = disk'.trips, clock \in Nat,
         TripsOnDisk(disk'.trips, sealed'), SendInv, sealed \subseteq sealed',
         Orderly(sealed'), ob \subseteq sealed'
  PROVE  QueueInv' /\ TripInv' /\ OpInv' /\ SendInv'
<1>1. CASE ts = {} /\ LeaveFlushing(q, s, ob, rt)
  <2>1. txns' = q /\ op' = Idle /\ Flush(s, ob, rt)
    BY <1>1 DEF LeaveFlushing
  <2>2. SendInv' /\ (drain' = drain \/ drain = Idle)
    BY <2>1, FlushSends
  <2>3. \A t \in Open(trip') : Sound(t, sealed')
    BY DEF Open
  <2> QED BY <2>1, <2>2, <2>3, IdleStep
<1>2. ASSUME NEW t \in ts,
             Finalizing(q, t, FALSE, EndTime(t, t.startedAt), EndingOrphans(ts \ {t})),
             UNCHANGED <<drain, sent>>
      PROVE  QueueInv' /\ TripInv' /\ OpInv' /\ SendInv'
  <2>1. PICK at, then : at = t.startedAt /\ then = EndingOrphans(ts \ {t})
    OBVIOUS
  <2>2. at \in Nat /\ Sound(t, sealed')
    <3>1. Sound(t, sealed')
      BY DEF TripsOnDisk
    <3>2. t \in TripRecord
      BY <3>1 DEF Sound, GoodTrip
    <3> QED BY <2>1, <3>1, <3>2, TripFields
  <2>3. then.do = "orphans" /\ then.trips = {u \in disk'.trips : u.tripId # t.tripId}
    <3>1. then.do = "orphans" /\ then.trips = ts \ {t}
      BY <2>1 DEF EndingOrphans
    <3>2. ts \ {t} = {u \in disk'.trips : u.tripId # t.tripId}
      BY DEF TripsOnDisk
    <3> QED BY <3>1, <3>2
  <2>4. Finalizing(q, t, FALSE, EndTime(t, at), then)
    BY <1>2, <2>1
  <2>5. QueueInv' /\ TripInv' /\ OpInv'
    BY <1>2, <2>2, <2>3, <2>4, FinalStep
  <2>6. SendInv'
    BY <1>2, QuietSends
  <2> QED BY <2>5, <2>6
<1>3. \/ ts = {} /\ LeaveFlushing(q, s, ob, rt)
      \/ \E t \in ts :
           /\ Finalizing(q, t, FALSE, EndTime(t, t.startedAt), EndingOrphans(ts \ {t}))
           /\ UNCHANGED <<drain, sent>>
  BY DEF EndOrphans
<1> QED BY <1>1, <1>2, <1>3

(* The operation starts a trip, or ends because recording is off. *)
LEMMA StartTripStep ==
  ASSUME NEW q, NEW line \in Routes, NEW dest \in Destinations, StartTrip(q, line, dest),
         FreeForOp(q), clock \in 0..MaxClock, TripsOnDisk(disk'.trips, sealed'), SendInv,
         sealed \subseteq sealed',
         \A i \in sealed' : i.trip \notin FreshTrips
  PROVE  QueueInv' /\ TripInv' /\ OpInv' /\ SendInv'
<1>0. UNCHANGED <<drain, sent>>
  BY DEF StartTrip, LeaveQuietly
<1>1. SendInv'
  BY <1>0, QuietSends
<1>2. ASSUME NEW id \in FreshTrips, Putting(q, NewTrip(id, line, dest), {})
      PROVE  QueueInv' /\ TripInv' /\ OpInv'
  <2>1. PICK t : t = NewTrip(id, line, dest)
    OBVIOUS
  <2>2. id \in Trips
    BY DEF FreshTrips
  <2>3. GoodTrip(t) /\ t.tripId = id
    BY <2>1, <2>2, NewTripIs
  <2>4. Proposed(t, {}, sealed')
    BY <2>3 DEF Proposed, Sound
  <2> QED BY <1>0, <1>2, <2>1, <2>4, PutStep
<1>3. CASE trip' = NULL /\ LeaveQuietly(q)
  <2>1. \A t \in Open(trip') : Sound(t, sealed')
    BY <1>3 DEF Open
  <2> QED BY <1>0, <1>1, <1>3, <2>1, IdleStep DEF LeaveQuietly
<1> QED BY <1>1, <1>2, <1>3 DEF StartTrip

(* What every operation's step starts from. *)
LEMMA InvParts ==
  ASSUME Inv
  PROVE  /\ SendInv /\ Orderly(sealed) /\ TripsOnDisk(disk.trips, sealed)
         /\ outbox \subseteq sealed /\ disk.outbox \subseteq sealed
         /\ clock \in 0..MaxClock /\ clock \in Nat
         /\ \A t \in Open(trip) : Sound(t, sealed)
         /\ trip # NULL => Sound(trip, sealed)
<1>1. clock \in 0..MaxClock /\ MaxClock \in Nat
  BY DeviceAssumption DEF Inv, TypeInv
<1>2. clock \in Nat
  BY <1>1
<1>3. \A t \in disk.trips \cup Open(trip) : Sound(t, sealed)
  BY DEF Inv, TripInv, Live
<1>4. trip # NULL => trip \in Open(trip)
  BY DEF Open
<1> QED BY <1>1, <1>2, <1>3, <1>4 DEF Inv, ItemInv, TripInv, SendInv, TripsOnDisk

(* The invariant, from its parts as the steps' lemmas give them. *)
LEMMA InvFrom ==
  ASSUME QueueInv', TripInv', OpInv', SendInv', TypeInv', Orderly(sealed'),
         outbox' \subseteq sealed', disk'.outbox \subseteq sealed'
  PROVE  Inv'
BY DEF Inv, ItemInv, SendInv

(* The steps in which an operation awaits something and no trip changes. *)
LEMMA SettledTrips ==
  ASSUME Inv, op.await \notin Storing, op'.await \notin Storing, trip' = trip,
         sealed' = sealed, disk'.trips = disk.trips
  PROVE  TripInv'
<1>1. Live' = disk.trips \cup Open(trip) /\ Live = disk.trips \cup Open(trip)
  BY DEF Live, Pending, Open
<1> QED BY <1>1 DEF Inv, TripInv

(* init reads storage. *)
LEMMA InitCalledInv ==
  ASSUME Inv, InitCalled
  PROVE  Inv'
<1>1. /\ op.await = "launch" /\ Call(txns, "op", NoOps) /\ op' = [await |-> "load"]
      /\ UNCHANGED <<settings, trip, outbox, retry, drain, disk, clock, crashes, sealed, sent>>
  BY DEF InitCalled, memory, history
<1>2. PICK o : o = NoOps
  OBVIOUS
<1>3. OpOps(o)'
  BY <1>1, <1>2 DEF OpOps, Waits, Storing
<1>4. FreeForOp(txns)
  BY <1>1, NoOpQueued DEF Inv, Waits, Storing
<1>5. QueueInv'
  BY <1>1, <1>2, <1>3, <1>4, OpCalls
<1>6. TripInv'
  BY <1>1, SettledTrips DEF Storing
<1>7. OpInv'
  BY <1>1 DEF Inv, OpInv, Waits, Storing
<1>8. TypeInv' /\ ItemInv'
  BY <1>1 DEF Inv, TypeInv, ItemInv
<1> QED BY <1>5, <1>6, <1>7, <1>8 DEF Inv

(* init has read storage. *)
LEMMA InitLoadedInv ==
  ASSUME Inv, InitLoaded
  PROVE  Inv'
<1>1. /\ op.await = "load" /\ Front("op") /\ settings' = disk.settings /\ outbox' = disk.outbox
      /\ EndOrphans(Tail(txns), disk.trips, disk.settings, disk.outbox, retry)
      /\ UNCHANGED <<trip, retry, disk, clock, crashes, sealed>>
  BY DEF InitLoaded
<1>2. trip' = NULL /\ FreeForOp(Tail(txns))
  BY <1>1, OpIsDone DEF Inv, OpInv
<1>3. /\ SendInv /\ Orderly(sealed) /\ TripsOnDisk(disk.trips, sealed)
      /\ disk.outbox \subseteq sealed /\ clock \in Nat
  BY InvParts
<1>4. QueueInv' /\ TripInv' /\ OpInv' /\ SendInv'
  BY <1>1, <1>2, <1>3, EndOrphansStep
<1>5. TypeInv'
  BY <1>1 DEF Inv, TypeInv
<1> QED BY <1>1, <1>3, <1>4, <1>5, InvFrom

(* optIn asks who the token belongs to. *)
LEMMA OptInInv ==
  ASSUME Inv, NEW k \in Tokens, OptIn(k)
  PROVE  Inv'
<1>1. /\ op = Idle /\ op' = [await |-> "me", token |-> k]
      /\ UNCHANGED <<settings, trip, outbox, retry, drain, txns, disk, clock, crashes, sealed, sent>>
  BY DEF OptIn, memory, history
<1>2. op.await = "nothing"
  BY <1>1 DEF Idle
<1>3. FreeForOp(txns)
  BY <1>2, NoOpQueued DEF Inv, Waits, Storing
<1>4. QueueInv'
  BY <1>1, <1>3, OpLeavesNone
<1>5. TripInv'
  BY <1>1, <1>2, SettledTrips DEF Storing
<1>6. OpInv'
  BY <1>1 DEF OpInv, Waits, Storing
<1>7. TypeInv' /\ ItemInv'
  BY <1>1 DEF Inv, TypeInv, ItemInv
<1> QED BY <1>4, <1>5, <1>6, <1>7 DEF Inv

(* optIn has its answer. *)
LEMMA CheckedInv ==
  ASSUME Inv, NEW good \in BOOLEAN, Checked(good)
  PROVE  Inv'
<1>1. /\ op.await = "me"
      /\ UNCHANGED <<trip, outbox, retry, drain, disk, clock, crashes, sealed, sent>>
  BY DEF Checked, history
<1>2. FreeForOp(txns)
  BY <1>1, NoOpQueued DEF Inv, Waits, Storing
<1>3. ItemInv'
  BY <1>1 DEF Inv, ItemInv
<1>4. CASE good
  <2>1. PICK s, o : s = [token |-> op.token, enabled |-> TRUE, rejected |-> FALSE]
                    /\ o = [NoOps EXCEPT !.settings = {s}]
    OBVIOUS
  <2>2. settings' = s /\ Call(txns, "op", o) /\ op' = [await |-> "optIn"]
    BY <1>4, <2>1 DEF Checked
  <2>3. s \in Settings
    BY <1>1, <2>1 DEF Inv, OpInv, Settings
  <2>4. OpOps(o)'
    BY <2>1, <2>2, <2>3 DEF OpOps, Waits, Storing
  <2>5. QueueInv'
    BY <1>1, <1>2, <2>2, <2>4, OpCalls
  <2>6. TripInv'
    BY <1>1, <2>2, SettledTrips DEF Storing
  <2>7. OpInv' /\ TypeInv'
    BY <1>1, <2>2, <2>3 DEF Inv, OpInv, TypeInv, Waits, Storing
  <2> QED BY <1>3, <2>5, <2>6, <2>7 DEF Inv
<1>5. CASE ~good
  <2>1. op' = Idle /\ settings' = settings /\ txns' = txns
    BY <1>5 DEF Checked
  <2>2. op'.await = "nothing"
    BY <2>1 DEF Idle
  <2>3. QueueInv'
    BY <1>1, <1>2, <2>1, OpLeavesNone
  <2>4. TripInv'
    BY <1>1, <2>2, SettledTrips DEF Storing
  <2>5. OpInv' /\ TypeInv'
    BY <1>1, <2>1, <2>2 DEF Inv, OpInv, TypeInv, Waits, Storing
  <2> QED BY <1>3, <2>3, <2>4, <2>5 DEF Inv
<1> QED BY <1>4, <1>5

(* optIn has stored the settings. *)
LEMMA OptedInInv ==
  ASSUME Inv, OptedIn
  PROVE  Inv'
<1>1. /\ op.await = "optIn" /\ Commits("op") /\ retry' = FALSE
      /\ txns' = Tail(txns) /\ op' = Idle /\ Flush(settings, outbox, FALSE)
      /\ UNCHANGED <<settings, trip, outbox, clock, crashes>>
  BY DEF OptedIn, LeaveFlushing
<1>2. /\ sealed' = sealed /\ disk'.trips = disk.trips /\ disk'.outbox = disk.outbox
      /\ disk'.settings \in Settings /\ FreeForOp(Tail(txns))
  BY <1>1, SettingsCommit
<1>3. /\ SendInv /\ Orderly(sealed) /\ TripsOnDisk(disk.trips, sealed)
      /\ outbox \subseteq sealed /\ disk.outbox \subseteq sealed
      /\ \A t \in Open(trip) : Sound(t, sealed)
  BY InvParts
<1>4. SendInv' /\ (drain' = drain \/ drain = Idle)
  BY <1>1, <1>2, <1>3, FlushSends
<1>5. QueueInv' /\ TripInv' /\ OpInv'
  BY <1>1, <1>2, <1>3, <1>4, IdleStep
<1>6. TypeInv'
  BY <1>1, <1>2 DEF Inv, TypeInv
<1> QED BY <1>1, <1>2, <1>3, <1>4, <1>5, <1>6, InvFrom

(* setEnabled stores the settings. *)
LEMMA SetEnabledInv ==
  ASSUME Inv, NEW enabled \in BOOLEAN, SetEnabled(enabled)
  PROVE  Inv'
<1>1. PICK s, o : s = [settings EXCEPT !.enabled = enabled]
                  /\ o = [NoOps EXCEPT !.settings = {s}]
  OBVIOUS
<1>2. /\ op = Idle /\ settings # NULL /\ settings' = s /\ Call(txns, "op", o)
      /\ op' = [await |-> "setEnabled", enabled |-> enabled]
      /\ UNCHANGED <<trip, outbox, retry, drain, disk, clock, crashes, sealed, sent>>
  BY <1>1 DEF SetEnabled, history
<1>3. op.await = "nothing"
  BY <1>2 DEF Idle
<1>4. s \in Settings
  BY <1>1, <1>2 DEF Inv, TypeInv, Settings
<1>5. FreeForOp(txns)
  BY <1>3, NoOpQueued DEF Inv, Waits, Storing
<1>6. OpOps(o)'
  BY <1>1, <1>2, <1>4 DEF OpOps, Waits, Storing
<1>7. QueueInv'
  BY <1>2, <1>5, <1>6, OpCalls
<1>8. TripInv'
  BY <1>2, <1>3, SettledTrips DEF Storing
<1>9. OpInv' /\ TypeInv' /\ ItemInv'
  BY <1>2, <1>4 DEF Inv, OpInv, TypeInv, ItemInv, Waits, Storing
<1> QED BY <1>7, <1>8, <1>9 DEF Inv

(* setEnabled has stored the settings, and ends the open trip when off. *)
LEMMA EnabledSetInv ==
  ASSUME Inv, EnabledSet
  PROVE  Inv'
<1>1. /\ op.await = "setEnabled" /\ Commits("op")
      /\ UNCHANGED <<settings, outbox, retry, clock, crashes>>
  BY DEF EnabledSet
<1>2. /\ sealed' = sealed /\ disk'.trips = disk.trips /\ disk'.outbox = disk.outbox
      /\ disk'.settings \in Settings /\ FreeForOp(Tail(txns))
  BY <1>1, SettingsCommit
<1>3. /\ SendInv /\ Orderly(sealed) /\ TripsOnDisk(disk.trips, sealed) /\ clock \in Nat
      /\ outbox \subseteq sealed /\ disk.outbox \subseteq sealed
      /\ \A t \in Open(trip) : Sound(t, sealed)
      /\ trip # NULL => Sound(trip, sealed)
  BY InvParts
<1>4. TypeInv'
  BY <1>1, <1>2 DEF Inv, TypeInv
<1>5. CASE /\ trip # NULL /\ trip' = op'.t /\ UNCHANGED <<drain, sent>>
           /\ Finalizing(Tail(txns), trip, FALSE, EndTime(trip, clock), Leaving)
  <2>1. Leaving.do = "leave"
    BY DEF Leaving
  <2>2. QueueInv' /\ TripInv' /\ OpInv'
    BY <1>2, <1>3, <1>5, <2>1, FinalStep
  <2>3. SendInv'
    BY <1>2, <1>3, <1>5, QuietSends
  <2> QED BY <1>1, <1>2, <1>3, <1>4, <2>2, <2>3, InvFrom
<1>6. CASE trip' = trip /\ LeaveFlushing(Tail(txns), settings, outbox, retry)
  <2>1. txns' = Tail(txns) /\ op' = Idle /\ Flush(settings, outbox, retry)
    BY <1>6 DEF LeaveFlushing
  <2>2. SendInv' /\ (drain' = drain \/ drain = Idle)
    BY <1>2, <1>3, <2>1, FlushSends
  <2>3. QueueInv' /\ TripInv' /\ OpInv'
    BY <1>2, <1>3, <1>6, <2>1, <2>2, IdleStep
  <2> QED BY <1>1, <1>2, <1>3, <1>4, <2>2, <2>3, InvFrom
<1> QED BY <1>5, <1>6 DEF EnabledSet

(* forget reads what there is to delete. *)
LEMMA ForgetInv ==
  ASSUME Inv, Forget
  PROVE  Inv'
<1>1. /\ op = Idle /\ retry' = FALSE /\ Call(txns, "op", NoOps) /\ op' = [await |-> "forgetLoad"]
      /\ UNCHANGED <<settings, trip, outbox, drain, disk, clock, crashes, sealed, sent>>
  BY DEF Forget, history
<1>2. PICK o : o = NoOps
  OBVIOUS
<1>3. OpOps(o)' /\ op.await = "nothing"
  BY <1>1, <1>2 DEF OpOps, Waits, Storing, Idle
<1>4. FreeForOp(txns)
  BY <1>3, NoOpQueued DEF Inv, Waits, Storing
<1>5. QueueInv'
  BY <1>1, <1>2, <1>3, <1>4, OpCalls
<1>6. TripInv'
  BY <1>1, <1>3, SettledTrips DEF Storing
<1>7. OpInv' /\ TypeInv' /\ ItemInv'
  BY <1>1 DEF Inv, OpInv, TypeInv, ItemInv, Waits, Storing
<1> QED BY <1>5, <1>6, <1>7 DEF Inv

(* forget deletes all of it. *)
LEMMA ForgetLoadedInv ==
  ASSUME Inv, ForgetLoaded
  PROVE  Inv'
<1>1. /\ op.await = "forgetLoad" /\ Front("op") /\ op' = [await |-> "forget"]
      /\ Call(Tail(txns), "op", ForgetOps(disk))
      /\ UNCHANGED <<settings, trip, outbox, retry, drain, disk, clock, crashes, sealed, sent>>
  BY DEF ForgetLoaded, memory, history
<1>2. PICK o : o = ForgetOps(disk)
  OBVIOUS
<1>3. OpOps(o)'
  <2>1. /\ o.settings = {NULL} /\ o.putTrips = {} /\ o.putOutbox = {}
        /\ o.deleteTrips = {t.tripId : t \in disk.trips}
        /\ o.deleteOutbox = {Key(i) : i \in disk.outbox}
    BY <1>2 DEF ForgetOps, NoOps
  <2> QED BY <1>1, <2>1 DEF OpOps, Waits, Storing
<1>4. FreeForOp(Tail(txns))
  BY <1>1, OpIsDone DEF Inv
<1>5. QueueInv'
  BY <1>1, <1>2, <1>3, <1>4, OpCalls
<1>6. TripInv'
  BY <1>1, SettledTrips DEF Storing
<1>7. OpInv' /\ TypeInv' /\ ItemInv'
  BY <1>1 DEF Inv, OpInv, TypeInv, ItemInv, Waits, Storing
<1> QED BY <1>5, <1>6, <1>7 DEF Inv

(* forget has deleted all of it. *)
LEMMA ForgottenInv ==
  ASSUME Inv, Forgotten
  PROVE  Inv'
<1>1. /\ op.await = "forget" /\ Commits("op") /\ settings' = NULL /\ trip' = NULL /\ outbox' = {}
      /\ txns' = Tail(txns) /\ op' = Idle /\ UNCHANGED <<drain, sent, retry, clock, crashes>>
  BY DEF Forgotten, LeaveQuietly
<1>2. /\ sealed' = sealed /\ disk'.trips = {} /\ disk'.outbox = {}
      /\ disk'.settings = NULL /\ FreeForOp(Tail(txns))
  BY <1>1, ForgetCommit
<1>3. TripsOnDisk(disk'.trips, sealed') /\ \A t \in Open(trip') : Sound(t, sealed')
  BY <1>1, <1>2 DEF TripsOnDisk, Open
<1>4. QueueInv' /\ TripInv' /\ OpInv'
  BY <1>1, <1>2, <1>3, IdleStep
<1>5. SendInv' /\ TypeInv' /\ Orderly(sealed')
  BY <1>1, <1>2, InvParts DEF Inv, TypeInv, SendInv
<1> QED BY <1>1, <1>2, <1>4, <1>5, InvFrom

(* Nothing is sealed under a fresh trip id. *)
LEMMA FreshIsUnsealed ==
  ASSUME NEW S, S \subseteq sealed \cup {i \in S : trip # NULL /\ i.trip = trip.tripId}
  PROVE  \A i \in S : i.trip \notin FreshTrips
BY DEF FreshTrips

(* startTrip, with or without an open trip to end first. *)
LEMMA StartTripCalledInv ==
  ASSUME Inv, NEW line \in Routes, NEW dest \in Destinations, StartTripCalled(line, dest)
  PROVE  Inv'
<1>1. op = Idle /\ UNCHANGED <<settings, outbox, retry, disk, clock, crashes, sealed>>
  BY DEF StartTripCalled
<1>2. op.await = "nothing"
  BY <1>1 DEF Idle
<1>3. FreeForOp(txns)
  BY <1>2, NoOpQueued DEF Inv, Waits, Storing
<1>4. /\ SendInv /\ Orderly(sealed) /\ TripsOnDisk(disk.trips, sealed) /\ clock \in Nat
      /\ clock \in 0..MaxClock /\ outbox \subseteq sealed /\ disk.outbox \subseteq sealed
      /\ trip # NULL => Sound(trip, sealed)
  BY InvParts
<1>5. TypeInv'
  BY <1>1 DEF Inv, TypeInv
<1>6. CASE /\ trip # NULL /\ trip' = op'.t /\ UNCHANGED <<drain, sent>>
           /\ Finalizing(txns, trip, FALSE, EndTime(trip, clock), Starting(line, dest))
  <2>1. PICK then : then = Starting(line, dest)
    OBVIOUS
  <2>2. then.do = "start" /\ then.line \in Routes /\ then.destination \in Destinations
    BY <2>1 DEF Starting
  <2>3. QueueInv' /\ TripInv' /\ OpInv'
    BY <1>1, <1>3, <1>4, <1>6, <2>1, <2>2, FinalStep
  <2>4. SendInv'
    BY <1>1, <1>4, <1>6, QuietSends
  <2> QED BY <1>1, <1>4, <1>5, <2>3, <2>4, InvFrom
<1>7. CASE StartTrip(txns, line, dest)
  <2>1. \A i \in sealed' : i.trip \notin FreshTrips
    BY <1>1, FreshIsUnsealed
  <2>2. QueueInv' /\ TripInv' /\ OpInv' /\ SendInv'
    BY <1>1, <1>3, <1>4, <1>7, <2>1, StartTripStep
  <2> QED BY <1>1, <1>4, <1>5, <2>2, InvFrom
<1> QED BY <1>6, <1>7 DEF StartTripCalled

(* What AddFix and Reroute put, from the open trip. *)
LEMMA PutFollows ==
  ASSUME Inv, op = Idle, trip # NULL, NEW t, NEW items, Putting(txns, t, items),
         Follows(trip, t, items, clock), \A i \in items : i.part # End,
         UNCHANGED <<settings, outbox, retry, drain, disk, clock, crashes, sealed, sent>>
  PROVE  Inv'
<1>2. op.await = "nothing"
  BY DEF Idle
<1>3. FreeForOp(txns)
  BY <1>2, NoOpQueued DEF Inv, Waits, Storing
<1>4. /\ SendInv /\ Orderly(sealed) /\ TripsOnDisk(disk.trips, sealed)
      /\ outbox \subseteq sealed /\ disk.outbox \subseteq sealed
      /\ Sound(trip, sealed)
  BY InvParts
<1>5. PICK t0, now, S : t0 = trip /\ now = clock /\ S = sealed
  OBVIOUS
<1>6. Proposed(t, items, S)
  BY <1>4, <1>5, FollowedIsProposed
<1>7. QueueInv' /\ TripInv' /\ OpInv'
  BY <1>3, <1>4, <1>5, <1>6, PutStep
<1>8. SendInv' /\ TypeInv'
  BY <1>4 DEF Inv, TypeInv, SendInv
<1> QED BY <1>4, <1>7, <1>8, InvFrom

(* What addFix puts follows the open trip. *)
LEMMA AddFixIs ==
  ASSUME Inv, NEW fix \in Fixes, AddFix(fix)
  PROVE  \E t, items :
           /\ Putting(txns, t, items) /\ Follows(trip, t, items, clock)
           /\ \A i \in items : i.part # End
           /\ t.head = fix /\ trip.anchors \subseteq t.anchors
           /\ trip.head = NULL => [at |-> fix.at, acc |-> fix.acc] \in t.anchors
           /\ Len(trip.heldArtifacts) <= MaxSeq /\ t.sealedFixes =>
                trip.sealedFixes \/ \E i \in items : Len(i.body.fixes) > 0
<1>1. trip # NULL /\ FollowsHead(trip.head, fix)
  BY DEF AddFix
<1>2. PICK s : s = Added(trip, fix)
  OBVIOUS
<1>3. PICK t, items : t = s.trip /\ items = s.items
  OBVIOUS
<1>4. Putting(txns, t, items)
  BY <1>2, <1>3 DEF AddFix, Added
<1>5. GoodTrip(trip) /\ clock \in Nat
  BY <1>1, InvParts DEF Sound
<1>6. /\ Follows(trip, t, items, clock) /\ \A i \in items : i.part # End
      /\ t.head = fix /\ trip.anchors \subseteq t.anchors
      /\ trip.head = NULL => [at |-> fix.at, acc |-> fix.acc] \in t.anchors
      /\ Len(trip.heldArtifacts) <= MaxSeq /\ t.sealedFixes =>
           trip.sealedFixes \/ \E i \in items : Len(i.body.fixes) > 0
  BY <1>1, <1>2, <1>3, <1>5, AddedIs
<1> QED BY <1>4, <1>6

(* What reroute puts follows the open trip. *)
LEMMA RerouteIs ==
  ASSUME Inv, NEW line \in Routes, Reroute(line)
  PROVE  \E t, items :
           /\ Putting(txns, t, items) /\ Follows(trip, t, items, clock)
           /\ \A i \in items : i.part # End
           /\ t.head = trip.head /\ trip.anchors \subseteq t.anchors
           /\ t.sealedFixes = trip.sealedFixes
<1> DEFINE r == Rerouted(trip, line)
           bodies == ArtifactBodies(Replacing(trip, line), r.anchors)
<1>1. trip # NULL /\ TakesEffect(trip) <= MaxEffective
  BY DEF Reroute
<1>2. GoodTrip(trip) /\ clock \in Nat
  BY <1>1, InvParts DEF Sound
<1>3. trip.anchors \subseteq r.anchors
  BY <1>1, <1>2, ReroutedIs
<1>4. ArtifactsGo([trip EXCEPT !.anchors = @ \cup {Point(line[Len(line)])},
                               !.prediction = TakesEffect(trip)]) <=> trip.sealedFixes
  BY <1>2 DEF ArtifactsGo, GoodTrip, TripRecord
<1>5. CASE trip.sealedFixes
  <2>1. Putting(txns, [r EXCEPT !.nextSeq = NextSeqAfter(r, bodies)], Numbered(r, bodies, clock))
    BY <1>4, <1>5 DEF Reroute, Rerouted, Replacing
  <2>2. PICK t, items : /\ t = [r EXCEPT !.nextSeq = NextSeqAfter(r, bodies)]
                        /\ items = Numbered(r, bodies, clock)
    OBVIOUS
  <2>3. /\ Follows(trip, t, items, clock) /\ \A i \in items : i.part # End
        /\ t.anchors = r.anchors /\ t.head = trip.head /\ t.sealedFixes = trip.sealedFixes
    <3> HIDE DEF r
    <3> QED BY <1>1, <1>2, <1>5, <2>2, ReroutedAtOnce DEF r
  <2> HIDE DEF r, bodies
  <2> QED BY <1>3, <2>1, <2>2, <2>3
<1>6. CASE ~trip.sealedFixes
  <2>1. Putting(txns, [r EXCEPT !.heldArtifacts = Append(@, Replacing(trip, line))], {})
    BY <1>4, <1>6 DEF Reroute, Rerouted, Replacing
  <2>2. PICK t : t = [r EXCEPT !.heldArtifacts = Append(@, Replacing(trip, line))]
    OBVIOUS
  <2>3. /\ Follows(trip, t, {}, clock) /\ t.anchors = r.anchors /\ t.head = trip.head
        /\ t.sealedFixes = trip.sealedFixes
    BY <1>1, <1>2, <1>6, <2>2, ReroutedHeld
  <2> HIDE DEF r
  <2>4. PICK items : items = {}
    OBVIOUS
  <2>5. /\ Putting(txns, t, items) /\ Follows(trip, t, items, clock)
        /\ \A i \in items : i.part # End
        /\ t.head = trip.head /\ trip.anchors \subseteq t.anchors
        /\ t.sealedFixes = trip.sealedFixes
    BY <1>3, <2>1, <2>2, <2>3, <2>4
  <2> QED BY <2>5, Zenon
<1> QED BY <1>5, <1>6

(* addFix keeps the invariant. *)
LEMMA AddFixInv ==
  ASSUME Inv, NEW fix \in Fixes, AddFix(fix)
  PROVE  Inv'
<1>1. /\ op = Idle /\ trip # NULL
      /\ UNCHANGED <<settings, outbox, retry, drain, disk, clock, crashes, sealed, sent>>
  BY DEF AddFix
<1> QED BY <1>1, AddFixIs, PutFollows

(* reroute keeps the invariant. *)
LEMMA RerouteInv ==
  ASSUME Inv, NEW line \in Routes, Reroute(line)
  PROVE  Inv'
<1>1. /\ op = Idle /\ trip # NULL
      /\ UNCHANGED <<settings, outbox, retry, drain, disk, clock, crashes, sealed, sent>>
  BY DEF Reroute, history
<1> QED BY <1>1, RerouteIs, PutFollows

(* A put has committed. *)
LEMMA PutInv ==
  ASSUME Inv, Put
  PROVE  Inv'
<1>1. /\ op.await = "put" /\ Commits("op") /\ outbox' = outbox \cup op.items
      /\ UNCHANGED <<settings, trip, retry, clock, crashes>>
  BY DEF Put
<1>2. /\ sealed' = sealed \cup op.items /\ Orderly(sealed')
      /\ disk'.trips = {u \in disk.trips : u.tripId # op.t.tripId} \cup {op.t}
      /\ disk'.outbox \subseteq disk.outbox \cup op.items
      /\ disk'.settings = disk.settings /\ FreeForOp(Tail(txns))
      /\ TripsOnDisk(disk'.trips, sealed')
  BY <1>1, PutCommit DEF TripsOnDisk
<1>3. SendInv /\ outbox \subseteq sealed /\ disk.outbox \subseteq sealed
  BY InvParts
<1>4. \A t \in Open(trip') : Sound(t, sealed')
  <2>1. trip = op.t
    BY <1>1 DEF Inv, OpInv
  <2> QED BY <2>1, <1>1, <1>2 DEF Open, TripsOnDisk
<1>5. outbox' \subseteq sealed' /\ disk'.outbox \subseteq sealed' /\ TypeInv'
  BY <1>1, <1>2, <1>3 DEF Inv, TypeInv
<1>6. txns' = Tail(txns) /\ op' = Idle /\ SendInv' /\ (drain' = drain \/ drain = Idle)
  <2>1. CASE LeaveFlushing(Tail(txns), settings, outbox', retry)
    <3>1. txns' = Tail(txns) /\ op' = Idle /\ Flush(settings, outbox', retry)
      BY <2>1 DEF LeaveFlushing
    <3> QED BY <3>1, <1>2, <1>3, <1>5, FlushSends
  <2>2. CASE LeaveQuietly(Tail(txns))
    BY <2>2, <1>2, <1>3, QuietSends DEF LeaveQuietly
  <2> QED BY <2>1, <2>2 DEF Put
<1>7. QueueInv' /\ TripInv' /\ OpInv'
  BY <1>2, <1>4, <1>6, IdleStep
<1> QED BY <1>2, <1>5, <1>6, <1>7, InvFrom

(* endTrip finalizes the open trip. *)
LEMMA EndTripInv ==
  ASSUME Inv, NEW arrived \in BOOLEAN, EndTrip(arrived)
  PROVE  Inv'
<1>1. /\ op = Idle /\ trip # NULL /\ trip' = op'.t
      /\ Finalizing(txns, trip, arrived, EndTime(trip, clock), Leaving)
      /\ UNCHANGED <<settings, outbox, retry, drain, disk, clock, crashes, sealed, sent>>
  BY DEF EndTrip, history
<1>2. op.await = "nothing"
  BY <1>1 DEF Idle
<1>3. FreeForOp(txns)
  BY <1>2, NoOpQueued DEF Inv, Waits, Storing
<1>4. /\ SendInv /\ Orderly(sealed) /\ TripsOnDisk(disk.trips, sealed) /\ clock \in Nat
      /\ outbox \subseteq sealed /\ disk.outbox \subseteq sealed
      /\ trip # NULL => Sound(trip, sealed)
  BY InvParts
<1>5. Leaving.do = "leave"
  BY DEF Leaving
<1>6. QueueInv' /\ TripInv' /\ OpInv'
  BY <1>1, <1>3, <1>4, <1>5, FinalStep
<1>7. SendInv' /\ TypeInv'
  BY <1>1, <1>4 DEF Inv, TypeInv, SendInv
<1> QED BY <1>1, <1>4, <1>6, <1>7, InvFrom

(* A finalization has committed, and its continuation runs. *)
LEMMA FinalizedInv ==
  ASSUME Inv, Finalized
  PROVE  Inv'
<1>1. /\ op.await = "finalize" /\ Commits("op") /\ outbox' = outbox \cup op.items
      /\ UNCHANGED <<settings, retry, clock, crashes>>
  BY DEF Finalized
<1>2. /\ sealed' = sealed \cup op.items /\ Orderly(sealed') /\ sealed \subseteq sealed'
      /\ disk'.trips = {u \in disk.trips : u.tripId # op.t.tripId}
      /\ disk'.outbox \subseteq disk.outbox \cup op.items
      /\ disk'.settings = disk.settings /\ FreeForOp(Tail(txns))
      /\ TripsOnDisk(disk'.trips, sealed')
  BY <1>1, FinalCommit DEF TripsOnDisk
<1>3. SendInv /\ outbox \subseteq sealed /\ disk.outbox \subseteq sealed /\ clock \in Nat
      /\ clock \in 0..MaxClock
  BY InvParts
<1>4. outbox' \subseteq sealed' /\ disk'.outbox \subseteq sealed' /\ TypeInv'
  BY <1>1, <1>2, <1>3 DEF Inv, TypeInv
<1>5. CASE trip' = NULL /\ LeaveFlushing(Tail(txns), settings, outbox', retry)
  <2>1. txns' = Tail(txns) /\ op' = Idle /\ Flush(settings, outbox', retry)
    BY <1>5 DEF LeaveFlushing
  <2>2. SendInv' /\ (drain' = drain \/ drain = Idle)
    BY <2>1, <1>2, <1>3, <1>4, FlushSends
  <2>3. \A t \in Open(trip') : Sound(t, sealed')
    BY <1>5 DEF Open
  <2>4. QueueInv' /\ TripInv' /\ OpInv'
    BY <1>2, <2>1, <2>2, <2>3, IdleStep
  <2> QED BY <1>2, <1>4, <2>2, <2>4, InvFrom
<1>6. CASE /\ op.then.do = "orphans" /\ trip' = trip
           /\ EndOrphans(Tail(txns), op.then.trips, settings, outbox', retry)
  <2>1. trip' = NULL /\ op.then.trips = disk'.trips
    BY <1>1, <1>2, <1>6 DEF Inv, OpInv
  <2>2. QueueInv' /\ TripInv' /\ OpInv' /\ SendInv'
    BY <1>2, <1>3, <1>4, <1>6, <2>1, EndOrphansStep
  <2> QED BY <1>2, <1>4, <2>2, InvFrom
<1>7. CASE /\ op.then.do = "start"
           /\ StartTrip(Tail(txns), op.then.line, op.then.destination)
  <2>1. trip = op.t /\ op.then.line \in Routes /\ op.then.destination \in Destinations
    BY <1>1, <1>7 DEF Inv, OpInv
  <2>2. \A i \in sealed' : i.trip \notin FreshTrips
    <3>1. Sound(op.t, sealed) /\ \A i \in op.items : i.trip = op.t.tripId
      BY <1>1 DEF Inv, OpInv, Storing, Proposed
    <3>2. trip # NULL
      BY <2>1, <3>1, DeviceAssumption DEF Sound, GoodTrip
    <3> QED BY <1>2, <2>1, <3>1, <3>2, FreshIsUnsealed
  <2>3. QueueInv' /\ TripInv' /\ OpInv' /\ SendInv'
    BY <1>2, <1>3, <1>7, <2>1, <2>2, StartTripStep
  <2> QED BY <1>2, <1>4, <2>3, InvFrom
<1> QED BY <1>5, <1>6, <1>7 DEF Finalized

(* The operation ends because its transaction failed. *)
LEMMA OpFailedInv ==
  ASSUME Inv, OpFailed
  PROVE  Inv'
<1>1. /\ Front("op") /\ txns' = Tail(txns) /\ op' = Idle
      /\ UNCHANGED <<settings, trip, outbox, retry, drain, disk, clock, crashes, sealed, sent>>
  BY DEF OpFailed, LeaveQuietly, memory
<1>2. FreeForOp(Tail(txns))
  BY <1>1, OpIsDone DEF Inv
<1>3. /\ SendInv /\ Orderly(sealed) /\ TripsOnDisk(disk.trips, sealed)
      /\ outbox \subseteq sealed /\ disk.outbox \subseteq sealed
      /\ \A t \in Open(trip) : Sound(t, sealed)
  BY InvParts
<1>4. QueueInv' /\ TripInv' /\ OpInv'
  BY <1>1, <1>2, <1>3, IdleStep
<1>5. SendInv' /\ TypeInv'
  BY <1>1, <1>3 DEF Inv, TypeInv, SendInv
<1> QED BY <1>1, <1>3, <1>4, <1>5, InvFrom

(* The app is killed: what is on the disk is left. *)
LEMMA CrashInv ==
  ASSUME Inv, Crash
  PROVE  Inv'
<1>1. /\ crashes < MaxCrashes /\ crashes' = crashes + 1
      /\ settings' = NULL /\ trip' = NULL /\ outbox' = {} /\ retry' = FALSE
      /\ op' = [await |-> "launch"] /\ drain' = Idle /\ txns' = <<>>
      /\ UNCHANGED <<disk, clock, sealed, sent>>
  BY DEF Crash, history
<1>2. QueueInv'
  <2>1. Queued(txns', {}, {})
    BY <1>1 DEF Queued
  <2> QED BY <2>1 DEF QueueInv
<1>3. TripInv'
  <2>1. Live' \subseteq Live
    BY <1>1 DEF Live, Pending, Open, Storing
  <2> QED BY <1>1, <2>1 DEF Inv, TripInv
<1>4. OpInv'
  BY <1>1 DEF OpInv, Waits, Storing
<1>5. ItemInv'
  BY <1>1 DEF Inv, ItemInv
<1>6. TypeInv'
  <2>1. crashes \in 0..MaxCrashes /\ MaxCrashes \in Nat
    BY DeviceAssumption DEF Inv, TypeInv
  <2>2. crashes' \in 0..MaxCrashes
    BY <1>1, <2>1
  <2> QED BY <1>1, <2>2 DEF Inv, TypeInv
<1> QED BY <1>2, <1>3, <1>4, <1>5, <1>6 DEF Inv

(* A step that moves the clock alone. *)
LEMMA StillInv ==
  ASSUME Inv, UNCHANGED <<settings, trip, outbox, retry, op, drain, txns, disk, crashes, sealed, sent>>,
         clock' \in 0..MaxClock
  PROVE  Inv'
<1>1. Aside
  BY DEF Aside
<1>2. TripInv' /\ OpInv' /\ \A o : OpOps(o) => OpOps(o)'
  BY <1>1, AsideKeeps DEF Inv
<1>3. QueueInv'
  BY <1>2 DEF Inv, QueueInv, DrainOps
<1>4. ItemInv' /\ TypeInv'
  BY DEF Inv, ItemInv, TypeInv
<1> QED BY <1>2, <1>3, <1>4 DEF Inv

(* The clock moves. *)
LEMMA ClockMovesInv ==
  ASSUME Inv, ClockMoves
  PROVE  Inv'
<1>1. clock' \in 0..MaxClock
  <2>1. clock \in 0..MaxClock /\ MaxClock \in Nat
    BY InvParts, DeviceAssumption
  <2> QED BY <2>1 DEF ClockMoves
<1>2. UNCHANGED <<settings, trip, outbox, retry, op, drain, txns, disk, crashes, sealed, sent>>
  BY DEF ClockMoves, memory, history
<1> QED BY <1>1, <1>2, StillInv

(* A first launch satisfies the invariant. *)
LEMMA InitInv ==
  ASSUME Init
  PROVE  Inv
<1>1. TypeInv
  <2>1. 0 \in 0..MaxClock /\ 0 \in 0..MaxCrashes
    BY DeviceAssumption
  <2> QED BY <2>1 DEF Init, TypeInv
<1>2. QueueInv
  <2>1. Queued(txns, {}, {})
    BY DEF Init, Queued
  <2> QED BY <2>1 DEF QueueInv
<1>3. ItemInv /\ TripInv /\ OpInv
  BY DEF Init, ItemInv, TripInv, OpInv, Orderly, Live, Open, Pending, Waits, Storing, Idle
<1> QED BY <1>1, <1>2, <1>3 DEF Inv

(* Every step keeps the invariant. *)
LEMMA StepInv ==
  ASSUME Inv, [Next]_vars
  PROVE  Inv'
<1>1. CASE UNCHANGED vars
  <2>1. /\ clock' \in 0..MaxClock
        /\ UNCHANGED <<settings, trip, outbox, retry, op, drain, txns, disk, crashes, sealed, sent>>
    BY <1>1, InvParts DEF vars, memory, history
  <2> QED BY <2>1, StillInv
<1>2. CASE Uploads
  BY <1>2, DrainDeletedInv, DrainRejectedInv, DrainFailedInv, RetriesInv DEF Uploads
<1>3. CASE Continues
  BY <1>3, InitCalledInv, InitLoadedInv, OptedInInv, EnabledSetInv, ForgetLoadedInv, ForgottenInv,
     PutInv, FinalizedInv, OpFailedInv DEF Continues
<1>4. CASE Called
  BY <1>4, OptInInv, SetEnabledInv, ForgetInv, RetriesInv, RerouteInv, StartTripCalledInv,
     AddFixInv, EndTripInv DEF Called
<1>5. CASE Crash \/ ClockMoves
  BY <1>5, CrashInv, ClockMovesInv
<1>6. ASSUME NEW kind \in Kinds, DrainAnswer(kind) PROVE Inv'
  BY <1>6, DrainAnswerInv
<1>7. ASSUME NEW good \in BOOLEAN, Checked(good) PROVE Inv'
  BY <1>7, CheckedInv
<1> QED BY <1>1, <1>2, <1>3, <1>4, <1>5, <1>6, <1>7 DEF Next, Device

(* The inductive invariant holds in every reachable state. *)
THEOREM Invariant == Spec => []Inv
<1>1. Init => Inv
  BY InitInv
<1>2. Inv /\ [Next]_vars => Inv'
  BY StepInv
<1> QED BY <1>1, <1>2, PTL DEF Spec

-----------------------------------------------------------------------------
(* What the invariant says of the sealed items. *)

(* What is in a sequence has a place in it. *)
LEMMA RangeIs ==
  ASSUME NEW X, NEW s \in Seq(X), NEW f \in SeqRange(s)
  PROVE  \E x \in 1..Len(s) : f = s[x] /\ f \in X
BY DEF SeqRange

(* A sound trip has the type of one. *)
LEMMA SoundIsTrip ==
  ASSUME NEW t, NEW S, Sound(t, S)
  PROVE  IsTrip(t)
<1>1. t \in TripRecord /\ Rising(t.pending) /\ t.pending \in Seq(Fixes)
  BY TripFields DEF Sound, GoodTrip
<1>2. Increasing([n \in 1..Len(t.pending) |-> t.pending[n].t])
  BY <1>1, RisingIsIncreasing
<1> QED BY <1>1, <1>2 DEF IsTrip

(* Every variable of the recorder has its type: a trip in memory or on the  *)
(* disk, a queued item, the settings, the calls that wait.                  *)
THEOREM TypesHold == Spec => []TypeOK
<1>1. Inv => TypeOK
  <2> SUFFICES ASSUME Inv PROVE TypeOK
    OBVIOUS
  <2>1. IsSettings(settings) /\ IsSettings(disk.settings)
    BY DEF Inv, TypeInv, IsSettings
  <2>2. trip = NULL \/ IsTrip(trip)
    BY InvParts, SoundIsTrip
  <2>3. \A t \in disk.trips : IsTrip(t)
    BY SoundIsTrip DEF Inv, TripInv, Live
  <2>4. Len(txns) <= 2
    BY QueuedLen DEF Inv, QueueInv
  <2>5. \A i \in outbox \cup disk.outbox : i.trip \in Trips /\ i.part \in 0..MaxSeq \cup {End}
    BY DEF Inv, ItemInv, Orderly, GoodItem
  <2>6. retry \in BOOLEAN /\ clock \in 0..MaxClock /\ crashes \in 0..MaxCrashes
    BY DEF Inv, TypeInv
  <2> QED BY <2>1, <2>2, <2>3, <2>4, <2>5, <2>6 DEF TypeOK
<1> QED BY <1>1, Invariant, PTL

(* No two sealed items share a trip and a seq, although seal numbers from a *)
(* copy of the trip, a put may fail and the app may be killed between the   *)
(* number and the put: a retry never overwrites another body at the         *)
(* service.                                                                 *)
THEOREM NoPartIsSealedTwice == Spec => []NoPartSealedTwice
<1>1. Inv => NoPartSealedTwice
  <2> SUFFICES ASSUME Inv, NEW i \in sealed, NEW j \in sealed, Key(i) = Key(j)
               PROVE  i.body = j.body
    BY DEF NoPartSealedTwice
  <2>1. i.trip = j.trip /\ i.part = j.part
    BY DEF Key
  <2>2. i = j \/ ItemBefore(i, j) \/ ItemBefore(j, i)
    BY <2>1 DEF Inv, ItemInv, Orderly
  <2>3. ~ItemBefore(i, j) /\ ~ItemBefore(j, i)
    <3>1. ASSUME i.part \in Nat PROVE i.part # End /\ ~(i.part < j.part) /\ ~(j.part < i.part)
      BY <2>1, <3>1, SealingAssumption
    <3> QED BY <2>1, <3>1 DEF ItemBefore
  <2> QED BY <2>2, <2>3
<1> QED BY <1>1, Invariant, PTL

(* drain only sends an item whose put has committed: what the service has   *)
(* seen, a relaunch can send again byte for byte.                           *)
THEOREM WhatIsSentIsDurable == Spec => []SentIsDurable
<1>1. Inv => SentIsDurable
  BY DEF Inv, ItemInv, SentIsDurable
<1> QED BY <1>1, Invariant, PTL

(* Whatever order of fixes, reroutes, ends and relaunches, every sealed     *)
(* body is one the service's schema accepts: sealChunk never queues an item *)
(* that every retry would be refused.                                       *)
THEOREM SealedBodiesAreValid == Spec => []BodiesAreValid
<1>1. Inv => BodiesAreValid
  <2> SUFFICES ASSUME Inv, NEW i \in sealed PROVE ValidBody(i.body)
    BY DEF BodiesAreValid
  <2>1. GoodItem(i)
    BY DEF Inv, ItemInv, Orderly
  <2>2. CASE i.part # End
    <3>1. i.body \in ChunkBody /\ ValidChunk(i.body)
      BY <2>1, <2>2 DEF GoodItem
    <3>2. DOMAIN i.body = {"fixes", "artifacts"}
      BY <3>1 DEF ChunkBody
    <3> QED BY <3>1, <3>2 DEF ValidBody
  <2>3. CASE i.part = End
    <3>1. i.body \in EndBodies /\ ValidEnd(i.body)
      BY <2>1, <2>3 DEF GoodItem
    <3>2. "ended_at" \in DOMAIN i.body
      BY <3>1 DEF EndBodies
    <3> QED BY <3>1, <3>2 DEF ValidBody
  <2> QED BY <2>2, <2>3
<1> QED BY <1>1, Invariant, PTL

(* The chunks of a trip carry its fixes and its artifacts in the order of   *)
(* their seqs: none is older than one sealed under a smaller seq, across    *)
(* seals, failed puts and relaunches.                                       *)
THEOREM SealedChunksAreInOrder == Spec => []ChunksInOrder
<1>1. Inv => ChunksInOrder
  <2> SUFFICES ASSUME Inv, NEW i \in sealed, NEW j \in sealed,
                      i.trip = j.trip, i.part # End, j.part # End, i.part < j.part
               PROVE  /\ \A f \in SeqRange(FixesOf(i)), g \in SeqRange(FixesOf(j)) : f.t < g.t
                      /\ \A a \in SeqRange(ArtifactsOf(i)), b \in SeqRange(ArtifactsOf(j)) :
                           a.effective_at < b.effective_at
    BY DEF ChunksInOrder
  <2>1. GoodItem(i) /\ GoodItem(j) /\ (i = j \/ ItemBefore(i, j) \/ ItemBefore(j, i))
    BY DEF Inv, ItemInv, Orderly
  <2>2. i.part \in Nat /\ j.part \in Nat /\ i.body \in ChunkBody /\ j.body \in ChunkBody
    BY <2>1, SealingAssumption DEF GoodItem
  <2>3. ItemBefore(i, j)
    <3>1. ~(j.part < i.part) /\ i.part # j.part
      BY <2>2
    <3> QED BY <2>1, <3>1 DEF ItemBefore
  <2>4. /\ AllBefore(i.body.fixes, j.body.fixes)
        /\ \A x \in 1..Len(i.body.artifacts), y \in 1..Len(j.body.artifacts) :
             i.body.artifacts[x].effective_at < j.body.artifacts[y].effective_at
    BY <2>3 DEF ItemBefore
  <2>5. /\ FixesOf(i) = i.body.fixes /\ ArtifactsOf(i) = i.body.artifacts
        /\ FixesOf(j) = j.body.fixes /\ ArtifactsOf(j) = j.body.artifacts
    BY DEF FixesOf, ArtifactsOf
  <2>6. /\ i.body.fixes \in Seq(Fixes) /\ j.body.fixes \in Seq(Fixes)
        /\ i.body.artifacts \in Seq(Artifact) /\ j.body.artifacts \in Seq(Artifact)
    BY <2>2 DEF ChunkBody
  <2>7. \A f \in SeqRange(FixesOf(i)), g \in SeqRange(FixesOf(j)) : f.t < g.t
    <3> SUFFICES ASSUME NEW f \in SeqRange(i.body.fixes), NEW g \in SeqRange(j.body.fixes)
                 PROVE  f.t < g.t
      BY <2>5
    <3>1. PICK x \in 1..Len(i.body.fixes) : f = i.body.fixes[x]
      BY <2>6, RangeIs
    <3>2. PICK y \in 1..Len(j.body.fixes) : g = j.body.fixes[y]
      BY <2>6, RangeIs
    <3> QED BY <2>4, <3>1, <3>2 DEF AllBefore
  <2>8. \A a \in SeqRange(ArtifactsOf(i)), b \in SeqRange(ArtifactsOf(j)) :
          a.effective_at < b.effective_at
    <3> SUFFICES ASSUME NEW a \in SeqRange(i.body.artifacts), NEW b \in SeqRange(j.body.artifacts)
                 PROVE  a.effective_at < b.effective_at
      BY <2>5
    <3>1. PICK x \in 1..Len(i.body.artifacts) : a = i.body.artifacts[x]
      BY <2>6, RangeIs
    <3>2. PICK y \in 1..Len(j.body.artifacts) : b = j.body.artifacts[y]
      BY <2>6, RangeIs
    <3> QED BY <2>4, <3>1, <3>2
  <2> QED BY <2>7, <2>8
<1> QED BY <1>1, Invariant, PTL

(* What a step adds to the sealed items. *)
LEMMA SealedIs ==
  ASSUME Inv, [Next]_vars
  PROVE  sealed' = sealed \/ (op.await \in Storing /\ sealed' = sealed \cup op.items)
<1>1. ASSUME Commits("drain") PROVE sealed' = sealed
  <2>1. DrainOps(txns[1][2])
    BY <1>1, DrainIsDone DEF Inv, Commits
  <2> QED BY <1>1, <2>1, DrainApplied DEF Commits
<1>2. CASE DrainDeleted \/ DrainRejected
  BY <1>1, <1>2 DEF DrainDeleted, DrainRejected
<1>3. CASE Commits("op") /\ op.await \in {"optIn", "setEnabled"}
  BY <1>3, SettingsCommit
<1>4. CASE Commits("op") /\ op.await = "forget"
  BY <1>4, ForgetCommit
<1>5. CASE Commits("op") /\ op.await \in Storing
  BY <1>5, PutCommit, FinalCommit DEF Storing
<1>6. \/ sealed' = sealed
      \/ DrainDeleted \/ DrainRejected
      \/ Commits("op") /\ op.await \in {"optIn", "setEnabled", "forget", "put", "finalize"}
  <2>1. CASE UNCHANGED vars
    BY <2>1 DEF vars, history
  <2>2. CASE Uploads
    BY <2>2 DEF Uploads, DrainFailed, RetryFires, history
  <2>3. CASE Continues
    BY <2>3 DEF Continues, InitCalled, InitLoaded, OptedIn, EnabledSet, ForgetLoaded, Forgotten,
       Put, Finalized, OpFailed, history
  <2>4. CASE Called
    BY <2>4 DEF Called, OptIn, SetEnabled, Forget, RetryNow, Reroute, StartTripCalled, AddFix,
       EndTrip, history
  <2>5. CASE Crash \/ ClockMoves
    BY <2>5 DEF Crash, ClockMoves, history
  <2>6. ASSUME NEW kind \in Kinds, DrainAnswer(kind) PROVE sealed' = sealed
    BY <2>6 DEF DrainAnswer
  <2>7. ASSUME NEW good \in BOOLEAN, Checked(good) PROVE sealed' = sealed
    BY <2>7 DEF Checked, history
  <2> QED BY <2>1, <2>2, <2>3, <2>4, <2>5, <2>6, <2>7 DEF Next, Device
<1> QED BY <1>2, <1>3, <1>4, <1>5, <1>6 DEF Storing

(* Once the end of a trip is sealed no step seals another part of it: a     *)
(* finalized trip is neither open nor on the disk.                          *)
THEOREM NothingIsSealedAfterEnd == Spec => NothingAfterEnd
<1>1. Inv /\ [Next]_vars =>
        [\A i \in sealed' \ sealed : \A e \in sealed : e.part = End => e.trip # i.trip]_vars
  <2> SUFFICES ASSUME Inv, [Next]_vars, NEW i \in sealed' \ sealed, NEW e \in sealed,
                      e.part = End, e.trip = i.trip
               PROVE  FALSE
    OBVIOUS
  <2>1. op.await \in Storing /\ i \in op.items
    BY SealedIs
  <2>2. Proposed(op.t, op.items, sealed)
    BY <2>1 DEF Inv, OpInv
  <2>3. i.trip = op.t.tripId
    BY <2>1, <2>2 DEF Proposed
  <2>4. Behind(op.t, e)
    BY <2>2, <2>3 DEF Proposed, Sound
  <2> QED BY <2>4, SealingAssumption DEF Behind
<1> QED BY <1>1, Invariant, PTL DEF Spec, NothingAfterEnd

-----------------------------------------------------------------------------
(* The fixes a trip took, and what is held back of them. *)

(* t is a later version of t0, with the same head and no private point less. *)
Inherits(t, t0) ==
  t.tripId = t0.tripId /\ t.head = t0.head /\ t0.anchors \subseteq t.anchors

(* Where the trips of the next state come from. *)
Derived(t) ==
  \/ \E t0 \in Live : Inherits(t, t0)
  \/ t.head = NULL

Succeeds(t) ==
  \/ trip # NULL /\ t.tripId = trip.tripId /\ t.head = trip.head
  \/ t.tripId \in FreshTrips /\ t.head = NULL

Progress ==
  /\ accepted' = accepted
  /\ \A t \in Live' : Derived(t)
  /\ \A t \in Open(trip') : Succeeds(t)

(* A trip is a version of itself. *)
LEMMA InheritsItself ==
  ASSUME NEW t
  PROVE  Inherits(t, t)
BY DEF Inherits

(* A step that makes no new version of a trip. *)
LEMMA LiveShrinks ==
  ASSUME Live' \subseteq Live, trip' = trip \/ trip' = NULL, accepted' = accepted
  PROVE  Progress
BY InheritsItself DEF Progress, Derived, Succeeds, Open

(* The version of a trip that a put carries. *)
LEMMA NewPut ==
  ASSUME NEW q, NEW t, NEW items, Putting(q, t, items),
         disk'.trips \subseteq Live, accepted' = accepted,
         Derived(t), Succeeds(t)
  PROVE  Progress
<1>1. trip' = t /\ op'.t = t /\ op'.await = "put"
  BY DEF Putting
<1>2. Live' \subseteq Live \cup {t}
  BY <1>1 DEF Live, Pending, Open, Storing
<1> QED BY <1>1, <1>2, InheritsItself DEF Progress, Derived, Open

(* The version of a trip that a finalization carries. *)
LEMMA NewFinal ==
  ASSUME NEW q, NEW t0 \in Live, NEW arrived \in BOOLEAN, NEW at \in Nat, NEW then,
         Finalizing(q, t0, arrived, EndTime(t0, at), then), GoodTrip(t0), clock \in Nat,
         disk'.trips \subseteq Live, accepted' = accepted,
         trip' = NULL \/ (trip' = op'.t /\ trip # NULL /\ trip = t0)
  PROVE  Progress
<1>1. PICK s : s = Final(t0, arrived, EndTime(t0, at), clock)
  OBVIOUS
<1>2. PICK t : t = s.trip
  OBVIOUS
<1>3. op'.t = t /\ op'.await = "finalize"
  BY <1>1, <1>2 DEF Finalizing
<1>4. t.tripId = t0.tripId /\ t.head = t0.head /\ t.anchors = t0.anchors
  BY <1>1, <1>2, FinalIs DEF Follows
<1>5. Live' \subseteq Live \cup {t}
  BY <1>3 DEF Live, Pending, Open, Storing
<1>6. Inherits(t, t0)
  BY <1>4 DEF Inherits
<1> QED BY <1>3, <1>4, <1>5, <1>6, InheritsItself DEF Progress, Derived, Succeeds, Open

(* The versions of the orphaned trips. *)
LEMMA NewOrphans ==
  ASSUME NEW q, NEW ts, NEW s, NEW ob, NEW rt, EndOrphans(q, ts, s, ob, rt),
         ts = disk'.trips, disk'.trips \subseteq disk.trips, trip' = NULL, accepted' = accepted,
         Inv
  PROVE  Progress
<1>1. CASE op' = Idle
  <2>1. Live' \subseteq Live
    BY <1>1 DEF Live, Pending, Open, Storing, Idle
  <2> QED BY <2>1, LiveShrinks
<1>2. ASSUME NEW t \in ts,
             Finalizing(q, t, FALSE, EndTime(t, t.startedAt), EndingOrphans(ts \ {t}))
      PROVE  Progress
  <2>1. t \in Live /\ GoodTrip(t) /\ clock \in Nat
    BY InvParts DEF Live, TripsOnDisk, Sound
  <2>2. PICK at, then : at = t.startedAt /\ then = EndingOrphans(ts \ {t})
    OBVIOUS
  <2>3. at \in Nat
    BY <2>1, <2>2, TripFields DEF GoodTrip
  <2>4. disk'.trips \subseteq Live
    BY DEF Live
  <2> QED BY <1>2, <2>1, <2>2, <2>3, <2>4, NewFinal
<1>3. \/ ts = {} /\ LeaveFlushing(q, s, ob, rt)
      \/ \E t \in ts :
           /\ Finalizing(q, t, FALSE, EndTime(t, t.startedAt), EndingOrphans(ts \ {t}))
           /\ UNCHANGED <<drain, sent>>
  BY DEF EndOrphans
<1> QED BY <1>1, <1>2, <1>3 DEF LeaveFlushing

(* The trip that startTrip makes. *)
LEMMA NewStart ==
  ASSUME NEW q, NEW line \in Routes, NEW dest \in Destinations, StartTrip(q, line, dest),
         disk'.trips \subseteq Live, accepted' = accepted, Inv
  PROVE  Progress
<1>1. clock \in 0..MaxClock
  BY InvParts
<1>2. ASSUME NEW id \in FreshTrips, Putting(q, NewTrip(id, line, dest), {})
      PROVE  Progress
  <2>1. PICK t : t = NewTrip(id, line, dest)
    OBVIOUS
  <2>2. id \in Trips
    BY DEF FreshTrips
  <2>3. t.tripId = id /\ t.head = NULL
    BY <1>1, <2>1, <2>2, NewTripIs
  <2>4. Derived(t) /\ Succeeds(t)
    BY <2>3 DEF Derived, Succeeds
  <2> QED BY <1>2, <2>1, <2>4, NewPut
<1>3. CASE trip' = NULL /\ op' = Idle
  <2>1. Live' \subseteq Live
    BY <1>3 DEF Live, Pending, Open, Storing, Idle
  <2> QED BY <1>3, <2>1, LiveShrinks
<1> QED BY <1>2, <1>3 DEF StartTrip, LeaveQuietly

(* Every step but AddFix. *)
LEMMA Progresses ==
  ASSUME Inv, [Next]_vars, \A fix \in Fixes : ~AddFix(fix)
  PROVE  Progress
<1>1. CASE /\ op' = op /\ trip' = trip /\ disk'.trips = disk.trips /\ accepted' = accepted
  <2>1. Live' = Live
    BY <1>1 DEF Live, Pending, Open
  <2> QED BY <1>1, <2>1, LiveShrinks
<1>2. CASE /\ op'.await \notin Storing /\ (trip' = trip \/ trip' = NULL)
           /\ disk'.trips \subseteq disk.trips /\ accepted' = accepted
  <2>1. Live' \subseteq Live
    BY <1>2 DEF Live, Pending, Open
  <2> QED BY <1>2, <2>1, LiveShrinks
<1>3. CASE UNCHANGED vars
  BY <1>1, <1>3 DEF vars, memory, history
<1>4. CASE Uploads
  <2>1. CASE DrainDeleted \/ DrainRejected
    <3>1. Commits("drain") /\ op' = op /\ trip' = trip /\ accepted' = accepted
      BY <2>1 DEF DrainDeleted, DrainRejected, memory
    <3> QED BY <1>1, <3>1, DrainCommitted
  <2>2. CASE DrainFailed \/ RetryFires
    BY <1>1, <2>2 DEF DrainFailed, RetryFires, memory, history
  <2> QED BY <1>4, <2>1, <2>2 DEF Uploads
<1>5. CASE Continues
  <2>1. CASE InitCalled \/ ForgetLoaded \/ OpFailed
    BY <1>2, <2>1 DEF InitCalled, ForgetLoaded, OpFailed, LeaveQuietly, memory, history, Idle, Storing
  <2>2. CASE InitLoaded
    <3>1. trip' = NULL /\ disk' = disk /\ accepted' = accepted
      BY <2>2 DEF InitLoaded, Inv, OpInv
    <3>2. EndOrphans(Tail(txns), disk.trips, disk.settings, disk.outbox, retry)
      BY <2>2 DEF InitLoaded
    <3> QED BY <3>1, <3>2, NewOrphans
  <2>3. CASE OptedIn
    <3>1. disk'.trips = disk.trips
      BY <2>3, SettingsCommit DEF OptedIn
    <3> QED BY <1>2, <2>3, <3>1 DEF OptedIn, LeaveFlushing, Idle, Storing
  <2>4. CASE EnabledSet
    <3>1. disk'.trips = disk.trips /\ accepted' = accepted
      BY <2>4, SettingsCommit DEF EnabledSet
    <3>2. CASE /\ trip # NULL /\ trip' = op'.t
               /\ Finalizing(Tail(txns), trip, FALSE, EndTime(trip, clock), Leaving)
      <4>1. trip \in Live /\ GoodTrip(trip) /\ clock \in Nat /\ disk'.trips \subseteq Live
        BY <3>1, <3>2, InvParts DEF Live, Open, Sound
      <4> QED BY <3>1, <3>2, <4>1, NewFinal
    <3>3. CASE trip' = trip /\ op' = Idle
      BY <1>2, <3>1, <3>3 DEF Idle, Storing
    <3> QED BY <2>4, <3>2, <3>3 DEF EnabledSet, LeaveFlushing
  <2>5. CASE Forgotten
    <3>1. disk'.trips = {}
      BY <2>5, ForgetCommit DEF Forgotten
    <3> QED BY <1>2, <2>5, <3>1 DEF Forgotten, LeaveQuietly, Idle, Storing
  <2>6. CASE Put
    <3>1. /\ op.await = "put" /\ Commits("op") /\ trip' = trip /\ accepted' = accepted /\ op' = Idle
      BY <2>6 DEF Put, LeaveFlushing, LeaveQuietly
    <3>2. disk'.trips \subseteq Live
      BY <3>1, PutCommit DEF Live, Pending, Storing
    <3>3. Live' \subseteq Live
      BY <3>1, <3>2 DEF Live, Pending, Open, Storing, Idle
    <3> QED BY <3>1, <3>3, LiveShrinks
  <2>7. CASE Finalized
    <3>1. /\ op.await = "finalize" /\ Commits("op") /\ accepted' = accepted
      BY <2>7 DEF Finalized
    <3>2. disk'.trips = {u \in disk.trips : u.tripId # op.t.tripId}
      BY <3>1, FinalCommit
    <3>3. disk'.trips \subseteq Live /\ disk'.trips \subseteq disk.trips
      BY <3>2 DEF Live
    <3>4. CASE trip' = NULL /\ op' = Idle
      BY <1>2, <3>1, <3>3, <3>4 DEF Idle, Storing
    <3>5. CASE /\ op.then.do = "orphans" /\ trip' = trip
               /\ EndOrphans(Tail(txns), op.then.trips, settings, outbox', retry)
      <4>1. trip' = NULL /\ op.then.trips = disk'.trips
        BY <3>1, <3>2, <3>5 DEF Inv, OpInv
      <4> QED BY <3>1, <3>3, <3>5, <4>1, NewOrphans
    <3>6. CASE /\ op.then.do = "start"
               /\ StartTrip(Tail(txns), op.then.line, op.then.destination)
      <4>1. op.then.line \in Routes /\ op.then.destination \in Destinations
        BY <3>1, <3>6 DEF Inv, OpInv
      <4> QED BY <3>1, <3>3, <3>6, <4>1, NewStart
    <3> QED BY <2>7, <3>4, <3>5, <3>6 DEF Finalized, LeaveFlushing
  <2> QED BY <1>5, <2>1, <2>2, <2>3, <2>4, <2>5, <2>6, <2>7 DEF Continues
<1>6. CASE Called
  <2>1. ASSUME NEW k \in Tokens, OptIn(k) PROVE Progress
    BY <1>2, <2>1 DEF OptIn, memory, history, Storing
  <2>2. ASSUME NEW enabled \in BOOLEAN, SetEnabled(enabled) PROVE Progress
    BY <1>2, <2>2 DEF SetEnabled, history, Storing
  <2>3. CASE Forget
    BY <1>2, <2>3 DEF Forget, history, Storing
  <2>4. CASE RetryNow
    BY <1>1, <2>4 DEF RetryNow
  <2>5. ASSUME NEW line \in Routes, Reroute(line) PROVE Progress
    <3>1. trip # NULL /\ disk' = disk /\ accepted' = accepted
      BY <2>5 DEF Reroute, history
    <3>2. PICK t, items : /\ Putting(txns, t, items) /\ Follows(trip, t, items, clock)
                          /\ t.head = trip.head /\ trip.anchors \subseteq t.anchors
      BY <2>5, RerouteIs
    <3>3. trip \in Live /\ disk'.trips \subseteq Live /\ t.tripId = trip.tripId
      BY <3>1, <3>2 DEF Live, Open, Follows
    <3>4. Derived(t) /\ Succeeds(t)
      BY <3>1, <3>2, <3>3 DEF Derived, Inherits, Succeeds
    <3> QED BY <3>1, <3>2, <3>3, <3>4, NewPut
  <2>6. ASSUME NEW line \in Routes, NEW dest \in Destinations, StartTripCalled(line, dest)
        PROVE  Progress
    <3>1. disk' = disk /\ accepted' = accepted
      BY <2>6 DEF StartTripCalled
    <3>2. disk'.trips \subseteq Live
      BY <3>1 DEF Live
    <3>3. CASE /\ trip # NULL /\ trip' = op'.t
               /\ Finalizing(txns, trip, FALSE, EndTime(trip, clock), Starting(line, dest))
      <4>1. trip \in Live /\ GoodTrip(trip) /\ clock \in Nat
        BY <3>3, InvParts DEF Live, Open, Sound
      <4> QED BY <3>1, <3>2, <3>3, <4>1, NewFinal
    <3>4. CASE StartTrip(txns, line, dest)
      BY <3>1, <3>2, <3>4, NewStart
    <3> QED BY <2>6, <3>3, <3>4 DEF StartTripCalled
  <2>7. ASSUME NEW arrived \in BOOLEAN, EndTrip(arrived) PROVE Progress
    <3>1. /\ disk' = disk /\ accepted' = accepted /\ trip # NULL /\ trip' = op'.t
          /\ Finalizing(txns, trip, arrived, EndTime(trip, clock), Leaving)
      BY <2>7 DEF EndTrip, history
    <3>2. trip \in Live /\ GoodTrip(trip) /\ clock \in Nat /\ disk'.trips \subseteq Live
      BY <3>1, InvParts DEF Live, Open, Sound
    <3> QED BY <3>1, <3>2, NewFinal
  <2> QED BY <1>6, <2>1, <2>2, <2>3, <2>4, <2>5, <2>6, <2>7 DEF Called
<1>7. CASE Crash
  <2>1. op'.await \notin Storing /\ trip' = NULL /\ disk' = disk /\ accepted' = accepted
    BY <1>7 DEF Crash, Storing, history
  <2> QED BY <1>2, <2>1
<1>8. CASE ClockMoves
  BY <1>1, <1>8 DEF ClockMoves, memory, history
<1>9. ASSUME NEW kind \in Kinds, DrainAnswer(kind) PROVE Progress
  BY <1>1, <1>9 DEF DrainAnswer
<1>10. ASSUME NEW good \in BOOLEAN, Checked(good) PROVE Progress
  BY <1>2, <1>10 DEF Checked, Idle, Storing, history
<1> QED BY <1>3, <1>4, <1>5, <1>6, <1>7, <1>8, <1>9, <1>10 DEF Next, Device

IsOrigin(o, taken) == o \in taken /\ \A g \in taken : o.t <= g.t

(* The head and the first fix of a trip, among the fixes it took. *)
Began(t, taken) ==
  t.head # NULL =>
    /\ t.head \in taken
    /\ \E o : IsOrigin(o, taken) /\ [at |-> o.at, acc |-> o.acc] \in t.anchors

KeptBack(i, taken) ==
  i.part # End =>
    \A x \in 1..Len(i.body.fixes) :
      /\ \E o : IsOrigin(o, taken) /\ Separation(i.body.fixes[x], o) >= Trim
      /\ \E g \in taken : i.body.fixes[x].t < g.t /\ Separation(i.body.fixes[x], g) >= Trim

Latest(t, taken) ==
  /\ t.head = NULL => taken = {}
  /\ t.head # NULL => \A g \in taken : g.t <= t.head.t

TakenInv ==
  /\ \A id \in Trips : /\ TakenBy(id) \subseteq Fixes
                       /\ \A f, g \in TakenBy(id) : f.t = g.t => f = g
  /\ \A t \in Open(trip) : Latest(t, TakenBy(t.tripId))
  /\ \A t \in Live : Began(t, TakenBy(t.tripId))
  /\ \A i \in sealed : KeptBack(i, TakenBy(i.trip))

(* What a trip may seal is held back from its first fix and its head. *)
LEMMA SealsKeptBack ==
  ASSUME NEW t, GoodTrip(t), NEW taken, Began(t, taken), NEW i, i.part # End => MaySeal(t, i.body),
         Trim > 0
  PROVE  KeptBack(i, taken)
<1> SUFFICES ASSUME i.part # End, NEW x \in 1..Len(i.body.fixes)
             PROVE  /\ \E o : IsOrigin(o, taken) /\ Separation(i.body.fixes[x], o) >= Trim
                    /\ \E g \in taken : /\ i.body.fixes[x].t < g.t
                                        /\ Separation(i.body.fixes[x], g) >= Trim
  BY DEF KeptBack
<1> DEFINE f == i.body.fixes[x]
<1>1. /\ ClearOf(f, t.anchors) /\ t.head # NULL /\ Separation(f, t.head) >= Trim
      /\ f = t.head \/ f.t < t.head.t
  BY DEF MaySeal
<1>2. t.head \in taken
  BY <1>1 DEF Began
<1>3. PICK o : IsOrigin(o, taken) /\ [at |-> o.at, acc |-> o.acc] \in t.anchors
  BY <1>1 DEF Began
<1>4. Separation(f, o) >= Trim
  <2> DEFINE p == [at |-> o.at, acc |-> o.acc]
  <2>1. Separation(f, p) >= Trim
    BY <1>1, <1>3 DEF ClearOf
  <2>2. Separation(f, p) = Separation(f, o)
    BY DEF Separation
  <2> QED BY <2>1, <2>2
<1>5. f # t.head
  <2> SUFFICES ASSUME f = t.head PROVE FALSE
    OBVIOUS
  <2>1. t.head \in Fixes
    <3>1. t \in TripRecord
      BY DEF GoodTrip
    <3> QED BY <1>1, <3>1, TripFields
  <2>2. t.head.at \in Places /\ t.head.acc \in Nat
    BY <2>1, DeviceAssumption
  <2>3. Distance(t.head.at, t.head.at) = 0
    BY <2>2, DeviceAssumption
  <2>4. Separation(t.head, t.head) = 0 - t.head.acc - t.head.acc
    BY <2>3 DEF Separation
  <2>5. Separation(t.head, t.head) >= Trim /\ Trim \in Nat
    BY <1>1, SealingAssumption
  <2> QED BY <2>2, <2>4, <2>5
<1> QED BY <1>1, <1>2, <1>3, <1>4, <1>5

(* A later version of a trip began where the trip did. *)
LEMMA BeganInherits ==
  ASSUME NEW t, NEW t0, Inherits(t, t0), NEW taken, Began(t0, taken)
  PROVE  Began(t, taken)
BY DEF Inherits, Began

(* Another fix, later than all before. *)
LEMMA OriginStays ==
  ASSUME NEW taken, NEW fix \in Fixes, taken \subseteq Fixes, \A g \in taken : g.t < fix.t
  PROVE  /\ \A o : IsOrigin(o, taken) => IsOrigin(o, taken \cup {fix})
         /\ taken = {} => IsOrigin(fix, taken \cup {fix})
<1>1. \A g \in Fixes : g.t \in Nat
  BY DeviceAssumption
<1>2. ASSUME NEW o, IsOrigin(o, taken) PROVE o.t <= fix.t
  BY <1>1, <1>2 DEF IsOrigin
<1>3. fix.t <= fix.t
  BY <1>1
<1> QED BY <1>2, <1>3 DEF IsOrigin

(* A fix later than all before changes neither where a trip began nor what  *)
(* was held back.                                                           *)
LEMMA MoreTaken ==
  ASSUME NEW taken, NEW fix \in Fixes, taken \subseteq Fixes, \A g \in taken : g.t < fix.t
  PROVE  /\ \A t : Began(t, taken) => Began(t, taken \cup {fix})
         /\ \A i : KeptBack(i, taken) => KeptBack(i, taken \cup {fix})
BY OriginStays DEF Began, KeptBack

(* addFix takes a fix later than every fix its trip took. *)
LEMMA AddFixTakes ==
  ASSUME Inv, TakenInv, NEW fix \in Fixes, AddFix(fix)
  PROVE  /\ accepted' = accepted \cup {<<trip.tripId, fix>>} /\ sealed' = sealed
         /\ trip # NULL /\ trip.tripId \in Trips
         /\ \A g \in TakenBy(trip.tripId) : g.t < fix.t
         /\ trip'.head = fix /\ trip'.tripId = trip.tripId /\ trip' # NULL
         /\ Live' \subseteq Live \cup {trip'}
         /\ Began(trip', TakenBy(trip.tripId) \cup {fix})
<1>1. /\ trip # NULL /\ FollowsHead(trip.head, fix) /\ sealed' = sealed /\ disk' = disk
      /\ accepted' = accepted \cup {<<trip.tripId, fix>>}
  BY DEF AddFix
<1>2. PICK t, items :
        /\ Putting(txns, t, items) /\ Follows(trip, t, items, clock) /\ t.head = fix
        /\ trip.anchors \subseteq t.anchors
        /\ trip.head = NULL => [at |-> fix.at, acc |-> fix.acc] \in t.anchors
  BY AddFixIs
<1>5. GoodTrip(trip)
  BY <1>1, InvParts DEF Sound
<1>7. t \in TripRecord /\ t.tripId = trip.tripId /\ trip.tripId \in Trips
      /\ trip.head \in Fixes \cup {NULL} /\ t # NULL
  BY <1>5, <1>2, TripFields, DeviceAssumption DEF Follows, GoodTrip
<1>8. trip' = t /\ Live' \subseteq Live \cup {t}
  BY <1>1, <1>2 DEF Putting, Live, Pending, Open, Storing
<1> DEFINE taken == TakenBy(trip.tripId)
<1>9. trip \in Open(trip) /\ trip \in Live
  BY <1>1 DEF Open, Live
<1>10. Latest(trip, taken) /\ Began(trip, taken) /\ taken \subseteq Fixes
  BY <1>7, <1>9 DEF TakenInv
<1> HIDE DEF taken
<1>11. \A g \in taken : g.t < fix.t
  <2> SUFFICES ASSUME NEW g \in taken PROVE g.t < fix.t
    OBVIOUS
  <2>1. trip.head # NULL /\ g.t <= trip.head.t /\ g \in Fixes
    BY <1>10 DEF Latest
  <2>2. trip.head.t < fix.t /\ trip.head.t \in Nat /\ fix.t \in Nat
    <3>1. trip.head.t \in Nat /\ fix.t \in Nat
      BY <1>7, <2>1, DeviceAssumption
    <3>2. fix.t - trip.head.t >= MinFixInterval /\ MinFixInterval \in Nat \ {0}
      BY <1>1, <2>1, SealingAssumption DEF FollowsHead
    <3> QED BY <3>1, <3>2
  <2>3. g.t \in Nat
    BY <2>1, DeviceAssumption
  <2> QED BY <2>1, <2>2, <2>3
<1>12. Began(t, taken \cup {fix})
  <2>1. CASE trip.head = NULL
    <3>1. IsOrigin(fix, taken \cup {fix})
      BY <2>1, <1>10, <1>11, OriginStays DEF Latest
    <3> QED BY <2>1, <3>1, <1>2 DEF Began
  <2>2. CASE trip.head # NULL
    <3>1. PICK o : IsOrigin(o, taken) /\ [at |-> o.at, acc |-> o.acc] \in trip.anchors
      BY <2>2, <1>10 DEF Began
    <3>2. IsOrigin(o, taken \cup {fix})
      BY <3>1, <1>10, <1>11, OriginStays
    <3> QED BY <3>1, <3>2, <1>2 DEF Began
  <2> QED BY <2>1, <2>2
<1> QED BY <1>1, <1>2, <1>7, <1>8, <1>11, <1>12 DEF taken

(* The fixes taken by a trip after addFix. *)
LEMMA TakenAfter ==
  ASSUME NEW id, NEW fix, NEW id0, accepted' = accepted \cup {<<id0, fix>>}
  PROVE  TakenBy(id)' = IF id = id0 THEN TakenBy(id) \cup {fix} ELSE TakenBy(id)
<1> DEFINE new == <<id0, fix>>
           Of(A) == {b \in A : b[1] = id}
<1>1. TakenBy(id) = {a[2] : a \in Of(accepted)} /\ TakenBy(id)' = {a[2] : a \in Of(accepted \cup {new})}
  BY DEF TakenBy
<1>2. new[1] = id0 /\ new[2] = fix
  OBVIOUS
<1> HIDE DEF new
<1>3. Of(accepted \cup {new}) = IF id = id0 THEN Of(accepted) \cup {new} ELSE Of(accepted)
  BY <1>2
<1> HIDE DEF Of
<1>4. CASE id = id0
  BY <1>1, <1>2, <1>3, <1>4
<1>5. CASE id # id0
  BY <1>1, <1>3, <1>5
<1> QED BY <1>4, <1>5

(* Every step keeps the invariant about the fixes the trips took. *)
LEMMA TakenStep ==
  ASSUME Inv, TakenInv, [Next]_vars, Trim > 0
  PROVE  TakenInv'
<1>1. CASE \E fix \in Fixes : AddFix(fix)
  <2>1. PICK fix \in Fixes : AddFix(fix)
    BY <1>1
  <2>2. PICK id0 : id0 = trip.tripId
    OBVIOUS
  <2> DEFINE taken == TakenBy(id0)
             more == taken \cup {fix}
  <2>3. /\ accepted' = accepted \cup {<<id0, fix>>} /\ sealed' = sealed
        /\ trip # NULL /\ id0 \in Trips
        /\ \A g \in taken : g.t < fix.t
        /\ trip'.head = fix /\ trip'.tripId = id0 /\ trip' # NULL
        /\ Live' \subseteq Live \cup {trip'}
        /\ Began(trip', more)
    BY <2>1, <2>2, AddFixTakes
  <2>4. \A id : (TakenBy(id))' = IF id = id0 THEN more ELSE TakenBy(id)
    BY <2>3, TakenAfter
  <2>5. taken \subseteq Fixes /\ \A f, g \in taken : f.t = g.t => f = g
    BY <2>3 DEF TakenInv
  <2>6. \A g \in Fixes : g.t \in Nat
    BY DeviceAssumption
  <2>7. /\ \A t : Began(t, taken) => Began(t, more)
        /\ \A i : KeptBack(i, taken) => KeptBack(i, more)
    BY <2>3, <2>5, MoreTaken
  <2> HIDE DEF taken, more
  <2>8. \A id \in Trips : /\ (TakenBy(id))' \subseteq Fixes
                          /\ \A f, g \in (TakenBy(id))' : f.t = g.t => f = g
    <3>1. more \subseteq Fixes /\ \A f, g \in more : f.t = g.t => f = g
      BY <2>3, <2>5, <2>6 DEF more
    <3> QED BY <2>4, <3>1 DEF TakenInv
  <2>9. \A t \in Open(trip') : Latest(t, (TakenBy(t.tripId))')
    <3>1. Latest(trip', more)
      BY <2>3, <2>5, <2>6, DeviceAssumption DEF Latest, more
    <3> QED BY <2>3, <2>4, <3>1 DEF Open
  <2>10. ASSUME NEW t \in Live' PROVE Began(t, (TakenBy(t.tripId))')
    <3>1. CASE t \in Live
      <4>1. Began(t, TakenBy(t.tripId))
        BY <3>1 DEF TakenInv
      <4> QED BY <4>1, <2>4, <2>7 DEF taken
    <3>2. CASE t = trip'
      BY <3>2, <2>3, <2>4
    <3> QED BY <2>3, <3>1, <3>2
  <2>11. ASSUME NEW i \in sealed' PROVE KeptBack(i, (TakenBy(i.trip))')
    <3>1. KeptBack(i, TakenBy(i.trip))
      BY <2>3 DEF TakenInv
    <3> QED BY <3>1, <2>4, <2>7 DEF taken
  <2> QED BY <2>8, <2>9, <2>10, <2>11 DEF TakenInv
<1>2. CASE ~\E fix \in Fixes : AddFix(fix)
  <2>1. Progress
    BY <1>2, Progresses
  <2>2. \A id : (TakenBy(id))' = TakenBy(id)
    BY <2>1 DEF Progress, TakenBy
  <2>3. \A id \in Trips : /\ (TakenBy(id))' \subseteq Fixes
                          /\ \A f, g \in (TakenBy(id))' : f.t = g.t => f = g
    BY <2>2 DEF TakenInv
  <2>4. ASSUME NEW t \in Open(trip') PROVE Latest(t, (TakenBy(t.tripId))')
    <3>1. CASE trip # NULL /\ t.tripId = trip.tripId /\ t.head = trip.head
      <4>1. Latest(trip, TakenBy(trip.tripId))
        BY <3>1 DEF TakenInv, Open
      <4> QED BY <4>1, <3>1, <2>2 DEF Latest
    <3>2. CASE t.tripId \in FreshTrips /\ t.head = NULL
      <4>1. TakenBy(t.tripId) = {}
        BY <3>2 DEF FreshTrips, TakenBy
      <4> QED BY <4>1, <3>2, <2>2 DEF Latest
    <3> QED BY <2>1, <3>1, <3>2 DEF Progress, Succeeds
  <2>5. ASSUME NEW t \in Live' PROVE Began(t, (TakenBy(t.tripId))')
    <3>1. ASSUME NEW t0 \in Live, Inherits(t, t0) PROVE Began(t, TakenBy(t.tripId))
      <4>1. Began(t0, TakenBy(t0.tripId)) /\ t.tripId = t0.tripId
        BY <3>1 DEF TakenInv, Inherits
      <4> QED BY <4>1, <3>1, BeganInherits
    <3>2. CASE t.head = NULL
      BY <3>2 DEF Began
    <3> QED BY <2>1, <2>2, <3>1, <3>2 DEF Progress, Derived
  <2>6. ASSUME NEW i \in sealed' PROVE KeptBack(i, (TakenBy(i.trip))')
    <3>1. CASE i \in sealed
      BY <3>1, <2>2 DEF TakenInv
    <3>2. CASE i \notin sealed
      <4>1. op.await \in Storing /\ i \in op.items
        BY <3>2, SealedIs
      <4>2. Proposed(op.t, op.items, sealed) /\ op.t \in Live
        BY <4>1 DEF Inv, OpInv, Live, Pending
      <4>3. GoodTrip(op.t) /\ i.trip = op.t.tripId /\ (i.part # End => MaySeal(op.t, i.body))
        BY <4>1, <4>2 DEF Proposed, Sound
      <4>4. Began(op.t, TakenBy(i.trip))
        BY <4>2, <4>3 DEF TakenInv
      <4> QED BY <4>3, <4>4, <2>2, SealsKeptBack
    <3> QED BY <3>1, <3>2
  <2> QED BY <2>3, <2>4, <2>5, <2>6 DEF TakenInv
<1> QED BY <1>1, <1>2

(* Every place in a body that a trip may seal is clear of the trip's        *)
(* anchors.                                                                 *)
LEMMA PlacesAreClear ==
  ASSUME NEW t, NEW i, i.part # End => MaySeal(t, i.body), NEW p \in PlacesOf(i)
  PROVE  ClearOf(p, t.anchors)
<1>0. i.part # End
  BY DEF PlacesOf, FixesOf, ArtifactsOf, SeqRange
<1>1. i.body \in ChunkBody /\ MaySeal(t, i.body) /\ FixesOf(i) = i.body.fixes
      /\ ArtifactsOf(i) = i.body.artifacts
      /\ i.body.fixes \in Seq(Fixes) /\ i.body.artifacts \in Seq(Artifact)
  BY <1>0 DEF MaySeal, FixesOf, ArtifactsOf, ChunkBody
<1>2. ASSUME NEW f \in SeqRange(FixesOf(i)), p = [at |-> f.at, acc |-> f.acc]
      PROVE  ClearOf(p, t.anchors)
  <2>1. PICK x \in 1..Len(i.body.fixes) : f = i.body.fixes[x]
    BY <1>1, RangeIs
  <2>2. ClearOf(f, t.anchors)
    BY <1>1, <2>1 DEF MaySeal
  <2>3. \A a : Separation(p, a) = Separation(f, a)
    BY <1>2 DEF Separation
  <2> QED BY <2>2, <2>3 DEF ClearOf
<1>3. ASSUME NEW a \in SeqRange(ArtifactsOf(i)), NEW v \in SeqRange(a.line), p = Point(v)
      PROVE  ClearOf(p, t.anchors)
  <2>1. PICK x \in 1..Len(i.body.artifacts) : a = i.body.artifacts[x] /\ a \in Artifact
    BY <1>1, RangeIs
  <2>2. a.line \in Seq(Places)
    BY <2>1 DEF Artifact
  <2>3. PICK k \in 1..Len(a.line) : v = a.line[k]
    BY <2>2, RangeIs
  <2> QED BY <1>1, <1>3, <2>1, <2>3 DEF MaySeal
<1>4. \/ \E f \in SeqRange(FixesOf(i)) : p = [at |-> f.at, acc |-> f.acc]
      \/ \E a \in SeqRange(ArtifactsOf(i)) : \E v \in SeqRange(a.line) : p = Point(v)
  BY DEF PlacesOf
<1> QED BY <1>2, <1>3, <1>4

(* With a trim distance, no sealed fix is closer than Trim to the first fix *)
(* of its trip, and each is at least Trim from some later fix: the first    *)
(* and the last stretch stay on the device however the drive ends, by an    *)
(* end, a kill or a relaunch. No place about to be sealed is near a private *)
(* point of its trip.                                                       *)
THEOREM FixesAreHeldBack == ASSUME Trim > 0 PROVE Spec => []HeldBack
<1>1. Init => TakenInv
  <2> SUFFICES ASSUME Init PROVE TakenInv
    OBVIOUS
  <2>1. accepted = {} /\ sealed = {} /\ Live = {} /\ Open(trip) = {}
    BY DEF Init, Live, Open, Pending, Storing
  <2>2. \A id : TakenBy(id) = {}
    BY <2>1 DEF TakenBy
  <2> QED BY <2>1, <2>2 DEF TakenInv
<1>2. Inv /\ TakenInv /\ [Next]_vars => TakenInv'
  BY TakenStep
<1>3. Inv /\ TakenInv => HeldBack
  <2> SUFFICES ASSUME Inv, TakenInv PROVE HeldBack
    OBVIOUS
  <2>1. ASSUME NEW i \in sealed, NEW f \in SeqRange(FixesOf(i))
        PROVE  /\ Separation(f, Origin(i.trip)) >= Trim
               /\ \E g \in TakenBy(i.trip) : f.t < g.t /\ Separation(f, g) >= Trim
    <3> DEFINE taken == TakenBy(i.trip)
    <3>1. i.part # End /\ FixesOf(i) = i.body.fixes
      BY <2>1 DEF FixesOf, SeqRange
    <3>2. i.body.fixes \in Seq(Fixes) /\ i.trip \in Trips
      BY <3>1 DEF Inv, ItemInv, Orderly, GoodItem, ChunkBody
    <3>3. PICK x \in 1..Len(i.body.fixes) : f = i.body.fixes[x]
      BY <2>1, <3>1, <3>2, RangeIs
    <3>4. KeptBack(i, taken) /\ taken \subseteq Fixes /\ \A e, g \in taken : e.t = g.t => e = g
      BY <3>2 DEF TakenInv
    <3> HIDE DEF taken
    <3>5. PICK o : IsOrigin(o, taken) /\ Separation(f, o) >= Trim
      BY <3>1, <3>3, <3>4 DEF KeptBack
    <3>6. \E g \in taken : f.t < g.t /\ Separation(f, g) >= Trim
      BY <3>1, <3>3, <3>4 DEF KeptBack
    <3>7. \A e : IsOrigin(e, taken) => e = o
      <4> SUFFICES ASSUME NEW e, IsOrigin(e, taken) PROVE e = o
        OBVIOUS
      <4>1. e \in taken /\ o \in taken /\ e.t <= o.t /\ o.t <= e.t
        BY <3>5 DEF IsOrigin
      <4>2. e.t \in Nat /\ o.t \in Nat
        BY <4>1, <3>4, DeviceAssumption
      <4> QED BY <4>1, <4>2, <3>4
    <3>8. Origin(i.trip) = o
      <4>1. Origin(i.trip) = CHOOSE e \in taken : \A g \in taken : e.t <= g.t
        BY DEF Origin, taken
      <4>2. \E e \in taken : \A g \in taken : e.t <= g.t
        BY <3>5 DEF IsOrigin
      <4>3. Origin(i.trip) \in taken /\ \A g \in taken : Origin(i.trip).t <= g.t
        BY <4>1, <4>2
      <4> QED BY <4>3, <3>7 DEF IsOrigin
    <3> QED BY <3>5, <3>6, <3>8 DEF taken
  <2>2. ASSUME op.await \in {"put", "finalize"}, NEW i \in op.items, NEW p \in PlacesOf(i)
        PROVE  ClearOf(p, op.t.anchors)
    <3>1. i.part # End => MaySeal(op.t, i.body)
      BY <2>2 DEF Inv, OpInv, Storing, Proposed
    <3> QED BY <3>1, PlacesAreClear
  <2> QED BY <2>1, <2>2 DEF HeldBack
<1> QED BY <1>1, <1>2, <1>3, Invariant, PTL DEF Spec

-----------------------------------------------------------------------------
(* Storage and memory agree while storage rejects nothing. *)

Settled == {"nothing", "me", "optIn", "setEnabled", "forgetLoad", "forget"}
Starts == {"launch", "load"}

HasFixes(S, id) == \E j \in S : j.trip = id /\ j.part # End /\ Len(j.body.fixes) > 0

(* Storage and memory, while no transaction is rejected. *)
SameInv ==
  /\ op.await \in Settled => disk.trips = Open(trip)
  /\ op.await = "put" \/ (op.await = "finalize" /\ op.then.do # "orphans") =>
       \A u \in disk.trips : u.tripId = op.t.tripId
  /\ op.await \in Starts => drain = Idle /\ outbox = {}
  /\ op.await \notin Starts => disk.outbox = outbox

OwnerInv ==
  /\ disk.settings = NULL => disk.trips = {} /\ disk.outbox = {} /\ op.await \notin Storing
  /\ settings # NULL /\ op.await # "optIn" => disk.settings # NULL
  /\ settings = NULL /\ op.await \notin Starts =>
       disk.trips = {} /\ disk.outbox = {} /\ op.await \notin Storing

FixesFirst ==
  /\ \A t \in disk.trips : t.sealedFixes => HasFixes(sealed, t.tripId)
  /\ \A i \in sealed : i.part # End /\ Len(i.body.artifacts) > 0 => HasFixes(sealed, i.trip)

FixesInv ==
  /\ FixesFirst
  /\ op.await \in Storing /\ op.t.sealedFixes => HasFixes(sealed \cup op.items, op.t.tripId)

Kept(b) == SameInv /\ OwnerInv /\ (b => FixesInv)

(* No trip holds more artifacts than it has seqs. *)
FewHeld == \A t \in Live : Len(t.heldArtifacts) <= MaxSeq

(* How an operation may leave storage. *)
DiskIsOwned(b) ==
  /\ disk.outbox = outbox
  /\ disk.settings # NULL /\ settings # NULL
  /\ b => FixesFirst

(* A put, from storage that agrees with memory. *)
LEMMA KeptPut ==
  ASSUME NEW b, NEW q, NEW t, NEW items, Putting(q, t, items),
         \A u \in disk'.trips : u.tripId = t.tripId, DiskIsOwned(b)',
         b /\ t.sealedFixes => HasFixes(sealed' \cup items, t.tripId)
  PROVE  Kept(b)'
<1>1. op'.await = "put" /\ op'.t = t /\ op'.items = items
  BY DEF Putting
<1>2. SameInv' /\ OwnerInv'
  BY <1>1 DEF SameInv, OwnerInv, DiskIsOwned, Settled, Starts, Storing
<1>3. b => FixesInv'
  BY <1>1 DEF FixesInv, DiskIsOwned
<1> QED BY <1>2, <1>3 DEF Kept

(* A finalization, from storage that agrees with memory. *)
LEMMA KeptFinal ==
  ASSUME NEW b, NEW q, NEW t0, NEW arrived \in BOOLEAN, NEW at \in Nat, NEW then,
         Finalizing(q, t0, arrived, EndTime(t0, at), then), GoodTrip(t0), clock \in Nat,
         then.do # "orphans" => \A u \in disk'.trips : u.tripId = t0.tripId, DiskIsOwned(b)',
         b /\ t0.sealedFixes => HasFixes(sealed', t0.tripId),
         b => Len(t0.heldArtifacts) <= MaxSeq
  PROVE  Kept(b)'
<1>1. PICK s : s = Final(t0, arrived, EndTime(t0, at), clock)
  OBVIOUS
<1>2. PICK t, items : t = s.trip /\ items = s.items
  OBVIOUS
<1>3. op'.t = t /\ op'.items = items /\ op'.then = then /\ op'.await = "finalize"
  BY <1>1, <1>2 DEF Finalizing
<1>4. /\ Follows(t0, t, items, clock)
      /\ Len(t0.heldArtifacts) <= MaxSeq /\ t.sealedFixes =>
           t0.sealedFixes \/ \E i \in items : i.part # End /\ Len(i.body.fixes) > 0
  BY <1>1, <1>2, FinalIs
<1>5. t.tripId = t0.tripId /\ \A i \in items : i.trip = t.tripId
  BY <1>4 DEF Follows
<1>6. SameInv' /\ OwnerInv'
  BY <1>3, <1>5 DEF SameInv, OwnerInv, DiskIsOwned, Settled, Starts, Storing
<1>7. b => FixesInv'
  <2> SUFFICES ASSUME b PROVE FixesInv'
    OBVIOUS
  <2>1. t.sealedFixes => HasFixes(sealed' \cup items, t.tripId)
    BY <1>4, <1>5 DEF HasFixes
  <2> QED BY <1>3, <2>1 DEF FixesInv, DiskIsOwned
<1> QED BY <1>6, <1>7 DEF Kept

(* The end of an operation, when storage agrees with memory. *)
LEMMA KeptIdle ==
  ASSUME NEW b, op'.await \in Settled \ {"optIn"}, disk'.trips = Open(trip'), disk'.outbox = outbox',
         settings' # NULL => disk'.settings # NULL,
         settings' = NULL \/ disk'.settings = NULL => disk'.trips = {} /\ disk'.outbox = {},
         b => FixesFirst'
  PROVE  Kept(b)'
BY DEF Kept, SameInv, OwnerInv, FixesInv, Settled, Starts, Storing

(* A step beside the operation. *)
LEMMA KeptAside ==
  ASSUME NEW b, Kept(b), op' = op, trip' = trip, sealed' = sealed, disk'.trips = disk.trips,
         disk'.outbox \subseteq disk.outbox,
         op.await \notin Starts => disk'.outbox = outbox',
         op.await \in Starts => drain' = Idle /\ outbox' = {},
         disk.settings # NULL => disk'.settings # NULL,
         settings' = NULL <=> settings = NULL
  PROVE  Kept(b)'
<1>1. SameInv'
  BY DEF Kept, SameInv
<1>2. OwnerInv'
  BY DEF Kept, OwnerInv
<1>3. FixesInv => FixesInv'
  BY DEF FixesInv, FixesFirst
<1> QED BY <1>1, <1>2, <1>3 DEF Kept

(* Settings are not absent settings. *)
LEMMA SettingsAreNotNull == NULL \notin Settings
BY DeviceAssumption

(* The drain, the retries and the clock. *)
LEMMA KeptDrain ==
  ASSUME NEW b, Inv, Kept(b),
         \/ \E kind \in Kinds : DrainAnswer(kind)
         \/ DrainDeleted \/ DrainRejected \/ RetryFires \/ RetryNow \/ ClockMoves
         \/ UNCHANGED vars
  PROVE  Kept(b)'
<1>1. drain # Idle => op.await \notin Starts
  BY DEF Kept, SameInv
<1>2. op.await \notin Starts => disk.outbox = outbox
  BY DEF Kept, SameInv
<1>3. op.await \in Starts => drain = Idle /\ outbox = {}
  BY DEF Kept, SameInv
<1>4. ASSUME NEW kind \in Kinds, DrainAnswer(kind) PROVE Kept(b)'
  <2>1. /\ op' = op /\ trip' = trip /\ sealed' = sealed /\ disk' = disk /\ outbox' = outbox
        /\ drain.await = "answer"
    BY <1>4 DEF DrainAnswer
  <2>2. op.await \notin Starts
    BY <1>1, <2>1 DEF Idle
  <2>3. settings' = NULL <=> settings = NULL
    <3>1. settings # NULL => [settings EXCEPT !.rejected = TRUE] \in Settings
      BY DEF Inv, TypeInv, Settings
    <3>2. settings' = settings \/ (settings # NULL /\ settings' = [settings EXCEPT !.rejected = TRUE])
      BY <1>4 DEF DrainAnswer
    <3> QED BY <3>1, <3>2, SettingsAreNotNull
  <2> QED BY <1>2, <2>1, <2>2, <2>3, KeptAside
<1>5. CASE DrainDeleted
  <2>1. /\ Commits("drain") /\ op' = op /\ trip' = trip /\ settings' = settings
        /\ drain.await = "delete" /\ outbox' = {i \in outbox : Key(i) # Key(drain.item)}
    BY <1>5 DEF DrainDeleted
  <2>2. /\ sealed' = sealed /\ disk'.outbox \subseteq disk.outbox /\ disk'.trips = disk.trips
        /\ disk'.settings \in Settings \cup {disk.settings} /\ DrainOps(txns[1][2])
    BY <2>1, DrainCommitted
  <2>3. disk'.outbox = {i \in disk.outbox : Key(i) # Key(drain.item)}
    <3> DEFINE o == txns[1][2]
    <3>1. o = [NoOps EXCEPT !.deleteOutbox = {Key(drain.item)}] /\ disk' = Applied(disk, o)
      BY <2>1, <2>2 DEF DrainOps, Commits
    <3> HIDE DEF o
    <3>2. o.putOutbox = {} /\ o.deleteOutbox = {Key(drain.item)}
      BY <3>1 DEF NoOps
    <3> QED BY <3>1, <3>2 DEF Applied
  <2>4. op.await \notin Starts
    BY <1>1, <2>1 DEF Idle
  <2>5. disk.settings # NULL => disk'.settings # NULL
    BY <2>2, SettingsAreNotNull
  <2>6. disk'.outbox = outbox'
    BY <1>2, <2>1, <2>3, <2>4
  <2> QED BY <2>1, <2>2, <2>4, <2>5, <2>6, KeptAside
<1>6. CASE DrainRejected
  <2>1. /\ Commits("drain") /\ op' = op /\ trip' = trip /\ settings' = settings /\ outbox' = outbox
        /\ drain.await = "reject"
    BY <1>6 DEF DrainRejected, memory
  <2>2. /\ sealed' = sealed /\ disk'.outbox \subseteq disk.outbox /\ disk'.trips = disk.trips
        /\ disk'.settings \in Settings \cup {disk.settings} /\ DrainOps(txns[1][2])
    BY <2>1, DrainCommitted
  <2>3. disk'.outbox = disk.outbox
    <3> DEFINE o == txns[1][2]
    <3>1. (\E s \in Settings : o = [NoOps EXCEPT !.settings = {s}]) /\ disk' = Applied(disk, o)
      BY <2>1, <2>2 DEF DrainOps, Commits
    <3> HIDE DEF o
    <3>2. o.putOutbox = {} /\ o.deleteOutbox = {}
      BY <3>1 DEF NoOps
    <3> QED BY <3>1, <3>2 DEF Applied
  <2>4. op.await \notin Starts
    BY <1>1, <2>1 DEF Idle
  <2>5. disk.settings # NULL => disk'.settings # NULL
    BY <2>2, SettingsAreNotNull
  <2> QED BY <1>2, <2>1, <2>2, <2>3, <2>4, <2>5, KeptAside
<1>7. CASE RetryFires \/ RetryNow
  <2>1. /\ Flush(settings, outbox, FALSE)
        /\ UNCHANGED <<settings, trip, outbox, op, disk, sealed>>
    BY <1>7 DEF RetryFires, RetryNow
  <2>2. op.await \in Starts => drain' = Idle
    BY <1>3, <2>1 DEF Flush, Loop, Looped
  <2> QED BY <1>2, <1>3, <2>1, <2>2, KeptAside
<1>8. CASE ClockMoves \/ UNCHANGED vars
  <2>1. UNCHANGED <<settings, trip, outbox, op, drain, disk, sealed>>
    BY <1>8 DEF ClockMoves, vars, memory, history
  <2> QED BY <1>2, <1>3, <2>1, KeptAside
<1> QED BY <1>4, <1>5, <1>6, <1>7, <1>8

(* What holds between operations. *)
LEMMA IdleIsKept ==
  ASSUME NEW b, Kept(b), op.await \in Settled \ {"optIn"}
  PROVE  /\ disk.trips = Open(trip) /\ disk.outbox = outbox
         /\ settings # NULL => disk.settings # NULL
         /\ settings = NULL \/ disk.settings = NULL => disk.trips = {} /\ disk.outbox = {}
         /\ trip # NULL => trip \in disk.trips /\ settings # NULL /\ disk.settings # NULL
         /\ b => FixesFirst
<1>1. op.await # "optIn" /\ op.await \notin Starts /\ op.await \in Settled
  BY DEF Settled, Starts
<1>2. trip # NULL => trip \in Open(trip)
  BY DEF Open
<1> QED BY <1>1, <1>2 DEF Kept, SameInv, OwnerInv, FixesInv

(* An idle operation awaits nothing. *)
LEMMA IdleIsSettled == op = Idle => op.await \in Settled \ {"optIn"}
BY DEF Idle, Settled

(* The steps of an operation that stores settings. *)
LEMMA KeptSettled ==
  ASSUME NEW b, Kept(b), op.await \in Settled, op'.await \in Settled \ {"optIn"},
         trip' = trip, outbox' = outbox, sealed' = sealed,
         disk'.trips = disk.trips, disk'.outbox = disk.outbox,
         disk'.settings = disk.settings \/ disk'.settings # NULL,
         op.await = "optIn" => disk'.settings # NULL,
         settings' = NULL <=> settings = NULL
  PROVE  Kept(b)'
<1>1. op.await \notin Starts
  BY DEF Settled, Starts
<1>2. disk'.trips = Open(trip') /\ disk'.outbox = outbox'
  BY <1>1 DEF Kept, SameInv, Open
<1>3. settings' # NULL => disk'.settings # NULL
  BY DEF Kept, OwnerInv
<1>4. settings' = NULL \/ disk'.settings = NULL => disk'.trips = {} /\ disk'.outbox = {}
  BY <1>1 DEF Kept, OwnerInv
<1>5. b => FixesFirst'
  BY DEF Kept, FixesInv, FixesFirst
<1> QED BY <1>2, <1>3, <1>4, <1>5, KeptIdle

(* optIn has its answer. *)
LEMMA KeptChecked ==
  ASSUME NEW b, Inv, Kept(b), NEW good \in BOOLEAN, Checked(good)
  PROVE  Kept(b)'
<1>1. op.await = "me" /\ UNCHANGED <<trip, outbox, retry, drain, disk, clock, crashes, sealed>>
  BY DEF Checked, history
<1>2. op.await \in Settled
  BY <1>1 DEF Settled
<1>3. CASE ~good
  <2>1. op'.await \in Settled \ {"optIn"} /\ settings' = settings
    BY <1>3, IdleIsSettled DEF Checked, Idle, Settled
  <2> QED BY <1>1, <1>2, <2>1, KeptSettled
<1>4. CASE good
  <2>1. op'.await = "optIn" /\ settings' = [token |-> op.token, enabled |-> TRUE, rejected |-> FALSE]
    BY <1>4 DEF Checked
  <2>2. settings' # NULL
    <3>1. settings' \in Settings
      BY <1>1, <2>1 DEF Inv, OpInv, Settings
    <3> QED BY <3>1, SettingsAreNotNull
  <2>3. op.await \in Settled \ {"optIn"}
    BY <1>1 DEF Settled
  <2>4. /\ disk.trips = Open(trip) /\ disk.outbox = outbox
        /\ disk.settings = NULL => disk.trips = {} /\ disk.outbox = {}
        /\ b => FixesFirst
    BY <2>3, IdleIsKept
  <2>5. SameInv'
    BY <1>1, <2>1, <2>4 DEF SameInv, Starts, Open
  <2>6. OwnerInv'
    BY <1>1, <2>1, <2>2, <2>4 DEF OwnerInv, Storing
  <2>7. b => FixesInv'
    BY <1>1, <2>1, <2>4 DEF FixesInv, FixesFirst, Storing
  <2> QED BY <2>5, <2>6, <2>7 DEF Kept
<1> QED BY <1>3, <1>4

(* optIn, setEnabled and forget, up to what they store. *)
LEMMA KeptSettings ==
  ASSUME NEW b, Inv, Kept(b),
         \/ \E k \in Tokens : OptIn(k)
         \/ \E enabled \in BOOLEAN : SetEnabled(enabled)
         \/ Forget \/ ForgetLoaded \/ OptedIn
  PROVE  Kept(b)'
<1>1. CASE (\E k \in Tokens : OptIn(k)) \/ Forget \/ ForgetLoaded
  <2>1. /\ op.await \in Settled /\ op.await # "optIn" /\ op'.await \in Settled \ {"optIn"}
        /\ UNCHANGED <<trip, outbox, sealed, disk, settings>>
    BY <1>1, IdleIsSettled DEF OptIn, Forget, ForgetLoaded, Settled, memory, history
  <2> QED BY <2>1, KeptSettled
<1>2. ASSUME NEW enabled \in BOOLEAN, SetEnabled(enabled) PROVE Kept(b)'
  <2>1. /\ op.await \in Settled /\ op.await # "optIn" /\ op'.await \in Settled \ {"optIn"}
        /\ UNCHANGED <<trip, outbox, sealed, disk>>
        /\ settings # NULL /\ settings' = [settings EXCEPT !.enabled = enabled]
    BY <1>2, IdleIsSettled DEF SetEnabled, Settled, history
  <2>2. settings' \in Settings
    BY <2>1 DEF Inv, TypeInv, Settings
  <2>3. settings' # NULL
    BY <2>2, SettingsAreNotNull
  <2> QED BY <2>1, <2>3, KeptSettled
<1>3. CASE OptedIn
  <2>1. op.await = "optIn" /\ Commits("op") /\ op' = Idle /\ UNCHANGED <<trip, outbox, settings>>
    BY <1>3 DEF OptedIn, LeaveFlushing
  <2>2. /\ sealed' = sealed /\ disk'.trips = disk.trips /\ disk'.outbox = disk.outbox
        /\ disk'.settings \in Settings
    BY <2>1, SettingsCommit
  <2>3. disk'.settings # NULL
    BY <2>2, SettingsAreNotNull
  <2>4. op'.await \in Settled \ {"optIn"} /\ op.await \in Settled
    BY <2>1 DEF Idle, Settled
  <2> QED BY <2>1, <2>2, <2>3, <2>4, KeptSettled
<1> QED BY <1>1, <1>2, <1>3

(* forget has deleted all of it. *)
LEMMA KeptForgotten ==
  ASSUME NEW b, Inv, Kept(b), Forgotten
  PROVE  Kept(b)'
<1>1. /\ op.await = "forget" /\ Commits("op") /\ settings' = NULL /\ trip' = NULL /\ outbox' = {}
      /\ op' = Idle
  BY DEF Forgotten, LeaveQuietly
<1>2. sealed' = sealed /\ disk'.trips = {} /\ disk'.outbox = {}
  BY <1>1, ForgetCommit
<1>3. op'.await \in Settled \ {"optIn"} /\ disk'.trips = Open(trip')
  BY <1>1, <1>2 DEF Idle, Settled, Open
<1>4. b => FixesFirst'
  BY <1>2 DEF Kept, FixesInv, FixesFirst
<1> QED BY <1>1, <1>2, <1>3, <1>4, KeptIdle

(* The open trip is finalized. *)
LEMMA KeptEnding ==
  ASSUME NEW b, Inv, Kept(b), op.await \in Settled \ {"optIn"}, trip # NULL,
         NEW q, NEW arrived \in BOOLEAN, NEW then,
         Finalizing(q, trip, arrived, EndTime(trip, clock), then),
         sealed' = sealed, disk'.trips = disk.trips, disk'.outbox = disk.outbox, outbox' = outbox,
         settings' = settings, disk'.settings = disk.settings \/ disk'.settings # NULL,
         b => FewHeld
  PROVE  Kept(b)'
<1>1. /\ disk.trips = Open(trip) /\ disk.outbox = outbox /\ trip \in disk.trips
      /\ settings # NULL /\ disk.settings # NULL
      /\ b => FixesFirst
  BY IdleIsKept
<1>2. GoodTrip(trip) /\ clock \in Nat
  BY InvParts DEF Sound
<1>3. \A u \in disk'.trips : u.tripId = trip.tripId
  BY <1>1 DEF Open
<1>4. b => FixesFirst' /\ (trip.sealedFixes => HasFixes(sealed', trip.tripId))
  BY <1>1 DEF FixesFirst
<1>5. DiskIsOwned(b)'
  BY <1>1, <1>4 DEF DiskIsOwned
<1>6. PICK t0, at : t0 = trip /\ at = clock
  OBVIOUS
<1>7. at \in Nat /\ GoodTrip(t0) /\ Finalizing(q, t0, arrived, EndTime(t0, at), then)
  BY <1>2, <1>6
<1>8. /\ \A u \in disk'.trips : u.tripId = t0.tripId
      /\ b /\ t0.sealedFixes => HasFixes(sealed', t0.tripId)
      /\ b => Len(t0.heldArtifacts) <= MaxSeq
  BY <1>1, <1>3, <1>4, <1>6 DEF FewHeld, Live
<1> QED BY <1>2, <1>5, <1>7, <1>8, KeptFinal

(* startTrip from storage without a trip. *)
LEMMA KeptStart ==
  ASSUME NEW b, NEW q, NEW line \in Routes, NEW dest \in Destinations, StartTrip(q, line, dest),
         clock \in 0..MaxClock, disk'.trips = {}, disk'.outbox = outbox', settings' = settings,
         settings # NULL => disk'.settings # NULL,
         settings = NULL \/ disk'.settings = NULL => disk'.outbox = {},
         b => FixesFirst'
  PROVE  Kept(b)'
<1>1. ASSUME NEW id \in FreshTrips, CanRecord(settings), Putting(q, NewTrip(id, line, dest), {})
      PROVE  Kept(b)'
  <2>1. PICK t : t = NewTrip(id, line, dest)
    OBVIOUS
  <2>2. id \in Trips
    BY DEF FreshTrips
  <2>3. ~t.sealedFixes
    BY <2>1, <2>2, NewTripIs
  <2>4. settings # NULL
    BY <1>1 DEF CanRecord, CanUpload
  <2>5. DiskIsOwned(b)'
    BY <2>4 DEF DiskIsOwned
  <2>6. Putting(q, t, {})
    BY <1>1, <2>1
  <2> QED BY <2>3, <2>5, <2>6, KeptPut
<1>2. CASE trip' = NULL /\ op' = Idle
  <2>1. op'.await \in Settled \ {"optIn"} /\ disk'.trips = Open(trip')
    BY <1>2 DEF Idle, Settled, Open
  <2> QED BY <2>1, KeptIdle
<1> QED BY <1>1, <1>2 DEF StartTrip, LeaveQuietly

(* The calls that may end the open trip. *)
LEMMA KeptEnded ==
  ASSUME NEW b, Inv, Kept(b), b => FewHeld,
         \/ EnabledSet
         \/ \E arrived \in BOOLEAN : EndTrip(arrived)
         \/ \E line \in Routes, dest \in Destinations : StartTripCalled(line, dest)
  PROVE  Kept(b)'
<1>1. CASE EnabledSet
  <2>1. op.await = "setEnabled" /\ Commits("op") /\ UNCHANGED <<settings, outbox>>
    BY <1>1 DEF EnabledSet
  <2>2. /\ sealed' = sealed /\ disk'.trips = disk.trips /\ disk'.outbox = disk.outbox
        /\ disk'.settings \in Settings
    BY <2>1, SettingsCommit
  <2>3. disk'.settings # NULL /\ op.await \in Settled \ {"optIn"}
    BY <2>1, <2>2, SettingsAreNotNull DEF Settled
  <2>4. CASE trip # NULL /\ Finalizing(Tail(txns), trip, FALSE, EndTime(trip, clock), Leaving)
    BY <2>1, <2>2, <2>3, <2>4, KeptEnding
  <2>5. CASE trip' = trip /\ op' = Idle
    <3>1. op'.await \in Settled \ {"optIn"} /\ op.await \in Settled /\ op.await # "optIn"
      BY <2>1, <2>5 DEF Idle, Settled
    <3> QED BY <2>1, <2>2, <2>3, <2>5, <3>1, KeptSettled
  <2> QED BY <1>1, <2>4, <2>5 DEF EnabledSet, LeaveFlushing
<1>2. ASSUME NEW arrived \in BOOLEAN, EndTrip(arrived) PROVE Kept(b)'
  <2>1. /\ op = Idle /\ trip # NULL
        /\ Finalizing(txns, trip, arrived, EndTime(trip, clock), Leaving)
        /\ UNCHANGED <<settings, outbox, disk, sealed>>
    BY <1>2 DEF EndTrip, history
  <2>2. op.await \in Settled \ {"optIn"}
    BY <2>1, IdleIsSettled
  <2> QED BY <2>1, <2>2, KeptEnding
<1>3. ASSUME NEW line \in Routes, NEW dest \in Destinations, StartTripCalled(line, dest)
      PROVE  Kept(b)'
  <2>1. op = Idle /\ UNCHANGED <<settings, outbox, disk, sealed>>
    BY <1>3 DEF StartTripCalled
  <2>2. op.await \in Settled \ {"optIn"}
    BY <2>1, IdleIsSettled
  <2>3. CASE trip # NULL /\ Finalizing(txns, trip, FALSE, EndTime(trip, clock), Starting(line, dest))
    BY <2>1, <2>2, <2>3, KeptEnding
  <2>4. CASE trip = NULL /\ StartTrip(txns, line, dest)
    <3>1. /\ disk.trips = {} /\ disk.outbox = outbox
          /\ settings # NULL => disk.settings # NULL
          /\ settings = NULL \/ disk.settings = NULL => disk.outbox = {}
          /\ b => FixesFirst
      BY <2>2, <2>4, IdleIsKept DEF Open
    <3>2. b => FixesFirst'
      BY <2>1, <3>1 DEF FixesFirst
    <3>3. clock \in 0..MaxClock
      BY InvParts
    <3> QED BY <2>1, <2>4, <3>1, <3>2, <3>3, KeptStart
  <2> QED BY <1>3, <2>3, <2>4 DEF StartTripCalled
<1> QED BY <1>1, <1>2, <1>3

(* A put of a later version of the open trip. *)
LEMMA KeptFollows ==
  ASSUME NEW b, Inv, Kept(b), op = Idle, trip # NULL, CanRecord(settings),
         NEW t, NEW items, Putting(txns, t, items), t.tripId = trip.tripId,
         b /\ t.sealedFixes =>
           trip.sealedFixes \/ \E i \in items : i.part # End /\ Len(i.body.fixes) > 0,
         \A i \in items : i.trip = t.tripId,
         UNCHANGED <<settings, outbox, disk, sealed>>
  PROVE  Kept(b)'
<1>1. op.await \in Settled \ {"optIn"}
  BY IdleIsSettled
<1>2. /\ disk.trips = Open(trip) /\ disk.outbox = outbox /\ trip \in disk.trips
      /\ settings # NULL /\ disk.settings # NULL
      /\ b => FixesFirst
  BY <1>1, IdleIsKept
<1>3. \A u \in disk'.trips : u.tripId = t.tripId
  BY <1>2 DEF Open
<1>4. DiskIsOwned(b)'
  BY <1>2 DEF DiskIsOwned, FixesFirst
<1>5. b /\ t.sealedFixes => HasFixes(sealed' \cup items, t.tripId)
  BY <1>2 DEF FixesFirst, HasFixes
<1> QED BY <1>3, <1>4, <1>5, KeptPut

(* addFix. *)
LEMMA KeptAddFix ==
  ASSUME NEW b, Inv, Kept(b), b => FewHeld, NEW fix \in Fixes, AddFix(fix)
  PROVE  Kept(b)'
<1>1. /\ op = Idle /\ trip # NULL /\ CanRecord(settings)
      /\ UNCHANGED <<settings, outbox, disk, sealed>>
  BY DEF AddFix
<1>2. PICK t, items :
        /\ Putting(txns, t, items) /\ Follows(trip, t, items, clock)
        /\ \A i \in items : i.part # End
        /\ Len(trip.heldArtifacts) <= MaxSeq /\ t.sealedFixes =>
             trip.sealedFixes \/ \E i \in items : Len(i.body.fixes) > 0
  BY AddFixIs
<1>3. t.tripId = trip.tripId /\ \A i \in items : i.trip = t.tripId
  BY <1>2 DEF Follows
<1>4. b => Len(trip.heldArtifacts) <= MaxSeq
  BY <1>1 DEF FewHeld, Live, Open
<1> QED BY <1>1, <1>2, <1>3, <1>4, KeptFollows

(* reroute. *)
LEMMA KeptReroute ==
  ASSUME NEW b, Inv, Kept(b), NEW line \in Routes, Reroute(line)
  PROVE  Kept(b)'
<1>1. /\ op = Idle /\ trip # NULL /\ CanRecord(settings)
      /\ UNCHANGED <<settings, outbox, disk, sealed>>
  BY DEF Reroute, history
<1>2. PICK t, items : /\ Putting(txns, t, items) /\ Follows(trip, t, items, clock)
                      /\ t.sealedFixes = trip.sealedFixes
  BY RerouteIs
<1>3. t.tripId = trip.tripId /\ \A i \in items : i.trip = t.tripId
  BY <1>2 DEF Follows
<1> QED BY <1>1, <1>2, <1>3, KeptFollows

(* What an operation commits to the outbox. *)
LEMMA FreshKeys ==
  ASSUME Inv, op.await \in Storing
  PROVE  \A j \in sealed, i \in op.items : Key(i) # Key(j)
<1>1. Proposed(op.t, op.items, sealed)
  BY DEF Inv, OpInv
<1>2. ASSUME NEW j \in sealed, NEW i \in op.items, Key(i) = Key(j) PROVE FALSE
  <2>1. i.trip = j.trip /\ i.part = j.part /\ i.trip = op.t.tripId
    BY <1>1, <1>2 DEF Key, Proposed
  <2>2. ItemBefore(j, i)
    BY <1>1, <2>1 DEF Proposed
  <2> QED BY <2>1, <2>2, SealingAssumption DEF ItemBefore
<1> QED BY <1>2

(* What an operation commits keeps an artifact after the fixes of its trip. *)
LEMMA CommitFixes ==
  ASSUME NEW b, b, Inv, Kept(b), op.await \in Storing,
         sealed' = sealed \cup op.items, disk'.trips \subseteq disk.trips \cup {op.t}
  PROVE  FixesFirst'
<1>1. FixesFirst /\ (op.t.sealedFixes => HasFixes(sealed', op.t.tripId))
  BY DEF Kept, FixesInv
<1>2. Proposed(op.t, op.items, sealed)
  BY DEF Inv, OpInv
<1>3. ASSUME NEW i \in op.items, i.part # End, Len(i.body.artifacts) > 0
      PROVE  HasFixes(sealed', i.trip)
  <2>1. MaySeal(op.t, i.body) /\ i.trip = op.t.tripId
    BY <1>2, <1>3 DEF Proposed
  <2>2. i.body.artifacts \in Seq(Artifact)
    BY <2>1 DEF MaySeal, ChunkBody
  <2>3. 1 \in 1..Len(i.body.artifacts)
    BY <1>3, <2>2
  <2>4. op.t.sealedFixes
    BY <2>1, <2>3 DEF MaySeal
  <2> QED BY <1>1, <2>1, <2>4
<1>4. \A id : HasFixes(sealed, id) => HasFixes(sealed', id)
  BY DEF HasFixes
<1>5. \A i \in sealed' : i.part # End /\ Len(i.body.artifacts) > 0 => HasFixes(sealed', i.trip)
  BY <1>1, <1>3, <1>4 DEF FixesFirst
<1>6. \A t \in disk'.trips : t.sealedFixes => HasFixes(sealed', t.tripId)
  BY <1>1, <1>4 DEF FixesFirst
<1> QED BY <1>5, <1>6 DEF FixesFirst

(* An operation that stores a trip has settings, in memory and on the disk. *)
LEMMA StoringIsOwned ==
  ASSUME NEW b, Inv, Kept(b), op.await \in Storing
  PROVE  disk.outbox = outbox /\ settings # NULL /\ disk.settings # NULL
<1>1. op.await \notin Starts
  BY DEF Storing, Starts
<1> QED BY <1>1 DEF Kept, SameInv, OwnerInv

(* A put has committed. *)
LEMMA KeptStored ==
  ASSUME NEW b, Inv, Kept(b), Put
  PROVE  Kept(b)'
<1>1. /\ op.await = "put" /\ Commits("op") /\ outbox' = outbox \cup op.items
      /\ settings' = settings /\ trip' = trip /\ op' = Idle /\ op.await \in Storing
  BY DEF Put, LeaveFlushing, LeaveQuietly, Storing
<1>2. /\ sealed' = sealed \cup op.items
      /\ disk'.trips = {u \in disk.trips : u.tripId # op.t.tripId} \cup {op.t}
      /\ disk'.outbox = {j \in disk.outbox : \A p \in op.items : Key(p) # Key(j)} \cup op.items
      /\ disk'.settings = disk.settings
  BY <1>1, PutCommit
<1>3. disk.outbox = outbox /\ settings # NULL /\ disk.settings # NULL
  BY <1>1, StoringIsOwned
<1>4. disk'.trips = {op.t}
  BY <1>1, <1>2 DEF Kept, SameInv
<1>5. disk'.trips = Open(trip')
  <2>1. trip = op.t /\ Proposed(op.t, op.items, sealed)
    BY <1>1 DEF Inv, OpInv
  <2>2. trip # NULL
    BY <2>1, DeviceAssumption DEF Proposed, Sound, GoodTrip
  <2> QED BY <1>1, <1>4, <2>1, <2>2 DEF Open
<1>6. disk'.outbox = outbox'
  BY <1>1, <1>2, <1>3, FreshKeys, InvParts
<1>7. b => FixesFirst'
  BY <1>1, <1>2, CommitFixes
<1>8. op'.await \in Settled \ {"optIn"}
  BY <1>1 DEF Idle, Settled
<1> QED BY <1>1, <1>2, <1>3, <1>5, <1>6, <1>7, <1>8, KeptIdle

(* init goes on to the next orphaned trip. *)
LEMMA KeptOrphans ==
  ASSUME NEW b, NEW q, NEW ts, NEW s, NEW ob, NEW rt, EndOrphans(q, ts, s, ob, rt),
         ts = disk'.trips, trip' = NULL, disk'.outbox = outbox', clock \in Nat,
         TripsOnDisk(disk'.trips, sealed'), settings' # NULL => disk'.settings # NULL,
         settings' = NULL \/ disk'.settings = NULL => disk'.trips = {} /\ disk'.outbox = {},
         b => FixesFirst',
         b => \A t \in ts : Len(t.heldArtifacts) <= MaxSeq
  PROVE  Kept(b)'
<1>1. CASE ts = {} /\ op' = Idle
  <2>1. op'.await \in Settled \ {"optIn"} /\ disk'.trips = Open(trip')
    BY <1>1 DEF Idle, Settled, Open
  <2> QED BY <2>1, KeptIdle
<1>2. ASSUME NEW t \in ts,
             Finalizing(q, t, FALSE, EndTime(t, t.startedAt), EndingOrphans(ts \ {t}))
      PROVE  Kept(b)'
  <2>1. PICK at, then : at = t.startedAt /\ then = EndingOrphans(ts \ {t})
    OBVIOUS
  <2>2. at \in Nat /\ GoodTrip(t)
    <3>1. GoodTrip(t)
      BY DEF TripsOnDisk, Sound
    <3> QED BY <2>1, <3>1, TripFields DEF GoodTrip
  <2>3. then.do = "orphans"
    BY <2>1 DEF EndingOrphans
  <2>4. DiskIsOwned(b)'
    BY DEF DiskIsOwned
  <2>5. b /\ t.sealedFixes => HasFixes(sealed', t.tripId)
    BY DEF FixesFirst
  <2> QED BY <1>2, <2>1, <2>2, <2>3, <2>4, <2>5, KeptFinal
<1> QED BY <1>1, <1>2 DEF EndOrphans, LeaveFlushing

(* A finalization has committed, and its continuation runs. *)
LEMMA KeptFinalized ==
  ASSUME NEW b, Inv, Kept(b), b => FewHeld, Finalized
  PROVE  Kept(b)'
<1>1. /\ op.await = "finalize" /\ Commits("op") /\ outbox' = outbox \cup op.items
      /\ settings' = settings /\ op.await \in Storing
  BY DEF Finalized, Storing
<1>2. /\ sealed' = sealed \cup op.items
      /\ disk'.trips = {u \in disk.trips : u.tripId # op.t.tripId}
      /\ disk'.outbox = {j \in disk.outbox : \A p \in op.items : Key(p) # Key(j)} \cup op.items
      /\ disk'.settings = disk.settings /\ TripsOnDisk(disk'.trips, sealed')
  BY <1>1, FinalCommit DEF TripsOnDisk
<1>3. disk.outbox = outbox /\ settings # NULL /\ disk.settings # NULL
  BY <1>1, StoringIsOwned
<1>4. disk'.outbox = outbox'
  BY <1>1, <1>2, <1>3, FreshKeys, InvParts
<1>5. b => FixesFirst'
  BY <1>1, <1>2, CommitFixes
<1>6. op.then.do # "orphans" => disk'.trips = {}
  BY <1>1, <1>2 DEF Kept, SameInv
<1>7. clock \in Nat /\ clock \in 0..MaxClock
  BY InvParts
<1>8. CASE op.then.do = "leave" /\ trip' = NULL /\ op' = Idle
  <2>1. op'.await \in Settled \ {"optIn"} /\ disk'.trips = Open(trip')
    BY <1>6, <1>8 DEF Idle, Settled, Open
  <2> QED BY <1>1, <1>2, <1>3, <1>4, <1>5, <2>1, KeptIdle
<1>9. CASE /\ op.then.do = "orphans" /\ trip' = trip
           /\ EndOrphans(Tail(txns), op.then.trips, settings, outbox', retry)
  <2>1. trip' = NULL /\ op.then.trips = disk'.trips
    BY <1>1, <1>2, <1>9 DEF Inv, OpInv
  <2>2. b => \A t \in op.then.trips : Len(t.heldArtifacts) <= MaxSeq
    BY <1>2, <2>1 DEF FewHeld, Live
  <2> QED BY <1>1, <1>2, <1>3, <1>4, <1>5, <1>7, <1>9, <2>1, <2>2, KeptOrphans
<1>10. CASE /\ op.then.do = "start"
            /\ StartTrip(Tail(txns), op.then.line, op.then.destination)
  <2>1. op.then.line \in Routes /\ op.then.destination \in Destinations
    BY <1>1, <1>10 DEF Inv, OpInv
  <2>2. disk'.trips = {}
    BY <1>6, <1>10
  <2> QED BY <1>1, <1>2, <1>3, <1>4, <1>5, <1>7, <1>10, <2>1, <2>2, KeptStart
<1> QED BY <1>8, <1>9, <1>10 DEF Finalized, LeaveFlushing

(* A launch, and what ends a run of the app. *)
LEMMA KeptLaunch ==
  ASSUME NEW b, Inv, Kept(b), b => FewHeld, InitCalled \/ InitLoaded \/ Crash
  PROVE  Kept(b)'
<1>1. CASE InitCalled
  <2>1. /\ op.await \in Starts /\ op'.await = "load"
        /\ UNCHANGED <<settings, trip, outbox, drain, disk, sealed>>
    BY <1>1 DEF InitCalled, Starts, memory, history
  <2>2. op'.await \in Starts /\ op'.await \notin Settled /\ op'.await \notin Storing
        /\ op'.await # "finalize" /\ op'.await # "put" /\ op'.await # "optIn" /\ op.await # "optIn"
    BY <2>1 DEF Starts, Settled, Storing
  <2>3. SameInv'
    BY <2>1, <2>2 DEF Kept, SameInv
  <2>4. OwnerInv'
    BY <2>1, <2>2 DEF Kept, OwnerInv
  <2>5. FixesInv => FixesInv'
    BY <2>1, <2>2 DEF FixesInv, FixesFirst
  <2> QED BY <2>3, <2>4, <2>5 DEF Kept
<1>2. CASE InitLoaded
  <2>1. /\ op.await = "load" /\ settings' = disk.settings /\ outbox' = disk.outbox
        /\ EndOrphans(Tail(txns), disk.trips, disk.settings, disk.outbox, retry)
        /\ UNCHANGED <<trip, disk, sealed>>
    BY <1>2 DEF InitLoaded
  <2>2. trip' = NULL
    BY <2>1 DEF Inv, OpInv
  <2>3. TripsOnDisk(disk'.trips, sealed') /\ clock \in Nat
    BY <2>1, InvParts
  <2>4. disk.settings = NULL => disk.trips = {} /\ disk.outbox = {}
    BY DEF Kept, OwnerInv
  <2>5. b => FixesFirst'
    BY <2>1 DEF Kept, FixesInv, FixesFirst
  <2>6. b => \A t \in disk.trips : Len(t.heldArtifacts) <= MaxSeq
    BY DEF FewHeld, Live
  <2> QED BY <2>1, <2>2, <2>3, <2>4, <2>5, <2>6, KeptOrphans
<1>3. CASE Crash
  <2>1. /\ settings' = NULL /\ outbox' = {} /\ op' = [await |-> "launch"] /\ drain' = Idle
        /\ UNCHANGED <<disk, sealed>>
    BY <1>3 DEF Crash, history
  <2>2. SameInv'
    BY <2>1 DEF SameInv, Starts, Settled
  <2>3. OwnerInv'
    BY <2>1 DEF Kept, OwnerInv, Starts, Storing
  <2>4. FixesInv => FixesInv'
    BY <2>1 DEF FixesInv, FixesFirst, Storing
  <2> QED BY <2>2, <2>3, <2>4 DEF Kept
<1> QED BY <1>1, <1>2, <1>3

(* A first launch. *)
LEMMA KeptInit ==
  ASSUME NEW b, Init
  PROVE  Kept(b)
BY DEF Init, Kept, SameInv, OwnerInv, FixesInv, FixesFirst, Settled, Starts, Storing

(* Every step keeps storage and memory in agreement. *)
LEMMA KeptStep ==
  ASSUME NEW b, ~StorageFails, Inv, Kept(b), b => FewHeld, [Next]_vars
  PROVE  Kept(b)'
<1>1. CASE UNCHANGED vars
  BY <1>1, KeptDrain
<1>2. CASE Uploads
  BY <1>2, KeptDrain DEF Uploads, DrainFailed
<1>3. CASE Continues
  BY <1>3, KeptLaunch, KeptSettings, KeptEnded, KeptForgotten, KeptStored, KeptFinalized
     DEF Continues, OpFailed
<1>4. CASE Called
  <2>1. ASSUME NEW line \in Routes, NEW dest \in Destinations, StartTripCalled(line, dest)
        PROVE  Kept(b)'
    BY <2>1, KeptEnded
  <2>2. ASSUME NEW arrived \in BOOLEAN, EndTrip(arrived) PROVE Kept(b)'
    BY <2>2, KeptEnded
  <2>3. ASSUME (\E k \in Tokens : OptIn(k)) \/ (\E enabled \in BOOLEAN : SetEnabled(enabled)) \/ Forget
        PROVE  Kept(b)'
    BY <2>3, KeptSettings
  <2> QED BY <1>4, <2>1, <2>2, <2>3, KeptDrain, KeptAddFix, KeptReroute DEF Called
<1>5. CASE Crash \/ ClockMoves
  BY <1>5, KeptLaunch, KeptDrain
<1>6. ASSUME NEW kind \in Kinds, DrainAnswer(kind) PROVE Kept(b)'
  BY <1>6, KeptDrain
<1>7. ASSUME NEW good \in BOOLEAN, Checked(good) PROVE Kept(b)'
  BY <1>7, KeptChecked
<1> QED BY <1>1, <1>2, <1>3, <1>4, <1>5, <1>6, <1>7 DEF Next, Device

(* Storage and memory agree in every reachable state. *)
LEMMA KeptInvariant == ASSUME ~StorageFails PROVE Spec => [](Inv /\ Kept(FALSE))
<1>1. Init => Inv /\ Kept(FALSE)
  BY InitInv, KeptInit
<1>2. Inv /\ Kept(FALSE) /\ [Next]_vars => (Inv /\ Kept(FALSE))'
  BY StepInv, KeptStep
<1> QED BY <1>1, <1>2, PTL DEF Spec

(* So long as no trip holds more artifacts than it has seqs, artifacts      *)
(* follow fixes in every reachable state.                                   *)
LEMMA FixesInvariant == ASSUME ~StorageFails PROVE Spec /\ []FewHeld => [](Inv /\ Kept(TRUE))
<1>1. Init => Inv /\ Kept(TRUE)
  BY InitInv, KeptInit
<1>2. FewHeld /\ (Inv /\ Kept(TRUE)) /\ [Next]_vars => (Inv /\ Kept(TRUE))'
  BY StepInv, KeptStep
<1> QED BY <1>1, <1>2, PTL DEF Spec

(* While storage rejects nothing, between two operations the disk holds the *)
(* open trip, the queue and settings to send it with: a killed app loses at *)
(* most the call it was in.                                                 *)
THEOREM AKilledAppLosesNothing == ASSUME ~StorageFails PROVE Spec => []KilledAppLosesNothing
<1>1. Inv /\ Kept(FALSE) => KilledAppLosesNothing
  <2> SUFFICES ASSUME Kept(FALSE), op = Idle PROVE KilledAppLosesNothing
    BY DEF KilledAppLosesNothing
  <2>1. op.await \in Settled \ {"optIn"}
    BY IdleIsSettled
  <2>2. disk.trips = Open(trip) /\ disk.outbox = outbox
    BY <2>1, IdleIsKept
  <2> QED BY <2>2 DEF KilledAppLosesNothing, Open
<1> QED BY <1>1, KeptInvariant, PTL

(* While storage rejects nothing, no trace is left on the disk once the     *)
(* settings are gone: forget deletes in one transaction and no operation or *)
(* drain puts anything behind it.                                           *)
THEOREM ForgettingForgetsTraces == ASSUME ~StorageFails PROVE Spec => []TracesForgotten
<1>1. Inv /\ Kept(FALSE) => TracesForgotten
  <2> SUFFICES ASSUME Kept(FALSE), op = Idle, settings = NULL PROVE disk.trips = {} /\ disk.outbox = {}
    BY DEF TracesForgotten, IsForgotten
  <2>1. op.await \in Settled \ {"optIn"}
    BY IdleIsSettled
  <2> QED BY <2>1, IdleIsKept
<1> QED BY <1>1, KeptInvariant, PTL

(* A sequence is empty when its length is zero. *)
LEMMA EmptyIsEmpty ==
  ASSUME NEW S, NEW s \in Seq(S)
  PROVE  s # <<>> <=> Len(s) > 0
OBVIOUS

(* While storage rejects nothing, the service gets an artifact of a trip    *)
(* only with fixes of that trip: a drive too short to leave its trim zone   *)
(* sends no route, although reroute, the seals and the final seal each      *)
(* decide it on their own. A trip that holds more artifacts than there are  *)
(* seqs would spend them all before its fixes; FewHeld excludes that.       *)
THEOREM ArtifactsFollowFixes ==
  ASSUME ~StorageFails
  PROVE  Spec /\ []FewHeld => []NoArtifactBeforeFixes
<1>1. Inv /\ Kept(TRUE) => NoArtifactBeforeFixes
  <2> SUFFICES ASSUME Inv, Kept(TRUE), NEW i \in sealed, ArtifactsOf(i) # <<>>
               PROVE  \E j \in sealed : j.trip = i.trip /\ FixesOf(j) # <<>>
    BY DEF NoArtifactBeforeFixes
  <2>1. i.part # End
    BY DEF ArtifactsOf
  <2>2. Len(i.body.artifacts) > 0
    <3>1. i.body.artifacts \in Seq(Artifact)
      BY <2>1 DEF Inv, ItemInv, Orderly, GoodItem, ChunkBody
    <3> QED BY <2>1, <3>1, EmptyIsEmpty DEF ArtifactsOf
  <2>3. HasFixes(sealed, i.trip)
    BY <2>1, <2>2 DEF Kept, FixesInv, FixesFirst
  <2>4. PICK j \in sealed : j.trip = i.trip /\ j.part # End /\ Len(j.body.fixes) > 0
    BY <2>3 DEF HasFixes
  <2>5. FixesOf(j) # <<>>
    <3>1. j.body.fixes \in Seq(Fixes)
      BY <2>4 DEF Inv, ItemInv, Orderly, GoodItem, ChunkBody
    <3> QED BY <2>4, <3>1, EmptyIsEmpty DEF FixesOf
  <2> QED BY <2>4, <2>5
<1> QED BY <1>1, FixesInvariant, PTL

(* With a seq for every effective time no trip holds more artifacts than it *)
(* has seqs.                                                                *)
LEMMA FewEffective ==
  ASSUME MaxEffective < MaxSeq, Inv
  PROVE  FewHeld
<1> SUFFICES ASSUME NEW t \in Live PROVE Len(t.heldArtifacts) <= MaxSeq
  BY DEF FewHeld
<1>1. GoodTrip(t)
  BY DEF Inv, TripInv, Sound
<1>2. t.prediction \in 0..MaxEffective /\ Len(t.heldArtifacts) <= t.prediction + 1
  BY <1>1, TripFields DEF GoodTrip
<1>3. Len(t.heldArtifacts) \in Nat
  BY <1>1, TripFields DEF GoodTrip
<1>4. MaxEffective \in Nat /\ MaxSeq \in Nat
  BY DeviceAssumption, SealingAssumption DEF DeviceAssumption, SealingAssumption
<1> QED BY <1>2, <1>3, <1>4

(* The same from the bounds alone: artifacts of one trip take effect at     *)
(* different times, so with a seq for every effective time no trip holds    *)
(* more of them than there are seqs.                                        *)
COROLLARY ArtifactsFollowFixesInBounds ==
  ASSUME ~StorageFails, MaxEffective < MaxSeq
  PROVE  Spec => []NoArtifactBeforeFixes
<1>1. Inv => FewHeld
  BY FewEffective
<1>2. Spec => []Inv
  BY Invariant
<1>3. Spec => []FewHeld
  BY <1>1, <1>2, PTL
<1> QED BY <1>3, ArtifactsFollowFixes, PTL

-----------------------------------------------------------------------------
(* Ages follow the order of sealing while the clock is not set back. *)

Aged(S) == \A i, e \in S : e.part = End /\ i.trip = e.trip => i.createdAt <= e.createdAt

Behold(d, ob) ==
  d.await = "answer" /\ d.item.part = End => \A i \in ob : i.trip = d.item.trip => i.part = End

AgeInv ==
  /\ op.await \in Starts => drain = Idle /\ outbox = {}
  /\ \A i \in sealed : i.createdAt <= clock
  /\ Aged(sealed)
  /\ op.await \in Storing => \A i \in op.items :
       i.createdAt <= clock /\ \A j \in sealed \cup op.items : j.createdAt <= i.createdAt
  /\ Behold(drain, outbox)

(* How a step may move the drain, the queue and the operation's items. *)
Drains ==
  \/ drain' = drain
  \/ drain'.await # "answer"
  \/ \E s, rt : drain' = Looped(s, outbox', rt)

Fills ==
  \/ outbox' \subseteq outbox
  \/ op.await \in Storing /\ outbox' \subseteq outbox \cup op.items
  \/ op.await \in Starts

Stamps ==
  \/ op' = op /\ sealed' = sealed
  \/ op'.await \notin Storing
  \/ \A i \in op'.items : i.createdAt = clock /\ clock' = clock

Orderings == Drains /\ Fills /\ Stamps /\ (op'.await \in Starts => drain' = Idle /\ outbox' = {})

(* The first item of a queue that is in order is an end only if its trip    *)
(* has nothing else queued.                                                 *)
LEMMA FirstIsBehold ==
  ASSUME NEW ob, NEW S, Orderly(S), Aged(S), ob \subseteq S, NEW s, NEW rt
  PROVE  Behold(Looped(s, ob, rt), ob)
<1> SUFFICES ASSUME ob # {}, FirstOf(ob).part = End,
                    NEW i \in ob, i.trip = FirstOf(ob).trip, i.part # End
             PROVE  FALSE
  BY DEF Behold, Looped, Idle
<1>1. PICK e : e = FirstOf(ob)
  OBVIOUS
<1>2. \A j \in ob : GoodItem(j)
  BY DEF Orderly
<1>3. e \in ob /\ ~OutboxBefore(i, e)
  BY <1>1, <1>2, FirstOfIs
<1>4. i.createdAt <= e.createdAt
  BY <1>1, <1>3 DEF Aged
<1>5. i.createdAt \in Nat /\ e.createdAt \in Nat
  BY <1>2, <1>3 DEF GoodItem
<1>6. i.createdAt < e.createdAt \/ i.createdAt = e.createdAt
  BY <1>4, <1>5
<1> QED BY <1>1, <1>3, <1>6 DEF OutboxBefore, PartBefore

(* A clock that is never set back. *)
LEMMA ClockIs ==
  ASSUME ~ClockSteps, [Next]_vars
  PROVE  clock' = clock \/ clock' = clock + 1
<1>1. CASE UNCHANGED vars
  BY <1>1 DEF vars
<1>2. CASE Uploads
  BY <1>2 DEF Uploads, DrainDeleted, DrainRejected, DrainFailed, RetryFires
<1>3. CASE Continues
  BY <1>3 DEF Continues, InitCalled, InitLoaded, OptedIn, EnabledSet, ForgetLoaded, Forgotten,
     Put, Finalized, OpFailed
<1>4. CASE Called
  BY <1>4 DEF Called, OptIn, SetEnabled, Forget, RetryNow, Reroute, StartTripCalled, AddFix, EndTrip
<1>5. CASE Crash \/ ClockMoves
  BY <1>5 DEF Crash, ClockMoves
<1>6. ASSUME NEW kind \in Kinds, DrainAnswer(kind) PROVE clock' = clock
  BY <1>6 DEF DrainAnswer
<1>7. ASSUME NEW good \in BOOLEAN, Checked(good) PROVE clock' = clock
  BY <1>7 DEF Checked
<1> QED BY <1>1, <1>2, <1>3, <1>4, <1>5, <1>6, <1>7 DEF Next, Device

(* A step that moves drain, queue and items as the model's steps do keeps   *)
(* the order of ages.                                                       *)
LEMMA AgeStep ==
  ASSUME ~ClockSteps, Inv, AgeInv, [Next]_vars, Orderings
  PROVE  AgeInv'
<1>1. Inv'
  BY StepInv
<1>2. Orderly(sealed) /\ Orderly(sealed') /\ outbox' \subseteq sealed'
      /\ clock \in Nat /\ clock' \in Nat /\ clock <= clock'
  <2>1. Orderly(sealed) /\ Orderly(sealed') /\ outbox' \subseteq sealed'
    BY <1>1 DEF Inv, ItemInv
  <2>2. clock \in Nat /\ clock' \in Nat
    BY <1>1, DeviceAssumption DEF Inv, TypeInv
  <2>3. clock' = clock \/ clock' = clock + 1
    BY ClockIs
  <2> QED BY <2>1, <2>2, <2>3
<1>3. sealed' = sealed \/ (op.await \in Storing /\ sealed' = sealed \cup op.items)
  BY SealedIs
<1>4. \A i \in sealed : i.createdAt \in Nat
  BY <1>2 DEF Orderly, GoodItem
<1>5. op.await \in Storing => Proposed(op.t, op.items, sealed)
  BY DEF Inv, OpInv
<1>6. op.await \in Storing => \A i \in op.items : i.createdAt \in Nat
  BY <1>5 DEF Proposed, GoodItem
<1>7. \A i \in sealed' : i.createdAt <= clock
  BY <1>3 DEF AgeInv
<1>8. \A i \in sealed' : i.createdAt \in Nat
  BY <1>3, <1>4, <1>6
<1>9. \A i \in sealed' : i.createdAt <= clock'
  BY <1>2, <1>7, <1>8
<1>10. ASSUME op.await \in Storing, NEW i \in op.items, NEW e \in sealed, e.part = End, i.trip = e.trip
       PROVE  FALSE
  BY <1>5, <1>10, SealingAssumption DEF Proposed, ItemBefore
<1>11. Aged(sealed')
  <2>1. CASE sealed' = sealed
    BY <2>1 DEF AgeInv
  <2>2. CASE op.await \in Storing /\ sealed' = sealed \cup op.items
    BY <2>2, <1>10 DEF AgeInv, Aged
  <2> QED BY <1>3, <2>1, <2>2
<1>12. op'.await \in Storing => \A i \in op'.items :
         i.createdAt <= clock' /\ \A j \in sealed' \cup op'.items : j.createdAt <= i.createdAt
  <2>1. CASE op' = op /\ sealed' = sealed
    <3>1. op.await \in Storing => \A i \in op.items : i.createdAt <= clock'
      BY <1>2, <1>6 DEF AgeInv
    <3> QED BY <2>1, <3>1 DEF AgeInv
  <2>2. CASE \A i \in op'.items : i.createdAt = clock /\ clock' = clock
    BY <2>2, <1>2, <1>7
  <2> QED BY <2>1, <2>2 DEF Orderings, Stamps
<1>13. Behold(drain', outbox')
  <2>1. CASE drain'.await # "answer"
    BY <2>1 DEF Behold
  <2>2. CASE \E s, rt : drain' = Looped(s, outbox', rt)
    <3>1. PICK s, rt, ob, S : drain' = Looped(s, ob, rt) /\ ob = outbox' /\ S = sealed'
      BY <2>2
    <3>2. Orderly(S) /\ Aged(S) /\ ob \subseteq S
      BY <1>2, <1>11, <3>1
    <3>3. Behold(Looped(s, ob, rt), ob)
      BY <3>2, FirstIsBehold
    <3> QED BY <3>1, <3>3
  <2>3. CASE drain' = drain /\ drain.await = "answer"
    <3>1. op.await \notin Starts
      BY <2>3 DEF AgeInv, Idle
    <3>2. drain.item \in sealed
      BY <2>3 DEF Inv, ItemInv, Idle
    <3>3. outbox' \subseteq outbox \/ (op.await \in Storing /\ outbox' \subseteq outbox \cup op.items)
      BY <3>1 DEF Orderings, Fills
    <3> QED BY <2>3, <3>2, <3>3, <1>10 DEF AgeInv, Behold
  <2> QED BY <2>1, <2>2, <2>3 DEF Orderings, Drains
<1> QED BY <1>9, <1>11, <1>12, <1>13 DEF AgeInv, Orderings

(* How the parts of a step keep the queue in order. *)
LEMMA FlushDrains ==
  ASSUME NEW s, NEW rt, Flush(s, outbox', rt)
  PROVE  Drains
BY DEF Flush, Loop, Drains

(* A put carries items of this moment. *)
LEMMA PutStamps ==
  ASSUME NEW q, NEW t, NEW items, Putting(q, t, items), \A i \in items : i.createdAt = clock,
         clock' = clock
  PROVE  Stamps /\ op'.await \notin Starts
BY DEF Putting, Stamps, Starts

(* A finalization carries items of this moment. *)
LEMMA FinalStamps ==
  ASSUME NEW q, NEW t0, NEW arrived \in BOOLEAN, NEW at \in Nat, NEW then,
         Finalizing(q, t0, arrived, EndTime(t0, at), then), GoodTrip(t0), clock \in Nat,
         clock' = clock
  PROVE  Stamps /\ op'.await \notin Starts
<1>1. PICK s : s = Final(t0, arrived, EndTime(t0, at), clock)
  OBVIOUS
<1>2. PICK t, items : t = s.trip /\ items = s.items
  OBVIOUS
<1>3. op'.items = items /\ op'.await = "finalize"
  BY <1>1, <1>2 DEF Finalizing
<1>4. Follows(t0, t, items, clock)
  BY <1>1, <1>2, FinalIs
<1> QED BY <1>3, <1>4 DEF Follows, Stamps, Starts

(* The end of an operation carries no items. *)
LEMMA IdleStamps ==
  ASSUME op' = Idle
  PROVE  Stamps /\ op'.await \notin Starts
BY DEF Stamps, Starts, Storing, Idle

(* init goes on to the next orphaned trip. *)
LEMMA OrphansOrder ==
  ASSUME NEW q, NEW ts, NEW s, NEW rt, EndOrphans(q, ts, s, outbox', rt),
         clock \in Nat, clock' = clock, \A t \in ts : GoodTrip(t)
  PROVE  Drains /\ Stamps /\ op'.await \notin Starts
<1>1. CASE LeaveFlushing(q, s, outbox', rt)
  BY <1>1, FlushDrains, IdleStamps DEF LeaveFlushing
<1>2. ASSUME NEW t \in ts, drain' = drain,
             Finalizing(q, t, FALSE, EndTime(t, t.startedAt), EndingOrphans(ts \ {t}))
      PROVE  Drains /\ Stamps /\ op'.await \notin Starts
  <2>1. PICK at, then : at = t.startedAt /\ then = EndingOrphans(ts \ {t})
    OBVIOUS
  <2>2. at \in Nat
    BY <2>1, TripFields DEF GoodTrip
  <2> QED BY <1>2, <2>1, <2>2, FinalStamps DEF Drains
<1> QED BY <1>1, <1>2 DEF EndOrphans

(* startTrip carries no items. *)
LEMMA StartOrder ==
  ASSUME NEW q, NEW line, NEW dest, StartTrip(q, line, dest), clock' = clock
  PROVE  Drains /\ Stamps /\ op'.await \notin Starts
<1>1. ASSUME NEW t, Putting(q, t, {}) PROVE Stamps /\ op'.await \notin Starts
  BY <1>1, PutStamps
<1> QED BY <1>1, IdleStamps DEF StartTrip, LeaveQuietly, Drains

(* The drain, the retries and the clock move so. *)
LEMMA UploadsOrder ==
  ASSUME Inv, AgeInv,
         \/ Uploads \/ RetryNow \/ ClockMoves \/ UNCHANGED vars
         \/ \E kind \in Kinds : DrainAnswer(kind)
  PROVE  Orderings
<1>1. CASE DrainDeleted
  <2>1. /\ drain.await = "delete" /\ outbox' \subseteq outbox /\ op' = op /\ trip' = trip
        /\ Commits("drain") /\ drain' = Looped(settings, outbox', retry)
    BY <1>1 DEF DrainDeleted, Loop
  <2>2. sealed' = sealed /\ op.await \notin Starts
    BY <2>1, DrainCommitted DEF AgeInv, Idle
  <2> QED BY <2>1, <2>2 DEF Orderings, Drains, Fills, Stamps
<1>2. CASE DrainRejected
  <2>1. drain' = Idle /\ outbox' = outbox /\ op' = op /\ trip' = trip /\ Commits("drain")
    BY <1>2 DEF DrainRejected, memory
  <2>2. sealed' = sealed
    BY <2>1, DrainCommitted
  <2> QED BY <2>1, <2>2 DEF Orderings, Drains, Fills, Stamps, AgeInv, Idle
<1>3. CASE DrainFailed
  <2>1. drain' = Idle /\ outbox' = outbox /\ op' = op /\ sealed' = sealed
    BY <1>3 DEF DrainFailed, memory, history
  <2> QED BY <2>1 DEF Orderings, Drains, Fills, Stamps, AgeInv, Idle
<1>4. CASE RetryFires \/ RetryNow
  <2>1. Flush(settings, outbox, FALSE) /\ outbox' = outbox /\ op' = op /\ sealed' = sealed
    BY <1>4 DEF RetryFires, RetryNow
  <2>2. op.await \in Starts => drain' = Idle
    BY <2>1 DEF AgeInv, Flush, Loop, Looped
  <2> QED BY <2>1, <2>2, FlushDrains DEF Orderings, Fills, Stamps, AgeInv
<1>5. CASE ClockMoves \/ UNCHANGED vars
  <2>1. drain' = drain /\ outbox' = outbox /\ op' = op /\ sealed' = sealed
    BY <1>5 DEF ClockMoves, vars, memory, history
  <2> QED BY <2>1 DEF Orderings, Drains, Fills, Stamps, AgeInv
<1>6. ASSUME NEW kind \in Kinds, DrainAnswer(kind) PROVE Orderings
  <2>1. /\ drain.await = "answer" /\ outbox' = outbox /\ op' = op /\ sealed' = sealed
        /\ drain'.await # "answer"
    BY <1>6 DEF DrainAnswer, Idle
  <2> QED BY <2>1 DEF Orderings, Drains, Fills, Stamps, AgeInv, Idle
<1> QED BY <1>1, <1>2, <1>3, <1>4, <1>5, <1>6 DEF Uploads

(* The calls of the application move so. *)
LEMMA CallsOrder ==
  ASSUME Inv, AgeInv, Called
  PROVE  Orderings
<1>1. op = Idle /\ outbox' = outbox
  BY DEF Called, OptIn, SetEnabled, Forget, RetryNow, Reroute, StartTripCalled, AddFix, EndTrip, memory
<1>2. CASE RetryNow
  BY <1>2, UploadsOrder
<1>3. ASSUME (\E k \in Tokens : OptIn(k)) \/ (\E enabled \in BOOLEAN : SetEnabled(enabled)) \/ Forget
      PROVE  Orderings
  <2>1. drain' = drain /\ op'.await \in {"me", "setEnabled", "forgetLoad"}
    BY <1>3 DEF OptIn, SetEnabled, Forget
  <2> QED BY <1>1, <2>1 DEF Orderings, Drains, Fills, Stamps, Starts, Storing
<1>4. clock \in Nat /\ (trip # NULL => GoodTrip(trip))
  BY InvParts DEF Sound
<1>5. ASSUME NEW t, NEW items, Putting(txns, t, items), Follows(trip, t, items, clock),
             drain' = drain, clock' = clock
      PROVE  Orderings
  <2>1. \A i \in items : i.createdAt = clock
    BY <1>5 DEF Follows
  <2> QED BY <1>1, <1>5, <2>1, PutStamps DEF Orderings, Drains, Fills
<1>6. ASSUME NEW line \in Routes, Reroute(line) PROVE Orderings
  <2>1. drain' = drain /\ clock' = clock
    BY <1>6 DEF Reroute
  <2>2. PICK t, items : Putting(txns, t, items) /\ Follows(trip, t, items, clock)
    BY <1>6, RerouteIs
  <2> QED BY <1>5, <2>1, <2>2
<1>7. ASSUME NEW fix \in Fixes, AddFix(fix) PROVE Orderings
  <2>1. drain' = drain /\ clock' = clock
    BY <1>7 DEF AddFix
  <2>2. PICK t, items : Putting(txns, t, items) /\ Follows(trip, t, items, clock)
    BY <1>7, AddFixIs
  <2> QED BY <1>5, <2>1, <2>2
<1>8. ASSUME NEW arrived \in BOOLEAN, NEW then, trip # NULL, drain' = drain, clock' = clock,
             Finalizing(txns, trip, arrived, EndTime(trip, clock), then)
      PROVE  Orderings
  <2>1. PICK t0, at : t0 = trip /\ at = clock
    OBVIOUS
  <2>2. Stamps /\ op'.await \notin Starts
    BY <1>4, <1>8, <2>1, FinalStamps
  <2> QED BY <1>1, <1>8, <2>2 DEF Orderings, Drains, Fills
<1>9. ASSUME NEW arrived \in BOOLEAN, EndTrip(arrived) PROVE Orderings
  BY <1>8, <1>9 DEF EndTrip
<1>10. ASSUME NEW line \in Routes, NEW dest \in Destinations, StartTripCalled(line, dest)
       PROVE  Orderings
  <2>1. clock' = clock
    BY <1>10 DEF StartTripCalled
  <2>2. CASE StartTrip(txns, line, dest)
    BY <1>1, <2>1, <2>2, StartOrder DEF Orderings, Fills
  <2>3. CASE /\ trip # NULL /\ drain' = drain
             /\ Finalizing(txns, trip, FALSE, EndTime(trip, clock), Starting(line, dest))
    BY <1>8, <2>1, <2>3
  <2> QED BY <1>10, <2>2, <2>3 DEF StartTripCalled
<1> QED BY <1>2, <1>3, <1>6, <1>7, <1>9, <1>10 DEF Called

(* The continuations of operations move so. *)
LEMMA ContinuesOrder ==
  ASSUME Inv, AgeInv, Continues
  PROVE  Orderings
<1>1. clock \in Nat /\ (trip # NULL => GoodTrip(trip)) /\ clock' = clock
  BY InvParts DEF Sound, Continues, InitCalled, InitLoaded, OptedIn, EnabledSet, ForgetLoaded,
     Forgotten, Put, Finalized, OpFailed
<1>2. CASE InitCalled
  BY <1>2 DEF InitCalled, Orderings, Drains, Fills, Stamps, AgeInv, Starts, Storing, memory
<1>3. CASE InitLoaded
  <2>1. /\ op.await \in Starts /\ outbox' = disk.outbox
        /\ EndOrphans(Tail(txns), disk.trips, disk.settings, disk.outbox, retry)
    BY <1>3 DEF InitLoaded, Starts
  <2>2. \A t \in disk.trips : GoodTrip(t)
    BY InvParts DEF TripsOnDisk, Sound
  <2> QED BY <1>1, <2>1, <2>2, OrphansOrder DEF Orderings, Fills
<1>4. CASE OptedIn
  <2>1. op' = Idle /\ outbox' = outbox /\ Flush(settings, outbox, FALSE)
    BY <1>4 DEF OptedIn, LeaveFlushing
  <2> QED BY <2>1, FlushDrains, IdleStamps DEF Orderings, Fills
<1>5. CASE EnabledSet
  <2>1. outbox' = outbox
    BY <1>5 DEF EnabledSet
  <2>2. CASE /\ trip # NULL /\ drain' = drain
             /\ Finalizing(Tail(txns), trip, FALSE, EndTime(trip, clock), Leaving)
    <3>1. PICK t0, at : t0 = trip /\ at = clock
      OBVIOUS
    <3>2. Stamps /\ op'.await \notin Starts
      BY <1>1, <2>2, <3>1, FinalStamps
    <3> QED BY <2>1, <2>2, <3>2 DEF Orderings, Drains, Fills
  <2>3. CASE LeaveFlushing(Tail(txns), settings, outbox, retry)
    BY <2>1, <2>3, FlushDrains, IdleStamps DEF LeaveFlushing, Orderings, Fills
  <2> QED BY <1>5, <2>2, <2>3 DEF EnabledSet
<1>6. CASE ForgetLoaded
  BY <1>6 DEF ForgetLoaded, Orderings, Drains, Fills, Stamps, Starts, Storing, memory
<1>7. CASE Forgotten
  BY <1>7, IdleStamps DEF Forgotten, LeaveQuietly, Orderings, Drains, Fills
<1>8. CASE Put
  <2>1. op.await \in Storing /\ outbox' = outbox \cup op.items /\ op' = Idle
    BY <1>8 DEF Put, LeaveFlushing, LeaveQuietly, Storing
  <2>2. Drains
    BY <1>8, FlushDrains DEF Put, LeaveFlushing, LeaveQuietly, Drains
  <2> QED BY <2>1, <2>2, IdleStamps DEF Orderings, Fills
<1>9. CASE Finalized
  <2>1. op.await = "finalize" /\ op.await \in Storing /\ outbox' = outbox \cup op.items
        /\ Commits("op")
    BY <1>9 DEF Finalized, Storing
  <2>2. CASE LeaveFlushing(Tail(txns), settings, outbox', retry)
    BY <2>1, <2>2, FlushDrains, IdleStamps DEF LeaveFlushing, Orderings, Fills
  <2>3. CASE /\ op.then.do = "orphans"
             /\ EndOrphans(Tail(txns), op.then.trips, settings, outbox', retry)
    <3>1. \A t \in op.then.trips : GoodTrip(t)
      BY <2>1, <2>3, InvParts DEF Inv, OpInv, TripsOnDisk, Sound
    <3> QED BY <1>1, <2>1, <2>3, <3>1, OrphansOrder DEF Orderings, Fills
  <2>4. CASE StartTrip(Tail(txns), op.then.line, op.then.destination)
    BY <1>1, <2>1, <2>4, StartOrder DEF Orderings, Fills
  <2> QED BY <1>9, <2>2, <2>3, <2>4 DEF Finalized
<1>10. CASE OpFailed
  BY <1>10, IdleStamps DEF OpFailed, LeaveQuietly, Orderings, Drains, Fills, memory
<1> QED BY <1>2, <1>3, <1>4, <1>5, <1>6, <1>7, <1>8, <1>9, <1>10 DEF Continues

(* Every step moves drain, queue and items so. *)
LEMMA EveryStepOrders ==
  ASSUME Inv, AgeInv, [Next]_vars
  PROVE  Orderings
<1>1. CASE Crash
  BY <1>1 DEF Crash, Orderings, Drains, Fills, Stamps, Storing, Idle
<1>2. ASSUME NEW good \in BOOLEAN, Checked(good) PROVE Orderings
  <2>1. op'.await \notin Storing /\ op'.await \notin Starts /\ drain' = drain /\ outbox' = outbox
    BY <1>2 DEF Checked, Idle, Storing, Starts
  <2> QED BY <2>1 DEF Orderings, Drains, Fills, Stamps
<1> QED BY <1>1, <1>2, UploadsOrder, CallsOrder, ContinuesOrder DEF Next, Device

(* While the device's clock is never set back, drain sends the end of a     *)
(* trip only when no chunk of that trip is queued: the sort by creation     *)
(* time, then end after chunks, puts it last across seals, retries and      *)
(* relaunches.                                                              *)
THEOREM AnEndGoesLast == ASSUME ~ClockSteps PROVE Spec => []ChunksBeforeEnd
<1>1. Init => Inv /\ AgeInv
  <2>1. Init => AgeInv
    BY DEF Init, AgeInv, Starts, Storing, Aged, Behold, Idle
  <2> QED BY <2>1, InitInv
<1>2. Inv /\ AgeInv /\ [Next]_vars => (Inv /\ AgeInv)'
  BY StepInv, EveryStepOrders, AgeStep
<1>3. Inv /\ AgeInv => ChunksBeforeEnd
  BY DEF AgeInv, Behold, ChunksBeforeEnd
<1> QED BY <1>1, <1>2, <1>3, PTL DEF Spec

=============================================================================
