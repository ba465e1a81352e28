---------------------------- MODULE TraceSealing ----------------------------
(***************************************************************************)
(* The pure part of the trip-trace recorder: the privacy rules of          *)
(* web/lib/tracePrivacy.ts, the sealing functions of tripRecorder.ts, the  *)
(* outbox order of traceStorage.ts, and the wire models of                 *)
(* commute/schemas.py that the sealed bodies have to satisfy.              *)
(*                                                                         *)
(* A point is a place with an uncertainty, [at, acc]; Distance stands for  *)
(* great-circle metres.  A route is the sequence of places its polyline is *)
(* sampled at, so clipping keeps a stretch of samples and has nothing to   *)
(* interpolate.  A trip's `prediction' is reduced to its effective_at: the *)
(* rest of it is copied from the route and never looked at.                *)
(***************************************************************************)
EXTENDS Integers, Sequences, FiniteSets

CONSTANTS
  Distance(_, _),      \* metres between two places
  Trim,                \* TRIM_M
  MaxAccuracy,         \* MAX_ACCURACY_M
  MinFixInterval,      \* MIN_FIX_INTERVAL_MS
  MaxSpeed,            \* MAX_SPEED_MPS
  SealInterval,        \* SEAL_INTERVAL_MS
  MaxFixesPerChunk,    \* MAX_FIXES_PER_CHUNK
  MaxSeq,              \* MAX_SEQ
  End,                 \* the part of a trip that its end is
  NULL

ASSUME SealingAssumption ==
  /\ Trim \in Nat /\ MaxAccuracy \in Nat /\ MinFixInterval \in Nat \ {0}
  /\ MaxSpeed \in Nat /\ SealInterval \in Nat /\ MaxSeq \in Nat
  /\ MaxFixesPerChunk \in Nat \ {0}
  /\ End \notin Nat /\ NULL \notin Nat

Larger(a, b) == IF a > b THEN a ELSE b

-----------------------------------------------------------------------------
(* tracePrivacy.ts *)

Point(place) == [at |-> place, acc |-> 0]

Separation(p, q) == Distance(p.at, q.at) - p.acc - q.acc
ClearOf(p, anchors) == \A a \in anchors : Separation(p, a) >= Trim

FollowsHeadAnyTime(head, fix) == TRUE          \* defect: order not checked

FollowsHead(head, fix) ==
  head # NULL =>
    /\ fix.t - head.t >= MinFixInterval
    /\ Distance(head.at, fix.at) <= MaxSpeed * (fix.t - head.t)

(* A prefix, not a filter: it ends at the first fix still near the head. *)
SealablePrefixWhole(pending, head) ==          \* defect: no trailing rule
  Len(pending)

SealablePrefix(pending, head) ==
  LET clear(n) == \A i \in 1..n : Separation(pending[i], head) >= Trim
  IN IF head = NULL THEN 0
     ELSE CHOOSE n \in 0..Len(pending) :
            clear(n) /\ (n = Len(pending) \/ ~clear(n + 1))

(* The longest stretch of the line clear of the anchors and of both its own *)
(* ends, the earliest of several, or NULL.                                  *)
ClipArtifact(line, anchors) ==
  LET centers == anchors \cup {Point(line[1]), Point(line[Len(line)])}
      runs == {r \in (1..Len(line)) \X (1..Len(line)) :
                 r[1] < r[2] /\ \A k \in r[1]..r[2] : ClearOf(Point(line[k]), centers)}
      best == CHOOSE r \in runs : \A s \in runs :
                \/ r[2] - r[1] > s[2] - s[1]
                \/ r[2] - r[1] = s[2] - s[1] /\ r[1] <= s[1]
  IN IF runs = {} THEN NULL ELSE SubSeq(line, best[1], best[2])

-----------------------------------------------------------------------------
(* tripRecorder.ts: what a seal puts on the wire. *)

FixesBody(fixes) == [fixes |-> fixes, artifacts |-> <<>>]

ArtifactBody(fa, line) ==
  [fixes |-> <<>>, artifacts |-> <<[effective_at |-> fa.effective_at, line |-> line]>>]

(* sealArtifact, for one held artifact: nothing when nothing is left of it. *)
ArtifactBodies(fa, anchors) ==
  LET line == ClipArtifact(fa.line, anchors)
  IN IF line = NULL THEN <<>> ELSE <<ArtifactBody(fa, line)>>

HeldBodies(t) ==
  LET upTo[n \in 0..Len(t.heldArtifacts)] ==
        IF n = 0 THEN <<>>
        ELSE upTo[n - 1] \o ArtifactBodies(t.heldArtifacts[n], t.anchors)
  IN upTo[Len(t.heldArtifacts)]

(* At most MAX_FIXES_PER_CHUNK fixes to a chunk. *)
ChunksOf(fixes) ==
  LET M == MaxFixesPerChunk
  IN [i \in 1..((Len(fixes) + M - 1) \div M) |->
        FixesBody(SubSeq(fixes, (i - 1) * M + 1,
                         IF i * M < Len(fixes) THEN i * M ELSE Len(fixes)))]

Item(trip, part, body, now) ==
  [trip |-> trip, part |-> part, body |-> body, createdAt |-> now]

(* sealChunk for each body in turn: the next seqs, up to MAX_SEQ. *)
Numbered(t, bodies, now) ==
  {Item(t.tripId, t.nextSeq + i - 1, bodies[i], now) :
     i \in {j \in 1..Len(bodies) : t.nextSeq + j - 1 <= MaxSeq}}

NextSeqKept(t, bodies) == t.nextSeq            \* defect: nextSeq not advanced
NextSeqAfter(t, bodies) == t.nextSeq + Cardinality(Numbered(t, bodies, 0))

Sealed(t, items) == [trip |-> t, items |-> items]

(* Re-checked against the anchors: a reroute may have added one since. *)
ClearFixes(fixes, anchors) ==
  LET upTo[n \in 0..Len(fixes)] ==
        IF n = 0 THEN <<>>
        ELSE IF ClearOf(fixes[n], anchors) THEN Append(upTo[n - 1], fixes[n])
        ELSE upTo[n - 1]
  IN upTo[Len(fixes)]

(* Every fix clear of the head becomes chunks; with the first of them go    *)
(* the artifacts held so far.                                               *)
Seal(t, now) ==
  LET n == SealablePrefix(t.pending, t.head)
      ready == ClearFixes(SubSeq(t.pending, 1, n), t.anchors)
      bodies == (IF t.sealedFixes THEN <<>> ELSE HeldBodies(t)) \o ChunksOf(ready)
      rest == [t EXCEPT !.pending = SubSeq(t.pending, n + 1, Len(t.pending)),
                        !.lastSealAt = IF t.head = NULL THEN @ ELSE t.head.t]
  IN IF ready = <<>> THEN Sealed(rest, {})
     ELSE Sealed([rest EXCEPT !.sealedFixes = TRUE, !.heldArtifacts = <<>>,
                              !.nextSeq = NextSeqAfter(t, bodies)],
                 Numbered(t, bodies, now))

(* Never before the last fix or the followed artifact's effective_at. *)
EndTimeNow(t, at) == at                        \* defect: the bare clock
EndTime(t, at) ==
  Larger(Larger(at, IF t.head = NULL THEN 0 ELSE t.head.t), t.prediction)

EndBody(t, arrived, endedAt) ==
  [ended_at |-> endedAt, arrived |-> arrived, effective_at |-> t.prediction]

(* finalize up to its await: the last seal, and the end. *)
Final(t, arrived, endedAt, now) ==
  LET s == Seal(t, now)
  IN Sealed(s.trip, s.items \cup
            {Item(t.tripId, End, EndBody(t, arrived, endedAt), now)})

-----------------------------------------------------------------------------
(* traceStorage.ts: oldest first, then by key, where `end' sorts last. *)

EndFirst(p, q) == q # End /\ (p = End \/ p < q) \* defect: `end' sorts first
PartBefore(p, q) == p # End /\ (q = End \/ p < q)

OutboxBefore(i, j) ==
  \/ i.createdAt < j.createdAt
  \/ /\ i.createdAt = j.createdAt
     /\ \/ i.trip < j.trip
        \/ i.trip = j.trip /\ PartBefore(i.part, j.part)

FirstOf(items) ==
  CHOOSE i \in items : \A j \in items \ {i} : ~OutboxBefore(j, i)

Key(i) == <<i.trip, i.part>>

-----------------------------------------------------------------------------
(* schemas.py: what TraceChunk and TripEnd accept. *)

Increasing(times) == \A i \in 1..(Len(times) - 1) : times[i] < times[i + 1]

ValidChunk(body) ==
  /\ body.fixes # <<>> \/ body.artifacts # <<>>
  /\ Len(body.fixes) <= MaxFixesPerChunk
  /\ Increasing([i \in 1..Len(body.fixes) |-> body.fixes[i].t])
  /\ Increasing([i \in 1..Len(body.artifacts) |-> body.artifacts[i].effective_at])

ValidEnd(body) == body.effective_at <= body.ended_at

(* Which of the two a body is checked as is the endpoint's choice. *)
ValidBody(body) ==
  IF "ended_at" \in DOMAIN body THEN ValidEnd(body) ELSE ValidChunk(body)
=============================================================================
