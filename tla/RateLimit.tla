----------------------------- MODULE RateLimit ------------------------------
(***************************************************************************)
(* The two ceilings of api/ratelimit.py as api/routes.py and api/geocode.py *)
(* use them: the budget for Nominatim, one bucket for the deployment, and   *)
(* the routing quota, one bucket per client.  The buckets live in Redis or  *)
(* in the process, and the process keeps the clients it tracks in order of  *)
(* recency.                                                                 *)
(*                                                                          *)
(* Time is counted in ticks in which a bucket earns one unit, and a token   *)
(* is Cost units.  The clock is the one the bucket reads: Redis's TIME,     *)
(* which may be set back, or time.monotonic.  A clock set forward is ticks. *)
(* One process is modelled: several over one Redis would differ in the      *)
(* clients they track, which says nothing about a bucket in Redis.          *)
(***************************************************************************)
EXTENDS Integers, Sequences, FiniteSets

CONSTANTS
  Deployments,  \* the configurations: [limiter, shared, callers, horizon]
  Callers,      \* bucket keys: clients, or rate_limit_key
  Cost,         \* ticks that earn a token: 1 / rate
  Capacity,     \* what a full bucket holds, in units
  Second,       \* ticks of a second
  MaxTracked,   \* route_max_tracked_clients
  NULL

VARIABLES
  config,   \* the deployment; never changes
  buckets,  \* caller -> [tokens, ts], or NULL for a key that is not there
  recency,  \* the clients PerClientLimiter tracks, least recent first
  clock,    \* what the bucket's clock reads
  gone,     \* how far it has ever gone forward; bound: config.horizon
  served,   \* history: caller -> when its calls were let through, since its
            \* bucket was made; a routing call the limiter could not decide
            \* is let through outside the quota and is left out
  promise,  \* history: caller -> when the last refusal said to come back
  others    \* history: caller -> the clients that came since its last call

now  == <<clock, gone>>
vars == <<config, buckets, recency, now, served, promise, others>>

ASSUME RateAssumption ==
  /\ Cost \in Nat \ {0} /\ Capacity \in Nat /\ Second \in Nat \ {0}
  /\ Cost <= Capacity
  /\ MaxTracked \in Nat \ {0}
  /\ \A d \in Deployments :
       /\ d = [limiter |-> d.limiter, shared |-> d.shared, callers |-> d.callers,
               horizon |-> d.horizon]
       /\ d.limiter \in {"route", "geocode"} /\ d.shared \in BOOLEAN
       /\ d.callers \subseteq Callers /\ d.horizon \in Nat
  /\ NULL \notin [tokens : Nat, ts : Nat] /\ NULL \notin Nat

Init ==
  /\ config \in Deployments
  /\ buckets = [c \in Callers |-> NULL]
  /\ recency = <<>>
  /\ clock = 0 /\ gone = 0
  /\ served = [c \in Callers |-> <<>>]
  /\ promise = [c \in Callers |-> NULL]
  /\ others = [c \in Callers |-> {}]

-----------------------------------------------------------------------------
(* bucket_step, and its transcription in Lua. *)

(* PEXPIRE: twice the time an empty bucket takes to fill. *)
TtlHalf == Capacity \div 2                     \* defect: too short
Ttl == 2 * Capacity

Expired(b, at) == config.shared /\ b # NULL /\ at > b.ts + Ttl

Elapsed(b, at) == IF at > b.ts THEN at - b.ts ELSE 0

Earned(b, at) ==
  IF b.tokens + Elapsed(b, at) > Capacity THEN Capacity
  ELSE b.tokens + Elapsed(b, at)

(* A bucket made now, or a key that is not there, is full. *)
Available(b, at) == IF b = NULL \/ Expired(b, at) THEN Capacity ELSE Earned(b, at)

Has(c) == Available(buckets[c], clock)
Admits(c) == Has(c) >= Cost

Stepped(c) == [tokens |-> IF Admits(c) THEN Has(c) - Cost ELSE Has(c), ts |-> clock]

(* retry_after_header, in whole seconds. *)
RetryAfterFloor(wait) == Second * (wait \div Second)  \* defect: rounded down
RetryAfter(wait) == Second * ((wait + Second - 1) \div Second)

-----------------------------------------------------------------------------
(* PerClientLimiter.acquire, up to its bucket. *)

Tracked == {recency[i] : i \in DOMAIN recency}

Place(c) == CHOOSE i \in DOMAIN recency : recency[i] = c

Without(c) ==
  IF c \in Tracked
  THEN SubSeq(recency, 1, Place(c) - 1) \o SubSeq(recency, Place(c) + 1, Len(recency))
  ELSE recency

(* The least recent makes room for a client that is not tracked. *)
EvictedLate(c) ==                              \* defect: one too many tracked
  IF config.limiter = "route" /\ c \notin Tracked /\ Len(recency) > MaxTracked
  THEN {recency[1]} ELSE {}
Evicted(c) ==
  IF config.limiter = "route" /\ c \notin Tracked /\ Len(recency) >= MaxTracked
  THEN {recency[1]} ELSE {}

TouchedInPlace(c) ==                           \* defect: order of arrival
  IF c \in Tracked THEN recency
  ELSE Append(IF Evicted(c) = {} THEN recency ELSE Tail(recency), c)
Touched(c) ==
  Append(IF Evicted(c) = {} THEN Without(c) ELSE Tail(recency), c)

(* A tracked bucket in Redis outlives its place in the table. *)
Lost(c) == IF config.shared THEN {} ELSE Evicted(c)

Touch(c) ==
  /\ c \in config.callers
  /\ recency' = IF config.limiter = "route" THEN Touched(c) ELSE recency
  /\ others' = [d \in Callers |-> IF d = c THEN {} ELSE others[d] \cup {c}]
  /\ UNCHANGED <<config, now>>

(* The bucket of c is b now, and those evicted for it are gone. *)
BucketBecomes(c, b) ==
  buckets' = [d \in Callers |->
                IF d = c THEN b ELSE IF d \in Lost(c) THEN NULL ELSE buckets[d]]

(* The call of c is let through, or it is not. *)
Lets(c, through) ==
  served' = [d \in Callers |->
               IF d = c /\ through THEN Append(served[d], gone)
               ELSE IF d \in Lost(c) THEN <<>> ELSE served[d]]

-----------------------------------------------------------------------------
(* A call, and the bucket decides it. *)

Acquire(c) ==
  /\ Touch(c)
  /\ BucketBecomes(c, Stepped(c))
  /\ Lets(c, Admits(c))
  /\ promise' = [d \in Callers |->
       IF d = c
       THEN IF Admits(c) THEN NULL
            ELSE clock + RetryAfter(Cost - Has(c))
       ELSE IF d \in Lost(c) THEN NULL ELSE promise[d]]

(* LimiterUnavailable: geocoding answers 503, routing goes on. *)
FailsOpen == config.limiter = "route"

Undecided(c) ==
  /\ config.shared
  /\ Touch(c)
  /\ Lets(c, FailsOpen /\ config.limiter = "geocode")

(* Redis was not reached... *)
Unreachable(c) ==
  /\ Undecided(c)
  /\ UNCHANGED <<buckets, promise>>

(* ... or it was, and its answer was lost. *)
AnswerLost(c) ==
  /\ Undecided(c)
  /\ BucketBecomes(c, Stepped(c))
  /\ promise' = [promise EXCEPT ![c] = IF Admits(c) THEN NULL ELSE @]

(* Redis deletes a key some time after it has expired. *)
Expire(c) ==
  /\ Expired(buckets[c], clock)
  /\ buckets' = [buckets EXCEPT ![c] = NULL]
  /\ UNCHANGED <<config, recency, now, served, promise, others>>

Tick ==
  /\ gone < config.horizon
  /\ clock' = clock + 1 /\ gone' = gone + 1
  /\ UNCHANGED <<config, buckets, recency, served, promise, others>>

SetBack ==
  /\ config.shared
  /\ clock' \in 0..(clock - 1)
  /\ UNCHANGED <<config, buckets, recency, gone, served, promise, others>>

Next ==
  \/ \E c \in Callers : Acquire(c) \/ Unreachable(c) \/ AnswerLost(c) \/ Expire(c)
  \/ Tick \/ SetBack

Spec == Init /\ [][Next]_vars
-----------------------------------------------------------------------------
TypeOK ==
  /\ config \in Deployments
  /\ buckets \in [Callers -> [tokens : 0..Capacity, ts : Nat] \cup {NULL}]
  /\ recency \in Seq(Callers) /\ Len(recency) <= MaxTracked
  /\ clock \in Nat /\ gone \in Nat
  /\ served \in [Callers -> Seq(Nat)]
  /\ promise \in [Callers -> Nat \cup {NULL}]
  /\ others \in [Callers -> SUBSET Callers]

(* In any stretch of time, whatever was refused, lost, expired or set back   *)
(* in it, a caller is let through at most as often as a full bucket and what *)
(* is earned in the stretch pay for.  Nominatim's policy counts every call,  *)
(* the routing quota those the limiter decided.                              *)
Rationed(times) ==
  \A i, n \in DOMAIN times :
    i <= n => (n - i + 1) * Cost <= Capacity + times[n] - times[i]

Quota == \A c \in Callers : Rationed(served[c])

(* retry_after_header: a client that waits as long as the last refusal told  *)
(* it, and was not let through since, is not refused again.                  *)
PromiseKept ==
  \A c \in Callers : promise[c] # NULL /\ clock >= promise[c] => Admits(c)

(* PerClientLimiter: eviction must not be a way to a full bucket, so to have *)
(* its own bucket dropped a client needs as many others as are tracked.      *)
EvictionCostsACrowd ==
  [][\A c \in Callers :
       c \in Tracked /\ c \notin Tracked' => Cardinality(others'[c]) >= MaxTracked]_vars
=============================================================================
