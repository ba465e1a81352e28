-------------------------- MODULE RateLimitProofs ---------------------------
(***************************************************************************)
(* What RateLimit guarantees for every rate, capacity and deployment, and   *)
(* for any number of clients and calls.                                     *)
(***************************************************************************)
EXTENDS RateLimit, FiniteSetTheorems, SequenceTheorems, TLAPS

Bucket == [tokens : 0..Capacity, ts : Nat]

(* What the arithmetic needs of the types. *)
Shape ==
  /\ config \in Deployments
  /\ buckets \in [Callers -> Bucket \cup {NULL}]
  /\ clock \in Nat /\ gone \in Nat
  /\ served \in [Callers -> Seq(Nat)]
  /\ promise \in [Callers -> Nat \cup {NULL}]

(* The calls a caller was let through with since any of them, and what its   *)
(* bucket has, were paid for by a full bucket and what was earned since.     *)
Paid(times, has, at) ==
  \A i \in DOMAIN times :
    (Len(times) - i + 1) * Cost + has <= Capacity + at - times[i]

Accounted(c) == Paid(served[c], Has(c), gone) /\ Rationed(served[c])

(* The moment a caller was told to come back is late enough for its bucket.  *)
Earning(b, at) == b # NULL /\ at # NULL => b.tokens + at - b.ts >= Cost

QInv == Shape /\ \A c \in Callers : Accounted(c)
PInv == Shape /\ \A c \in Callers : Earning(buckets[c], promise[c])

-----------------------------------------------------------------------------
(* The arithmetic of one bucket. *)

LEMMA NotNull == NULL \notin Bucket /\ NULL \notin Nat
BY RateAssumption DEF Bucket

LEMMA BucketFields ==
  ASSUME NEW b \in Bucket
  PROVE  b.tokens \in 0..Capacity /\ b.ts \in Nat
BY DEF Bucket

LEMMA AvailableType ==
  ASSUME NEW b \in Bucket \cup {NULL}, NEW at \in Nat
  PROVE  Available(b, at) \in 0..Capacity
BY BucketFields, RateAssumption DEF Available, Earned, Elapsed

(* A bucket that was just read is neither expired nor earning yet. *)
LEMMA JustStepped ==
  ASSUME NEW n \in 0..Capacity, NEW at \in Nat
  PROVE  /\ [tokens |-> n, ts |-> at] \in Bucket
         /\ Available([tokens |-> n, ts |-> at], at) = n
<1> DEFINE b == [tokens |-> n, ts |-> at]
<1>1. b \in Bucket
  BY DEF Bucket
<1>2. ~Expired(b, at)
  BY RateAssumption DEF Expired, Ttl
<1>3. Earned(b, at) = n
  BY RateAssumption DEF Earned, Elapsed
<1>4. b # NULL
  BY <1>1, NotNull
<1> QED BY <1>1, <1>2, <1>3, <1>4 DEF Available

LEMMA SteppedBucket ==
  ASSUME Shape, NEW c \in Callers
  PROVE  /\ Has(c) \in 0..Capacity
         /\ Stepped(c) \in Bucket
         /\ Available(Stepped(c), clock) = IF Admits(c) THEN Has(c) - Cost ELSE Has(c)
<1> DEFINE n == IF Admits(c) THEN Has(c) - Cost ELSE Has(c)
<1>1. Has(c) \in 0..Capacity
  BY AvailableType DEF Shape, Has
<1>2. n \in 0..Capacity
  BY <1>1, RateAssumption DEF Admits
<1>3. Stepped(c) = [tokens |-> n, ts |-> clock]
  BY DEF Stepped
<1>4. clock \in Nat
  BY DEF Shape
<1> HIDE DEF n
<1>5. Stepped(c) \in Bucket /\ Available(Stepped(c), clock) = n
  BY <1>2, <1>3, <1>4, JustStepped
<1> QED BY <1>1, <1>5 DEF n

(* One tick earns at most a unit: a bucket that expires was full before. *)
LEMMA TickEarns ==
  ASSUME NEW b \in Bucket \cup {NULL}, NEW at \in Nat
  PROVE  Available(b, at + 1) <= Available(b, at) + 1
<1>1. CASE b = NULL
  BY <1>1, RateAssumption DEF Available
<1>2. ASSUME b # NULL, Expired(b, at + 1) PROVE Available(b, at + 1) <= Available(b, at) + 1
  <2>1. b.tokens \in 0..Capacity /\ b.ts \in Nat
    BY <1>2, BucketFields
  <2>2. Earned(b, at) = Capacity
    BY <1>2, <2>1, RateAssumption DEF Earned, Elapsed, Expired, Ttl
  <2> QED BY <1>2, <2>2, RateAssumption DEF Available
<1>3. ASSUME b # NULL, ~Expired(b, at + 1) PROVE Available(b, at + 1) <= Available(b, at) + 1
  <2>1. b.tokens \in 0..Capacity /\ b.ts \in Nat
    BY <1>3, BucketFields
  <2>2. Earned(b, at + 1) <= Earned(b, at) + 1 /\ Earned(b, at + 1) <= Capacity
    BY <2>1, RateAssumption DEF Earned, Elapsed
  <2>3. Available(b, at + 1) = Earned(b, at + 1)
    BY <1>3 DEF Available
  <2>4. Available(b, at) = Capacity \/ Available(b, at) = Earned(b, at)
    BY DEF Available
  <2>5. Earned(b, at + 1) \in Int /\ Earned(b, at) \in Int
    BY <2>1, RateAssumption DEF Earned, Elapsed
  <2> QED BY <2>2, <2>3, <2>4, <2>5, RateAssumption
<1> QED BY <1>1, <1>2, <1>3

(* A clock set back earns nothing. *)
LEMMA BackEarnsNothing ==
  ASSUME NEW b \in Bucket \cup {NULL}, NEW at \in Nat, NEW earlier \in 0..at
  PROVE  Available(b, earlier) <= Available(b, at)
<1>1. CASE b = NULL
  BY <1>1, RateAssumption DEF Available
<1>2. CASE b # NULL
  <2>1. b.tokens \in 0..Capacity /\ b.ts \in Nat
    BY <1>2, BucketFields
  <2>2. Earned(b, earlier) <= Earned(b, at) /\ Earned(b, earlier) <= Capacity
    BY <2>1, RateAssumption DEF Earned, Elapsed
  <2>3. Expired(b, earlier) => Expired(b, at)
    BY <2>1, RateAssumption DEF Expired, Ttl
  <2> QED BY <1>2, <2>2, <2>3, RateAssumption DEF Available
<1> QED BY <1>1, <1>2

LEMMA RetryAfterType ==
  ASSUME NEW w \in Nat
  PROVE  RetryAfter(w) \in Nat /\ RetryAfter(w) >= w
<1> DEFINE q == (w + Second - 1) \div Second
           r == (w + Second - 1) % Second
<1>1. q \in Int /\ r \in 0..(Second - 1) /\ w + Second - 1 = Second * q + r
  BY RateAssumption
<1>2. Second * q >= w
  BY <1>1, RateAssumption
<1>3. Second * q \in Int
  BY <1>1, RateAssumption
<1> QED BY <1>2, <1>3 DEF RetryAfter

-----------------------------------------------------------------------------
(* The shape is kept. *)

LEMMA RouteFields ==
  ASSUME Shape
  PROVE  config.callers \subseteq Callers /\ config.limiter \in {"route", "geocode"}
BY RateAssumption DEF Shape

LEMMA BucketsShape ==
  ASSUME Shape, NEW c \in Callers, BucketBecomes(c, Stepped(c))
  PROVE  buckets' \in [Callers -> Bucket \cup {NULL}]
BY SteppedBucket DEF Shape, BucketBecomes

LEMMA LetsShape ==
  ASSUME Shape, NEW c \in Callers, NEW through, Lets(c, through)
  PROVE  served' \in [Callers -> Seq(Nat)]
<1>1. \A d \in Callers : Append(served[d], gone) \in Seq(Nat) /\ <<>> \in Seq(Nat)
  BY DEF Shape
<1> QED BY <1>1 DEF Shape, Lets

LEMMA ShapeNext == Shape /\ [Next]_vars => Shape'
<1> SUFFICES ASSUME Shape, [Next]_vars PROVE Shape'
  OBVIOUS
<1>1. ASSUME NEW c \in Callers, Acquire(c) PROVE Shape'
  <2>1. buckets' \in [Callers -> Bucket \cup {NULL}]
    BY <1>1, BucketsShape DEF Acquire
  <2>2. served' \in [Callers -> Seq(Nat)]
    BY <1>1, LetsShape DEF Acquire
  <2>3. ~Admits(c) => clock + RetryAfter(Cost - Has(c)) \in Nat
    <3>1. ~Admits(c) => Cost - Has(c) \in Nat
      BY SteppedBucket, RateAssumption DEF Admits
    <3> QED BY SMTT(30), <3>1, RetryAfterType DEF Shape
  <2>4. promise' \in [Callers -> Nat \cup {NULL}]
    BY <1>1, <2>3 DEF Acquire, Shape
  <2> QED BY <1>1, <2>1, <2>2, <2>4 DEF Acquire, Touch, now, Shape
<1>2. ASSUME NEW c \in Callers, Unreachable(c) PROVE Shape'
  <2>1. served' \in [Callers -> Seq(Nat)]
    BY <1>2, LetsShape DEF Unreachable, Undecided
  <2> QED BY <1>2, <2>1 DEF Unreachable, Undecided, Touch, now, Shape
<1>3. ASSUME NEW c \in Callers, AnswerLost(c) PROVE Shape'
  <2>1. buckets' \in [Callers -> Bucket \cup {NULL}]
    BY <1>3, BucketsShape DEF AnswerLost
  <2>2. served' \in [Callers -> Seq(Nat)]
    BY <1>3, LetsShape DEF AnswerLost, Undecided
  <2>3. promise' \in [Callers -> Nat \cup {NULL}]
    BY <1>3 DEF AnswerLost, Shape
  <2> QED BY <1>3, <2>1, <2>2, <2>3 DEF AnswerLost, Undecided, Touch, now, Shape
<1>4. ASSUME NEW c \in Callers, Expire(c) PROVE Shape'
  BY <1>4 DEF Expire, now, Shape
<1>5. CASE Tick
  BY <1>5 DEF Tick, Shape
<1>6. CASE SetBack
  BY <1>6 DEF SetBack, Shape
<1>7. CASE UNCHANGED vars
  BY <1>7 DEF vars, now, Shape
<1> QED BY <1>1, <1>2, <1>3, <1>4, <1>5, <1>6, <1>7 DEF Next

-----------------------------------------------------------------------------
(* The quota. *)

(* What is held may grow with the time that goes by, and no faster. *)
LEMMA StillPaid ==
  ASSUME NEW times \in Seq(Nat), NEW has \in Nat, NEW at \in Nat, Paid(times, has, at),
         NEW has2 \in Nat, NEW at2 \in Nat, has2 - has <= at2 - at
  PROVE  Paid(times, has2, at2)
<1> SUFFICES ASSUME NEW i \in DOMAIN times
             PROVE  (Len(times) - i + 1) * Cost + has2 <= Capacity + at2 - times[i]
  BY DEF Paid
<1> DEFINE owed == (Len(times) - i + 1) * Cost
<1>1. owed \in Int /\ times[i] \in Nat
  BY SMTT(30), RateAssumption
<1>2. owed + has <= Capacity + at - times[i]
  BY DEF Paid
<1> HIDE DEF owed
<1>3. owed + has2 <= Capacity + at2 - times[i]
  BY SMTT(30), <1>1, <1>2, RateAssumption
<1> QED BY <1>3 DEF owed

(* A token pays for the call it lets through. *)
LEMMA CallPaid ==
  ASSUME NEW times \in Seq(Nat), NEW has \in 0..Capacity, has >= Cost, NEW at \in Nat,
         Paid(times, has, at), Rationed(times)
  PROVE  Paid(Append(times, at), has - Cost, at) /\ Rationed(Append(times, at))
<1> DEFINE more == Append(times, at)
           L == Len(times)
<1>1. /\ DOMAIN more = 1..(L + 1) /\ Len(more) = L + 1 /\ L \in Nat /\ DOMAIN times = 1..L
      /\ more[L + 1] = at
      /\ \A i \in 1..L : more[i] = times[i] /\ times[i] \in Nat
  OBVIOUS
<1> HIDE DEF more, L
<1>2. \A m \in Int : m * Cost \in Int /\ (m + 1) * Cost = m * Cost + Cost
  BY RateAssumption
<1>3. ASSUME NEW i \in 1..L
      PROVE  (L + 1 - i + 1) * Cost + has - Cost <= Capacity + at - more[i]
  <2>1. (L - i + 1) * Cost + has <= Capacity + at - times[i]
    BY <1>1 DEF Paid, L
  <2>2. (L + 1 - i + 1) * Cost = (L - i + 1) * Cost + Cost /\ (L - i + 1) * Cost \in Int
    <3>1. (L - i + 1) \in Int /\ L + 1 - i + 1 = (L - i + 1) + 1
      BY <1>1
    <3> QED BY <3>1, <1>2
  <2> QED BY SMTT(30), <1>1, <2>1, <2>2, RateAssumption
<1>4. (L + 1 - (L + 1) + 1) * Cost = Cost
  BY <1>1, RateAssumption
<1>5. Paid(more, has - Cost, at)
  <2> SUFFICES ASSUME NEW i \in 1..(L + 1)
               PROVE  (L + 1 - i + 1) * Cost + (has - Cost) <= Capacity + at - more[i]
    BY <1>1 DEF Paid
  <2>1. (L + 1 - i + 1) * Cost \in Int
    BY <1>1, <1>2
  <2>2. CASE i \in 1..L
    BY <1>1, <1>3, <2>1, <2>2, RateAssumption
  <2>3. CASE i = L + 1
    BY <1>1, <1>4, <2>3, RateAssumption
  <2> QED BY <1>1, <2>2, <2>3
<1>6. Rationed(more)
  <2> SUFFICES ASSUME NEW i \in 1..(L + 1), NEW n \in 1..(L + 1), i <= n
               PROVE  (n - i + 1) * Cost <= Capacity + more[n] - more[i]
    BY <1>1 DEF Rationed
  <2>1. CASE n \in 1..L
    <3>1. i \in 1..L
      BY <1>1, <2>1
    <3>2. (n - i + 1) * Cost <= Capacity + times[n] - times[i]
      BY <1>1, <2>1, <3>1 DEF Rationed
    <3> QED BY <1>1, <2>1, <3>1, <3>2
  <2>2. CASE n = L + 1 /\ i \in 1..L
    <3> DEFINE owed == (L + 1 - i + 1) * Cost
    <3>1. owed \in Int /\ (n - i + 1) * Cost = owed
      BY <1>1, <1>2, <2>2
    <3>2. owed + has - Cost <= Capacity + at - more[i]
      BY <1>3, <2>2
    <3>3. more[n] = at /\ more[i] \in Nat
      BY <1>1, <2>2
    <3> HIDE DEF owed
    <3> QED BY SMTT(30), <3>1, <3>2, <3>3, RateAssumption
  <2>3. CASE n = L + 1 /\ i = L + 1
    BY <1>1, <1>4, <2>3, RateAssumption
  <2> QED BY <1>1, <2>1, <2>2, <2>3
<1> QED BY <1>5, <1>6 DEF more

LEMMA NoCalls ==
  ASSUME NEW has, NEW at
  PROVE  Paid(<<>>, has, at) /\ Rationed(<<>>)
BY DEF Paid, Rationed

LEMMA HasType ==
  ASSUME Shape, NEW c \in Callers
  PROVE  Has(c) \in 0..Capacity
BY SteppedBucket

LEMMA HasNext ==
  ASSUME Shape', UNCHANGED config, NEW d \in Callers
  PROVE  Has(d)' = Available(buckets'[d], clock') /\ Has(d)' \in 0..Capacity
<1>1. Has(d)' = Available(buckets'[d], clock')
  BY DEF Has, Available, Expired, Earned, Elapsed
<1>2. buckets'[d] \in Bucket \cup {NULL} /\ clock' \in Nat
  BY DEF Shape
<1>3. Available(buckets'[d], clock') \in 0..Capacity
  BY <1>2, AvailableType
<1> QED BY <1>1, <1>3

(* A call, decided or not: its token paid for it, if it was let through, and *)
(* what happens to the others is that their bucket starts again.             *)
LEMMA CallAccounted ==
  ASSUME QInv, Shape', NEW c \in Callers, NEW through \in BOOLEAN,
         Lets(c, through), UNCHANGED <<config, now>>,
         \/ BucketBecomes(c, Stepped(c)) /\ (through => Admits(c))
         \/ UNCHANGED buckets /\ ~through /\ Lost(c) = {}
  PROVE  QInv'
<1> SUFFICES ASSUME NEW d \in Callers PROVE Accounted(d)'
  BY DEF QInv
<1>1. /\ served[d] \in Seq(Nat) /\ Has(d) \in 0..Capacity /\ gone \in Nat
      /\ Paid(served[d], Has(d), gone) /\ Rationed(served[d])
  BY HasType DEF QInv, Shape, Accounted
<1>2. gone' = gone /\ clock' = clock /\ config' = config
  BY DEF now
<1>3. Has(d)' = Available(buckets'[d], clock)
  BY <1>2 DEF Has, Available, Expired, Earned, Elapsed
<1>4. CASE served'[d] = <<>>
  BY <1>4, NoCalls DEF Accounted
<1>5. CASE served'[d] = served[d] /\ Has(d)' <= Has(d)
  <2>1. Has(d)' \in Nat
    BY <1>2, HasNext, RateAssumption
  <2>2. Has(d) \in Nat /\ Has(d)' - Has(d) <= gone' - gone
    BY <1>1, <1>2, <1>5, <2>1, RateAssumption
  <2>3. Paid(served[d], Has(d)', gone')
    BY <1>1, <1>2, <2>1, <2>2, StillPaid
  <2> QED BY <1>1, <1>5, <2>3 DEF Accounted
<1>6. CASE UNCHANGED buckets /\ ~through /\ Lost(c) = {}
  <2>1. Has(d)' = Has(d)
    BY <1>3, <1>6 DEF Has
  <2>2. served'[d] = served[d]
    BY <1>6 DEF Lets
  <2> QED BY <1>1, <1>5, <2>1, <2>2
<1>7. CASE BucketBecomes(c, Stepped(c)) /\ (through => Admits(c)) /\ d = c
  <2>1. Has(c)' = IF Admits(c) THEN Has(c) - Cost ELSE Has(c)
    BY <1>3, <1>7, SteppedBucket DEF BucketBecomes, QInv
  <2>2. CASE through
    <3>1. served'[c] = Append(served[c], gone)
      BY <1>7, <2>2 DEF Lets
    <3>2. Has(c) >= Cost /\ Has(c)' = Has(c) - Cost
      BY <1>7, <2>1, <2>2 DEF Admits
    <3>3. Paid(Append(served[c], gone), Has(c) - Cost, gone) /\ Rationed(Append(served[c], gone))
      BY <1>1, <1>7, <3>2, CallPaid
    <3> QED BY <1>2, <1>7, <3>1, <3>2, <3>3 DEF Accounted
  <2>3. CASE ~through
    <3>1. served'[c] \in {<<>>, served[c]}
      BY <2>3 DEF Lets
    <3>2. Has(c)' <= Has(c)
      BY <1>1, <1>7, <2>1, RateAssumption
    <3> QED BY <1>4, <1>5, <1>7, <3>1, <3>2
  <2> QED BY <2>2, <2>3
<1>8. CASE BucketBecomes(c, Stepped(c)) /\ d # c
  <2>1. CASE d \in Lost(c)
    BY <1>4, <1>8, <2>1 DEF Lets
  <2>2. CASE d \notin Lost(c)
    <3>1. served'[d] = served[d] /\ buckets'[d] = buckets[d]
      BY <1>8, <2>2 DEF Lets, BucketBecomes
    <3>2. Has(d)' = Has(d)
      BY <1>3, <3>1 DEF Has
    <3> QED BY <1>1, <1>5, <3>1, <3>2
  <2> QED BY <2>1, <2>2
<1> QED BY <1>6, <1>7, <1>8

LEMMA QuotaNext == QInv /\ [Next]_vars => QInv'
<1> SUFFICES ASSUME QInv, [Next]_vars PROVE QInv'
  OBVIOUS
<1>1. Shape /\ Shape'
  BY ShapeNext DEF QInv
<1>2. ASSUME NEW c \in Callers, Acquire(c) PROVE QInv'
  <2>1. Admits(c) \in BOOLEAN /\ UNCHANGED <<config, now>>
    BY <1>2 DEF Admits, Acquire, Touch
  <2> QED BY <1>1, <1>2, <2>1, CallAccounted DEF Acquire
<1>3. ASSUME NEW c \in Callers, Unreachable(c) \/ AnswerLost(c) PROVE QInv'
  <2>1. UNCHANGED <<config, now>> /\ Lets(c, FALSE) /\ Lost(c) = {}
    BY <1>3 DEF Unreachable, AnswerLost, Undecided, Touch, FailsOpen, Lost, Lets
  <2> QED BY <1>1, <1>3, <2>1, CallAccounted DEF Unreachable, AnswerLost
<1>4. ASSUME UNCHANGED <<config, served>>, NEW d \in Callers,
             Has(d)' - Has(d) <= gone' - gone
      PROVE  Accounted(d)'
  <2>1. Has(d) \in Nat /\ Has(d)' \in Nat /\ gone \in Nat /\ gone' \in Nat
    <3>1. Has(d) \in 0..Capacity
      BY <1>1, HasType
    <3>2. Has(d)' \in 0..Capacity
      BY <1>1, <1>4, HasNext
    <3> QED BY <1>1, <3>1, <3>2, RateAssumption DEF Shape
  <2>2. served[d] \in Seq(Nat) /\ Paid(served[d], Has(d), gone) /\ Rationed(served[d])
    BY <1>1 DEF QInv, Shape, Accounted
  <2>3. Paid(served[d], Has(d)', gone')
    BY <1>4, <2>1, <2>2, StillPaid
  <2> QED BY <1>4, <2>2, <2>3 DEF Accounted
<1>5. ASSUME UNCHANGED <<config, served>>,
             \A d \in Callers : Has(d)' - Has(d) <= gone' - gone
      PROVE  QInv'
  BY <1>1, <1>4, <1>5 DEF QInv
<1>6. \A d \in Callers : Has(d) \in 0..Capacity
  BY <1>1, HasType
<1>7. ASSUME NEW c \in Callers, Expire(c) PROVE QInv'
  <2>1. UNCHANGED <<config, clock, gone, served>>
    BY <1>7 DEF Expire, now
  <2>2. ASSUME NEW d \in Callers PROVE Has(d)' - Has(d) <= gone' - gone
    <3>1. Has(d)' = Available(buckets'[d], clock)
      BY <1>1, <2>1, HasNext
    <3>2. CASE d = c
      BY <1>1, <1>6, <1>7, <2>1, <3>1, <3>2, RateAssumption DEF Expire, Shape, Has, Available
    <3>3. CASE d # c
      BY <1>1, <1>6, <1>7, <2>1, <3>1, <3>3, RateAssumption DEF Expire, Shape, Has
    <3> QED BY <3>2, <3>3
  <2> QED BY <1>5, <2>1, <2>2
<1>8. CASE Tick
  <2>1. UNCHANGED <<config, buckets, served>> /\ clock' = clock + 1 /\ gone' = gone + 1
    BY <1>8 DEF Tick
  <2>2. ASSUME NEW d \in Callers PROVE Has(d)' - Has(d) <= gone' - gone
    <3>1. Has(d)' = Available(buckets[d], clock + 1) /\ Has(d)' \in 0..Capacity
      BY <1>1, <2>1, HasNext
    <3>2. Has(d)' <= Has(d) + 1
      BY <1>1, <3>1, TickEarns DEF Shape, Has
    <3> QED BY SMTT(30), <1>1, <1>6, <2>1, <3>1, <3>2, RateAssumption DEF Shape
  <2> QED BY <1>5, <2>1, <2>2
<1>9. CASE SetBack
  <2>1. UNCHANGED <<config, buckets, served, gone>> /\ clock' \in 0..clock
    BY <1>1, <1>9 DEF SetBack, Shape
  <2>2. ASSUME NEW d \in Callers PROVE Has(d)' - Has(d) <= gone' - gone
    <3>1. Has(d)' = Available(buckets[d], clock') /\ Has(d)' \in 0..Capacity
      BY <1>1, <2>1, HasNext
    <3>2. Has(d)' <= Has(d)
      BY <1>1, <2>1, <3>1, BackEarnsNothing DEF Shape, Has
    <3> QED BY <1>1, <1>6, <2>1, <3>1, <3>2, RateAssumption DEF Shape
  <2> QED BY <1>5, <2>1, <2>2
<1>10. CASE UNCHANGED vars
  <2>1. UNCHANGED <<config, buckets, served, clock, gone>>
    BY <1>10 DEF vars, now
  <2>2. ASSUME NEW d \in Callers PROVE Has(d)' - Has(d) <= gone' - gone
    <3>1. Has(d)' = Has(d)
      BY <1>1, <2>1, HasNext DEF Has
    <3> QED BY <1>1, <1>6, <2>1, <3>1, RateAssumption DEF Shape
  <2> QED BY <1>5, <2>1, <2>2
<1> QED BY <1>2, <1>3, <1>7, <1>8, <1>9, <1>10 DEF Next

LEMMA InitShape == Init => Shape
BY RateAssumption DEF Init, Shape

(* However long a deployment runs, and whatever is refused, lost, expired,   *)
(* evicted or set back, no caller is let through more often in any stretch   *)
(* than a full bucket and the rate pay for.                                  *)
THEOREM QuotaHolds == Spec => []Quota
<1>1. Init => QInv
  <2> SUFFICES ASSUME Init, NEW c \in Callers PROVE Accounted(c)
    BY InitShape DEF QInv
  <2> QED BY NoCalls DEF Init, Accounted
<1>2. QInv => Quota
  BY DEF QInv, Accounted, Quota
<1> QED BY <1>1, <1>2, QuotaNext, PTL DEF Spec

-----------------------------------------------------------------------------
(* What a refused client was told. *)

LEMMA PromiseNext == PInv /\ [Next]_vars => PInv'
<1> SUFFICES ASSUME PInv, [Next]_vars PROVE PInv'
  OBVIOUS
<1>1. Shape /\ Shape'
  BY ShapeNext DEF PInv
<1>2. \A d \in Callers : Earning(buckets[d], promise[d])
  BY DEF PInv
<1>3. ASSUME NEW c \in Callers, ~Admits(c)
      PROVE  /\ Stepped(c) = [tokens |-> Has(c), ts |-> clock]
             /\ Has(c) \in Nat
             /\ clock + RetryAfter(Cost - Has(c)) >= clock + Cost - Has(c)
             /\ clock + RetryAfter(Cost - Has(c)) \in Nat
  <2>1. Has(c) \in Nat /\ Cost - Has(c) \in Nat
    BY <1>1, <1>3, HasType, RateAssumption DEF Admits
  <2>2. RetryAfter(Cost - Has(c)) \in Nat /\ RetryAfter(Cost - Has(c)) >= Cost - Has(c)
    BY <2>1, RetryAfterType
  <2> QED BY SMTT(30), <1>1, <1>3, <2>1, <2>2, RateAssumption DEF Stepped, Shape
<1>4. ASSUME NEW c \in Callers, ~Admits(c)
      PROVE  Earning(Stepped(c), clock + RetryAfter(Cost - Has(c)))
  BY SMTT(30), <1>1, <1>3, <1>4, RateAssumption DEF Earning, Shape
(* A refusal whose answer was lost takes nothing, so the promise stands. *)
<1>5. ASSUME NEW c \in Callers, ~Admits(c)
      PROVE  Earning(Stepped(c), promise[c])
  <2>1. buckets[c] \in Bucket /\ ~Expired(buckets[c], clock)
    BY <1>1, <1>5, RateAssumption DEF Admits, Has, Available, Shape
  <2>2. buckets[c].tokens \in 0..Capacity /\ buckets[c].ts \in Nat /\ buckets[c] # NULL
    BY <2>1, BucketFields, NotNull
  <2>3. Has(c) = buckets[c].tokens + Elapsed(buckets[c], clock)
    BY <1>1, <1>5, <2>1, <2>2, RateAssumption DEF Admits, Has, Available, Earned, Elapsed, Shape
  <2>4. promise[c] # NULL => buckets[c].tokens + promise[c] - buckets[c].ts >= Cost
    BY <1>2, <2>2 DEF Earning
  <2>5. promise[c] # NULL => Has(c) + promise[c] - clock >= Cost
    <3>1. SUFFICES ASSUME promise[c] # NULL PROVE Has(c) + promise[c] - clock >= Cost
      OBVIOUS
    <3>2. promise[c] \in Nat /\ clock \in Nat
      BY <1>1, <3>1 DEF Shape
    <3>3. CASE clock > buckets[c].ts
      <4>1. Elapsed(buckets[c], clock) = clock - buckets[c].ts
        BY <3>3 DEF Elapsed
      <4> QED BY <2>2, <2>3, <2>4, <3>1, <3>2, <4>1, RateAssumption
    <3>4. CASE ~(clock > buckets[c].ts)
      <4>1. Elapsed(buckets[c], clock) = 0
        BY <3>4 DEF Elapsed
      <4> QED BY <2>2, <2>3, <2>4, <3>1, <3>2, <3>4, <4>1, RateAssumption
    <3> QED BY <3>3, <3>4
  <2> QED BY <1>3, <1>5, <2>5 DEF Earning
<1>6. ASSUME NEW c \in Callers, Acquire(c), NEW d \in Callers
      PROVE  Earning(buckets[d], promise[d])'
  <2>1. CASE d = c /\ Admits(c)
    BY <1>1, <1>6, <2>1 DEF Acquire, Earning, Shape
  <2>2. CASE d = c /\ ~Admits(c)
    <3>1. buckets'[c] = Stepped(c) /\ promise'[c] = clock + RetryAfter(Cost - Has(c))
      BY <1>1, <1>6, <2>2 DEF Acquire, BucketBecomes
    <3> QED BY <1>4, <2>2, <3>1 DEF Earning
  <2>3. CASE d # c
    <3>1. \/ buckets'[d] = NULL
          \/ buckets'[d] = buckets[d] /\ promise'[d] \in {NULL, promise[d]}
      BY <1>6, <2>3 DEF Acquire, BucketBecomes
    <3> QED BY <1>2, <3>1 DEF Earning
  <2> QED BY <2>1, <2>2, <2>3
<1>7. ASSUME NEW c \in Callers, AnswerLost(c), NEW d \in Callers
      PROVE  Earning(buckets[d], promise[d])'
  <2>1. CASE d = c /\ Admits(c)
    BY <1>1, <1>7, <2>1 DEF AnswerLost, Earning, Shape
  <2>2. CASE d = c /\ ~Admits(c)
    <3>1. buckets'[c] = Stepped(c) /\ promise'[c] = promise[c]
      BY <1>1, <1>7, <2>2 DEF AnswerLost, BucketBecomes, Shape
    <3> QED BY <1>5, <2>2, <3>1 DEF Earning
  <2>3. CASE d # c
    <3>1. (buckets'[d] = NULL \/ buckets'[d] = buckets[d]) /\ promise'[d] = promise[d]
      BY <1>1, <1>7, <2>3 DEF AnswerLost, BucketBecomes, Shape
    <3> QED BY <1>2, <3>1 DEF Earning
  <2> QED BY <2>1, <2>2, <2>3
<1>8. ASSUME NEW c \in Callers, Expire(c), NEW d \in Callers
      PROVE  Earning(buckets[d], promise[d])'
  <2>1. (buckets'[d] = NULL \/ buckets'[d] = buckets[d]) /\ promise'[d] = promise[d]
    BY <1>1, <1>8 DEF Expire, Shape
  <2> QED BY <1>2, <2>1 DEF Earning
<1>9. ASSUME UNCHANGED <<buckets, promise>> PROVE PInv'
  BY <1>1, <1>2, <1>9 DEF PInv
<1>10. CASE (\E c \in Callers : Unreachable(c)) \/ Tick \/ SetBack \/ UNCHANGED vars
  BY <1>9, <1>10 DEF Unreachable, Tick, SetBack, vars
<1> QED BY <1>1, <1>6, <1>7, <1>8, <1>10 DEF Next, PInv

LEMMA PInvKeepsPromises == PInv => PromiseKept
<1> SUFFICES ASSUME PInv, NEW c \in Callers, promise[c] # NULL, clock >= promise[c]
             PROVE  Admits(c)
  BY DEF PromiseKept
<1>1. clock \in Nat /\ promise[c] \in Nat /\ buckets[c] \in Bucket \cup {NULL}
  BY DEF PInv, Shape
<1>2. CASE buckets[c] = NULL \/ Expired(buckets[c], clock)
  BY <1>2, RateAssumption DEF Admits, Has, Available
<1>3. CASE buckets[c] # NULL /\ ~Expired(buckets[c], clock)
  <2>1. buckets[c].tokens \in 0..Capacity /\ buckets[c].ts \in Nat
    BY <1>1, <1>3, BucketFields
  <2>2. buckets[c].tokens + promise[c] - buckets[c].ts >= Cost
    BY <1>3 DEF PInv, Earning
  <2>3. buckets[c].tokens + Elapsed(buckets[c], clock) >= Cost
    BY <1>1, <2>1, <2>2, RateAssumption DEF Elapsed
  <2>4. Earned(buckets[c], clock) >= Cost
    BY <2>3, RateAssumption DEF Earned
  <2> QED BY <1>3, <2>4 DEF Admits, Has, Available
<1> QED BY <1>2, <1>3

(* A refused client that comes back when retry_after_header told it to is    *)
(* let through, also when a lost answer, an expiry or a clock set back came  *)
(* in between: rounding the wait up to whole seconds never falls short.      *)
THEOREM PromisesAreKept == Spec => []PromiseKept
<1>1. Init => PInv
  BY InitShape DEF Init, PInv, Earning
<1> QED BY <1>1, PromiseNext, PInvKeepsPromises, PTL DEF Spec

-----------------------------------------------------------------------------
(* The clients tracked, in order of recency. *)

Distinct(s) == \A i, j \in 1..Len(s) : i # j => s[i] # s[j]

(* Whoever is behind a client in the table came after its last call. *)
CameSince(s, os) == \A i, j \in 1..Len(s) : i < j => s[j] \in os[s[i]]

LruInv ==
  /\ recency \in Seq(Callers) /\ Len(recency) <= MaxTracked
  /\ Distinct(recency) /\ CameSince(recency, others)
  /\ others \in [Callers -> SUBSET Callers]
  /\ \A c \in Callers : IsFiniteSet(others[c])
  /\ config.limiter # "route" => recency = <<>>

(* s is what is left of the table, in its order, without c. *)
LeftOf(s, c) ==
  /\ s \in Seq(Callers)
  /\ \A i \in 1..Len(s) : s[i] # c
  /\ Distinct(s) /\ CameSince(s, others)

LEMMA TailIsLeft ==
  ASSUME LruInv, NEW c, c \notin Tracked, recency # <<>>
  PROVE  LeftOf(Tail(recency), c) /\ Len(Tail(recency)) = Len(recency) - 1
<1>1. /\ recency \in Seq(Callers) /\ Len(recency) \in Nat \ {0}
      /\ \A i \in 1..Len(recency) : recency[i] # c
  BY DEF LruInv, Tracked
<1>2. /\ Tail(recency) \in Seq(Callers) /\ Len(Tail(recency)) = Len(recency) - 1
      /\ \A i \in 1..(Len(recency) - 1) :
           i + 1 \in 1..Len(recency) /\ Tail(recency)[i] = recency[i + 1]
  BY <1>1
<1> DEFINE s == Tail(recency)
<1>3. \A i \in 1..Len(s) : s[i] # c
  BY <1>1, <1>2
<1>4. Distinct(s)
  <2> SUFFICES ASSUME NEW i \in 1..Len(s), NEW j \in 1..Len(s), i # j PROVE s[i] # s[j]
    BY DEF Distinct
  <2>1. i + 1 \in 1..Len(recency) /\ j + 1 \in 1..Len(recency) /\ i + 1 # j + 1
    BY <1>2
  <2>2. recency[i + 1] # recency[j + 1]
    BY <2>1 DEF LruInv, Distinct
  <2> QED BY <1>2, <2>2
<1>5. CameSince(s, others)
  <2> SUFFICES ASSUME NEW i \in 1..Len(s), NEW j \in 1..Len(s), i < j
               PROVE  s[j] \in others[s[i]]
    BY DEF CameSince
  <2>1. i + 1 \in 1..Len(recency) /\ j + 1 \in 1..Len(recency) /\ i + 1 < j + 1
    BY <1>2
  <2>2. recency[j + 1] \in others[recency[i + 1]]
    BY <2>1 DEF LruInv, CameSince
  <2> QED BY <1>2, <2>2
<1> QED BY <1>2, <1>3, <1>4, <1>5 DEF LeftOf

(* A client taken out of the table: those behind it move up. *)
LEMMA WithoutIs ==
  ASSUME LruInv, NEW c \in Tracked
  PROVE  LET p == Place(c)
             s == Without(c)
         IN /\ p \in 1..Len(recency) /\ recency[p] = c
            /\ recency \in Seq(Callers) /\ Len(recency) \in Nat
            /\ s \in Seq(Callers) /\ Len(s) = Len(recency) - 1
            /\ \A i \in 1..(p - 1) : s[i] = recency[i]
            /\ \A i \in p..(Len(recency) - 1) : s[i] = recency[i + 1]
<1> DEFINE p == Place(c)
           s == Without(c)
<1>1. p \in 1..Len(recency) /\ recency[p] = c
  BY DEF Place, Tracked, LruInv
<1>2. recency \in Seq(Callers) /\ Len(recency) \in Nat
  BY DEF LruInv
<1>3. s = SubSeq(recency, 1, p - 1) \o SubSeq(recency, p + 1, Len(recency))
  BY DEF Without
<1> HIDE DEF p, s
<1>4. /\ SubSeq(recency, 1, p - 1) \in Seq(Callers)
      /\ Len(SubSeq(recency, 1, p - 1)) = p - 1
      /\ \A i \in 1..(p - 1) : SubSeq(recency, 1, p - 1)[i] = recency[i]
  BY <1>1, <1>2
<1>5. /\ SubSeq(recency, p + 1, Len(recency)) \in Seq(Callers)
      /\ Len(SubSeq(recency, p + 1, Len(recency))) = Len(recency) - p
      /\ \A i \in 1..(Len(recency) - p) :
           SubSeq(recency, p + 1, Len(recency))[i] = recency[p + i]
  BY <1>1, <1>2
<1> DEFINE before == SubSeq(recency, 1, p - 1)
           after == SubSeq(recency, p + 1, Len(recency))
<1>6. /\ s \in Seq(Callers) /\ Len(s) = Len(recency) - 1
      /\ \A i \in 1..(p - 1) : s[i] = recency[i]
      /\ \A i \in p..(Len(recency) - 1) : s[i] = recency[i + 1]
  <2> HIDE DEF before, after
  <2>1. /\ s \in Seq(Callers) /\ Len(s) = Len(before) + Len(after)
        /\ \A i \in 1..(Len(before) + Len(after)) :
             s[i] = IF i <= Len(before) THEN before[i] ELSE after[i - Len(before)]
    BY <1>3, <1>4, <1>5, ConcatProperties DEF before, after
  <2>2. /\ Len(before) = p - 1 /\ Len(after) = Len(recency) - p
        /\ \A i \in 1..(p - 1) : before[i] = recency[i]
        /\ \A i \in 1..(Len(recency) - p) : after[i] = recency[p + i]
    BY <1>4, <1>5 DEF before, after
  <2>3. ASSUME NEW i \in 1..(p - 1) PROVE s[i] = recency[i]
    BY SMTT(30), <2>1, <2>2, <1>1, <1>2
  <2>4. ASSUME NEW i \in p..(Len(recency) - 1) PROVE s[i] = recency[i + 1]
    <3>1. i - (p - 1) \in 1..(Len(recency) - p) /\ p + (i - (p - 1)) = i + 1
      BY <1>1, <1>2
    <3>2. i \in 1..(Len(before) + Len(after)) /\ ~(i <= Len(before))
      BY <2>2, <1>1, <1>2
    <3>3. s[i] = after[i - Len(before)]
      BY <2>1, <3>2
    <3> QED BY <2>2, <3>1, <3>3
  <2> QED BY <2>1, <2>2, <2>3, <2>4, <1>1, <1>2
<1> QED BY <1>1, <1>2, <1>6 DEF p, s

LEMMA WithoutIsLeft ==
  ASSUME LruInv, NEW c
  PROVE  /\ LeftOf(Without(c), c)
         /\ Len(Without(c)) = IF c \in Tracked THEN Len(recency) - 1 ELSE Len(recency)
<1>1. CASE c \notin Tracked
  BY <1>1 DEF LruInv, Tracked, Without, LeftOf
<1>2. CASE c \in Tracked
  <2> DEFINE p == Place(c)
             s == Without(c)
             from(i) == IF i < p THEN i ELSE i + 1
  <2>1. /\ p \in 1..Len(recency) /\ recency[p] = c
        /\ recency \in Seq(Callers) /\ Len(recency) \in Nat
        /\ s \in Seq(Callers) /\ Len(s) = Len(recency) - 1
        /\ \A i \in 1..(p - 1) : s[i] = recency[i]
        /\ \A i \in p..(Len(recency) - 1) : s[i] = recency[i + 1]
    BY <1>2, WithoutIs
  <2> HIDE DEF p, s
  <2>2. ASSUME NEW i \in 1..Len(s)
        PROVE  from(i) \in 1..Len(recency) /\ from(i) # p /\ s[i] = recency[from(i)]
    <3>1. CASE i < p
      BY <3>1, <2>1
    <3>2. CASE i >= p
      BY <3>2, <2>1
    <3> QED BY <3>1, <3>2, <2>1
  <2>3. \A i \in 1..Len(s) : s[i] # c
    BY <2>1, <2>2 DEF LruInv, Distinct
  <2>4. ASSUME NEW i \in 1..Len(s), NEW j \in 1..Len(s), i < j
        PROVE  s[i] # s[j] /\ s[j] \in others[s[i]]
    <3>1. from(i) < from(j)
      BY <2>4, <2>1
    <3>2. from(i) \in 1..Len(recency) /\ from(j) \in 1..Len(recency)
          /\ s[i] = recency[from(i)] /\ s[j] = recency[from(j)]
      BY <2>2
    <3> HIDE DEF from
    <3> QED BY <3>1, <3>2 DEF LruInv, Distinct, CameSince
  <2>5. Distinct(s)
    <3> SUFFICES ASSUME NEW i \in 1..Len(s), NEW j \in 1..Len(s), i # j PROVE s[i] # s[j]
      BY DEF Distinct
    <3>1. i < j \/ j < i
      OBVIOUS
    <3> QED BY <3>1, <2>4
  <2>6. CameSince(s, others)
    BY <2>4 DEF CameSince
  <2> QED BY <1>2, <2>1, <2>3, <2>5, <2>6 DEF LeftOf, s
<1> QED BY <1>1, <1>2

(* Only c is taken out. *)
LEMMA WithoutKeeps ==
  ASSUME LruInv, NEW c, NEW i \in 1..Len(recency), recency[i] # c
  PROVE  \E k \in 1..Len(Without(c)) : Without(c)[k] = recency[i]
<1>1. CASE c \notin Tracked
  BY <1>1 DEF Without
<1>2. CASE c \in Tracked
  <2> DEFINE p == Place(c)
             s == Without(c)
  <2>1. /\ p \in 1..Len(recency) /\ recency[p] = c /\ Len(recency) \in Nat
        /\ Len(s) = Len(recency) - 1
        /\ \A k \in 1..(p - 1) : s[k] = recency[k]
        /\ \A k \in p..(Len(recency) - 1) : s[k] = recency[k + 1]
    BY <1>2, WithoutIs
  <2> HIDE DEF p, s
  <2>2. CASE i < p
    <3>1. i \in 1..(p - 1) /\ i \in 1..Len(s)
      BY <2>1, <2>2
    <3> QED BY <2>1, <3>1 DEF s
  <2>3. CASE i > p
    <3>1. i - 1 \in p..(Len(recency) - 1) /\ i - 1 \in 1..Len(s) /\ (i - 1) + 1 = i
      BY <2>1, <2>3
    <3>2. s[i - 1] = recency[i]
      BY <2>1, <3>1
    <3> QED BY <3>1, <3>2 DEF s
  <2> QED BY <2>1, <2>2, <2>3
<1> QED BY <1>1, <1>2

LEMMA TouchKeepsLru ==
  ASSUME LruInv, NEW c \in Callers, Touch(c)
  PROVE  LruInv'
<1>1. others' = [d \in Callers |-> IF d = c THEN {} ELSE others[d] \cup {c}]
  BY DEF Touch
<1>2. others' \in [Callers -> SUBSET Callers] /\ \A d \in Callers : IsFiniteSet(others'[d])
  <2>1. ASSUME NEW d \in Callers PROVE others'[d] \subseteq Callers /\ IsFiniteSet(others'[d])
    BY <1>1, FS_EmptySet, FS_AddElement DEF LruInv
  <2>2. others' = [d \in Callers |-> others'[d]]
    BY <1>1
  <2> QED BY <2>1, <2>2
<1>3. CASE config.limiter # "route"
  <2>1. recency' = <<>> /\ config' = config
    BY <1>3 DEF Touch, LruInv
  <2>2. Distinct(<<>>) /\ CameSince(<<>>, others') /\ <<>> \in Seq(Callers) /\ Len(<<>>) = 0
    BY DEF Distinct, CameSince
  <2> QED BY <1>2, <2>1, <2>2, RateAssumption DEF LruInv
<1>4. CASE config.limiter = "route"
  <2> DEFINE s == IF Evicted(c) = {} THEN Without(c) ELSE Tail(recency)
  <2>1. recency' = Append(s, c) /\ config' = config
    BY <1>4 DEF Touch, Touched
  <2>2. LeftOf(s, c) /\ Len(s) < MaxTracked
    <3>1. CASE c \in Tracked
      <4>1. Evicted(c) = {}
        BY <3>1 DEF Evicted
      <4>2. Len(recency) \in Nat /\ Len(recency) <= MaxTracked
        BY DEF LruInv
      <4> QED BY <3>1, <4>1, <4>2, WithoutIsLeft, RateAssumption
    <3>2. CASE c \notin Tracked /\ Len(recency) < MaxTracked
      <4>1. Evicted(c) = {}
        BY <3>2, RateAssumption DEF Evicted, LruInv
      <4> QED BY <3>2, <4>1, WithoutIsLeft
    <3>3. CASE c \notin Tracked /\ Len(recency) >= MaxTracked
      <4>1. Evicted(c) # {} /\ recency # <<>>
        BY <1>4, <3>3, RateAssumption DEF Evicted
      <4>2. Len(recency) \in Nat /\ Len(recency) <= MaxTracked
        BY DEF LruInv
      <4> QED BY <3>3, <4>1, <4>2, TailIsLeft, RateAssumption
    <3> QED BY <3>1, <3>2, <3>3, RateAssumption DEF LruInv
  <2> HIDE DEF s
  <2>3. s \in Seq(Callers) /\ Len(s) \in Nat /\ \A i \in 1..Len(s) : s[i] \in Callers /\ s[i] # c
    BY <2>2 DEF LeftOf
  <2>4. /\ recency' \in Seq(Callers) /\ Len(recency') = Len(s) + 1
        /\ recency'[Len(s) + 1] = c /\ \A i \in 1..Len(s) : recency'[i] = s[i]
    BY <2>1, <2>3
  <2>5. Len(recency') <= MaxTracked
    BY <2>2, <2>3, <2>4, RateAssumption
  <2>6. ASSUME NEW i \in 1..Len(recency'), NEW j \in 1..Len(recency'), i < j
        PROVE  recency'[i] # recency'[j] /\ recency'[j] \in others'[recency'[i]]
    <3>1. i \in 1..Len(s) /\ recency'[i] = s[i] /\ s[i] \in Callers /\ s[i] # c
      BY <2>3, <2>4, <2>6
    <3>2. others'[s[i]] = others[s[i]] \cup {c}
      BY <1>1, <3>1
    <3>3. CASE j \in 1..Len(s)
      <4>1. recency'[j] = s[j] /\ s[i] # s[j] /\ s[j] \in others[s[i]]
        BY <2>2, <2>4, <2>6, <3>1, <3>3 DEF LeftOf, Distinct, CameSince
      <4> QED BY <3>1, <3>2, <4>1
    <3>4. CASE j = Len(s) + 1
      BY <2>4, <3>1, <3>2, <3>4
    <3> QED BY <2>3, <2>4, <3>3, <3>4
  <2>7. Distinct(recency')
    <3> SUFFICES ASSUME NEW i \in 1..Len(recency'), NEW j \in 1..Len(recency'), i # j
                 PROVE  recency'[i] # recency'[j]
      BY DEF Distinct
    <3>1. i < j \/ j < i
      BY <2>3, <2>4
    <3> QED BY <2>6, <3>1
  <2>8. CameSince(recency', others')
    BY <2>6 DEF CameSince
  <2> QED BY <1>2, <1>4, <2>1, <2>4, <2>5, <2>7, <2>8 DEF LruInv, Distinct, CameSince
<1> QED BY <1>3, <1>4

(* The clients that came after the last call of the least recent one. *)
LEMMA CrowdBehind ==
  ASSUME LruInv, recency # <<>>
  PROVE  /\ recency[1] \in Callers
         /\ Cardinality({recency[i] : i \in 2..Len(recency)}) = Len(recency) - 1
         /\ {recency[i] : i \in 2..Len(recency)} \subseteq others[recency[1]]
<1> DEFINE n == Len(recency)
           crowd == {recency[i] : i \in 2..n}
           f == [i \in 2..n |-> recency[i]]
<1>1. recency \in Seq(Callers) /\ n \in Nat \ {0}
  BY DEF LruInv
<1>2. recency[1] \in Callers
  BY <1>1
<1>3. crowd \subseteq others[recency[1]]
  <2> SUFFICES ASSUME NEW i \in 2..n PROVE recency[i] \in others[recency[1]]
    OBVIOUS
  <2>1. 1 \in 1..n /\ i \in 1..n /\ 1 < i
    BY <1>1
  <2> QED BY <2>1 DEF LruInv, CameSince
<1>4. f \in Bijection(2..n, crowd)
  <2>1. \A i, j \in 2..n : recency[i] = recency[j] => i = j
    BY <1>1 DEF LruInv, Distinct
  <2> HIDE DEF n
  <2>2. f \in [2..n -> crowd]
    OBVIOUS
  <2>3. \A i, j \in 2..n : f[i] = f[j] => i = j
    BY <2>1
  <2>4. \A x \in crowd : \E i \in 2..n : f[i] = x
    OBVIOUS
  <2> HIDE DEF f, crowd
  <2> QED BY <2>2, <2>3, <2>4 DEF Bijection, Injection, Surjection, IsInjective
<1>5. IsFiniteSet(2..n) /\ Cardinality(2..n) = n - 1
  BY <1>1, FS_Interval
<1>6. Cardinality(crowd) = n - 1
  <2> HIDE DEF n, crowd, f
  <2> QED BY <1>4, <1>5, FS_Bijection DEF ExistsBijection
<1> QED BY <1>2, <1>3, <1>6

(* A call drops from the table at most the least recent client. *)
LEMMA DroppedIs ==
  ASSUME LruInv, NEW c \in Callers, Touch(c), NEW d \in Tracked, d \notin Tracked'
  PROVE  /\ recency # <<>> /\ d = recency[1] /\ d # c
         /\ c \notin Tracked /\ Len(recency) >= MaxTracked
<1>1. recency \in Seq(Callers) /\ Len(recency) \in Nat
  BY DEF LruInv
<1>2. PICK i \in 1..Len(recency) : recency[i] = d
  BY <1>1 DEF Tracked
<1>3. config.limiter = "route" /\ recency' = Touched(c)
  BY <1>2 DEF Touch, Tracked
<1> DEFINE s == IF Evicted(c) = {} THEN Without(c) ELSE Tail(recency)
<1>4. recency' = Append(s, c) /\ s \in Seq(Callers)
  <2>1. Evicted(c) = {} => s \in Seq(Callers)
    BY WithoutIsLeft DEF LeftOf
  <2>2. Evicted(c) # {} => s \in Seq(Callers)
    <3> SUFFICES ASSUME Evicted(c) # {} PROVE Tail(recency) \in Seq(Callers)
      OBVIOUS
    <3>1. recency # <<>>
      BY <1>1, <1>2
    <3> QED BY <1>1, <3>1
  <2> QED BY <1>3, <2>1, <2>2 DEF Touched
<1> HIDE DEF s
<1>5. /\ Len(s) \in Nat /\ DOMAIN recency' = 1..(Len(s) + 1) /\ recency'[Len(s) + 1] = c
      /\ \A k \in 1..Len(s) : recency'[k] = s[k]
  BY <1>4
<1>6. d # c /\ \A k \in 1..Len(s) : s[k] # d
  <2>1. \A k \in 1..(Len(s) + 1) : recency'[k] # d
    BY <1>5 DEF Tracked
  <2> QED BY <1>5, <2>1
<1>7. CASE Evicted(c) = {}
  <2>1. \E k \in 1..Len(s) : s[k] = d
    BY <1>7, <1>2, <1>6, WithoutKeeps DEF s
  <2> QED BY <1>6, <2>1
<1>8. CASE Evicted(c) # {}
  <2>1. c \notin Tracked /\ Len(recency) >= MaxTracked /\ recency # <<>>
    BY <1>8, <1>1, <1>2 DEF Evicted
  <2>2. s = Tail(recency)
    BY <1>8 DEF s
  <2>3. Len(s) = Len(recency) - 1 /\ \A k \in 1..Len(s) : s[k] = recency[k + 1]
    BY <1>1, <2>1, <2>2
  <2>4. i = 1
    <3> SUFFICES ASSUME i # 1 PROVE FALSE
      OBVIOUS
    <3>1. i - 1 \in 1..Len(s) /\ (i - 1) + 1 = i
      BY <1>1, <1>2, <2>3
    <3>2. s[i - 1] = recency[i]
      BY <2>3, <3>1
    <3> QED BY <1>2, <1>6, <3>1, <3>2
  <2> QED BY <1>2, <1>6, <2>1, <2>4
<1> QED BY <1>7, <1>8

LEMMA LruInit == Init => LruInv
BY RateAssumption, FS_EmptySet DEF Init, LruInv, Distinct, CameSince

LEMMA LruNext == LruInv /\ [Next]_vars => LruInv'
<1> SUFFICES ASSUME LruInv, [Next]_vars PROVE LruInv'
  OBVIOUS
<1>1. ASSUME NEW c \in Callers, Touch(c) PROVE LruInv'
  BY <1>1, TouchKeepsLru
<1>2. ASSUME UNCHANGED <<config, recency, others>> PROVE LruInv'
  BY <1>2 DEF LruInv, Distinct, CameSince
<1> QED BY <1>1, <1>2
        DEF Next, Acquire, Unreachable, AnswerLost, Undecided, Expire, Tick, SetBack, vars, now

(* The table, the buckets and the histories keep their types; the table     *)
(* never holds more clients than it may track.                              *)
THEOREM RateTypes == Spec => []TypeOK
<1>1. Shape /\ LruInv => TypeOK
  BY DEF Shape, LruInv, TypeOK, Bucket
<1>2. Spec => []Shape
  BY InitShape, ShapeNext, PTL DEF Spec
<1>3. Spec => []LruInv
  BY LruInit, LruNext, PTL DEF Spec
<1> QED BY <1>1, <1>2, <1>3, PTL

(* PerClientLimiter drops the bucket of a client only once as many others   *)
(* as are tracked have called since: nobody gets a full bucket back by      *)
(* calling again, or with fewer addresses than the table tracks.            *)
THEOREM EvictionTakesACrowd == Spec => EvictionCostsACrowd
<1>1. ASSUME LruInv, [Next]_vars, NEW d \in Callers, d \in Tracked, d \notin Tracked'
      PROVE  Cardinality(others'[d]) >= MaxTracked
  <2>1. recency' # recency
    BY <1>1 DEF Tracked
  <2>2. PICK c \in Callers : Touch(c)
    BY <1>1, <2>1
    DEF Next, Acquire, Unreachable, AnswerLost, Undecided, Expire, Tick, SetBack, vars
  <2>3. /\ recency # <<>> /\ d = recency[1] /\ d # c
        /\ c \notin Tracked /\ Len(recency) >= MaxTracked
    BY <1>1, <2>2, DroppedIs
  <2> DEFINE crowd == {recency[i] : i \in 2..Len(recency)}
  <2>4. /\ others'[d] = others[d] \cup {c} /\ IsFiniteSet(others[d])
        /\ IsFiniteSet(others'[d])
    BY <1>1, <2>2, <2>3, FS_AddElement DEF Touch, LruInv
  <2>5. Cardinality(crowd) = Len(recency) - 1 /\ crowd \subseteq others[d]
    BY <1>1, <2>3, CrowdBehind
  <2>6. c \notin crowd
    BY <1>1, <2>3 DEF Tracked, LruInv
  <2> HIDE DEF crowd
  <2>7. IsFiniteSet(crowd) /\ Cardinality(crowd \cup {c}) = Cardinality(crowd) + 1
    BY <2>4, <2>5, <2>6, FS_Subset, FS_AddElement
  <2>8. crowd \cup {c} \subseteq others'[d]
    BY <2>4, <2>5
  <2>9. Cardinality(crowd \cup {c}) <= Cardinality(others'[d])
    BY <2>4, <2>8, FS_Subset
  <2>10. Cardinality(others'[d]) \in Nat /\ Len(recency) \in Nat
    BY <1>1, <2>4, FS_CardinalityType DEF LruInv
  <2> QED BY <2>3, <2>5, <2>7, <2>9, <2>10, RateAssumption
<1>2. LruInv /\ [Next]_vars =>
        [\A c \in Callers :
           c \in Tracked /\ c \notin Tracked' => Cardinality(others'[c]) >= MaxTracked]_vars
  BY <1>1
<1>3. Spec => [][\A c \in Callers :
           c \in Tracked /\ c \notin Tracked' => Cardinality(others'[c]) >= MaxTracked]_vars
  BY <1>2, LruInit, LruNext, PTL DEF Spec
<1> QED BY <1>3 DEF EvictionCostsACrowd
=============================================================================
