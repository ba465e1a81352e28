-------------------------- MODULE TraceStoreProofs --------------------------
(***************************************************************************)
(* What TraceStore guarantees for every number of testers, trips, chunks,  *)
(* bodies and workers and every retention period.                          *)
(***************************************************************************)
EXTENDS TraceStore, TLAPS

(* A row exists only for a trip somebody has claimed: _claim_trip precedes  *)
(* both INSERTs, in the same transaction.                                   *)
Owned ==
  \A t \in Trips :
    /\ trip_ends[t] # NULL => trips[t] # NULL
    /\ \A s \in Seqs : trace_chunks[<<t, s>>] # NULL => trips[t] # NULL

(* A 200 or a 201 on its way out is already true.                           *)
AnswerIsHeld ==
  \A w \in Workers :
    /\ req[w] # NULL
    /\ req[w].status \in {200, 201}
    => IsHeld(req[w].upload)

(* The purge runs on a clock that is never ahead. *)
PurgeLags == purge # NULL => purge <= clock

IInv == TypeOK /\ Owned /\ AnswerIsHeld /\ AckedIsHeld /\ PurgeLags /\ NothingPurgedEarly

-----------------------------------------------------------------------------
(* What the answer of a handler leaves of the requests. *)
LEMMA AnsweredReq ==
  ASSUME TypeOK, NEW w \in Workers, req[w] # NULL,
         NEW status \in {200, 201, 401, 404, 409, 422}, Answered(w, status)
  PROVE  /\ req' \in [Workers -> Request \cup {NULL}]
         /\ \A v \in Workers : v # w => req'[v] = req[v]
         /\ req'[w] # NULL
         /\ req'[w].upload = req[w].upload
         /\ req'[w].status = status
<1> DEFINE r == [upload |-> req[w].upload, pc |-> "answer", status |-> status]
<1>1. req' = [req EXCEPT ![w] = r]
  BY DEF Answered
<1>2. r \in Request
  BY DEF TypeOK, Request
<1>3. r # NULL
  BY <1>2, StoreAssumption
<1> HIDE DEF r
<1>4. req'[w] = r /\ \A v \in Workers : v # w => req'[v] = req[v]
  BY <1>1 DEF TypeOK
<1>5. req' \in [Workers -> Request \cup {NULL}]
  BY <1>1, <1>2 DEF TypeOK
<1> QED BY <1>3, <1>4, <1>5 DEF r

(* Type correctness, action by action. *)
LEMMA TypeInit == Init => TypeOK
BY StoreAssumption DEF Init, TypeOK

LEMMA TypeNext == TypeOK /\ [Next]_vars => TypeOK'
<1> SUFFICES ASSUME TypeOK, [Next]_vars PROVE TypeOK'
  OBVIOUS
<1> USE StoreAssumption
<1>1. CASE UNCHANGED vars
  BY <1>1 DEF TypeOK, vars, store
<1>2. ASSUME NEW k \in Tokens, Issue(k) PROVE TypeOK'
  BY <1>2 DEF TypeOK, Issue, TokenRow
<1>3. ASSUME NEW k \in Tokens, Revoke(k) PROVE TypeOK'
  BY <1>3 DEF TypeOK, Revoke, Active, TokenRow
<1>4. ASSUME NEW w \in Workers, NEW u \in Uploads, Receive(w, u) PROVE TypeOK'
  BY <1>4 DEF TypeOK, Receive, Request, store
<1>5. ASSUME NEW w \in Workers, Authenticate(w) PROVE TypeOK'
  <2>1. req' \in [Workers -> Request \cup {NULL}]
    <3>1. CASE Answered(w, 401) \/ Answered(w, 422)
      BY <1>5, <3>1, AnsweredReq DEF Authenticate
    <3>2. CASE req' = [req EXCEPT ![w].pc = "write"]
      BY <1>5, <3>2 DEF TypeOK, Authenticate, Request
    <3> QED BY <1>5, <3>1, <3>2 DEF Authenticate
  <2> QED BY <1>5, <2>1 DEF TypeOK, Authenticate, store
<1>6. ASSUME NEW w \in Workers, PutChunk(w) PROVE TypeOK'
  <2> DEFINE u == req[w].upload
             c == <<u.trip, u.part>>
             row == [received_at |-> clock, content |-> u.body, body |-> u.body,
                     purged_at |-> NULL]
  <2>1. /\ req[w] # NULL /\ u \in Uploads
        /\ u.token \in Tokens /\ u.trip \in Trips /\ u.body \in Bodies
        /\ c \in Trips \X Seqs
    BY <1>6 DEF TypeOK, PutChunk, Request, Uploads, Parts
  <2>2. req' \in [Workers -> Request \cup {NULL}]
    <3>1. \E s \in {200, 201, 404, 409} : Answered(w, s)
      BY <1>6 DEF PutChunk, Repeat
    <3> QED BY <2>1, <3>1, AnsweredReq
  <2>3. trips' \in [Trips -> Tokens \cup {NULL}]
    BY <1>6, <2>1 DEF TypeOK, PutChunk, Claimed
  <2>4. row \in ChunkRow
    BY <2>1 DEF ChunkRow, TypeOK
  <2>5. trace_chunks' \in [Trips \X Seqs -> ChunkRow \cup {NULL}]
    BY <1>6, <2>1, <2>4 DEF TypeOK, PutChunk
  <2> QED BY <1>6, <2>2, <2>3, <2>5 DEF TypeOK, PutChunk
<1>7. ASSUME NEW w \in Workers, EndTrip(w) PROVE TypeOK'
  <2> DEFINE u == req[w].upload
  <2>1. /\ req[w] # NULL /\ u \in Uploads
        /\ u.token \in Tokens /\ u.trip \in Trips /\ u.body \in Bodies
    BY <1>7 DEF TypeOK, EndTrip, Request, Uploads
  <2>2. req' \in [Workers -> Request \cup {NULL}]
    <3>1. \E s \in {200, 201, 404, 409} : Answered(w, s)
      BY <1>7 DEF EndTrip, Repeat
    <3> QED BY <2>1, <3>1, AnsweredReq
  <2>3. trips' \in [Trips -> Tokens \cup {NULL}]
    BY <1>7, <2>1 DEF TypeOK, EndTrip, Claimed
  <2>4. trip_ends' \in [Trips -> EndRow \cup {NULL}]
    BY <1>7, <2>1 DEF TypeOK, EndTrip, NewEndRow, EndRow
  <2> QED BY <1>7, <2>2, <2>3, <2>4 DEF TypeOK, EndTrip
<1>8. ASSUME NEW w \in Workers, Respond(w) PROVE TypeOK'
  BY <1>8 DEF TypeOK, Respond, Request, store
<1>9. CASE PurgeBegin
  BY <1>9 DEF TypeOK, PurgeBegin, store
<1>10. CASE PurgeWrite
  <2>1. ASSUME NEW c \in Trips \X Seqs
        PROVE  trace_chunks'[c] \in ChunkRow \cup {NULL}
    BY <1>10, <2>1 DEF TypeOK, PurgeWrite, Expired, Cleared, ChunkRow
  <2>2. trace_chunks' \in [Trips \X Seqs -> ChunkRow \cup {NULL}]
    BY <1>10, <2>1 DEF PurgeWrite
  <2> QED BY <1>10, <2>2 DEF TypeOK, PurgeWrite
<1>11. CASE Crash
  BY <1>11 DEF TypeOK, Crash, store
<1>12. CASE Tick
  BY <1>12 DEF TypeOK, Tick, store
<1> QED
  BY <1>1, <1>2, <1>3, <1>4, <1>5, <1>6, <1>7, <1>8, <1>9, <1>10, <1>11, <1>12
     DEF Next, Handle

(* Type correctness of the service's tables, requests and clocks. *)
THEOREM TypeCorrect == Spec => []TypeOK
BY TypeInit, TypeNext, PTL DEF Spec
-----------------------------------------------------------------------------
(* The tables only grow, but for a purge clearing bodies. *)
LEMMA StepAppends == TypeOK /\ [Next]_vars => AppendOnlyStep
<1> SUFFICES ASSUME TypeOK, [Next]_vars PROVE AppendOnlyStep
  OBVIOUS
<1> USE StoreAssumption
<1>1. CASE UNCHANGED store
  BY <1>1 DEF AppendOnlyStep, store
<1>2. ASSUME NEW k \in Tokens, Issue(k) \/ Revoke(k) PROVE AppendOnlyStep
  BY <1>2 DEF AppendOnlyStep, Issue, Revoke
<1>3. ASSUME NEW w \in Workers, PutChunk(w) PROVE AppendOnlyStep
  <2> DEFINE u == req[w].upload
             c == <<u.trip, u.part>>
  <2>1. u.trip \in Trips /\ u.token \in Tokens /\ c \in Trips \X Seqs
    BY <1>3 DEF TypeOK, PutChunk, Request, Uploads, Parts
  <2>2. \A t \in Trips : trips[t] # NULL => trips'[t] = trips[t]
    BY <1>3, <2>1 DEF TypeOK, PutChunk, Claimed, Yours
  <2>3. \A d \in Trips \X Seqs :
          trace_chunks[d] # NULL => trace_chunks'[d] = trace_chunks[d]
    BY <1>3, <2>1 DEF TypeOK, PutChunk, IsNew
  <2>4. trip_ends' = trip_ends
    BY <1>3 DEF PutChunk
  <2> QED BY <2>2, <2>3, <2>4 DEF AppendOnlyStep
<1>4. ASSUME NEW w \in Workers, EndTrip(w) PROVE AppendOnlyStep
  <2> DEFINE u == req[w].upload
  <2>1. u.trip \in Trips /\ u.token \in Tokens
    BY <1>4 DEF TypeOK, EndTrip, Request, Uploads
  <2>2. \A t \in Trips : trips[t] # NULL => trips'[t] = trips[t]
    BY <1>4, <2>1 DEF TypeOK, EndTrip, Claimed, Yours
  <2>3. \A t \in Trips : trip_ends[t] # NULL => trip_ends'[t] = trip_ends[t]
    BY <1>4, <2>1 DEF TypeOK, EndTrip
  <2>4. trace_chunks' = trace_chunks
    BY <1>4 DEF EndTrip
  <2> QED BY <2>2, <2>3, <2>4 DEF AppendOnlyStep
<1>5. CASE PurgeWrite
  <2>1. ASSUME NEW c \in Trips \X Seqs, trace_chunks[c] # NULL
        PROVE  /\ trace_chunks'[c] # NULL
               /\ trace_chunks'[c].content = trace_chunks[c].content
               /\ trace_chunks'[c].received_at = trace_chunks[c].received_at
               /\ trace_chunks'[c].body \in {NULL, trace_chunks[c].body}
    <3> DEFINE row == trace_chunks[c]
    <3>1. row \in ChunkRow /\ purge \in Nat
      BY <1>5, <2>1 DEF TypeOK, PurgeWrite
    <3>2. trace_chunks'[c] = IF Expired(row, purge) THEN Cleared(row, purge) ELSE row
      BY <1>5, <2>1 DEF PurgeWrite
    <3>3. /\ Cleared(row, purge) \in ChunkRow
          /\ Cleared(row, purge).content = row.content
          /\ Cleared(row, purge).received_at = row.received_at
          /\ Cleared(row, purge).body = NULL
      BY <3>1 DEF Cleared, ChunkRow
    <3> QED BY <2>1, <3>1, <3>2, <3>3
  <2> QED BY <1>5, <2>1 DEF AppendOnlyStep, PurgeWrite
<1>6. ASSUME NEW w \in Workers,
             Authenticate(w) \/ Respond(w) \/ (\E u \in Uploads : Receive(w, u))
      PROVE  UNCHANGED store
  BY <1>6 DEF Authenticate, Respond, Receive
<1>7. PurgeBegin \/ Crash \/ Tick \/ UNCHANGED vars => UNCHANGED store
  BY DEF PurgeBegin, Crash, Tick, vars
<1> QED
  BY <1>1, <1>2, <1>3, <1>4, <1>5, <1>6, <1>7 DEF Next, Handle

(* Trace data is append-only: store.py's header and its two triggers. *)
THEOREM StoreIsAppendOnly == Spec => AppendOnly
<1>1. TypeOK /\ [Next]_vars => [AppendOnlyStep]_vars
  BY StepAppends
<1> QED BY <1>1, TypeCorrect, PTL DEF Spec, AppendOnly

(* So what is held stays held. *)
LEMMA HeldStaysHeld ==
  ASSUME TypeOK, AppendOnlyStep, NEW u \in Uploads, IsHeld(u)
  PROVE  IsHeld(u)'
<1>1. u.trip \in Trips /\ u.token \in Tokens /\ u.body \in Bodies /\ u.part \in Parts
  BY DEF Uploads
<1>2. trips'[u.trip] = u.token
  BY <1>1, StoreAssumption DEF IsHeld, AppendOnlyStep
<1>3. CASE u.part = End
  <2>1. trip_ends[u.trip] # NULL /\ trip_ends[u.trip].content = u.body
    BY <1>1, <1>3, StoreAssumption DEF IsHeld, HeldContent, RowOf
  <2>2. trip_ends'[u.trip] = trip_ends[u.trip]
    BY <1>1, <2>1 DEF AppendOnlyStep
  <2> QED BY <1>2, <1>3, <2>1, <2>2 DEF IsHeld, HeldContent, RowOf
<1>4. CASE u.part # End
  <2> DEFINE c == <<u.trip, u.part>>
  <2>1. c \in Trips \X Seqs
    BY <1>1, <1>4 DEF Parts
  <2>2. trace_chunks[c] # NULL /\ trace_chunks[c].content = u.body
    BY <1>1, <1>4, StoreAssumption DEF IsHeld, HeldContent, RowOf
  <2>3. trace_chunks'[c] # NULL /\ trace_chunks'[c].content = u.body
    BY <2>1, <2>2 DEF AppendOnlyStep
  <2> QED BY <1>2, <1>4, <2>3 DEF IsHeld, HeldContent, RowOf
<1> QED BY <1>3, <1>4
-----------------------------------------------------------------------------
(* What one step does to a request and to a row. *)

(* A row that holds something holds it in either table. *)
LEMMA RowHolds ==
  ASSUME TypeOK, NEW t \in Trips, NEW p \in Parts, RowOf(t, p) # NULL
  PROVE  HeldContent(t, p) = RowOf(t, p).content /\ HeldContent(t, p) \in Bodies
<1>1. CASE p = End
  BY <1>1 DEF TypeOK, RowOf, HeldContent, EndRow
<1>2. CASE p # End
  <2>1. <<t, p>> \in Trips \X Seqs
    BY <1>2 DEF Parts
  <2> QED BY <1>2, <2>1 DEF TypeOK, RowOf, HeldContent, ChunkRow
<1> QED BY <1>1, <1>2

(* What a row held, it holds. *)
LEMMA ContentStays ==
  ASSUME TypeOK, AppendOnlyStep, NEW t \in Trips, NEW p \in Parts, HeldContent(t, p) # NULL
  PROVE  HeldContent(t, p)' = HeldContent(t, p)
<1>1. RowOf(t, p) # NULL
  BY DEF HeldContent
<1>2. CASE p = End
  BY <1>1, <1>2 DEF AppendOnlyStep, RowOf, HeldContent
<1>3. CASE p # End
  <2>1. <<t, p>> \in Trips \X Seqs
    BY <1>3 DEF Parts
  <2> QED BY <1>1, <1>3, <2>1 DEF AppendOnlyStep, RowOf, HeldContent
<1> QED BY <1>2, <1>3

(* The status a step may give to an upload u that had the status s0. *)
MayAnswer(u, s0, s) ==
  \/ s \in {s0, 200, 201, 401}
  \/ s = 422 /\ ~Accepts(u.body)
  \/ s = 404 /\ ~Yours(u)
  \/ s = 409 /\ HeldContent(u.trip, u.part) \notin {NULL, u.body}

(* A request in progress has just arrived, or it was in progress and has    *)
(* the answer its upload calls for.                                         *)
LEMMA RequestIs ==
  ASSUME TypeOK, [Next]_vars, NEW w \in Workers, req'[w] # NULL
  PROVE  \/ \E u \in Uploads : Receive(w, u) /\ req'[w].upload = u /\ req'[w].status = NULL
         \/ /\ req[w] # NULL /\ req'[w].upload = req[w].upload
            /\ MayAnswer(req[w].upload, req[w].status, req'[w].status)
<1> DEFINE Fresh == \E u \in Uploads :
                      Receive(w, u) /\ req'[w].upload = u /\ req'[w].status = NULL
           Goes == /\ req[w] # NULL /\ req'[w].upload = req[w].upload
                   /\ MayAnswer(req[w].upload, req[w].status, req'[w].status)
<1>1. ASSUME req'[w] = req[w] PROVE Goes
  BY <1>1 DEF MayAnswer
<1>2. ASSUME NEW v \in Workers, NEW s \in {200, 201, 401, 404, 409, 422}, req[v] # NULL,
             Answered(v, s), v = w => MayAnswer(req[v].upload, req[v].status, s)
      PROVE  Goes
  <2>1. /\ \A x \in Workers : x # v => req'[x] = req[x]
        /\ req'[v].upload = req[v].upload /\ req'[v].status = s
    BY <1>2, AnsweredReq
  <2> QED BY <1>1, <1>2, <2>1
<1>3. ASSUME NEW v \in Workers, NEW u \in Uploads, Receive(v, u) PROVE Fresh \/ Goes
  <2>1. /\ v # w => req'[w] = req[w]
        /\ v = w => req'[w] = [upload |-> u, pc |-> "auth", status |-> NULL]
    BY <1>3 DEF Receive, TypeOK
  <2> QED BY <1>1, <1>3, <2>1
<1>4. ASSUME NEW v \in Workers, Authenticate(v) PROVE Goes
  <2>1. CASE Answered(v, 401)
    <3>1. MayAnswer(req[v].upload, req[v].status, 401)
      BY DEF MayAnswer
    <3> QED BY <1>2, <1>4, <2>1, <3>1 DEF Authenticate
  <2>2. CASE ~Accepts(req[v].upload.body) /\ Answered(v, 422)
    <3>1. MayAnswer(req[v].upload, req[v].status, 422)
      BY <2>2 DEF MayAnswer
    <3> QED BY <1>2, <1>4, <2>2, <3>1 DEF Authenticate
  <2>3. CASE req' = [req EXCEPT ![v].pc = "write"]
    <3>1. req'[w] = IF v = w THEN [req[w] EXCEPT !.pc = "write"] ELSE req[w]
      BY <2>3 DEF TypeOK
    <3>2. CASE v = w
      <4>1. req[w] \in Request /\ req[w] # NULL
        BY <1>4, <3>2 DEF TypeOK, Authenticate
      <4>2. req'[w].upload = req[w].upload /\ req'[w].status = req[w].status
        BY <3>1, <3>2, <4>1 DEF Request
      <4> QED BY <4>1, <4>2 DEF MayAnswer
    <3> QED BY <1>1, <3>1, <3>2
  <2> QED BY <1>4, <2>1, <2>2, <2>3 DEF Authenticate
<1>5. ASSUME NEW v \in Workers, PutChunk(v) \/ EndTrip(v) PROVE Goes
  <2> DEFINE u == req[v].upload
             row == RowOf(u.trip, u.part)
  <2>1. req[v] # NULL /\ u.trip \in Trips /\ u.part \in Parts
    BY <1>5 DEF TypeOK, PutChunk, EndTrip, Request, Uploads
  <2>2. \/ ~Yours(u) /\ Answered(v, 404)
        \/ Answered(v, 201)
        \/ row # NULL /\ Answered(v, Repeat(row, u))
    BY <1>5 DEF PutChunk, EndTrip, IsNew, RowOf
  <2>3. CASE ~Yours(u) /\ Answered(v, 404)
    <3>1. MayAnswer(u, req[v].status, 404)
      BY <2>3 DEF MayAnswer
    <3> QED BY <1>2, <2>1, <2>3, <3>1
  <2>4. CASE Answered(v, 201)
    <3>1. MayAnswer(u, req[v].status, 201)
      BY DEF MayAnswer
    <3> QED BY <1>2, <2>1, <2>4, <3>1
  <2>5. CASE row # NULL /\ Answered(v, Repeat(row, u))
    <3>1. HeldContent(u.trip, u.part) = row.content /\ HeldContent(u.trip, u.part) # NULL
      <4> HIDE DEF u
      <4> QED BY <2>1, <2>5, RowHolds, StoreAssumption
    <3>2. MayAnswer(u, req[v].status, Repeat(row, u))
      BY <3>1 DEF MayAnswer, Repeat
    <3>3. Repeat(row, u) \in {200, 201, 401, 404, 409, 422}
      BY DEF Repeat
    <3> HIDE DEF row, u
    <3> QED BY <1>2, <2>1, <2>5, <3>2, <3>3 DEF u
  <2> QED BY <2>2, <2>3, <2>4, <2>5
<1>6. ASSUME NEW v \in Workers, Respond(v) PROVE Goes
  <2>1. v # w => req'[w] = req[w]
    BY <1>6 DEF Respond, TypeOK
  <2>2. v = w => req'[w] = NULL
    BY <1>6 DEF Respond, TypeOK
  <2> QED BY <1>1, <2>1, <2>2
<1>7. ~Crash
  BY DEF Crash
<1>8. ASSUME (\E k \in Tokens : Issue(k) \/ Revoke(k)) \/ PurgeBegin \/ PurgeWrite \/ Tick
             \/ UNCHANGED vars
      PROVE  Goes
  <2>1. req' = req
    BY <1>8 DEF Issue, Revoke, PurgeBegin, PurgeWrite, Tick, vars
  <2> QED BY <1>1, <2>1
<1> HIDE DEF Fresh, Goes
<1>9. Fresh \/ Goes
  BY <1>3, <1>4, <1>5, <1>6, <1>7, <1>8 DEF Next, Handle
<1> QED BY <1>9 DEF Fresh, Goes

(* An answer on its way out has a status. *)
Told == \A w \in Workers : req[w] # NULL /\ req[w].pc = "answer" => req[w].status # NULL

LEMMA ToldNext == TypeOK /\ Told /\ [Next]_vars => Told'
<1> SUFFICES ASSUME TypeOK, Told, [Next]_vars, NEW w \in Workers, req'[w] # NULL,
                    req'[w].pc = "answer"
             PROVE  req'[w].status # NULL
  BY DEF Told
<1> USE StoreAssumption
<1>1. CASE req'[w] = req[w]
  BY <1>1 DEF Told
<1>2. ASSUME NEW v \in Workers, NEW s \in {200, 201, 401, 404, 409, 422}, req[v] # NULL,
             Answered(v, s)
      PROVE  req'[w].status # NULL
  <2>1. (\A x \in Workers : x # v => req'[x] = req[x]) /\ req'[v].status = s
    BY <1>2, AnsweredReq
  <2> QED BY <1>1, <2>1
<1>3. ASSUME NEW v \in Workers, NEW u \in Uploads, Receive(v, u) PROVE req'[w].status # NULL
  <2>1. req'[w] = IF v = w THEN [upload |-> u, pc |-> "auth", status |-> NULL] ELSE req[w]
    BY <1>3 DEF Receive, TypeOK
  <2> QED BY <1>1, <2>1
<1>4. ASSUME NEW v \in Workers, Authenticate(v) PROVE req'[w].status # NULL
  <2>1. CASE req' = [req EXCEPT ![v].pc = "write"]
    <3>1. req'[w] = IF v = w THEN [req[w] EXCEPT !.pc = "write"] ELSE req[w]
      BY <2>1 DEF TypeOK
    <3>2. v = w => req[w] \in Request
      BY <1>4 DEF TypeOK, Authenticate
    <3>3. v # w
      BY <3>1, <3>2 DEF Request
    <3> QED BY <1>1, <3>1, <3>3
  <2>2. CASE Answered(v, 401) \/ Answered(v, 422)
    BY <1>2, <1>4, <2>2 DEF Authenticate
  <2> QED BY <1>4, <2>1, <2>2 DEF Authenticate
<1>5. ASSUME NEW v \in Workers, PutChunk(v) \/ EndTrip(v) PROVE req'[w].status # NULL
  <2>1. req[v] # NULL /\ \E s \in {200, 201, 404, 409} : Answered(v, s)
    BY <1>5 DEF PutChunk, EndTrip, Repeat
  <2> QED BY <1>2, <2>1
<1>6. ASSUME NEW v \in Workers, Respond(v) PROVE req'[w].status # NULL
  <2>1. req'[w] = req[w] \/ req'[w] = NULL
    BY <1>6 DEF Respond, TypeOK
  <2> QED BY <1>1, <2>1
<1>7. ~Crash
  BY DEF Crash
<1>8. ASSUME (\E k \in Tokens : Issue(k) \/ Revoke(k)) \/ PurgeBegin \/ PurgeWrite \/ Tick
             \/ UNCHANGED vars
      PROVE  req'[w].status # NULL
  <2>1. req' = req
    BY <1>8 DEF Issue, Revoke, PurgeBegin, PurgeWrite, Tick, vars
  <2> QED BY <1>1, <2>1
<1> QED BY <1>3, <1>4, <1>5, <1>6, <1>7, <1>8 DEF Next, Handle

(* What a row holds it held before, or a request in progress has brought.   *)
LEMMA ContentIs ==
  ASSUME TypeOK, [Next]_vars, NEW t \in Trips, NEW p \in Parts
  PROVE  \/ HeldContent(t, p)' = HeldContent(t, p)
         \/ /\ HeldContent(t, p) = NULL
            /\ \E w \in Workers : /\ req[w] # NULL
                                  /\ req[w].upload.trip = t /\ req[w].upload.part = p
                                  /\ HeldContent(t, p)' = req[w].upload.body
<1>1. CASE HeldContent(t, p) # NULL
  BY <1>1, StepAppends, ContentStays
<1>2. CASE UNCHANGED <<trace_chunks, trip_ends>>
  BY <1>2 DEF HeldContent, RowOf
<1>3. ASSUME HeldContent(t, p) = NULL PROVE RowOf(t, p) = NULL
  BY <1>3, RowHolds, StoreAssumption
<1>4. p # End => <<t, p>> \in Trips \X Seqs
  BY DEF Parts
<1>5. ASSUME HeldContent(t, p) = NULL, NEW w \in Workers, PutChunk(w)
      PROVE  \/ HeldContent(t, p)' = HeldContent(t, p)
             \/ /\ req[w] # NULL /\ req[w].upload.trip = t /\ req[w].upload.part = p
                /\ HeldContent(t, p)' = req[w].upload.body
  <2> DEFINE u == req[w].upload
             c == <<u.trip, u.part>>
             row == [received_at |-> clock, content |-> u.body, body |-> u.body,
                     purged_at |-> NULL]
  <2>1. req[w] # NULL /\ u \in Uploads /\ u.part # End /\ trip_ends' = trip_ends
    BY <1>5 DEF TypeOK, PutChunk, Request
  <2>2. c \in Trips \X Seqs /\ u.body \in Bodies
    BY <2>1 DEF Uploads, Parts
  <2>3. trace_chunks' = trace_chunks \/ trace_chunks' = [trace_chunks EXCEPT ![c] = row]
    BY <1>5 DEF PutChunk
  <2>4. CASE trace_chunks' = trace_chunks
    BY <2>1, <2>4 DEF HeldContent, RowOf
  <2>5. CASE trace_chunks' = [trace_chunks EXCEPT ![c] = row]
    <3>1. CASE p = End \/ <<t, p>> # c
      <4>1. RowOf(t, p)' = RowOf(t, p)
        BY <1>4, <2>1, <2>5, <3>1 DEF RowOf, TypeOK
      <4> QED BY <4>1 DEF HeldContent
    <3>2. CASE p # End /\ <<t, p>> = c
      <4>1. t = u.trip /\ p = u.part
        BY <3>2
      <4>2. row \in ChunkRow
        BY <2>2 DEF ChunkRow, TypeOK
      <4>3. row # NULL /\ row.content = u.body
        BY <4>2, StoreAssumption
      <4>4. RowOf(t, p)' = row
        BY <2>2, <2>5, <3>2 DEF RowOf, TypeOK
      <4>5. HeldContent(t, p)' = u.body
        <5> HIDE DEF row, u
        <5> QED BY <4>3, <4>4 DEF HeldContent
      <4> QED BY <2>1, <4>1, <4>5
    <3> QED BY <3>1, <3>2
  <2> QED BY <2>3, <2>4, <2>5
<1>6. ASSUME HeldContent(t, p) = NULL, NEW w \in Workers, EndTrip(w)
      PROVE  \/ HeldContent(t, p)' = HeldContent(t, p)
             \/ /\ req[w] # NULL /\ req[w].upload.trip = t /\ req[w].upload.part = p
                /\ HeldContent(t, p)' = req[w].upload.body
  <2> DEFINE u == req[w].upload
  <2>1. /\ req[w] # NULL /\ u \in Uploads /\ u.part = End /\ trace_chunks' = trace_chunks
        /\ trip_ends' = trip_ends \/ trip_ends' = [trip_ends EXCEPT ![u.trip] = NewEndRow(u)]
    BY <1>6 DEF TypeOK, EndTrip, Request
  <2>2. CASE trip_ends' = trip_ends
    BY <2>1, <2>2 DEF HeldContent, RowOf
  <2>3. CASE trip_ends' = [trip_ends EXCEPT ![u.trip] = NewEndRow(u)]
    <3>1. CASE p # End \/ t # u.trip
      <4>1. RowOf(t, p)' = RowOf(t, p)
        BY <2>1, <2>3, <3>1 DEF RowOf, TypeOK
      <4> QED BY <4>1 DEF HeldContent
    <3>2. CASE p = End /\ t = u.trip
      <4>1. NewEndRow(u) \in EndRow
        BY <2>1 DEF NewEndRow, EndRow, Uploads, TypeOK
      <4>2. NewEndRow(u) # NULL /\ NewEndRow(u).content = u.body
        BY <4>1, StoreAssumption DEF NewEndRow
      <4>3. RowOf(t, p)' = NewEndRow(u)
        BY <2>3, <3>2 DEF RowOf, TypeOK
      <4>4. HeldContent(t, p)' = u.body
        BY <4>2, <4>3 DEF HeldContent
      <4> QED BY <2>1, <3>2, <4>4
    <3> QED BY <3>1, <3>2
  <2> QED BY <2>1, <2>2, <2>3
<1>7. ASSUME HeldContent(t, p) = NULL, PurgeWrite
      PROVE  HeldContent(t, p)' = HeldContent(t, p)
  <2>1. RowOf(t, p) = NULL
    BY <1>3, <1>7
  <2>2. RowOf(t, p)' = NULL
    BY <1>4, <1>7, <2>1 DEF PurgeWrite, RowOf, Expired
  <2> QED BY <2>1, <2>2 DEF HeldContent
<1>8. \/ UNCHANGED <<trace_chunks, trip_ends>> \/ PurgeWrite
      \/ \E w \in Workers : PutChunk(w) \/ EndTrip(w)
  BY DEF Next, Handle, vars, store, Issue, Revoke, Receive, Authenticate, Respond,
         PurgeBegin, Crash, Tick
<1> QED BY <1>1, <1>2, <1>5, <1>6, <1>7, <1>8
-----------------------------------------------------------------------------
(* The inductive invariant, conjunct by conjunct. *)
LEMMA InvInit == Init => IInv
<1> SUFFICES ASSUME Init PROVE IInv
  OBVIOUS
<1>1. TypeOK
  BY TypeInit
<1>2. Owned /\ AnswerIsHeld /\ AckedIsHeld /\ PurgeLags /\ NothingPurgedEarly
  BY DEF Init, Owned, AnswerIsHeld, AckedIsHeld, PurgeLags, NothingPurgedEarly
<1> QED BY <1>1, <1>2 DEF IInv

LEMMA OwnedNext == TypeOK /\ Owned /\ [Next]_vars => Owned'
<1> SUFFICES ASSUME TypeOK, Owned, [Next]_vars PROVE Owned'
  OBVIOUS
<1> USE StoreAssumption
<1>1. AppendOnlyStep
  BY StepAppends
<1>2. ASSUME trace_chunks' = trace_chunks, trip_ends' = trip_ends PROVE Owned'
  BY <1>1, <1>2 DEF Owned, AppendOnlyStep
<1>3. ASSUME NEW w \in Workers, PutChunk(w) PROVE Owned'
  <2> DEFINE u == req[w].upload
             c == <<u.trip, u.part>>
  <2>1. u.trip \in Trips /\ u.token \in Tokens /\ u.part \in Seqs
    BY <1>3 DEF TypeOK, PutChunk, Request, Uploads, Parts
  <2>2. CASE ~Yours(u)
    BY <1>2, <1>3, <2>2 DEF PutChunk
  <2>3. CASE Yours(u)
    <3>1. trips'[u.trip] # NULL
      BY <1>3, <2>1, <2>3 DEF PutChunk, Claimed, TypeOK
    <3>2. \A t \in Trips, s \in Seqs :
            t # u.trip => trace_chunks'[<<t, s>>] = trace_chunks[<<t, s>>]
      BY <1>3, <2>1 DEF PutChunk, TypeOK
    <3>3. trip_ends' = trip_ends
      BY <1>3 DEF PutChunk
    <3> QED BY <1>1, <3>1, <3>2, <3>3 DEF Owned, AppendOnlyStep
  <2> QED BY <2>2, <2>3
<1>4. ASSUME NEW w \in Workers, EndTrip(w) PROVE Owned'
  <2> DEFINE u == req[w].upload
  <2>1. u.trip \in Trips /\ u.token \in Tokens
    BY <1>4 DEF TypeOK, EndTrip, Request, Uploads
  <2>2. trace_chunks' = trace_chunks
    BY <1>4 DEF EndTrip
  <2>3. CASE ~Yours(u)
    BY <1>2, <1>4, <2>2, <2>3 DEF EndTrip
  <2>4. CASE Yours(u)
    <3>1. trips'[u.trip] # NULL
      BY <1>4, <2>1, <2>4 DEF EndTrip, Claimed, TypeOK
    <3>2. \A t \in Trips : t # u.trip => trip_ends'[t] = trip_ends[t]
      BY <1>4, <2>1 DEF EndTrip, TypeOK
    <3> QED BY <1>1, <2>2, <3>1, <3>2 DEF Owned, AppendOnlyStep
  <2> QED BY <2>3, <2>4
<1>5. CASE PurgeWrite
  <2>1. ASSUME NEW c \in Trips \X Seqs, trace_chunks[c] = NULL
        PROVE  trace_chunks'[c] = NULL
    BY <1>5, <2>1 DEF PurgeWrite, Expired
  <2>2. trips' = trips /\ trip_ends' = trip_ends
    BY <1>5 DEF PurgeWrite
  <2> QED BY <2>1, <2>2 DEF Owned
<1>6. ASSUME NEW w \in Workers,
             Authenticate(w) \/ Respond(w) \/ (\E u \in Uploads : Receive(w, u))
      PROVE  Owned'
  BY <1>2, <1>6 DEF Authenticate, Respond, Receive, store
<1>7. ASSUME NEW k \in Tokens, Issue(k) \/ Revoke(k) PROVE Owned'
  BY <1>2, <1>7 DEF Issue, Revoke
<1>8. PurgeBegin \/ Crash \/ Tick \/ UNCHANGED vars => Owned'
  BY <1>2 DEF PurgeBegin, Crash, Tick, vars, store
<1> QED
  BY <1>3, <1>4, <1>5, <1>6, <1>7, <1>8 DEF Next, Handle

(* A 200 or a 201 is decided in the transaction that makes it true. *)
LEMMA AnswerNext == TypeOK /\ AnswerIsHeld /\ [Next]_vars => AnswerIsHeld'
<1> SUFFICES ASSUME TypeOK, AnswerIsHeld, [Next]_vars PROVE AnswerIsHeld'
  OBVIOUS
<1> USE StoreAssumption
<1>1. AppendOnlyStep
  BY StepAppends
<1>2. ASSUME NEW w \in Workers, req'[w] = req[w], req[w] # NULL, req[w].status \in {200, 201}
      PROVE  IsHeld(req[w].upload)'
  <2>1. req[w].upload \in Uploads /\ IsHeld(req[w].upload)
    BY <1>2 DEF TypeOK, Request, AnswerIsHeld
  <2>2. ASSUME NEW u \in Uploads, IsHeld(u) PROVE IsHeld(u)'
    BY <1>1, <2>2, HeldStaysHeld
  <2>3. PICK u \in Uploads : u = req[w].upload
    BY <2>1
  <2>4. IsHeld(u)'
    BY <2>1, <2>2, <2>3
  <2>5. u = req'[w].upload
    BY <1>2, <2>3
  <2> QED BY <2>3, <2>4, <2>5
<1>3. ASSUME NEW w \in Workers, NEW s \in {401, 404, 409, 422}, req[w] # NULL, Answered(w, s)
      PROVE  AnswerIsHeld'
  <2>1. req'[w].status \notin {200, 201}
    BY <1>3, AnsweredReq
  <2>2. \A v \in Workers : v # w => req'[v] = req[v]
    BY <1>3, AnsweredReq
  <2> QED BY <1>2, <2>1, <2>2 DEF AnswerIsHeld
<1>4. ASSUME NEW w \in Workers, NEW s \in {200, 201}, req[w] # NULL, Answered(w, s),
             NEW u \in Uploads, u = req[w].upload, IsHeld(u)'
      PROVE  AnswerIsHeld'
  <2>1. req'[w].upload = u
    BY <1>4, AnsweredReq
  <2>2. \A v \in Workers : v # w => req'[v] = req[v]
    BY <1>4, AnsweredReq
  <2>3. IsHeld(req[w].upload)'
    BY <1>4, <2>1
  <2> QED BY <1>2, <2>2, <2>3 DEF AnswerIsHeld
<1>5. ASSUME NEW w \in Workers, PutChunk(w) PROVE AnswerIsHeld'
  <2>1. req[w] # NULL /\ req[w].upload \in Uploads
    BY <1>5 DEF TypeOK, PutChunk, Request
  <2>2. PICK u \in Uploads : u = req[w].upload
    BY <2>1
  <2> DEFINE c == <<u.trip, u.part>>
  <2>3. /\ u.trip \in Trips /\ u.token \in Tokens /\ u.body \in Bodies
        /\ u.part \in Seqs /\ u.part # End
    BY <1>5, <2>2 DEF PutChunk, Uploads, Parts
  <2>4. c \in Trips \X Seqs
    BY <2>3
  <2>5. CASE ~Yours(u)
    BY <1>3, <1>5, <2>1, <2>2, <2>5 DEF PutChunk
  <2>6. CASE Yours(u)
    <3>1. trips'[u.trip] = u.token
      BY <1>5, <2>2, <2>3, <2>6 DEF PutChunk, Claimed, TypeOK
    <3>2. CASE IsNew(c)
      <4>1. trace_chunks'[c] = [received_at |-> clock, content |-> u.body,
                                body |-> u.body, purged_at |-> NULL]
        BY <1>5, <2>2, <2>4, <2>6, <3>2 DEF PutChunk, TypeOK
      <4>2. trace_chunks'[c] \in ChunkRow /\ trace_chunks'[c].content = u.body
        BY <2>3, <4>1 DEF ChunkRow, TypeOK
      <4>3. IsHeld(u)'
        BY <2>3, <3>1, <4>2 DEF IsHeld, HeldContent, RowOf
      <4>4. Answered(w, 201)
        BY <1>5, <2>2, <2>6, <3>2 DEF PutChunk
      <4> QED BY <1>4, <2>1, <2>2, <4>3, <4>4
    <3>3. CASE ~IsNew(c)
      <4>1. trace_chunks' = trace_chunks /\ Answered(w, Repeat(trace_chunks[c], u))
        BY <1>5, <2>2, <2>6, <3>3 DEF PutChunk
      <4>2. CASE trace_chunks[c].content = u.body
        <5>1. IsHeld(u)'
          BY <2>3, <3>1, <3>3, <4>1, <4>2 DEF IsHeld, HeldContent, RowOf, IsNew
        <5>2. Answered(w, 200)
          BY <4>1, <4>2 DEF Repeat
        <5> QED BY <1>4, <2>1, <2>2, <5>1, <5>2
      <4>3. CASE trace_chunks[c].content # u.body
        BY <1>3, <2>1, <4>1, <4>3 DEF Repeat
      <4> QED BY <4>2, <4>3
    <3> QED BY <3>2, <3>3
  <2> QED BY <2>5, <2>6
<1>6. ASSUME NEW w \in Workers, EndTrip(w) PROVE AnswerIsHeld'
  <2>1. req[w] # NULL /\ req[w].upload \in Uploads
    BY <1>6 DEF TypeOK, EndTrip, Request
  <2>2. PICK u \in Uploads : u = req[w].upload
    BY <2>1
  <2>3. /\ u.trip \in Trips /\ u.token \in Tokens /\ u.body \in Bodies /\ u.part = End
    BY <1>6, <2>2 DEF EndTrip, Uploads
  <2>4. CASE ~Yours(u)
    BY <1>3, <1>6, <2>1, <2>2, <2>4 DEF EndTrip
  <2>5. CASE Yours(u)
    <3>1. trips'[u.trip] = u.token
      BY <1>6, <2>2, <2>3, <2>5 DEF EndTrip, Claimed, TypeOK
    <3>2. CASE trip_ends[u.trip] = NULL
      <4>1. trip_ends'[u.trip] = NewEndRow(u)
        BY <1>6, <2>2, <2>3, <2>5, <3>2 DEF EndTrip, TypeOK
      <4>2. NewEndRow(u) \in EndRow /\ NewEndRow(u).content = u.body
        BY <2>3 DEF EndRow, NewEndRow, TypeOK
      <4>3. IsHeld(u)'
        BY <2>3, <3>1, <4>1, <4>2 DEF IsHeld, HeldContent, RowOf
      <4>4. Answered(w, 201)
        BY <1>6, <2>2, <2>5, <3>2 DEF EndTrip
      <4> QED BY <1>4, <2>1, <2>2, <4>3, <4>4
    <3>3. CASE trip_ends[u.trip] # NULL
      <4>1. trip_ends' = trip_ends /\ Answered(w, Repeat(trip_ends[u.trip], u))
        BY <1>6, <2>2, <2>5, <3>3 DEF EndTrip
      <4>2. CASE trip_ends[u.trip].content = u.body
        <5>1. IsHeld(u)'
          BY <2>3, <3>1, <3>3, <4>1, <4>2 DEF IsHeld, HeldContent, RowOf
        <5>2. Answered(w, 200)
          BY <4>1, <4>2 DEF Repeat
        <5> QED BY <1>4, <2>1, <2>2, <5>1, <5>2
      <4>3. CASE trip_ends[u.trip].content # u.body
        BY <1>3, <2>1, <4>1, <4>3 DEF Repeat
      <4> QED BY <4>2, <4>3
    <3> QED BY <3>2, <3>3
  <2> QED BY <2>4, <2>5
<1>7. ASSUME NEW w \in Workers, Authenticate(w) PROVE AnswerIsHeld'
  <2>1. CASE Answered(w, 401) \/ Answered(w, 422)
    BY <1>3, <1>7, <2>1 DEF Authenticate
  <2>2. CASE req' = [req EXCEPT ![w].pc = "write"]
    <3>1. req'[w].status = req[w].status /\ req'[w].upload = req[w].upload /\ req[w] # NULL
      BY <1>7, <2>2 DEF TypeOK, Authenticate, Request
    <3>2. \A v \in Workers : v # w => req'[v] = req[v]
      BY <2>2 DEF TypeOK
    <3>3. UNCHANGED store
      BY <1>7 DEF Authenticate
    <3>4. AnswerIsHeld'
      BY <3>1, <3>2, <3>3 DEF AnswerIsHeld, IsHeld, HeldContent, RowOf, store
    <3> QED BY <3>4
  <2> QED BY <1>7, <2>1, <2>2 DEF Authenticate
<1>8. ASSUME NEW w \in Workers, NEW u \in Uploads, Receive(w, u) PROVE AnswerIsHeld'
  <2>1. req'[w].status = NULL /\ \A v \in Workers : v # w => req'[v] = req[v]
    BY <1>8 DEF TypeOK, Receive
  <2>2. NULL \notin {200, 201}
    OBVIOUS
  <2> QED BY <1>2, <2>1, <2>2 DEF AnswerIsHeld
<1>9. ASSUME NEW w \in Workers, Respond(w) PROVE AnswerIsHeld'
  BY <1>2, <1>9 DEF TypeOK, Respond, AnswerIsHeld
<1>10. CASE Crash
  BY <1>10 DEF Crash, AnswerIsHeld
<1>11. CASE req' = req
  BY <1>2, <1>11 DEF AnswerIsHeld
<1>12. ASSUME NEW k \in Tokens, Issue(k) \/ Revoke(k) PROVE req' = req
  BY <1>12 DEF Issue, Revoke
<1>13. PurgeBegin \/ PurgeWrite \/ Tick \/ UNCHANGED vars => req' = req
  BY DEF PurgeBegin, PurgeWrite, Tick, vars
<1> QED
  BY <1>5, <1>6, <1>7, <1>8, <1>9, <1>10, <1>11, <1>12, <1>13 DEF Next, Handle

LEMMA AckedNext == TypeOK /\ AnswerIsHeld /\ AckedIsHeld /\ [Next]_vars => AckedIsHeld'
<1> SUFFICES ASSUME TypeOK, AnswerIsHeld, AckedIsHeld, [Next]_vars,
                    NEW u \in acked'
             PROVE  IsHeld(u)'
  BY DEF AckedIsHeld
<1>1. AppendOnlyStep
  BY StepAppends
<1>2. CASE u \in acked
  BY <1>1, <1>2, HeldStaysHeld DEF AckedIsHeld, TypeOK
<1>3. ASSUME NEW w \in Workers, Respond(w), u \notin acked PROVE IsHeld(u)'
  <2>1. u = req[w].upload /\ req[w] # NULL /\ req[w].status \in {200, 201}
    BY <1>3 DEF Respond
  <2>2. IsHeld(u) /\ u \in Uploads
    BY <2>1 DEF AnswerIsHeld, TypeOK, Request
  <2> QED BY <1>1, <2>2, HeldStaysHeld
<1>4. CASE acked' = acked
  BY <1>2, <1>4
<1>5. (\A w \in Workers : ~Respond(w)) => acked' = acked
  BY DEF Next, Handle, vars, Issue, Revoke, Receive, Authenticate, PutChunk, EndTrip,
         PurgeBegin, PurgeWrite, Crash, Tick
<1> QED BY <1>2, <1>3, <1>4, <1>5

(* What is cleared was received before the purge's clock less the period. *)
LEMMA PurgeNext ==
  TypeOK /\ PurgeLags /\ NothingPurgedEarly /\ [Next]_vars
    => PurgeLags' /\ NothingPurgedEarly'
<1> SUFFICES ASSUME TypeOK, PurgeLags, NothingPurgedEarly, [Next]_vars
             PROVE  PurgeLags' /\ NothingPurgedEarly'
  OBVIOUS
<1> USE StoreAssumption
<1>1. clock \in Nat /\ clock' \in Nat /\ clock <= clock'
  <2>1. clock' = clock \/ Tick
    BY DEF Next, Handle, vars, Issue, Revoke, Receive, Authenticate, PutChunk, EndTrip,
           Respond, PurgeBegin, PurgeWrite, Crash
  <2> QED BY <2>1 DEF TypeOK, Tick
<1>2. purge' \in {NULL, purge, clock}
  BY DEF Next, Handle, vars, Issue, Revoke, Receive, Authenticate, PutChunk, EndTrip,
         Respond, PurgeBegin, PurgeWrite, Crash, Tick
<1>3. PurgeLags'
  BY <1>1, <1>2 DEF PurgeLags, TypeOK
<1>4. CASE trace_chunks' = trace_chunks
  <2> SUFFICES ASSUME NEW c \in Trips \X Seqs, trace_chunks[c] # NULL,
                      trace_chunks[c].body = NULL
               PROVE  clock' - trace_chunks[c].received_at > Retention
    BY <1>3, <1>4 DEF NothingPurgedEarly
  <2>1. trace_chunks[c].received_at \in Nat
    BY DEF TypeOK, ChunkRow
  <2>2. clock - trace_chunks[c].received_at > Retention
    BY DEF NothingPurgedEarly
  <2> QED BY <1>1, <2>1, <2>2
<1>5. ASSUME NEW w \in Workers, PutChunk(w) PROVE NothingPurgedEarly'
  <2> DEFINE u == req[w].upload
             d == <<u.trip, u.part>>
  <2>1. d \in Trips \X Seqs /\ u.body \in Bodies
    BY <1>5 DEF TypeOK, PutChunk, Request, Uploads, Parts
  <2>2. clock' = clock
    BY <1>5 DEF PutChunk
  <2>3. CASE trace_chunks' # trace_chunks
    <3>1. /\ trace_chunks'[d] = [received_at |-> clock, content |-> u.body,
                                 body |-> u.body, purged_at |-> NULL]
          /\ \A c \in Trips \X Seqs : c # d => trace_chunks'[c] = trace_chunks[c]
      BY <1>5, <2>1, <2>3 DEF PutChunk, TypeOK
    <3>2. trace_chunks'[d].body # NULL
      BY <2>1, <3>1
    <3> QED BY <2>2, <3>1, <3>2 DEF NothingPurgedEarly
  <2> QED BY <1>4, <2>3
<1>6. CASE PurgeWrite
  <2> SUFFICES ASSUME NEW c \in Trips \X Seqs, trace_chunks'[c] # NULL,
                      trace_chunks'[c].body = NULL
               PROVE  clock' - trace_chunks'[c].received_at > Retention
    BY <1>3 DEF NothingPurgedEarly
  <2> DEFINE row == trace_chunks[c]
  <2>1. clock' = clock /\ purge \in Nat /\ purge <= clock /\ Retention \in Nat
    BY <1>6 DEF PurgeWrite, TypeOK, PurgeLags
  <2>2. trace_chunks'[c] = IF Expired(row, purge) THEN Cleared(row, purge) ELSE row
    BY <1>6 DEF PurgeWrite
  <2>3. CASE Expired(row, purge)
    <3>1. row \in ChunkRow /\ row.received_at < purge - Retention
      BY <2>3 DEF Expired, TypeOK
    <3>2. row.received_at \in Nat /\ trace_chunks'[c].received_at = row.received_at
      BY <2>2, <2>3, <3>1 DEF Cleared, ChunkRow
    <3> QED BY <1>1, <2>1, <3>1, <3>2
  <2>4. CASE ~Expired(row, purge)
    BY <2>1, <2>2, <2>4 DEF NothingPurgedEarly
  <2> QED BY <2>3, <2>4
<1>7. (/\ \A w \in Workers : ~PutChunk(w)
       /\ ~PurgeWrite) => trace_chunks' = trace_chunks
  BY DEF Next, Handle, vars, store, Issue, Revoke, Receive, Authenticate, EndTrip,
         Respond, PurgeBegin, Crash, Tick
<1> QED BY <1>3, <1>4, <1>5, <1>6, <1>7

(* The inductive invariant holds throughout. *)
THEOREM Invariance == Spec => []IInv
<1>1. IInv /\ [Next]_vars => IInv'
  BY TypeNext, OwnedNext, AnswerNext, AckedNext, PurgeNext DEF IInv
<1> QED BY InvInit, <1>1, PTL DEF Spec

(* An upload answered with a 200 or a 201 is held from then on, under the   *)
(* token that sent it: app.py's promise that stored means stored.           *)
THEOREM AcknowledgedIsHeld == Spec => []AckedIsHeld
<1>1. IInv => AckedIsHeld
  BY DEF IInv
<1> QED BY Invariance, <1>1, PTL

(* The retention purge clears nothing before its whole period is over.      *)
THEOREM RetentionIsKept == Spec => []NothingPurgedEarly
<1>1. IInv => NothingPurgedEarly
  BY DEF IInv
<1> QED BY Invariance, <1>1, PTL
-----------------------------------------------------------------------------
(* The service implements the write-once registers of IngestContract.  A    *)
(* write of a new row is the register's Store, the answer 200 or 201 its    *)
(* Acknowledge, and every other step, the purge and the kill included,      *)
(* changes nothing the contract speaks of.                                  *)
Held == [t \in Trips |-> [p \in Parts |-> HeldContent(t, p)]]

LEMMA WriteRefines ==
  ASSUME NEW u \in Uploads, TypeOK, Yours(u), trips' = Claimed(u),
         HeldContent(u.trip, u.part) = NULL,
         HeldContent(u.trip, u.part)' = u.body,
         \A t \in Trips, p \in Parts :
           <<t, p>> # <<u.trip, u.part>> => HeldContent(t, p)' = HeldContent(t, p),
         UNCHANGED acked
  PROVE  Contract!Next
<1>1. u.token \in Tokens /\ u.trip \in Trips /\ u.part \in Parts /\ u.body \in Bodies
  BY DEF Uploads
<1>2. Held' = [Held EXCEPT ![u.trip][u.part] = u.body]
  BY <1>1 DEF Held
<1>3. Held[u.trip][u.part] = NULL
  BY <1>1 DEF Held
<1>4. trips[u.trip] \in {NULL, u.token} /\ trips' = [trips EXCEPT ![u.trip] = u.token]
  BY DEF Yours, Claimed
<1>5. Contract!Store(u.token, u.trip, u.part, u.body)
  BY <1>2, <1>3, <1>4 DEF Contract!Store, Held
<1> QED BY <1>1, <1>5 DEF Contract!Next

(* Steps that change no row's content. *)
LEMMA StutterRefines ==
  ASSUME UNCHANGED <<trips, acked>>,
         \A t \in Trips, p \in Parts : HeldContent(t, p)' = HeldContent(t, p)
  PROVE  UNCHANGED Contract!vars
BY DEF Contract!vars

LEMMA PutChunkRefines ==
  ASSUME IInv, NEW w \in Workers, PutChunk(w)
  PROVE  [Contract!Next]_(Contract!vars)
<1> USE StoreAssumption
<1>1. PICK u \in Uploads : u = req[w].upload
  BY DEF IInv, TypeOK, PutChunk, Request
<1> DEFINE c == <<u.trip, u.part>>
<1>2. /\ u.trip \in Trips /\ u.token \in Tokens /\ u.body \in Bodies
      /\ u.part \in Seqs /\ u.part # End /\ c \in Trips \X Seqs
  BY <1>1 DEF PutChunk, Uploads, Parts
<1>3. UNCHANGED <<trip_ends, acked>>
  BY DEF PutChunk
<1>4. CASE trace_chunks' = trace_chunks
  <2>1. trips' = trips
    <3>1. CASE ~Yours(u)
      BY <1>1, <3>1 DEF PutChunk
    <3>2. CASE Yours(u)
      <4>1. ~IsNew(c)
        <5> DEFINE row == [received_at |-> clock, content |-> u.body, body |-> u.body,
                           purged_at |-> NULL]
        <5>1. row \in ChunkRow
          BY <1>2 DEF ChunkRow, IInv, TypeOK
        <5>2. IsNew(c) => trace_chunks'[c] = row
          BY <1>1, <1>2, <3>2 DEF PutChunk, IInv, TypeOK
        <5> QED BY <1>4, <5>1, <5>2 DEF IsNew
      <4>2. trips[u.trip] = u.token
        BY <1>2, <3>2, <4>1 DEF IInv, Owned, IsNew, Yours
      <4> QED BY <1>1, <1>2, <3>2, <4>2 DEF PutChunk, Claimed, IInv, TypeOK
    <3> QED BY <3>1, <3>2
  <2> QED BY <1>3, <1>4, <2>1, StutterRefines DEF HeldContent, RowOf
<1>5. CASE trace_chunks' # trace_chunks
  <2>1. /\ Yours(u) /\ IsNew(c) /\ trips' = Claimed(u)
        /\ trace_chunks' = [trace_chunks EXCEPT ![c] =
              [received_at |-> clock, content |-> u.body, body |-> u.body,
               purged_at |-> NULL]]
    BY <1>1, <1>5 DEF PutChunk
  <2>2. trace_chunks'[c] \in ChunkRow /\ trace_chunks'[c].content = u.body
    BY <1>2, <2>1 DEF IInv, TypeOK, ChunkRow
  <2>3. HeldContent(u.trip, u.part) = NULL /\ HeldContent(u.trip, u.part)' = u.body
    BY <1>2, <2>1, <2>2 DEF HeldContent, RowOf, IsNew
  <2>4. ASSUME NEW t \in Trips, NEW p \in Parts, <<t, p>> # <<u.trip, u.part>>
        PROVE  HeldContent(t, p)' = HeldContent(t, p)
    <3>1. CASE p = End
      BY <1>3, <3>1 DEF HeldContent, RowOf
    <3>2. CASE p # End
      <4>1. trace_chunks'[<<t, p>>] = trace_chunks[<<t, p>>]
        BY <1>2, <2>1, <2>4, <3>2 DEF IInv, TypeOK, Parts
      <4> QED BY <3>2, <4>1 DEF HeldContent, RowOf
    <3> QED BY <3>1, <3>2
  <2> QED BY <1>3, <2>1, <2>3, <2>4, WriteRefines DEF IInv
<1> QED BY <1>4, <1>5

LEMMA EndTripRefines ==
  ASSUME IInv, NEW w \in Workers, EndTrip(w)
  PROVE  [Contract!Next]_(Contract!vars)
<1> USE StoreAssumption
<1>1. PICK u \in Uploads : u = req[w].upload
  BY DEF IInv, TypeOK, EndTrip, Request
<1>2. /\ u.trip \in Trips /\ u.token \in Tokens /\ u.body \in Bodies /\ u.part = End
  BY <1>1 DEF EndTrip, Uploads
<1>3. UNCHANGED <<trace_chunks, acked>>
  BY DEF EndTrip
<1>4. CASE trip_ends' = trip_ends
  <2>1. trips' = trips
    <3>1. CASE ~Yours(u)
      BY <1>1, <3>1 DEF EndTrip
    <3>2. CASE Yours(u)
      <4>1. trip_ends[u.trip] # NULL
        <5>1. NewEndRow(u) \in EndRow
          BY <1>2 DEF NewEndRow, EndRow, IInv, TypeOK
        <5> QED BY <1>1, <1>2, <1>4, <3>2, <5>1 DEF EndTrip, IInv, TypeOK
      <4>2. trips[u.trip] = u.token
        BY <1>2, <3>2, <4>1 DEF IInv, Owned, Yours
      <4> QED BY <1>1, <1>2, <3>2, <4>2 DEF EndTrip, Claimed, IInv, TypeOK
    <3> QED BY <3>1, <3>2
  <2> QED BY <1>3, <1>4, <2>1, StutterRefines DEF HeldContent, RowOf
<1>5. CASE trip_ends' # trip_ends
  <2>1. /\ Yours(u) /\ trip_ends[u.trip] = NULL /\ trips' = Claimed(u)
        /\ trip_ends' = [trip_ends EXCEPT ![u.trip] = NewEndRow(u)]
    BY <1>1, <1>5 DEF EndTrip
  <2>2. trip_ends'[u.trip] \in EndRow /\ trip_ends'[u.trip].content = u.body
    BY <1>2, <2>1 DEF IInv, TypeOK, EndRow, NewEndRow
  <2>3. HeldContent(u.trip, u.part) = NULL /\ HeldContent(u.trip, u.part)' = u.body
    BY <1>2, <2>1, <2>2 DEF HeldContent, RowOf
  <2>4. ASSUME NEW t \in Trips, NEW p \in Parts, <<t, p>> # <<u.trip, u.part>>
        PROVE  HeldContent(t, p)' = HeldContent(t, p)
    <3>1. CASE p = End
      BY <1>2, <2>1, <2>4, <3>1 DEF HeldContent, RowOf, IInv, TypeOK
    <3>2. CASE p # End
      BY <1>3, <3>2 DEF HeldContent, RowOf
    <3> QED BY <3>1, <3>2
  <2>5. u.part \in Parts
    BY <1>2 DEF Parts
  <2> QED BY <1>3, <2>1, <2>3, <2>4, <2>5, WriteRefines DEF IInv
<1> QED BY <1>4, <1>5

LEMMA RespondRefines ==
  ASSUME IInv, NEW w \in Workers, Respond(w)
  PROVE  [Contract!Next]_(Contract!vars)
<1>1. PICK u \in Uploads : u = req[w].upload
  BY DEF IInv, TypeOK, Respond, Request
<1>2. UNCHANGED store
  BY DEF Respond
<1>3. Held' = Held
  BY <1>2 DEF Held, HeldContent, RowOf, store
<1>4. CASE req[w].status \in {200, 201}
  <2>1. IsHeld(u)
    BY <1>1, <1>4 DEF IInv, AnswerIsHeld, Respond
  <2>2. /\ u.token \in Tokens /\ u.trip \in Trips /\ u.part \in Parts /\ u.body \in Bodies
        /\ u = [token |-> u.token, trip |-> u.trip, part |-> u.part, body |-> u.body]
    BY DEF Uploads
  <2>3. acked' = acked \cup {u}
    BY <1>1, <1>4 DEF Respond
  <2>4. Contract!Acknowledge(u.token, u.trip, u.part, u.body)
    <3>1. trips[u.trip] = u.token /\ Held[u.trip][u.part] = u.body
      BY <2>1, <2>2 DEF IsHeld, Held
    <3> QED BY <1>2, <1>3, <2>2, <2>3, <3>1 DEF Contract!Acknowledge, Held, store
  <2> QED BY <2>2, <2>4 DEF Contract!Next
<1>5. CASE req[w].status \notin {200, 201}
  <2>1. UNCHANGED acked
    BY <1>5 DEF Respond
  <2> QED BY <1>2, <1>3, <2>1 DEF Contract!vars, Held, store
<1> QED BY <1>4, <1>5

LEMMA PurgeRefines ==
  ASSUME IInv, PurgeWrite
  PROVE  UNCHANGED Contract!vars
<1>1. AppendOnlyStep
  BY StepAppends DEF IInv, Next
<1>2. ASSUME NEW c \in Trips \X Seqs, trace_chunks[c] = NULL
      PROVE  trace_chunks'[c] = NULL
  BY <1>2 DEF PurgeWrite, Expired
<1>3. ASSUME NEW t \in Trips, NEW p \in Parts
      PROVE  HeldContent(t, p)' = HeldContent(t, p)
  <2>1. CASE p = End
    BY <2>1 DEF PurgeWrite, HeldContent, RowOf
  <2>2. CASE p # End
    BY <1>1, <1>2, <2>2 DEF AppendOnlyStep, HeldContent, RowOf, Parts
  <2> QED BY <2>1, <2>2
<1>4. UNCHANGED <<trips, acked>>
  BY DEF PurgeWrite
<1> QED BY <1>3, <1>4, StutterRefines

(* The service's specification implements the contract's. *)
THEOREM ImplementsContract == Spec => Implements
<1>1. Init => Contract!Init
  BY DEF Init, Contract!Init, HeldContent, RowOf, Parts
<1>2. IInv /\ [Next]_vars => [Contract!Next]_(Contract!vars)
  <2> SUFFICES ASSUME IInv, [Next]_vars PROVE [Contract!Next]_(Contract!vars)
    OBVIOUS
  <2>1. CASE UNCHANGED <<trips, trace_chunks, trip_ends, acked>>
    BY <2>1, StutterRefines DEF HeldContent, RowOf
  <2>2. ASSUME NEW w \in Workers, PutChunk(w) \/ EndTrip(w) \/ Respond(w)
        PROVE  [Contract!Next]_(Contract!vars)
    BY <2>2, PutChunkRefines, EndTripRefines, RespondRefines
  <2>3. CASE PurgeWrite
    BY <2>3, PurgeRefines
  <2>4. (/\ ~PurgeWrite
         /\ \A w \in Workers : ~(PutChunk(w) \/ EndTrip(w) \/ Respond(w)))
          => UNCHANGED <<trips, trace_chunks, trip_ends, acked>>
    BY DEF Next, Handle, vars, store, Issue, Revoke, Receive, Authenticate, PurgeBegin,
           Crash, Tick
  <2> QED BY <2>1, <2>2, <2>3, <2>4
<1> QED BY <1>1, <1>2, Invariance, PTL DEF Spec, Implements, Contract!Spec
=============================================================================
