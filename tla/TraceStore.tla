----------------------------- MODULE TraceStore -----------------------------
(***************************************************************************)
(* The commute planner's ingest service: the SQLite store of               *)
(* commute/store.py, the tester tokens of commute/tokens.py, the retention *)
(* purge of commute/retention.py and the two write handlers of             *)
(* commute/app.py.                                                         *)
(*                                                                         *)
(* Every write is one BEGIN IMMEDIATE transaction, so a write is one       *)
(* action.  A request is not: current_tester reads the token on a          *)
(* connection of its own, the handler then opens a second one for the      *)
(* write, and the answer leaves after that; a revocation, another worker,  *)
(* the purge or a kill of the process may come between.                    *)
(*                                                                         *)
(* A body stands for its canonical JSON and for the SHA-256 of it at once: *)
(* the digest is taken to be injective, so comparing bodies is comparing   *)
(* digests.  `content' is what the digest column keeps, `body' is the      *)
(* column the purge clears.                                                *)
(***************************************************************************)
EXTENDS Integers, FiniteSets

CONSTANTS
  Tokens,      \* rows the owner may ever issue
  Trips,       \* trip UUIDs a client may name
  Seqs,        \* chunk numbers, 0..MAX_SEQ
  End,         \* the part of a trip that POST .../end writes
  Bodies,      \* contents of an upload
  Accepts(_),  \* whether the wire models of commute/schemas.py accept a body
  Workers,     \* requests the service can have in progress at once
  NULL,        \* SQL NULL, a missing row, an idle worker
  Retention,   \* RAW_RETENTION_DAYS, in ticks of the clock
  MaxClock     \* bound: the server's clock stops here

Parts == Seqs \cup {End}

VARIABLES
  tester_tokens,  \* token id -> its row, or NULL before `issue'
  trips,          \* trip -> the token_id of its row, or NULL
  trace_chunks,   \* <<trip, seq>> -> its row, or NULL
  trip_ends,      \* trip -> its row, or NULL
  req,            \* worker -> the request it is handling, or NULL
  purge,          \* the purge process: the `now' it has read, or NULL
  clock,          \* the server's wall clock
  acked           \* history: the uploads answered with a 200 or a 201

store == <<tester_tokens, trips, trace_chunks, trip_ends>>
vars  == <<store, req, purge, clock, acked>>

Uploads == [token : Tokens, trip : Trips, part : Parts, body : Bodies]

TokenRow == [revoked_at : Nat \cup {NULL}]
ChunkRow == [received_at : Nat, content : Bodies, body : Bodies \cup {NULL},
             purged_at : Nat \cup {NULL}]
EndRow   == [received_at : Nat, content : Bodies]
Request  == [upload : Uploads, pc : {"auth", "write", "answer"},
             status : {NULL, 200, 201, 401, 404, 409, 422}]

(* NULL is none of the things it marks the absence of. *)
ASSUME StoreAssumption ==
  /\ End \notin Seqs
  /\ NULL \notin Tokens \cup Trips \cup Seqs \cup Bodies \cup Nat
  /\ NULL \notin TokenRow \cup ChunkRow \cup EndRow \cup Request
  /\ Retention \in Nat /\ MaxClock \in Nat

-----------------------------------------------------------------------------
Init ==
  /\ tester_tokens = [k \in Tokens |-> NULL]
  /\ trips = [t \in Trips |-> NULL]
  /\ trace_chunks = [c \in Trips \X Seqs |-> NULL]
  /\ trip_ends = [t \in Trips |-> NULL]
  /\ req = [w \in Workers |-> NULL]
  /\ purge = NULL
  /\ clock = 0
  /\ acked = {}

(* tokens.py: the owner's two offline commands. *)
Issue(k) ==
  /\ tester_tokens[k] = NULL
  /\ tester_tokens' = [tester_tokens EXCEPT ![k] = [revoked_at |-> NULL]]
  /\ UNCHANGED <<trips, trace_chunks, trip_ends, req, purge, clock, acked>>

Active(k) == tester_tokens[k] # NULL /\ tester_tokens[k].revoked_at = NULL

(* Revoking a token that is unknown or already revoked changes nothing. *)
Revoke(k) ==
  /\ Active(k)
  /\ tester_tokens' = [tester_tokens EXCEPT ![k].revoked_at = clock]
  /\ UNCHANGED <<trips, trace_chunks, trip_ends, req, purge, clock, acked>>

-----------------------------------------------------------------------------
(* A request, from its arrival to its answer. *)
Receive(w, u) ==
  /\ req[w] = NULL
  /\ req' = [req EXCEPT ![w] = [upload |-> u, pc |-> "auth", status |-> NULL]]
  /\ UNCHANGED <<store, purge, clock, acked>>

Answered(w, status) ==
  req' = [req EXCEPT ![w] = [upload |-> @.upload, pc |-> "answer", status |-> status]]

(* current_tester; then the wire models of schemas.py, which look at nothing *)
(* but the body: one they refuse is a 422 and reaches no table.              *)
Authenticate(w) ==
  LET u == req[w].upload
  IN
  /\ req[w] # NULL /\ req[w].pc = "auth"
  /\ \/ ~Active(u.token) /\ Answered(w, 401)
     \/ Active(u.token) /\ ~Accepts(u.body) /\ Answered(w, 422)
     \/ /\ Active(u.token) /\ Accepts(u.body)
        /\ req' = [req EXCEPT ![w].pc = "write"]
  /\ UNCHANGED <<store, purge, clock, acked>>

(* _claim_trip: a trip belongs to whichever token first wrote to it. *)
YoursAlways(u) == TRUE                         \* defect: no owner check
Yours(u) == trips[u.trip] \in {NULL, u.token}
Claimed(u) == [trips EXCEPT ![u.trip] = u.token]

(* Whether the chunk has no row yet; a row whose body is purged still counts. *)
IsNewOrPurged(c) ==                            \* defect: looks at the body
  trace_chunks[c] = NULL \/ trace_chunks[c].body = NULL
IsNew(c) == trace_chunks[c] = NULL

(* The status of an upload to a row that exists: Outcome.REPLAYED, CONFLICT. *)
RepeatByKey(row, u) == 200                     \* defect: digests not compared
Repeat(row, u) == IF row.content = u.body THEN 200 ELSE 409

(* TraceStore.put_chunk and the handler's translation of its Outcome. *)
PutChunk(w) ==
  LET u == req[w].upload
      c == <<u.trip, u.part>>
  IN
  /\ req[w] # NULL /\ req[w].pc = "write" /\ u.part # End
  /\ \/ /\ ~Yours(u)
        /\ Answered(w, 404)
        /\ UNCHANGED <<trips, trace_chunks>>
     \/ /\ Yours(u)
        /\ trips' = Claimed(u)
        /\ IF IsNew(c)
           THEN /\ trace_chunks' = [trace_chunks EXCEPT ![c] =
                     [received_at |-> clock, content |-> u.body,
                      body |-> u.body, purged_at |-> NULL]]
                /\ Answered(w, 201)
           ELSE /\ Answered(w, Repeat(trace_chunks[c], u))
                /\ UNCHANGED trace_chunks
  /\ UNCHANGED <<tester_tokens, trip_ends, purge, clock, acked>>

(* The row of a new trip end. *)
SwappedEndRow(u) ==                            \* defect: columns out of order
  [received_at |-> u.body, content |-> clock]
NewEndRow(u) == [received_at |-> clock, content |-> u.body]

(* TraceStore.end_trip and its handler. *)
EndTrip(w) ==
  LET u == req[w].upload
  IN
  /\ req[w] # NULL /\ req[w].pc = "write" /\ u.part = End
  /\ \/ /\ ~Yours(u)
        /\ Answered(w, 404)
        /\ UNCHANGED <<trips, trip_ends>>
     \/ /\ Yours(u)
        /\ trips' = Claimed(u)
        /\ IF trip_ends[u.trip] = NULL
           THEN /\ trip_ends' = [trip_ends EXCEPT ![u.trip] = NewEndRow(u)]
                /\ Answered(w, 201)
           ELSE /\ Answered(w, Repeat(trip_ends[u.trip], u))
                /\ UNCHANGED trip_ends
  /\ UNCHANGED <<tester_tokens, trace_chunks, purge, clock, acked>>

(* The answer leaves the service; whether it arrives is the network's. *)
Respond(w) ==
  /\ req[w] # NULL /\ req[w].pc = "answer"
  /\ req' = [req EXCEPT ![w] = NULL]
  /\ acked' = IF req[w].status \in {200, 201}
              THEN acked \cup {req[w].upload} ELSE acked
  /\ UNCHANGED <<store, purge, clock>>

-----------------------------------------------------------------------------
(* retention.purge_raw_traces: the clock is read before the transaction. *)
PurgeBegin ==
  /\ purge = NULL
  /\ purge' = clock
  /\ UNCHANGED <<store, req, clock, acked>>

ExpiredEarly(row, now) ==                      \* defect: <= for <
  row # NULL /\ row.body # NULL /\ row.received_at <= now - Retention

ExpiredLate(row, now) ==                       \* defect: one tick too lenient
  row # NULL /\ row.body # NULL /\ row.received_at < now - Retention - 1

Expired(row, now) ==
  row # NULL /\ row.body # NULL /\ row.received_at < now - Retention

Cleared(row, now) == [row EXCEPT !.body = NULL, !.purged_at = now]

PurgeWrite ==
  /\ purge # NULL
  /\ trace_chunks' = [c \in Trips \X Seqs |->
       IF Expired(trace_chunks[c], purge)
       THEN Cleared(trace_chunks[c], purge)
       ELSE trace_chunks[c]]
  /\ purge' = NULL
  /\ UNCHANGED <<tester_tokens, trips, trip_ends, req, clock, acked>>

(* The container is killed: requests and purge are gone, an open            *)
(* transaction rolls back, the file stays.                                  *)
Crash ==
  /\ purge # NULL \/ \E w \in Workers : req[w] # NULL
  /\ req' = [w \in Workers |-> NULL]
  /\ purge' = NULL
  /\ UNCHANGED <<store, clock, acked>>

Tick ==
  /\ clock < MaxClock
  /\ clock' = clock + 1
  /\ UNCHANGED <<store, req, purge, acked>>

Handle(w) == Authenticate(w) \/ PutChunk(w) \/ EndTrip(w) \/ Respond(w)

Next ==
  \/ \E k \in Tokens : Issue(k) \/ Revoke(k)
  \/ \E w \in Workers : Handle(w) \/ \E u \in Uploads : Receive(w, u)
  \/ PurgeBegin \/ PurgeWrite \/ Crash \/ Tick

Spec == Init /\ [][Next]_vars

(* entrypoint.sh purges at boot and then daily, for as long as the container *)
(* lives, and time passes; the container is not killed during every purge,   *)
(* hence strong fairness.  Nothing else is owed: no request need arrive.     *)
Fairness == WF_vars(PurgeBegin) /\ SF_vars(PurgeWrite) /\ WF_vars(Tick)

FairSpec == Spec /\ Fairness
-----------------------------------------------------------------------------
(* The content part p of trip t holds, whichever table it lives in. *)
RowOf(t, p) == IF p = End THEN trip_ends[t] ELSE trace_chunks[<<t, p>>]
HeldContent(t, p) == IF RowOf(t, p) = NULL THEN NULL ELSE RowOf(t, p).content

(* The service implements the write-once registers of IngestContract. *)
Contract == INSTANCE IngestContract WITH
  owner <- trips,
  held  <- [t \in Trips |-> [p \in Parts |-> HeldContent(t, p)]]

Implements == Contract!Spec

TypeOK ==
  /\ tester_tokens \in [Tokens -> TokenRow \cup {NULL}]
  /\ trips \in [Trips -> Tokens \cup {NULL}]
  /\ trace_chunks \in [Trips \X Seqs -> ChunkRow \cup {NULL}]
  /\ trip_ends \in [Trips -> EndRow \cup {NULL}]
  /\ req \in [Workers -> Request \cup {NULL}]
  /\ purge \in Nat \cup {NULL}
  /\ clock \in Nat
  /\ acked \subseteq Uploads

(* An upload answered with a 200 or a 201 is the one the store holds, under *)
(* the token that sent it, whatever came after: a purge, a resend of other  *)
(* content, another tester's write to the same trip, a kill.                *)
IsHeld(u) == trips[u.trip] = u.token /\ HeldContent(u.trip, u.part) = u.body

AckedIsHeld == \A u \in acked : IsHeld(u)

(* store.py's header: trace data is append-only.  Rows never go, never      *)
(* change hands and never change, but for a purge clearing a body; and a    *)
(* cleared body never comes back, so a late retry cannot restore a trace    *)
(* whose retention has run out.                                             *)
AppendOnlyStep ==
  /\ \A t \in Trips : trips[t] # NULL => trips'[t] = trips[t]
  /\ \A t \in Trips : trip_ends[t] # NULL => trip_ends'[t] = trip_ends[t]
  /\ \A c \in Trips \X Seqs : trace_chunks[c] # NULL =>
       /\ trace_chunks'[c] # NULL
       /\ trace_chunks'[c].content = trace_chunks[c].content
       /\ trace_chunks'[c].received_at = trace_chunks[c].received_at
       /\ trace_chunks'[c].body \in {NULL, trace_chunks[c].body}

AppendOnly == [][AppendOnlyStep]_vars

(* retention.py: only what has been held for more than the whole period is  *)
(* cleared, although the purge's clock is read before its transaction and   *)
(* uploads land in between.                                                 *)
NothingPurgedEarly ==
  \A c \in Trips \X Seqs :
    trace_chunks[c] # NULL /\ trace_chunks[c].body = NULL
      => clock - trace_chunks[c].received_at > Retention

(* ADR-0017's limit: every raw trace received while the clock still has a   *)
(* whole period to run is cleared in the end, crashes and all.              *)
EveryTraceExpires ==
  \A c \in Trips \X Seqs :
    (/\ trace_chunks[c] # NULL
     /\ trace_chunks[c].received_at + Retention < MaxClock)
      ~> (trace_chunks[c] # NULL /\ trace_chunks[c].body = NULL)
=============================================================================
