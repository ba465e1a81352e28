-------------------------- MODULE TripUploadProofs --------------------------
(***************************************************************************)
(* What the whole path of a trip trace guarantees, for every network, any  *)
(* number of workers, and kills on both sides.                             *)
(*                                                                         *)
(* The path is the recorder of TripRecorder on one side and the service of *)
(* TraceStore on the other, and what is proved of either holds here.       *)
(* PathInv ties the two: every request under way, and every row, is of an  *)
(* item the device has sealed.  For a device with one token, whatever the  *)
(* drain is deleting is held (DropInv); and, its clock never set back, the *)
(* service has the whole of a trip whose end is on its way (EndInv).       *)
(***************************************************************************)
EXTENDS TripUpload, TripRecorderProofs

Ingest == INSTANCE TraceStoreProofs WITH
  Seqs <- 0..MaxSeq, Bodies <- UploadBodies, Accepts <- ValidBody,
  MaxClock <- MaxServerClock, clock <- serverClock

-----------------------------------------------------------------------------
(* The two sides of a step. *)

(* What TraceStore asks of its constants. *)
LEMMA IngestAssumed == Ingest!StoreAssumption
BY UploadAssumption
   DEF Store!StoreAssumption, Store!TokenRow, Store!ChunkRow, Store!EndRow, Store!Request,
       Store!Uploads, Store!Parts, Ingest!StoreAssumption, Ingest!TokenRow, Ingest!ChunkRow,
       Ingest!EndRow, Ingest!Request, Ingest!Uploads, Ingest!Parts

(* A step of the path is a step of the recorder, or leaves it alone. *)
LEMMA DeviceStep == ASSUME [UploadNext]_all PROVE [Next]_vars
<1>1. CASE UNCHANGED all \/ ServerSteps \/ \E w \in Workers : Carry(w)
  BY <1>1 DEF all, device, ServerSteps, Carry
<1>2. ASSUME NEW w \in Workers, Reply(w) PROVE [Next]_vars
  <2>1. CASE UNCHANGED device
    BY <2>1 DEF device
  <2>2. CASE DrainAnswer(Classify(req[w].status))
    <3>1. Classify(req[w].status) \in Kinds
      BY DEF Classify, Kinds
    <3> QED BY <2>2, <3>1 DEF Next
  <2> QED BY <1>2, <2>1, <2>2 DEF Reply
<1>3. CASE FetchFails
  BY <1>3 DEF FetchFails, Next, Kinds
<1>4. CASE CheckToken
  <2>1. PICK good : Checked(good) /\ good \in {Store!Active(op.token), FALSE}
    BY <1>4 DEF CheckToken
  <2>2. Store!Active(op.token) \in BOOLEAN
    BY DEF Store!Active
  <2> QED BY <2>1, <2>2 DEF Next
<1>5. CASE Killed \/ DeviceSteps
  BY <1>5 DEF Killed, DeviceSteps, Next, Device
<1> QED BY <1>1, <1>2, <1>3, <1>4, <1>5 DEF UploadNext

(* What the drain sends is an upload of the service. *)
LEMMA SentIsUpload ==
  ASSUME NEW i, GoodItem(i), NEW k \in Tokens
  PROVE  [token |-> k, trip |-> i.trip, part |-> i.part, body |-> i.body] \in Ingest!Uploads
BY DEF GoodItem, ChunkBody, EndBodies, Artifact, UploadBodies, Ingest!Uploads, Ingest!Parts

(* The drain sends under a token of the device. *)
SentInv == drain.await = "answer" => drain.token \in Tokens

(* A step of the path is a step of the service, or leaves it alone. *)
LEMMA ServiceStep ==
  ASSUME Inv, SentInv, [UploadNext]_all
  PROVE  [Ingest!Next]_(Ingest!vars)
<1>1. CASE UNCHANGED server
  BY <1>1 DEF server, Ingest!vars, Ingest!store
<1>2. CASE UNCHANGED all \/ FetchFails \/ CheckToken \/ Killed \/ DeviceSteps
  BY <1>1, <1>2 DEF all, FetchFails, CheckToken, Killed, DeviceSteps
<1>3. ASSUME NEW w \in Workers, Carry(w) PROVE Ingest!Next
  <2>0. drain.token \in Tokens /\ GoodItem(drain.item)
    BY <1>3 DEF Carry, SentInv, Inv, ItemInv, Orderly, Idle
  <2>1. PICK u : /\ u = [token |-> drain.token, trip |-> drain.item.trip,
                         part |-> drain.item.part, body |-> drain.item.body]
                 /\ Store!Receive(w, u)
    BY <1>3 DEF Carry
  <2>2. u \in Ingest!Uploads
    BY <2>0, <2>1, SentIsUpload
  <2> QED BY <2>1, <2>2 DEF Store!Receive, Store!store, Ingest!Receive, Ingest!store, Ingest!Next
<1>4. ASSUME NEW w \in Workers, Reply(w) PROVE Ingest!Next
  BY <1>4 DEF Reply, Store!Respond, Store!store, Ingest!Respond, Ingest!store, Ingest!Handle,
     Ingest!Next
<1>5. CASE ServerSteps
  <2>1. ASSUME NEW w \in Workers, Store!Authenticate(w) PROVE Ingest!Authenticate(w)
    BY <2>1 DEF Store!Authenticate, Store!Active, Store!Answered, Store!store,
       Ingest!Authenticate, Ingest!Active, Ingest!Answered, Ingest!store
  <2>2. ASSUME NEW w \in Workers, Store!PutChunk(w) PROVE Ingest!PutChunk(w)
    BY <2>2 DEF Store!PutChunk, Store!Yours, Store!Claimed, Store!IsNew, Store!Repeat,
       Store!Answered, Ingest!PutChunk, Ingest!Yours, Ingest!Claimed, Ingest!IsNew,
       Ingest!Repeat, Ingest!Answered
  <2>3. ASSUME NEW w \in Workers, Store!EndTrip(w) PROVE Ingest!EndTrip(w)
    BY <2>3 DEF Store!EndTrip, Store!Yours, Store!Claimed, Store!Repeat, Store!NewEndRow,
       Store!Answered, Ingest!EndTrip, Ingest!Yours, Ingest!Claimed, Ingest!Repeat,
       Ingest!NewEndRow, Ingest!Answered
  <2>4. ASSUME NEW k \in Tokens, Store!Issue(k) \/ Store!Revoke(k)
        PROVE  Ingest!Issue(k) \/ Ingest!Revoke(k)
    BY <2>4 DEF Store!Issue, Store!Revoke, Store!Active, Ingest!Issue, Ingest!Revoke,
       Ingest!Active
  <2>5. ASSUME Store!PurgeBegin \/ Store!PurgeWrite \/ Store!Crash \/ Store!Tick
        PROVE  Ingest!PurgeBegin \/ Ingest!PurgeWrite \/ Ingest!Crash \/ Ingest!Tick
    BY <2>5 DEF Store!PurgeBegin, Store!PurgeWrite, Store!Crash, Store!Tick, Store!Expired,
       Store!Cleared, Store!store, Ingest!PurgeBegin, Ingest!PurgeWrite, Ingest!Crash,
       Ingest!Tick, Ingest!Expired, Ingest!Cleared, Ingest!store
  <2> QED BY <1>5, <2>1, <2>2, <2>3, <2>4, <2>5 DEF ServerSteps, ServerHandles, Ingest!Next,
       Ingest!Handle
<1> QED BY <1>1, <1>2, <1>3, <1>4, <1>5 DEF UploadNext
-----------------------------------------------------------------------------
(* The device's side of an upload. *)

(* What the drain may turn to. *)
Sending ==
  \/ drain' = drain \/ drain' = Idle
  \/ \E kind \in Kinds : DrainAnswer(kind)
  \/ drain'.await = "answer" /\ drain'.token \in Tokens /\ drain'.item \in outbox'

(* The top of the loop sends the first of the queue, or nothing. *)
LEMMA LoopSends ==
  ASSUME NEW s \in Settings \cup {NULL}, NEW ob, NEW rt, drain' = Looped(s, ob, rt),
         ob = outbox', \A i \in ob : GoodItem(i)
  PROVE  Sending
<1>1. CASE CanUpload(s) /\ ~rt /\ ob # {}
  <2>1. FirstOf(ob) \in ob
    BY <1>1, FirstOfIs
  <2>2. s.token \in Tokens
    BY <1>1 DEF CanUpload, Settings
  <2> QED BY <1>1, <2>1, <2>2 DEF Looped, Sending
<1>2. CASE ~(CanUpload(s) /\ ~rt /\ ob # {})
  BY <1>2 DEF Looped, Sending
<1> QED BY <1>1, <1>2

(* So does a flush. *)
LEMMA FlushSending ==
  ASSUME NEW s \in Settings \cup {NULL}, NEW ob, NEW rt, Flush(s, ob, rt),
         ob = outbox', \A i \in ob : GoodItem(i)
  PROVE  Sending
<1>1. drain' = drain \/ drain' = Looped(s, ob, rt)
  BY DEF Flush, Loop
<1> QED BY <1>1, LoopSends DEF Sending

(* Whatever the drain sends is in the queue, and goes under a token of the  *)
(* device.                                                                  *)
LEMMA StepSends ==
  ASSUME Inv, [Next]_vars
  PROVE  Sending
<1>1. Inv'
  BY StepInv
<1>2. \A i \in outbox' : GoodItem(i)
  BY <1>1 DEF Inv, ItemInv, Orderly
<1>3. settings \in Settings \cup {NULL} /\ disk.settings \in Settings \cup {NULL}
  BY DEF Inv, TypeInv
<1>4. ASSUME NEW s \in Settings \cup {NULL}, NEW rt, Flush(s, outbox', rt) PROVE Sending
  <2>1. PICK ob : ob = outbox'
    OBVIOUS
  <2> QED BY <1>2, <1>4, <2>1, FlushSending
<1>5. ASSUME NEW q, NEW ts, NEW s \in Settings \cup {NULL}, NEW rt,
             EndOrphans(q, ts, s, outbox', rt)
      PROVE  Sending
  <2>1. Flush(s, outbox', rt) \/ drain' = drain
    BY <1>5 DEF EndOrphans, LeaveFlushing
  <2> QED BY <1>4, <2>1 DEF Sending
<1>6. CASE drain' = drain \/ drain' = Idle
  BY <1>6 DEF Sending
<1>7. CASE DrainDeleted
  <2>1. PICK ob : ob = outbox'
    OBVIOUS
  <2>2. drain' = Looped(settings, ob, retry)
    BY <1>7, <2>1 DEF DrainDeleted, Loop
  <2> QED BY <1>2, <1>3, <2>1, <2>2, LoopSends
<1>8. CASE Uploads
  BY <1>3, <1>4, <1>6, <1>7, <1>8 DEF Uploads, DrainRejected, DrainFailed, RetryFires
<1>9. CASE InitLoaded
  BY <1>3, <1>5, <1>9 DEF InitLoaded
<1>10. CASE Finalized
  <2>1. CASE LeaveFlushing(Tail(txns), settings, outbox', retry)
    BY <1>3, <1>4, <2>1 DEF LeaveFlushing
  <2>2. CASE EndOrphans(Tail(txns), op.then.trips, settings, outbox', retry)
    BY <1>3, <1>5, <2>2
  <2>3. CASE StartTrip(Tail(txns), op.then.line, op.then.destination)
    BY <1>6, <2>3 DEF StartTrip, LeaveQuietly
  <2> QED BY <1>10, <2>1, <2>2, <2>3 DEF Finalized
<1>11. CASE OptedIn \/ EnabledSet \/ Put
  BY <1>3, <1>4, <1>6, <1>11 DEF OptedIn, EnabledSet, Put, LeaveFlushing, LeaveQuietly
<1>12. CASE InitCalled \/ ForgetLoaded \/ Forgotten \/ OpFailed
  BY <1>6, <1>12 DEF InitCalled, ForgetLoaded, Forgotten, OpFailed, LeaveQuietly
<1>13. CASE Called
  <2>1. RetryNow => Sending
    BY <1>3, <1>4 DEF RetryNow
  <2> QED BY <1>6, <1>13, <2>1 DEF Called, OptIn, SetEnabled, Forget, Reroute, StartTripCalled,
       StartTrip, LeaveQuietly, AddFix, EndTrip
<1>14. CASE Crash \/ ClockMoves \/ UNCHANGED vars
  BY <1>6, <1>14 DEF Crash, ClockMoves, vars
<1>15. ASSUME NEW kind \in Kinds, DrainAnswer(kind) PROVE Sending
  BY <1>15 DEF Sending
<1>16. ASSUME NEW good \in BOOLEAN, Checked(good) PROVE Sending
  BY <1>6, <1>16 DEF Checked
<1> QED BY <1>8, <1>9, <1>10, <1>11, <1>12, <1>13, <1>14, <1>15, <1>16
     DEF Next, Device, Continues

(* While the drain awaits an answer nothing else moves it. *)
LEMMA AnswerIsAwaited ==
  ASSUME Inv, drain.await = "answer",
         \/ Uploads \/ Continues \/ Called \/ ClockMoves
         \/ \E good \in BOOLEAN : Checked(good)
  PROVE  drain' = drain
<1>1. drain # Idle
  BY DEF Idle
<1>2. ~Front("drain")
  BY DrainIsDone DEF Inv, DrainOps
<1>3. \A s, ob, rt : Flush(s, ob, rt) => drain' = drain
  BY <1>1 DEF Flush
<1>4. CASE Uploads
  BY <1>2, <1>3, <1>4 DEF Uploads, DrainDeleted, DrainRejected, DrainFailed, RetryFires, Commits
<1>5. CASE Continues
  BY <1>3, <1>5 DEF Continues, InitCalled, InitLoaded, OptedIn, EnabledSet, ForgetLoaded,
     Forgotten, Put, Finalized, OpFailed, EndOrphans, StartTrip, LeaveFlushing, LeaveQuietly
<1>6. CASE Called
  BY <1>3, <1>6 DEF Called, OptIn, SetEnabled, Forget, RetryNow, Reroute, StartTripCalled,
     StartTrip, LeaveQuietly, AddFix, EndTrip
<1>7. CASE ClockMoves \/ \E good \in BOOLEAN : Checked(good)
  BY <1>7 DEF ClockMoves, Checked
<1> QED BY <1>4, <1>5, <1>6, <1>7
-----------------------------------------------------------------------------
(* What a step moves between memory and storage. *)

Orphans ==
  IF op.await = "finalize" /\ op.then.do = "orphans" THEN op.then.trips ELSE {}

(* The trips the app knows of, and those it may know of after a step. *)
InMemory == Open(trip) \cup Pending \cup Orphans
Within(ids) == \A t \in InMemory' : t.tripId \in ids
Carried ==
  {t.tripId : t \in InMemory} \cup {id \in Trips : \A i \in sealed' : i.trip # id}

StaysOn == \A t \in disk'.trips : \E u \in Live : u.tripId = t.tripId

Steady ==
  /\ sealed' = sealed /\ outbox' = outbox /\ disk'.outbox = disk.outbox
  /\ Within(Carried) /\ StaysOn

Seals ==
  /\ op.await \in Storing
  /\ sealed' = sealed \cup op.items /\ outbox' = outbox \cup op.items
  /\ disk'.outbox = disk.outbox \cup op.items
  /\ Within(Carried) /\ StaysOn

Deletes ==
  /\ drain.await = "delete" /\ sealed' = sealed
  /\ outbox' = {i \in outbox : Key(i) # Key(drain.item)}
  /\ disk'.outbox = {i \in disk.outbox : Key(i) # Key(drain.item)}
  /\ Within(Carried) /\ StaysOn

Loads ==
  /\ sealed' = sealed /\ disk' = disk /\ outbox' = disk.outbox
  /\ Within({t.tripId : t \in disk.trips})

Wipes ==
  /\ op.await = "forget" /\ sealed' = sealed
  /\ disk'.trips = {} /\ disk'.outbox = {} /\ outbox' = {} /\ InMemory' = {}

Dies == sealed' = sealed /\ disk' = disk /\ outbox' = {} /\ InMemory' = {}

Moves == Steady \/ Seals \/ Deletes \/ Loads \/ Wipes \/ Dies

(* An operation that stores no trip knows of the open one. *)
LEMMA RestWithin ==
  ASSUME NEW ids, op'.await \notin Storing, \A t \in Open(trip') : t.tripId \in ids
  PROVE  Within(ids)
BY DEF Within, InMemory, Pending, Orphans, Storing

(* A put knows of its trip. *)
LEMMA PutWithin ==
  ASSUME NEW ids, NEW q, NEW t, NEW items, Putting(q, t, items), t.tripId \in ids
  PROVE  Within(ids)
BY DEF Putting, Within, InMemory, Pending, Orphans, Open, Storing

(* A finalization knows of its trip, and of the orphans still to come. *)
LEMMA FinalWithin ==
  ASSUME NEW ids, NEW q, NEW t0, NEW arrived \in BOOLEAN, NEW at \in Nat, NEW then,
         Finalizing(q, t0, arrived, EndTime(t0, at), then), GoodTrip(t0), clock \in Nat,
         trip' = NULL \/ trip' = op'.t, t0.tripId \in ids,
         then.do = "orphans" => \A t \in then.trips : t.tripId \in ids
  PROVE  Within(ids)
<1>1. PICK s : s = Final(t0, arrived, EndTime(t0, at), clock)
  OBVIOUS
<1>2. PICK t : t = s.trip
  OBVIOUS
<1>3. op'.t = t /\ op'.then = then /\ op'.await = "finalize"
  BY <1>1, <1>2 DEF Finalizing
<1>4. t.tripId = t0.tripId
  BY <1>1, <1>2, FinalIs DEF Follows
<1> QED BY <1>3, <1>4 DEF Within, InMemory, Pending, Orphans, Open, Storing

(* init knows of the trips it has still to end. *)
LEMMA OrphansWithin ==
  ASSUME NEW ids, NEW q, NEW ts, NEW s, NEW ob, NEW rt, EndOrphans(q, ts, s, ob, rt),
         trip' = NULL, clock \in Nat, \A t \in ts : GoodTrip(t) /\ t.tripId \in ids
  PROVE  Within(ids)
<1>1. CASE op' = Idle
  <2>1. op'.await \notin Storing /\ \A t \in Open(trip') : t.tripId \in ids
    BY <1>1 DEF Open, Storing, Idle
  <2> QED BY <2>1, RestWithin
<1>2. ASSUME NEW t \in ts,
             Finalizing(q, t, FALSE, EndTime(t, t.startedAt), EndingOrphans(ts \ {t}))
      PROVE  Within(ids)
  <2>1. PICK at, then : at = t.startedAt /\ then = EndingOrphans(ts \ {t})
    OBVIOUS
  <2>2. at \in Nat
    BY <2>1, TripFields DEF GoodTrip
  <2>3. \A u \in then.trips : u.tripId \in ids
    BY <2>1 DEF EndingOrphans
  <2> QED BY <1>2, <2>1, <2>2, <2>3, FinalWithin
<1> QED BY <1>1, <1>2 DEF EndOrphans, LeaveFlushing

(* A new trip has an identifier of its own. *)
LEMMA StartWithin ==
  ASSUME NEW ids, NEW q, NEW line \in Routes, NEW dest \in Destinations,
         StartTrip(q, line, dest), clock \in 0..MaxClock, FreshTrips \subseteq ids
  PROVE  Within(ids)
<1>1. ASSUME NEW id \in FreshTrips, Putting(q, NewTrip(id, line, dest), {})
      PROVE  Within(ids)
  <2>1. PICK t : t = NewTrip(id, line, dest)
    OBVIOUS
  <2>2. id \in Trips
    BY DEF FreshTrips
  <2>3. t.tripId = id
    BY <2>1, <2>2, NewTripIs
  <2> QED BY <1>1, <2>1, <2>3, PutWithin
<1>2. CASE trip' = NULL /\ op' = Idle
  <2>1. op'.await \notin Storing /\ \A t \in Open(trip') : t.tripId \in ids
    BY <1>2 DEF Open, Storing, Idle
  <2> QED BY <2>1, RestWithin
<1> QED BY <1>1, <1>2 DEF StartTrip, LeaveQuietly

(* A step beside the operation. *)
LEMMA AsideMoves ==
  ASSUME op' = op, trip' = trip, disk'.trips = disk.trips
  PROVE  Within(Carried) /\ StaysOn
<1>1. InMemory' = InMemory
  BY DEF InMemory, Pending, Orphans
<1> QED BY <1>1 DEF Within, Carried, StaysOn, Live

(* An operation that goes on without a trip of its own. *)
LEMMA RestMoves ==
  ASSUME op'.await \notin Storing, trip' = trip \/ trip' = NULL, disk'.trips \subseteq Live
  PROVE  Within(Carried) /\ StaysOn
<1>1. PICK ids : ids = Carried
  OBVIOUS
<1>2. \A t \in Open(trip') : t.tripId \in ids
  BY <1>1 DEF Carried, InMemory, Open
<1> QED BY <1>1, <1>2, RestWithin DEF StaysOn

(* The drain, the retries and the clock. *)
LEMMA UploadsMove ==
  ASSUME Inv,
         \/ Uploads \/ RetryNow \/ ClockMoves \/ UNCHANGED vars
         \/ \E kind \in Kinds : DrainAnswer(kind)
  PROVE  Moves
<1>1. CASE DrainDeleted \/ DrainRejected
  <2>1. Commits("drain") /\ op' = op /\ trip' = trip
    BY <1>1 DEF DrainDeleted, DrainRejected, memory
  <2>2. sealed' = sealed /\ disk'.trips = disk.trips /\ DrainOps(txns[1][2])
    BY <2>1, DrainCommitted
  <2>3. Within(Carried) /\ StaysOn
    BY <2>1, <2>2, AsideMoves
  <2>4. PICK d : d = txns[1][2] /\ DrainOps(d) /\ disk' = Applied(disk, d)
    BY <2>1, <2>2 DEF Commits
  <2>5. CASE DrainDeleted
    <3>1. drain.await = "delete" /\ outbox' = {i \in outbox : Key(i) # Key(drain.item)}
      BY <2>5 DEF DrainDeleted
    <3>2. d.putOutbox = {} /\ d.deleteOutbox = {Key(drain.item)}
      BY <2>4, <3>1 DEF DrainOps, NoOps
    <3>3. disk'.outbox = {i \in disk.outbox : Key(i) # Key(drain.item)}
      BY <2>4, <3>2 DEF Applied
    <3> QED BY <2>2, <2>3, <3>1, <3>3 DEF Moves, Deletes
  <2>6. CASE DrainRejected
    <3>1. drain.await = "reject" /\ outbox' = outbox
      BY <2>6 DEF DrainRejected, memory
    <3>2. d.putOutbox = {} /\ d.deleteOutbox = {}
      BY <2>4, <3>1 DEF DrainOps, NoOps
    <3>3. disk'.outbox = disk.outbox
      BY <2>4, <3>2 DEF Applied
    <3> QED BY <2>2, <2>3, <3>1, <3>3 DEF Moves, Steady
  <2> QED BY <1>1, <2>5, <2>6
<1>2. CASE /\ op' = op /\ trip' = trip /\ disk' = disk /\ sealed' = sealed /\ outbox' = outbox
  BY <1>2, AsideMoves DEF Moves, Steady
<1>3. CASE DrainFailed \/ RetryFires \/ RetryNow \/ ClockMoves \/ UNCHANGED vars
  BY <1>2, <1>3 DEF DrainFailed, RetryFires, RetryNow, ClockMoves, vars, memory, history
<1>4. ASSUME NEW kind \in Kinds, DrainAnswer(kind) PROVE Moves
  BY <1>2, <1>4 DEF DrainAnswer
<1> QED BY <1>1, <1>3, <1>4 DEF Uploads

(* What the calls of the application start from. *)
LEMMA FreshIsCarried ==
  ASSUME sealed' = sealed \/ (op.await \in Storing /\ trip = op.t /\ trip # NULL
                              /\ Proposed(op.t, op.items, sealed)
                              /\ sealed' = sealed \cup op.items)
  PROVE  FreshTrips \subseteq Carried
<1>1. \A i \in sealed' : i.trip \notin FreshTrips
  BY DEF FreshTrips, Proposed
<1> QED BY <1>1 DEF FreshTrips, Carried

(* The open trip is finalized. *)
LEMMA EndingMoves ==
  ASSUME Inv, trip # NULL, NEW q, NEW arrived \in BOOLEAN, NEW then,
         Finalizing(q, trip, arrived, EndTime(trip, clock), then), trip' = op'.t,
         then.do # "orphans", disk'.trips = disk.trips
  PROVE  Within(Carried) /\ StaysOn
<1>1. PICK ids, t0, at : ids = Carried /\ t0 = trip /\ at = clock
  OBVIOUS
<1>2. GoodTrip(t0) /\ at \in Nat /\ clock \in Nat
  BY <1>1, InvParts DEF Sound
<1>3. t0.tripId \in ids
  BY <1>1 DEF Carried, InMemory, Open
<1>4. Finalizing(q, t0, arrived, EndTime(t0, at), then)
  BY <1>1
<1>5. Within(ids)
  BY <1>2, <1>3, <1>4, FinalWithin
<1> QED BY <1>1, <1>5 DEF StaysOn, Live

(* The calls of the application. *)
LEMMA CallsMove ==
  ASSUME Inv, Called
  PROVE  Moves
<1>1. CASE RetryNow
  BY <1>1, UploadsMove
<1>2. op = Idle /\ outbox' = outbox /\ disk' = disk /\ sealed' = sealed
  BY DEF Called, OptIn, SetEnabled, Forget, RetryNow, Reroute, StartTripCalled, AddFix, EndTrip,
     memory, history
<1>3. CASE Within(Carried)
  BY <1>2, <1>3 DEF Moves, Steady, StaysOn, Live
<1>4. ASSUME (\E k \in Tokens : OptIn(k)) \/ (\E enabled \in BOOLEAN : SetEnabled(enabled)) \/ Forget
      PROVE  Moves
  <2>1. op'.await \notin Storing /\ trip' = trip
    BY <1>4 DEF OptIn, SetEnabled, Forget, memory, Storing
  <2> QED BY <1>2, <1>3, <2>1, RestMoves DEF Live
<1>5. ASSUME NEW t, NEW items, trip # NULL, Putting(txns, t, items), Follows(trip, t, items, clock)
      PROVE  Moves
  <2>1. PICK ids : ids = Carried
    OBVIOUS
  <2>2. t.tripId \in ids
    BY <1>5, <2>1 DEF Follows, Carried, InMemory, Open
  <2> QED BY <1>3, <1>5, <2>1, <2>2, PutWithin
<1>6. ASSUME NEW line \in Routes, Reroute(line) PROVE Moves
  BY <1>5, <1>6, RerouteIs DEF Reroute
<1>7. ASSUME NEW fix \in Fixes, AddFix(fix) PROVE Moves
  BY <1>5, <1>7, AddFixIs DEF AddFix
<1>8. ASSUME NEW arrived \in BOOLEAN, EndTrip(arrived) PROVE Moves
  <2>1. Leaving.do # "orphans"
    BY DEF Leaving
  <2> QED BY <1>2, <1>3, <1>8, <2>1, EndingMoves DEF EndTrip
<1>9. ASSUME NEW line \in Routes, NEW dest \in Destinations, StartTripCalled(line, dest)
      PROVE  Moves
  <2>1. CASE StartTrip(txns, line, dest)
    <3>1. PICK ids : ids = Carried
      OBVIOUS
    <3>2. FreshTrips \subseteq ids /\ clock \in 0..MaxClock
      BY <1>2, <3>1, FreshIsCarried, InvParts
    <3> QED BY <1>3, <2>1, <3>1, <3>2, StartWithin
  <2>2. CASE /\ trip # NULL /\ trip' = op'.t
             /\ Finalizing(txns, trip, FALSE, EndTime(trip, clock), Starting(line, dest))
    <3>1. Starting(line, dest).do # "orphans"
      BY DEF Starting
    <3> QED BY <1>2, <1>3, <2>2, <3>1, EndingMoves
  <2> QED BY <1>9, <2>1, <2>2 DEF StartTripCalled
<1> QED BY <1>1, <1>4, <1>6, <1>7, <1>8, <1>9 DEF Called

(* init has read storage. *)
LEMMA InitLoadedMoves ==
  ASSUME Inv, InitLoaded
  PROVE  Moves
<1>1. /\ op.await = "load" /\ outbox' = disk.outbox
      /\ EndOrphans(Tail(txns), disk.trips, disk.settings, disk.outbox, retry)
      /\ UNCHANGED <<trip, disk, clock, sealed>>
  BY DEF InitLoaded
<1>2. trip' = NULL /\ clock \in Nat
  BY <1>1, InvParts DEF Inv, OpInv
<1>3. PICK ids : ids = {t.tripId : t \in disk.trips}
  OBVIOUS
<1>4. \A t \in disk.trips : GoodTrip(t) /\ t.tripId \in ids
  BY <1>3, InvParts DEF TripsOnDisk, Sound
<1>5. Within(ids)
  BY <1>1, <1>2, <1>4, OrphansWithin
<1> QED BY <1>1, <1>3, <1>5 DEF Moves, Loads

(* What an operation commits with its trip. *)
LEMMA StoringCommits ==
  ASSUME Inv, Commits("op"), op.await \in Storing
  PROVE  /\ sealed' = sealed \cup op.items /\ disk'.outbox = disk.outbox \cup op.items
         /\ Proposed(op.t, op.items, sealed) /\ StaysOn
         /\ op.await = "finalize" => disk'.trips = {u \in disk.trips : u.tripId # op.t.tripId}
         /\ \A u \in disk'.trips : GoodTrip(u)
<1>1. /\ sealed' = sealed \cup op.items
      /\ disk'.outbox = {j \in disk.outbox : \A p \in op.items : Key(p) # Key(j)} \cup op.items
      /\ disk'.trips \subseteq disk.trips \cup {op.t}
      /\ op.await = "finalize" => disk'.trips = {u \in disk.trips : u.tripId # op.t.tripId}
      /\ \A u \in disk'.trips : GoodTrip(u)
  BY PutCommit, FinalCommit DEF Storing, Sound
<1>2. disk.outbox \subseteq sealed
  BY InvParts
<1>3. disk'.outbox = disk.outbox \cup op.items
  BY <1>1, <1>2, FreshKeys
<1>4. Proposed(op.t, op.items, sealed)
  BY DEF Inv, OpInv
<1>5. disk'.trips \subseteq Live
  BY <1>1 DEF Live, Pending
<1> QED BY <1>1, <1>3, <1>4, <1>5 DEF StaysOn

(* A finalization has committed, and its continuation runs. *)
LEMMA FinalizedMoves ==
  ASSUME Inv, Finalized
  PROVE  Moves
<1>1. op.await = "finalize" /\ op.await \in Storing /\ Commits("op") /\ outbox' = outbox \cup op.items
      /\ clock' = clock
  BY DEF Finalized, Storing
<1>2. /\ sealed' = sealed \cup op.items /\ disk'.outbox = disk.outbox \cup op.items
      /\ Proposed(op.t, op.items, sealed) /\ StaysOn
      /\ disk'.trips = {u \in disk.trips : u.tripId # op.t.tripId}
      /\ \A u \in disk'.trips : GoodTrip(u)
  BY <1>1, StoringCommits
<1>3. clock \in Nat /\ clock \in 0..MaxClock
  BY InvParts
<1>4. PICK ids : ids = Carried
  OBVIOUS
<1>5. CASE trip' = NULL /\ op' = Idle
  <2>1. op'.await \notin Storing /\ \A t \in Open(trip') : t.tripId \in ids
    BY <1>5 DEF Idle, Storing, Open
  <2>2. Within(ids)
    BY <2>1, RestWithin
  <2> QED BY <1>1, <1>2, <1>4, <2>2 DEF Moves, Seals
<1>6. CASE /\ op.then.do = "orphans" /\ trip' = trip
           /\ EndOrphans(Tail(txns), op.then.trips, settings, outbox', retry)
  <2>1. trip' = NULL /\ op.then.trips = disk'.trips
    BY <1>1, <1>2, <1>6 DEF Inv, OpInv
  <2>2. \A t \in op.then.trips : GoodTrip(t) /\ t.tripId \in ids
    BY <1>1, <1>2, <1>4, <1>6, <2>1 DEF Carried, InMemory, Orphans
  <2>3. Within(ids)
    BY <1>3, <1>6, <2>1, <2>2, OrphansWithin
  <2> QED BY <1>1, <1>2, <1>4, <2>3 DEF Moves, Seals
<1>7. CASE /\ op.then.do = "start"
           /\ StartTrip(Tail(txns), op.then.line, op.then.destination)
  <2>1. trip = op.t /\ op.then.line \in Routes /\ op.then.destination \in Destinations
    BY <1>1, <1>7 DEF Inv, OpInv
  <2>2. trip # NULL
    BY <1>2, <2>1, DeviceAssumption DEF Proposed, Sound, GoodTrip
  <2>3. FreshTrips \subseteq ids
    BY <1>1, <1>2, <1>4, <2>1, <2>2, FreshIsCarried
  <2>4. Within(ids)
    BY <1>3, <1>7, <2>1, <2>3, StartWithin
  <2> QED BY <1>1, <1>2, <1>4, <2>4 DEF Moves, Seals
<1> QED BY <1>5, <1>6, <1>7 DEF Finalized, LeaveFlushing

(* The continuations of operations. *)
LEMMA ContinuesMove ==
  ASSUME Inv, Continues
  PROVE  Moves
<1>1. CASE op'.await \notin Storing /\ (trip' = trip \/ trip' = NULL) /\ disk'.trips = disk.trips
           /\ sealed' = sealed /\ outbox' = outbox /\ disk'.outbox = disk.outbox
  BY <1>1, RestMoves DEF Moves, Steady, Live
<1>2. CASE InitCalled \/ ForgetLoaded \/ OpFailed
  BY <1>1, <1>2 DEF InitCalled, ForgetLoaded, OpFailed, LeaveQuietly, memory, history, Idle, Storing
<1>3. CASE OptedIn
  <2>1. sealed' = sealed /\ disk'.trips = disk.trips /\ disk'.outbox = disk.outbox
    BY <1>3, SettingsCommit DEF OptedIn
  <2> QED BY <1>1, <1>3, <2>1 DEF OptedIn, LeaveFlushing, Idle, Storing
<1>4. CASE EnabledSet
  <2>1. sealed' = sealed /\ disk'.trips = disk.trips /\ disk'.outbox = disk.outbox /\ outbox' = outbox
    BY <1>4, SettingsCommit DEF EnabledSet
  <2>2. CASE /\ trip # NULL /\ trip' = op'.t
             /\ Finalizing(Tail(txns), trip, FALSE, EndTime(trip, clock), Leaving)
    <3>1. Leaving.do # "orphans"
      BY DEF Leaving
    <3> QED BY <2>1, <2>2, <3>1, EndingMoves DEF Moves, Steady
  <2>3. CASE trip' = trip /\ op' = Idle
    BY <1>1, <2>1, <2>3 DEF Idle, Storing
  <2> QED BY <1>4, <2>2, <2>3 DEF EnabledSet, LeaveFlushing
<1>5. CASE Forgotten
  <2>1. /\ op.await = "forget" /\ sealed' = sealed /\ disk'.trips = {} /\ disk'.outbox = {}
        /\ outbox' = {} /\ trip' = NULL /\ op' = Idle
    BY <1>5, ForgetCommit DEF Forgotten, LeaveQuietly
  <2>2. InMemory' = {}
    BY <2>1 DEF InMemory, Open, Pending, Orphans, Storing, Idle
  <2> QED BY <2>1, <2>2 DEF Moves, Wipes
<1>6. CASE Put
  <2>1. op.await = "put" /\ op.await \in Storing /\ Commits("op") /\ outbox' = outbox \cup op.items
        /\ trip' = trip /\ op' = Idle
    BY <1>6 DEF Put, LeaveFlushing, LeaveQuietly, Storing
  <2>2. /\ sealed' = sealed \cup op.items /\ disk'.outbox = disk.outbox \cup op.items /\ StaysOn
    BY <2>1, StoringCommits
  <2>3. PICK ids : ids = Carried
    OBVIOUS
  <2>4. op'.await \notin Storing /\ \A t \in Open(trip') : t.tripId \in ids
    BY <2>1, <2>3 DEF Idle, Storing, Carried, InMemory
  <2>5. Within(ids)
    BY <2>4, RestWithin
  <2> QED BY <2>1, <2>2, <2>3, <2>5 DEF Moves, Seals
<1> QED BY <1>2, <1>3, <1>4, <1>5, <1>6, InitLoadedMoves, FinalizedMoves DEF Continues

(* Every step moves memory and storage in one of six ways. *)
LEMMA StepMoves ==
  ASSUME Inv, [Next]_vars
  PROVE  Moves
<1>1. CASE Crash
  <2>1. /\ sealed' = sealed /\ disk' = disk /\ outbox' = {} /\ trip' = NULL
        /\ op' = [await |-> "launch"]
    BY <1>1 DEF Crash, history
  <2>2. InMemory' = {}
    BY <2>1 DEF InMemory, Open, Pending, Orphans, Storing
  <2> QED BY <2>1, <2>2 DEF Moves, Dies
<1>2. ASSUME NEW good \in BOOLEAN, Checked(good) PROVE Moves
  <2>1. op'.await \notin Storing /\ trip' = trip /\ disk' = disk /\ sealed' = sealed /\ outbox' = outbox
    BY <1>2 DEF Checked, Idle, Storing, history
  <2> QED BY <2>1, RestMoves DEF Moves, Steady, Live
<1> QED BY <1>1, <1>2, UploadsMove, CallsMove, ContinuesMove DEF Next, Device
-----------------------------------------------------------------------------
(* What the service holds of the device's items. *)

(* A sealed item is an upload the service accepts. *)
LEMMA GoodUpload ==
  ASSUME NEW i, GoodItem(i)
  PROVE  /\ i.trip \in Trips /\ i.part \in Ingest!Parts
         /\ i.body \in UploadBodies /\ i.body # NULL /\ ValidBody(i.body)
<1>1. /\ i.trip \in Trips /\ i.part \in Ingest!Parts /\ i.body \in UploadBodies
  BY DEF GoodItem, ChunkBody, EndBodies, Artifact, UploadBodies, Ingest!Parts
<1>2. i.body # NULL
  BY <1>1, IngestAssumed DEF Ingest!StoreAssumption
<1>3. ValidBody(i.body)
  BY DEF GoodItem, ChunkBody, EndBodies, ValidBody
<1> QED BY <1>1, <1>2, <1>3

(* One item to a key. *)
LEMMA OneItem ==
  ASSUME NEW S, Orderly(S), NEW i \in S, NEW j \in S, i.trip = j.trip, i.part = j.part
  PROVE  i = j
<1>1. ~ItemBefore(i, j) /\ ~ItemBefore(j, i)
  BY SealingAssumption DEF ItemBefore
<1> QED BY <1>1 DEF Orderly

(* Either module's reading of a row is the same. *)
LEMMA HeldIs ==
  ASSUME NEW i
  PROVE  /\ HeldByServer(i) <=> Ingest!HeldContent(i.trip, i.part) = i.body
         /\ HeldByServer(i)' <=> Ingest!HeldContent(i.trip, i.part)' = i.body
BY DEF HeldByServer, Store!HeldContent, Store!RowOf, Ingest!HeldContent, Ingest!RowOf

(* What the service holds it goes on holding. *)
LEMMA HeldStays ==
  ASSUME Ingest!TypeOK, [Ingest!Next]_(Ingest!vars), NEW i, GoodItem(i), HeldByServer(i)
  PROVE  HeldByServer(i)'
<1>1. Ingest!AppendOnlyStep
  BY IngestAssumed, Ingest!StepAppends
<1>2. PICK t, p, b : t = i.trip /\ p = i.part /\ b = i.body
  OBVIOUS
<1>3. t \in Trips /\ p \in Ingest!Parts /\ b # NULL
  BY <1>2, GoodUpload
<1>4. Ingest!HeldContent(t, p) = b
  BY <1>2, HeldIs
<1>5. Ingest!HeldContent(t, p)' = b
  BY <1>1, <1>3, <1>4, IngestAssumed, Ingest!ContentStays
<1> QED BY <1>2, <1>5, HeldIs

(* What is sealed stays in the history. *)
LEMMA SealedGrows ==
  ASSUME Inv, [Next]_vars
  PROVE  sealed \subseteq sealed'
BY SealedIs
-----------------------------------------------------------------------------
(* The two sides together.                                                  *)
Carries(u, i) == u.trip = i.trip /\ u.part = i.part /\ u.body = i.body

(* The service's side. *)
ServiceInv == Ingest!TypeOK /\ Ingest!AnswerIsHeld /\ Ingest!Told

(* The worker the device waits for handles what the device has sent.        *)
LinkInv ==
  link # NULL =>
    /\ link \in Workers /\ drain.await = "answer"
    /\ req[link] # NULL => /\ req[link].upload.token = drain.token
                           /\ Carries(req[link].upload, drain.item)

(* Whatever is under way, answered to nobody or not, is a sealed item, and  *)
(* it was neither refused nor a conflict.                                   *)
ReqInv ==
  \A w \in Workers : req[w] # NULL =>
    /\ \E i \in sealed : Carries(req[w].upload, i)
    /\ req[w].status \notin {409, 422}

(* Every row is of a sealed item. *)
RowInv ==
  \A t \in Trips, p \in Ingest!Parts :
    Ingest!HeldContent(t, p) # NULL =>
      \E i \in sealed : i.trip = t /\ i.part = p /\ i.body = Ingest!HeldContent(t, p)

PathInv == Inv /\ SentInv /\ ServiceInv /\ LinkInv /\ ReqInv /\ RowInv

(* The drain's token is still one of the device's. *)
LEMMA SentNext ==
  ASSUME Inv, SentInv, [Next]_vars
  PROVE  SentInv'
<1>1. Sending
  BY StepSends
<1>2. ASSUME NEW kind \in Kinds, DrainAnswer(kind) PROVE drain'.await # "answer"
  BY <1>2 DEF DrainAnswer, Idle
<1> QED BY <1>1, <1>2 DEF Sending, SentInv, Idle

(* The service's own steps begin no request. *)
LEMMA IdleStaysIdle ==
  ASSUME Ingest!TypeOK, NEW w \in Workers, req[w] = NULL, ServerSteps \/ \E v \in Workers : Reply(v)
  PROVE  req'[w] = NULL
<1>1. req = [x \in Workers |-> req[x]]
  BY DEF Ingest!TypeOK
<1>2. ASSUME NEW v \in Workers, ServerHandles(v) PROVE req'[w] = req[w]
  <2>1. v # w /\ (req' = req \/ \E r : req' = [req EXCEPT ![v] = r])
    BY <1>2 DEF ServerHandles, Store!Authenticate, Store!PutChunk, Store!EndTrip, Store!Answered
  <2> QED BY <1>1, <2>1
<1>3. ASSUME NEW v \in Workers, Reply(v) PROVE req'[w] = req[w]
  <2>1. v # w /\ req' = [req EXCEPT ![v] = NULL]
    BY <1>3 DEF Reply, Store!Respond
  <2> QED BY <1>1, <2>1
<1>4. ASSUME \/ \E k \in Tokens : Store!Issue(k) \/ Store!Revoke(k)
             \/ Store!PurgeBegin \/ Store!PurgeWrite \/ Store!Crash \/ Store!Tick
      PROVE  req'[w] = NULL
  BY <1>4 DEF Store!Issue, Store!Revoke, Store!PurgeBegin, Store!PurgeWrite, Store!Crash, Store!Tick
<1> QED BY <1>2, <1>3, <1>4 DEF ServerSteps

(* A request begins where the device sends. *)
LEMMA BegunBySending ==
  ASSUME Ingest!TypeOK, [UploadNext]_all, NEW w \in Workers, req[w] = NULL, req'[w] # NULL
  PROVE  Carry(w)
<1>1. CASE ServerSteps \/ \E v \in Workers : Reply(v)
  BY <1>1, IdleStaysIdle
<1>2. CASE UNCHANGED all \/ FetchFails \/ CheckToken \/ Killed \/ DeviceSteps
  <2>1. req' = req
    BY <1>2 DEF all, server, FetchFails, CheckToken, Killed, DeviceSteps
  <2> QED BY <2>1
<1>3. ASSUME NEW v \in Workers, Carry(v), v # w PROVE FALSE
  <2>1. \E r : req' = [req EXCEPT ![v] = r]
    BY <1>3 DEF Carry, Store!Receive
  <2>2. req'[w] = req[w]
    BY <1>3, <2>1 DEF Ingest!TypeOK
  <2> QED BY <2>2
<1> QED BY <1>1, <1>2, <1>3 DEF UploadNext

(* What a worker takes on. *)
LEMMA CarriedIs ==
  ASSUME Ingest!TypeOK, NEW w \in Workers, Carry(w)
  PROVE  /\ req'[w].upload.token = drain.token /\ Carries(req'[w].upload, drain.item)
         /\ req'[w].status = NULL
         /\ \A v \in Workers : v # w => req'[v] = req[v]
BY DEF Carry, Store!Receive, Carries, Ingest!TypeOK

(* The worker waited for goes on handling what was sent. *)
LEMMA LinkNext ==
  ASSUME Inv, SentInv, Ingest!TypeOK, LinkInv, [UploadNext]_all
  PROVE  LinkInv'
<1> SUFFICES ASSUME link' # NULL
             PROVE  /\ link' \in Workers /\ drain'.await = "answer"
                    /\ req'[link'] # NULL => /\ req'[link'].upload.token = drain'.token
                                             /\ Carries(req'[link'].upload, drain'.item)
  BY DEF LinkInv, Carries
<1>1. CASE UNCHANGED all
  BY <1>1 DEF all, device, vars, server, LinkInv, Carries
<1>2. ASSUME NEW w \in Workers, Carry(w) PROVE link' = w /\ drain' = drain /\ drain.await = "answer"
  BY <1>2 DEF Carry, device, vars
<1>3. CASE \E w \in Workers : Carry(w)
  BY <1>2, <1>3, CarriedIs
<1>4. ASSUME NEW w \in Workers, Reply(w)
      PROVE  link' = link /\ drain' = drain /\ req'[link] = req[link]
  <2>1. link # w /\ link' = link /\ drain' = drain /\ req' = [req EXCEPT ![w] = NULL]
    BY <1>4 DEF Reply, Store!Respond, device, vars
  <2>2. link \in Workers
    BY <2>1 DEF LinkInv
  <2> QED BY <2>1, <2>2 DEF Ingest!TypeOK
<1>5. CASE \E w \in Workers : Reply(w)
  BY <1>4, <1>5 DEF LinkInv
<1>6. CASE CheckToken \/ DeviceSteps
  <2>1. link' = link /\ req' = req /\ drain.await = "answer"
    BY <1>6 DEF CheckToken, DeviceSteps, server, LinkInv
  <2>2. Store!Active(op.token) \in BOOLEAN
    BY DEF Store!Active
  <2>3. drain' = drain
    BY <1>6, <2>1, <2>2, AnswerIsAwaited DEF CheckToken, DeviceSteps
  <2> QED BY <2>1, <2>3 DEF LinkInv
<1>7. CASE ServerSteps
  <2>1. link' = link /\ drain' = drain /\ link \in Workers
    BY <1>7 DEF ServerSteps, device, vars, LinkInv
  <2>2. [Ingest!Next]_(Ingest!vars)
    BY ServiceStep
  <2>3. PICK w \in Workers : w = link
    BY <2>1
  <2>4. req'[w] # NULL => req[w] # NULL
    BY <1>7, IdleStaysIdle
  <2>5. ASSUME req'[w] # NULL PROVE req'[w].upload = req[w].upload
    <3>2. \/ \E u \in Ingest!Uploads : Ingest!Receive(w, u)
          \/ req'[w].upload = req[w].upload
      BY <2>2, <2>5, IngestAssumed, Ingest!RequestIs
    <3> QED BY <2>4, <2>5, <3>2 DEF Ingest!Receive
  <2> QED BY <2>1, <2>3, <2>4, <2>5 DEF LinkInv
<1> QED BY <1>1, <1>3, <1>5, <1>6, <1>7 DEF UploadNext, FetchFails, Killed

(* A worker's request after a step is one it had, or the device's. *)
LEMMA ReqNext ==
  ASSUME PathInv, [UploadNext]_all
  PROVE  ReqInv'
<1> SUFFICES ASSUME NEW w \in Workers, req'[w] # NULL
             PROVE  /\ \E i \in sealed' : Carries(req'[w].upload, i)
                    /\ req'[w].status \notin {409, 422}
  BY DEF ReqInv, Carries
<1>1. sealed \subseteq sealed' /\ Orderly(sealed) /\ \A i \in sealed : GoodItem(i)
  BY DeviceStep, SealedGrows DEF PathInv, Inv, ItemInv, Orderly
<1>2. CASE req[w] = NULL
  <2>1. Carry(w)
    BY <1>2, BegunBySending DEF PathInv, ServiceInv
  <2>2. drain.item \in sealed
    BY <2>1 DEF Carry, PathInv, Inv, ItemInv, Idle
  <2>3. NULL \notin Nat
    BY IngestAssumed DEF Ingest!StoreAssumption
  <2> QED BY <1>1, <2>1, <2>2, <2>3, CarriedIs DEF PathInv, ServiceInv
<1>3. CASE req[w] # NULL
  <2>1. PICK i \in sealed : Carries(req[w].upload, i) /\ req[w].status \notin {409, 422}
    BY <1>3 DEF PathInv, ReqInv
  <2>2. /\ req'[w].upload = req[w].upload
        /\ Ingest!MayAnswer(req[w].upload, req[w].status, req'[w].status)
    <3>1. Ingest!TypeOK /\ [Ingest!Next]_(Ingest!vars)
      BY ServiceStep DEF PathInv, ServiceInv
    <3> QED BY <1>3, <3>1, IngestAssumed, Ingest!RequestIs DEF Ingest!Receive
  <2>3. i.trip \in Trips /\ i.part \in Ingest!Parts /\ ValidBody(i.body)
    BY <1>1, GoodUpload
  <2>4. Ingest!HeldContent(i.trip, i.part) \in {NULL, i.body}
    <3>1. ASSUME Ingest!HeldContent(i.trip, i.part) # NULL
          PROVE  Ingest!HeldContent(i.trip, i.part) = i.body
      <4>1. PICK j \in sealed : /\ j.trip = i.trip /\ j.part = i.part
                                /\ j.body = Ingest!HeldContent(i.trip, i.part)
        BY <2>3, <3>1 DEF PathInv, RowInv
      <4>2. i = j
        BY <1>1, <4>1, OneItem
      <4> QED BY <4>1, <4>2
    <3> QED BY <3>1
  <2>5. req'[w].status \notin {409, 422}
    BY <2>1, <2>2, <2>3, <2>4 DEF Ingest!MayAnswer, Carries
  <2> QED BY <1>1, <2>1, <2>2, <2>5
<1> QED BY <1>2, <1>3

(* What a row holds after a step it held, or a request brought. *)
LEMMA RowNext ==
  ASSUME PathInv, [UploadNext]_all
  PROVE  RowInv'
<1> SUFFICES ASSUME NEW t \in Trips, NEW p \in Ingest!Parts, Ingest!HeldContent(t, p)' # NULL
             PROVE  \E i \in sealed' : i.trip = t /\ i.part = p /\ i.body = Ingest!HeldContent(t, p)'
  BY DEF RowInv
<1>1. sealed \subseteq sealed'
  BY DeviceStep, SealedGrows DEF PathInv
<1>2. Ingest!TypeOK /\ [Ingest!Next]_(Ingest!vars)
  BY ServiceStep DEF PathInv, ServiceInv
<1>3. CASE Ingest!HeldContent(t, p)' = Ingest!HeldContent(t, p)
  BY <1>1, <1>3 DEF PathInv, RowInv
<1>4. ASSUME NEW w \in Workers, req[w] # NULL, req[w].upload.trip = t, req[w].upload.part = p,
             Ingest!HeldContent(t, p)' = req[w].upload.body
      PROVE  \E i \in sealed' : i.trip = t /\ i.part = p /\ i.body = Ingest!HeldContent(t, p)'
  BY <1>1, <1>4 DEF PathInv, ReqInv, Carries
<1> QED BY <1>2, <1>3, <1>4, IngestAssumed, Ingest!ContentIs

(* The invariant of the path at the start. *)
LEMMA PathInit == UploadInit => PathInv
<1> SUFFICES ASSUME UploadInit PROVE PathInv
  OBVIOUS
<1>1. Inv /\ SentInv /\ LinkInv
  BY InitInv DEF UploadInit, Init, SentInv, LinkInv, Idle
<1>2. Ingest!Init
  BY DEF UploadInit, Store!Init, Ingest!Init
<1>3. Ingest!TypeOK
  BY <1>2, IngestAssumed, Ingest!TypeInit
<1>4. \A w \in Workers : req[w] = NULL
  BY <1>2 DEF Ingest!Init
<1>5. \A t \in Trips, p \in Ingest!Parts : Ingest!HeldContent(t, p) = NULL
  BY <1>2 DEF Ingest!Init, Ingest!HeldContent, Ingest!RowOf, Ingest!Parts
<1> QED BY <1>1, <1>3, <1>4, <1>5
     DEF PathInv, ServiceInv, ReqInv, RowInv, Ingest!AnswerIsHeld, Ingest!Told

(* The invariant of the path after a step. *)
LEMMA PathStep ==
  ASSUME PathInv, [UploadNext]_all
  PROVE  PathInv'
<1>1. Inv' /\ SentInv'
  BY DeviceStep, StepInv, SentNext DEF PathInv
<1>2. [Ingest!Next]_(Ingest!vars)
  BY ServiceStep DEF PathInv
<1>3. Ingest!TypeOK'
  BY <1>2, IngestAssumed, Ingest!TypeNext DEF PathInv, ServiceInv
<1>4. Ingest!AnswerIsHeld'
  BY <1>2, IngestAssumed, Ingest!AnswerNext DEF PathInv, ServiceInv
<1>5. Ingest!Told'
  BY <1>2, IngestAssumed, Ingest!ToldNext DEF PathInv, ServiceInv
<1> QED BY <1>1, <1>3, <1>4, <1>5, LinkNext, ReqNext, RowNext DEF PathInv, ServiceInv

(* The invariant of the path. *)
LEMMA PathHolds == UploadSpec => []PathInv
<1>1. PathInv /\ [UploadNext]_all => PathInv'
  BY PathStep
<1> QED BY <1>1, PathInit, PTL DEF UploadSpec

(* Put together, the recorder and the service still run as each does by     *)
(* itself, so whatever is proved of either holds of the path.               *)
THEOREM DeviceIsTheRecorder == UploadSpec => Spec
<1>1. UploadInit => Init
  BY DEF UploadInit
<1>2. [UploadNext]_all => [Next]_vars
  BY DeviceStep
<1> QED BY <1>1, <1>2, PTL DEF UploadSpec, Spec

(* And the service, for whatever the network carries to it. *)
THEOREM ServiceIsTheStore == UploadSpec => Ingest!Spec
<1>1. UploadInit => Ingest!Init
  BY DEF UploadInit, Store!Init, Ingest!Init
<1>2. PathInv /\ [UploadNext]_all => [Ingest!Next]_(Ingest!vars)
  BY ServiceStep DEF PathInv
<1> QED BY <1>1, <1>2, PathHolds, PTL DEF UploadSpec, Ingest!Spec

(* app.py's header lets a client retry anything: whatever is lost, killed,  *)
(* purged or carried out late, the service neither refuses a body of this   *)
(* client's with a 422 nor answers a repeat with a 409.                     *)
THEOREM RetriesAreReplays == UploadSpec => []EveryRetryIsAReplay
<1>1. PathInv => EveryRetryIsAReplay
  BY DEF PathInv, ReqInv, EveryRetryIsAReplay
<1> QED BY <1>1, PathHolds, PTL
-----------------------------------------------------------------------------
(* A device with one token. *)
OneToken == \A k, l \in Tokens : k = l

(* No answer says that the trip is another tester's. *)
NoStranger == \A w \in Workers : req[w] # NULL => req[w].status # 404

(* What the drain is deleting the service holds. *)
DropInv == drain.await = "delete" => HeldByServer(drain.item)

(* The service knows the trips of a device with one token as that token's.  *)
LEMMA StrangerNext ==
  ASSUME OneToken, PathInv, NoStranger, [UploadNext]_all
  PROVE  NoStranger'
<1> SUFFICES ASSUME NEW w \in Workers, req'[w] # NULL PROVE req'[w].status # 404
  BY DEF NoStranger
<1>1. Ingest!TypeOK /\ [Ingest!Next]_(Ingest!vars)
  BY ServiceStep DEF PathInv, ServiceInv
<1>2. CASE req'[w].status = NULL
  BY <1>2, IngestAssumed DEF Ingest!StoreAssumption
<1>3. CASE req[w] # NULL /\ Ingest!MayAnswer(req[w].upload, req[w].status, req'[w].status)
  <2>1. req[w].upload \in Ingest!Uploads
    BY <1>1, <1>3 DEF Ingest!TypeOK, Ingest!Request
  <2>2. PICK u : u = req[w].upload
    OBVIOUS
  <2>3. u.trip \in Trips /\ u.token \in Tokens
    BY <2>1, <2>2 DEF Ingest!Uploads
  <2>4. trips[u.trip] \in Tokens \cup {NULL}
    BY <1>1, <2>3 DEF Ingest!TypeOK
  <2>5. Ingest!Yours(u)
    BY <2>3, <2>4 DEF OneToken, Ingest!Yours
  <2> QED BY <1>3, <2>2, <2>5 DEF NoStranger, Ingest!MayAnswer
<1> QED BY <1>1, <1>2, <1>3, IngestAssumed, Ingest!RequestIs

(* While the device awaits an answer only an answer, a failed fetch or a    *)
(* kill ends that.                                                          *)
LEMMA DrainMoves ==
  ASSUME PathInv, [UploadNext]_all
  PROVE  \/ drain' = drain \/ drain' = Idle
         \/ \E w \in Workers : /\ link = w /\ Store!Respond(w)
                               /\ DrainAnswer(Classify(req[w].status))
         \/ drain.await # "answer" /\ drain'.await = "answer" /\ drain'.item \in outbox'
<1>1. CASE UNCHANGED all \/ ServerSteps \/ \E w \in Workers : Carry(w)
  BY <1>1 DEF all, device, vars, ServerSteps, Carry
<1>2. CASE \E w \in Workers : Reply(w)
  BY <1>2 DEF Reply, device, vars
<1>3. CASE FetchFails \/ Killed
  BY <1>3 DEF FetchFails, Killed, DrainAnswer, Crash
<1>4. CASE CheckToken \/ DeviceSteps
  <2>1. Sending
    BY DeviceStep, StepSends DEF PathInv
  <2>2. Store!Active(op.token) \in BOOLEAN
    BY DEF Store!Active
  <2>3. CASE drain.await = "answer"
    BY <1>4, <2>2, <2>3, AnswerIsAwaited DEF PathInv, CheckToken, DeviceSteps
  <2>4. CASE drain.await # "answer"
    BY <2>1, <2>4 DEF Sending, DrainAnswer
  <2> QED BY <2>3, <2>4
<1> QED BY <1>1, <1>2, <1>3, <1>4 DEF UploadNext

(* The drain drops an item only for a 200 or a 201. *)
LEMMA DropNext ==
  ASSUME PathInv, NoStranger, DropInv, [UploadNext]_all
  PROVE  DropInv'
<1> SUFFICES ASSUME drain'.await = "delete", NEW i, i = drain'.item PROVE HeldByServer(i)'
  BY DEF DropInv, HeldByServer, Store!HeldContent, Store!RowOf
<1>1. Ingest!TypeOK /\ [Ingest!Next]_(Ingest!vars) /\ Ingest!AnswerIsHeld /\ Ingest!Told
  BY ServiceStep DEF PathInv, ServiceInv
<1>2. \A j \in sealed : GoodItem(j)
  BY DEF PathInv, Inv, ItemInv, Orderly
<1>3. CASE drain' = drain
  <2>1. drain.await = "delete" /\ drain.item = i
    BY <1>3
  <2>2. i \in sealed
    BY <2>1 DEF PathInv, Inv, ItemInv, Idle
  <2>3. HeldByServer(i)
    BY <2>1 DEF DropInv
  <2> QED BY <1>1, <1>2, <2>2, <2>3, HeldStays
<1>4. ASSUME NEW w \in Workers, link = w, Store!Respond(w), DrainAnswer(Classify(req[w].status))
      PROVE  HeldByServer(i)'
  <2>1. /\ Classify(req[w].status) \in {"done", "permanent"}
        /\ drain.await = "answer" /\ drain.item = i
    BY <1>4 DEF DrainAnswer, Idle
  <2>2. i \in sealed
    BY <2>1 DEF PathInv, Inv, ItemInv, Idle
  <2>3. req[w] # NULL /\ req[w].pc = "answer"
    BY <1>4 DEF Store!Respond
  <2>4. link # NULL
    BY <1>4, UploadAssumption
  <2>5. Carries(req[w].upload, i)
    BY <1>4, <2>1, <2>3, <2>4 DEF PathInv, LinkInv
  <2>6. /\ req[w].status \in {NULL, 200, 201, 401, 404, 409, 422} /\ req[w].status # NULL
        /\ req[w].status \notin {404, 409, 422} /\ req[w].status # 401
    <3>1. req[w].status \in {NULL, 200, 201, 401, 404, 409, 422}
      BY <1>1, <2>3 DEF Ingest!TypeOK, Ingest!Request
    <3>2. req[w].status # NULL
      BY <1>1, <2>3 DEF Ingest!Told
    <3>3. req[w].status \notin {404, 409, 422}
      BY <2>3 DEF NoStranger, PathInv, ReqInv
    <3>4. req[w].status # 401
      BY <2>1 DEF Classify
    <3> QED BY <3>1, <3>2, <3>3, <3>4
  <2>7. Ingest!IsHeld(req[w].upload)
    BY <1>1, <2>3, <2>6 DEF Ingest!AnswerIsHeld
  <2>8. PICK u : u = req[w].upload
    OBVIOUS
  <2>9. Ingest!HeldContent(u.trip, u.part) = u.body
    BY <2>7, <2>8 DEF Ingest!IsHeld
  <2>10. HeldByServer(i)
    BY <2>5, <2>8, <2>9, HeldIs DEF Carries
  <2> QED BY <1>1, <1>2, <2>2, <2>10, HeldStays
<1> QED BY <1>3, <1>4, DrainMoves DEF Idle

(* What dropping an item rests on, at the start. *)
LEMMA DropInit == UploadInit => NoStranger /\ DropInv
<1>1. UploadInit => \A w \in Workers : req[w] = NULL
  BY DEF UploadInit, Store!Init
<1>2. UploadInit => drain.await # "delete"
  BY DEF UploadInit, Init, Idle
<1> QED BY <1>1, <1>2 DEF NoStranger, DropInv

(* An item leaves the queue only held by the service: after a 200 or a 201, *)
(* through lost answers, late requests, kills of either side and rejected   *)
(* transactions; or with everything else, when the tester forgets.          *)
THEOREM WhatIsDroppedIsHeld == ASSUME OneToken PROVE UploadSpec => NothingIsDropped
<1>1. UploadInit => NoStranger /\ DropInv
  BY DropInit
<1>2. PathInv /\ NoStranger /\ DropInv /\ [UploadNext]_all => (NoStranger /\ DropInv)'
  BY StrangerNext, DropNext
<1>3. PathInv /\ NoStranger /\ DropInv /\ [UploadNext]_all =>
        [\A i \in disk.outbox \ disk'.outbox : HeldByServer(i) \/ op.await = "forget"]_all
  <2> SUFFICES ASSUME PathInv, DropInv, [UploadNext]_all, op.await # "forget",
                      NEW i \in disk.outbox, i \notin disk'.outbox
               PROVE  HeldByServer(i)
    OBVIOUS
  <2>1. Moves
    BY DeviceStep, StepMoves DEF PathInv
  <2>2. Orderly(sealed) /\ disk.outbox \subseteq sealed
    BY DEF PathInv, Inv, ItemInv
  <2>3. Deletes /\ Key(i) = Key(drain.item)
    BY <2>1 DEF Moves, Steady, Seals, Deletes, Loads, Wipes, Dies
  <2>4. drain.await = "delete" /\ drain.item \in sealed
    BY <2>3 DEF Deletes, PathInv, Inv, ItemInv, Idle
  <2>5. i = drain.item
    BY <2>2, <2>3, <2>4, OneItem DEF Key
  <2> QED BY <2>4, <2>5 DEF DropInv
<1> QED BY <1>1, <1>2, <1>3, PathHolds, PTL DEF UploadSpec, NothingIsDropped
-----------------------------------------------------------------------------
(* Where the sealed items of a trip are. *)

(* The queue in memory, or the app, knows of the trip.                      *)
Reached(id) == (\E j \in outbox : j.trip = id) \/ \E t \in InMemory : t.tripId = id

(* The queue in memory has all that is stored of a trip it knows of.        *)
MirrorInv == \A i \in disk.outbox : Reached(i.trip) => i \in outbox

(* Nothing is left of the trip on the device. *)
Gone(id) ==
  (\A t \in Live : t.tripId # id) /\ \A i \in outbox \cup disk.outbox : i.trip # id

(* A sealed item is stored, or held by the service, or forgotten with its   *)
(* trip.                                                                    *)
CoverInv == \A i \in sealed : i \in disk.outbox \/ HeldByServer(i) \/ Gone(i.trip)

(* The service holds every chunk sealed of the trip. *)
Whole(id) == \A i \in sealed : i.trip = id /\ i.part # End => HeldByServer(i)

(* Of a trip whose end is on its way, or held, it holds every chunk.        *)
EndInv ==
  /\ drain.await = "answer" /\ drain.item.part = End => Whole(drain.item.trip)
  /\ \A w \in Workers :
       req[w] # NULL /\ req[w].upload.part = End => Whole(req[w].upload.trip)
  /\ \A t \in Trips : Ingest!HeldContent(t, End) # NULL => Whole(t)

(* The trips the app knows of it goes on to know of. *)
LEMMA KnownIs ==
  ASSUME Within(Carried), NEW i \in sealed', NEW t \in InMemory', t.tripId = i.trip
  PROVE  \E u \in InMemory : u.tripId = i.trip
BY DEF Within, Carried

(* The queue in memory keeps up with storage. *)
LEMMA MirrorNext ==
  ASSUME Inv, MirrorInv, [Next]_vars
  PROVE  MirrorInv'
<1> SUFFICES ASSUME NEW i \in disk'.outbox,
                    \/ \E j \in outbox' : j.trip = i.trip
                    \/ \E t \in InMemory' : t.tripId = i.trip
             PROVE  i \in outbox'
  BY DEF MirrorInv, Reached
<1>1. Moves
  BY StepMoves
<1>2. i \in sealed'
  BY StepInv DEF Inv, ItemInv
<1>3. CASE Steady
  BY <1>2, <1>3, KnownIs DEF Steady, MirrorInv, Reached
<1>4. CASE Seals
  <2>1. CASE i \in op.items
    BY <1>4, <2>1 DEF Seals
  <2>2. CASE i \in disk.outbox
    <3>1. op.t \in InMemory /\ \A j \in op.items : j.trip = op.t.tripId
      BY <1>4 DEF Seals, InMemory, Pending, Inv, OpInv, Proposed
    <3>2. Reached(i.trip)
      BY <1>2, <1>4, <3>1, KnownIs DEF Seals, Reached
    <3> QED BY <1>4, <2>2, <3>2 DEF Seals, MirrorInv
  <2> QED BY <1>4, <2>1, <2>2 DEF Seals
<1>5. CASE Deletes
  <2>1. Reached(i.trip)
    BY <1>2, <1>5, KnownIs DEF Deletes, Reached
  <2> QED BY <1>5, <2>1 DEF Deletes, MirrorInv
<1>6. CASE Loads \/ Wipes \/ Dies
  BY <1>6 DEF Loads, Wipes, Dies
<1> QED BY <1>1, <1>3, <1>4, <1>5, <1>6 DEF Moves

(* A trip that is gone does not come back. *)
LEMMA GoneStays ==
  ASSUME Inv, [Next]_vars, NEW i \in sealed, Gone(i.trip)
  PROVE  Gone(i.trip)'
<1>1. Moves
  BY StepMoves
<1>2. i \in sealed'
  BY SealedGrows
<1>3. InMemory \subseteq Live
  BY DEF InMemory, Live, Orphans, Inv, OpInv, Storing
<1>4. \A t \in InMemory : t.tripId # i.trip
  BY <1>3 DEF Gone
<1>5. Live' = disk'.trips \cup Open(trip') \cup Pending' /\ Open(trip') \cup Pending' \subseteq InMemory'
  BY DEF Live, InMemory
<1>6. CASE Within(Carried) /\ StaysOn /\ \A j \in outbox' \cup disk'.outbox : j.trip # i.trip
  <2>1. \A t \in InMemory' : t.tripId # i.trip
    BY <1>2, <1>4, <1>6, KnownIs
  <2>2. \A t \in disk'.trips : t.tripId # i.trip
    BY <1>6 DEF StaysOn, Gone
  <2> QED BY <1>5, <1>6, <2>1, <2>2 DEF Gone
<1>7. CASE Steady \/ Deletes
  BY <1>6, <1>7 DEF Steady, Deletes, Gone
<1>8. CASE Seals
  <2>1. op.t \in InMemory /\ \A j \in op.items : j.trip = op.t.tripId
    BY <1>8 DEF Seals, InMemory, Pending, Inv, OpInv, Proposed
  <2> QED BY <1>4, <1>6, <1>8, <2>1 DEF Seals, Gone
<1>9. CASE Loads
  <2>1. \A t \in disk.trips : t.tripId # i.trip
    BY DEF Gone, Live
  <2>2. \A t \in InMemory' : t.tripId # i.trip
    BY <1>9, <2>1 DEF Loads, Within
  <2> QED BY <1>5, <1>9, <2>1, <2>2 DEF Loads, Gone
<1>10. CASE Wipes
  BY <1>5, <1>10 DEF Wipes, Gone
<1>11. CASE Dies
  <2>1. \A t \in disk.trips : t.tripId # i.trip
    BY DEF Gone, Live
  <2> QED BY <1>5, <1>11, <2>1 DEF Dies, Gone
<1> QED BY <1>1, <1>7, <1>8, <1>9, <1>10, <1>11 DEF Moves

(* No sealed item is lost: storage lets go only of what the service holds,  *)
(* or of everything.                                                        *)
LEMMA CoverNext ==
  ASSUME PathInv, DropInv, CoverInv, [UploadNext]_all
  PROVE  CoverInv'
<1> SUFFICES ASSUME NEW i \in sealed'
             PROVE  i \in disk'.outbox \/ HeldByServer(i)' \/ Gone(i.trip)'
  BY DEF CoverInv, HeldByServer, Store!HeldContent, Store!RowOf, Gone
<1>1. [Next]_vars /\ Inv /\ Orderly(sealed) /\ disk.outbox \subseteq sealed
  BY DeviceStep DEF PathInv, Inv, ItemInv
<1>2. Moves
  BY <1>1, StepMoves
<1>3. ASSUME i \in sealed, HeldByServer(i) PROVE HeldByServer(i)'
  BY <1>1, <1>3, ServiceStep, HeldStays DEF PathInv, ServiceInv, Orderly
<1>4. CASE i \notin sealed
  BY <1>2, <1>4 DEF Moves, Steady, Seals, Deletes, Loads, Wipes, Dies
<1>5. CASE i \in sealed /\ Gone(i.trip)
  BY <1>1, <1>5, GoneStays
<1>6. CASE i \in disk.outbox
  <2>1. CASE Steady \/ Seals \/ Loads \/ Dies
    BY <1>6, <2>1 DEF Steady, Seals, Loads, Dies
  <2>2. CASE Deletes
    <3>1. drain.await = "delete" /\ drain.item \in sealed
      BY <2>2 DEF Deletes, PathInv, Inv, ItemInv, Idle
    <3>2. CASE Key(i) = Key(drain.item)
      <4>1. i = drain.item
        BY <1>1, <1>6, <3>1, <3>2, OneItem DEF Key
      <4> QED BY <1>1, <1>3, <1>6, <3>1, <4>1 DEF DropInv
    <3>3. CASE Key(i) # Key(drain.item)
      BY <1>6, <2>2, <3>3 DEF Deletes
    <3> QED BY <3>2, <3>3
  <2>3. CASE Wipes
    <3>1. Live' = {}
      BY <2>3 DEF Wipes, Live, InMemory
    <3> QED BY <2>3, <3>1 DEF Wipes, Gone
  <2> QED BY <1>2, <2>1, <2>2, <2>3 DEF Moves
<1> QED BY <1>3, <1>4, <1>5, <1>6 DEF CoverInv

(* What is whole stays whole: nothing is sealed for a trip after its end.   *)
LEMMA WholeStays ==
  ASSUME PathInv, [UploadNext]_all, NEW id, NEW e \in sealed, e.part = End, e.trip = id, Whole(id)
  PROVE  Whole(id)'
<1> SUFFICES ASSUME NEW i \in sealed', i.trip = id, i.part # End PROVE HeldByServer(i)'
  BY DEF Whole, HeldByServer, Store!HeldContent, Store!RowOf
<1>1. [Next]_vars /\ Inv /\ \A j \in sealed : GoodItem(j)
  BY DeviceStep DEF PathInv, Inv, ItemInv, Orderly
<1>2. CASE i \in sealed
  BY <1>1, <1>2, ServiceStep, HeldStays DEF Whole, PathInv, ServiceInv
<1>3. CASE i \notin sealed
  <2>1. op.await \in Storing /\ i \in op.items
    BY <1>1, <1>3, SealedIs
  <2>2. Proposed(op.t, op.items, sealed)
    BY <1>1, <2>1 DEF Inv, OpInv
  <2>3. Behind(op.t, e)
    BY <2>1, <2>2 DEF Proposed, Sound
  <2> QED BY <2>3, SealingAssumption DEF Behind
<1> QED BY <1>2, <1>3

(* When the drain turns to an end, its trip has nothing else left to send.  *)
LEMMA TurnsToWhole ==
  ASSUME PathInv, DropInv, MirrorInv, CoverInv, AgeInv', [UploadNext]_all,
         NEW e \in outbox', e.part = End, drain'.await = "answer", drain'.item = e
  PROVE  Whole(e.trip)'
<1> SUFFICES ASSUME NEW i \in sealed', i.trip = e.trip, i.part # End PROVE HeldByServer(i)'
  BY DEF Whole, HeldByServer, Store!HeldContent, Store!RowOf
<1>1. CoverInv' /\ MirrorInv'
  BY DeviceStep, CoverNext, MirrorNext DEF PathInv
<1>2. CASE i \in disk'.outbox
  <2>1. i \in outbox'
    BY <1>1, <1>2 DEF MirrorInv, Reached
  <2> QED BY <2>1 DEF AgeInv, Behold
<1>3. ~Gone(i.trip)'
  BY DEF Gone
<1>4. HeldByServer(i)' \/ i \in disk'.outbox \/ Gone(i.trip)'
  BY <1>1 DEF CoverInv, HeldByServer, Store!HeldContent, Store!RowOf, Gone
<1> QED BY <1>2, <1>3, <1>4

(* The drain, requests and rows of ends. *)
LEMMA EndNext ==
  ASSUME PathInv, DropInv, MirrorInv, CoverInv, AgeInv', EndInv, [UploadNext]_all
  PROVE  EndInv'
<1>1. Ingest!TypeOK /\ [Ingest!Next]_(Ingest!vars)
  BY ServiceStep DEF PathInv, ServiceInv
<1>2. ASSUME drain.await = "answer", drain.item.part = End, NEW id, id = drain.item.trip
      PROVE  Whole(id)'
  <2>1. drain.item \in sealed
    BY <1>2 DEF PathInv, Inv, ItemInv, Idle
  <2>2. Whole(id)
    BY <1>2 DEF EndInv
  <2> QED BY <1>2, <2>1, <2>2, WholeStays
<1>3. ASSUME NEW w \in Workers, req[w] # NULL, req[w].upload.part = End,
             NEW id, id = req[w].upload.trip
      PROVE  Whole(id)'
  <2>1. PICK e \in sealed : Carries(req[w].upload, e)
    BY <1>3 DEF PathInv, ReqInv
  <2>2. Whole(id)
    BY <1>3 DEF EndInv
  <2>3. e.part = End /\ e.trip = id
    BY <1>3, <2>1 DEF Carries
  <2> QED BY <2>2, <2>3, WholeStays
<1>4. ASSUME drain'.await = "answer", NEW e, e = drain'.item, e.part = End
      PROVE  Whole(e.trip)'
  <2>1. CASE drain' = drain
    BY <1>2, <1>4, <2>1
  <2>2. CASE e \in outbox'
    BY <1>4, <2>2, TurnsToWhole
  <2>3. ASSUME NEW kind, DrainAnswer(kind) PROVE FALSE
    BY <1>4, <2>3 DEF DrainAnswer, Idle
  <2> QED BY <1>4, <2>1, <2>2, <2>3, DrainMoves DEF Idle
<1>5. ASSUME NEW w \in Workers, req'[w] # NULL, req'[w].upload.part = End,
             NEW id, id = req'[w].upload.trip
      PROVE  Whole(id)'
  <2>1. CASE req[w] = NULL
    <3>1. Carry(w)
      BY <1>1, <1>5, <2>1, BegunBySending
    <3>2. drain.await = "answer" /\ drain.item.part = End /\ id = drain.item.trip
      BY <1>1, <1>5, <3>1, CarriedIs DEF Carry, Carries
    <3> QED BY <1>2, <3>2
  <2>2. CASE req[w] # NULL
    <3>1. req'[w].upload = req[w].upload
      BY <1>1, <1>5, <2>2, IngestAssumed, Ingest!RequestIs DEF Ingest!Receive
    <3> QED BY <1>3, <1>5, <2>2, <3>1
  <2> QED BY <2>1, <2>2
<1>6. ASSUME NEW t \in Trips, Ingest!HeldContent(t, End)' # NULL PROVE Whole(t)'
  <2>1. End \in Ingest!Parts
    BY DEF Ingest!Parts
  <2>2. CASE Ingest!HeldContent(t, End)' = Ingest!HeldContent(t, End)
    <3>1. PICK e \in sealed : e.trip = t /\ e.part = End
      BY <1>6, <2>1, <2>2 DEF PathInv, RowInv
    <3>2. Whole(t)
      BY <1>6, <2>2 DEF EndInv
    <3> QED BY <3>1, <3>2, WholeStays
  <2>3. ASSUME NEW w \in Workers, req[w] # NULL, req[w].upload.trip = t, req[w].upload.part = End
        PROVE  Whole(t)'
    BY <1>3, <2>3
  <2> QED BY <1>1, <2>1, <2>2, <2>3, IngestAssumed, Ingest!ContentIs
<1>7. drain'.await = "answer" /\ drain'.item.part = End =>
        \A i \in sealed' : i.trip = drain'.item.trip /\ i.part # End => HeldByServer(i)'
  <2>1. PICK e : e = drain'.item
    OBVIOUS
  <2> QED BY <1>4, <2>1 DEF Whole, HeldByServer, Store!HeldContent, Store!RowOf
<1>8. ASSUME NEW w \in Workers, req'[w] # NULL, req'[w].upload.part = End
      PROVE  \A i \in sealed' : i.trip = req'[w].upload.trip /\ i.part # End => HeldByServer(i)'
  <2>1. PICK id : id = req'[w].upload.trip
    OBVIOUS
  <2> QED BY <1>5, <1>8, <2>1 DEF Whole, HeldByServer, Store!HeldContent, Store!RowOf
<1> QED BY <1>6, <1>7, <1>8 DEF EndInv, Whole, HeldByServer, Store!HeldContent, Store!RowOf

(* What the completeness of an end rests on, at the start. *)
LEMMA EndInit == UploadInit => MirrorInv /\ CoverInv /\ AgeInv /\ EndInv
<1> SUFFICES ASSUME UploadInit PROVE MirrorInv /\ CoverInv /\ AgeInv /\ EndInv
  OBVIOUS
<1>1. MirrorInv /\ CoverInv
  BY DEF UploadInit, Init, MirrorInv, CoverInv
<1>2. AgeInv
  BY DEF UploadInit, Init, AgeInv, Starts, Storing, Aged, Behold, Idle
<1>3. drain.await # "answer" /\ \A w \in Workers : req[w] = NULL
  BY DEF UploadInit, Init, Store!Init, Idle
<1>4. \A t \in Trips : Ingest!HeldContent(t, End) = NULL
  BY DEF UploadInit, Store!Init, Ingest!HeldContent, Ingest!RowOf
<1> QED BY <1>1, <1>2, <1>3, <1>4 DEF EndInv

(* An end held by the service stands for a whole trace: drain sends it      *)
(* after the last of the trip's chunks has been dropped from the queue, an  *)
(* item is dropped only when the service has it, and nothing is sealed      *)
(* after an end.                                                            *)
THEOREM EndsAreComplete ==
  ASSUME OneToken, ~ClockSteps PROVE UploadSpec => []EndMeansComplete
<1> DEFINE IInv == /\ PathInv /\ NoStranger /\ DropInv
                   /\ AgeInv /\ MirrorInv /\ CoverInv /\ EndInv
<1>1. UploadInit => IInv
  BY PathInit, DropInit, EndInit
<1>2. IInv /\ [UploadNext]_all => IInv'
  <2> SUFFICES ASSUME IInv, [UploadNext]_all PROVE IInv'
    OBVIOUS
  <2>1. [Next]_vars /\ Inv
    BY DeviceStep DEF PathInv
  <2>2. PathInv' /\ NoStranger' /\ DropInv' /\ MirrorInv' /\ CoverInv'
    BY <2>1, PathStep, StrangerNext, DropNext, MirrorNext, CoverNext
  <2>3. AgeInv'
    BY <2>1, EveryStepOrders, AgeStep
  <2>4. EndInv'
    BY <2>3, EndNext
  <2> QED BY <2>2, <2>3, <2>4
<1>3. IInv => EndMeansComplete
  <2> SUFFICES ASSUME IInv, NEW e \in sealed, e.part = End, HeldByServer(e),
                      NEW i \in sealed, i.trip = e.trip
               PROVE  HeldByServer(i)
    BY DEF EndMeansComplete
  <2>1. Orderly(sealed) /\ e.trip \in Trips /\ e.body # NULL
    BY GoodUpload DEF PathInv, Inv, ItemInv, Orderly
  <2>2. Ingest!HeldContent(e.trip, End) # NULL
    BY <2>1, HeldIs
  <2>3. Whole(e.trip)
    BY <2>1, <2>2 DEF EndInv
  <2>4. i.part = End => i = e
    BY <2>1, OneItem
  <2> QED BY <2>3, <2>4 DEF Whole
<1> QED BY <1>1, <1>2, <1>3, PTL DEF UploadSpec
=============================================================================
