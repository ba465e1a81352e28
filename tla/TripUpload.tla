----------------------------- MODULE TripUpload -----------------------------
(***************************************************************************)
(* The whole path of a trip trace: the recorder of one device, the network *)
(* and the ingest service.  A send reaches a worker of the service or is   *)
(* lost; the device's fetch fails at any time, while the request it gave   *)
(* up on may still be carried out, and be answered to nobody; either side  *)
(* may be killed.                                                          *)
(***************************************************************************)
EXTENDS TripRecorder

CONSTANTS Workers, Retention, MaxServerClock

VARIABLES
  tester_tokens, trips, trace_chunks, trip_ends, req, purge, serverClock, acked,
  link        \* the worker handling the send the device now awaits, or NULL

device == vars
server == <<tester_tokens, trips, trace_chunks, trip_ends, req, purge, serverClock, acked>>
all    == <<device, server, link>>

(* What a device can put in a body. *)
UploadBodies ==
  [fixes : Seq(Fixes),
   artifacts : Seq([effective_at : Nat, line : Seq(Places)])]
    \cup [ended_at : Nat, arrived : BOOLEAN, effective_at : Nat]

Store == INSTANCE TraceStore WITH
  Seqs <- 0..MaxSeq, Bodies <- UploadBodies, Accepts <- ValidBody,
  MaxClock <- MaxServerClock, clock <- serverClock

(* The store of this device is one that TraceStore describes, and no worker *)
(* stands for the absence of one.                                           *)
ASSUME UploadAssumption == Store!StoreAssumption /\ NULL \notin Workers

UploadInit == Init /\ Store!Init /\ link = NULL

(* send, as far as the service. *)
Carry(w) ==
  /\ drain.await = "answer" /\ link = NULL
  /\ Store!Receive(w, [token |-> drain.token, trip |-> drain.item.trip,
                       part |-> drain.item.part, body |-> drain.item.body])
  /\ link' = w
  /\ UNCHANGED device

(* classify *)
ClassifyTwoWays(status) ==                     \* defect: a 401 drops the item
  IF status \in {200, 201} THEN "done" ELSE "permanent"
Classify(status) ==
  CASE status \in {200, 201} -> "done" [] status = 401 -> "unauthorized"
    [] OTHER -> "permanent"

(* An answer leaves the service; the device hears it if it still waits. *)
Reply(w) ==
  /\ Store!Respond(w)
  /\ IF link = w
     THEN DrainAnswer(Classify(req[w].status)) /\ link' = NULL
     ELSE UNCHANGED <<device, link>>

(* The fetch fails, or a proxy answers 429 or 5xx in the service's place. *)
FetchFails ==
  /\ DrainAnswer("transient")
  /\ link' = NULL
  /\ UNCHANGED server

(* GET /v1/me, whose answer may be lost too. *)
CheckToken ==
  /\ \/ Checked(Store!Active(op.token))
     \/ Checked(FALSE)
  /\ UNCHANGED <<server, link>>

Killed == Crash /\ link' = NULL /\ UNCHANGED server

DeviceSteps ==
  /\ Uploads \/ Continues \/ Called \/ ClockMoves
  /\ UNCHANGED <<server, link>>

ServerHandles(w) == Store!Authenticate(w) \/ Store!PutChunk(w) \/ Store!EndTrip(w)

ServerSteps ==
  /\ \/ \E w \in Workers : ServerHandles(w)
     \/ \E k \in Tokens : Store!Issue(k) \/ Store!Revoke(k)
     \/ Store!PurgeBegin \/ Store!PurgeWrite \/ Store!Crash \/ Store!Tick
  /\ UNCHANGED <<device, link>>

UploadNext ==
  \/ \E w \in Workers : Carry(w) \/ Reply(w)
  \/ FetchFails \/ CheckToken \/ Killed \/ DeviceSteps \/ ServerSteps

UploadSpec == UploadInit /\ [][UploadNext]_all

(* As in TripRecorder, each continuation and the retry timer by itself.  And *)
(* attempts may fail at any point, but not every one of an endless series   *)
(* of attempts at the same point: the network carries one some time, and an *)
(* awaited request is authenticated, written and answered some time.        *)
Alone(A) == A /\ UNCHANGED <<server, link>>
Awaited(w, A) == link = w /\ A /\ UNCHANGED <<device, link>>

UploadFairness ==
  /\ WF_all(Alone(DrainDeleted)) /\ WF_all(Alone(DrainRejected))
  /\ WF_all(Alone(RetryFires)) /\ WF_all(Alone(Continues))
  /\ WF_all(CheckToken) /\ WF_all(FetchFails)
  /\ \A w \in Workers :
       /\ WF_all(ServerHandles(w) /\ UNCHANGED <<device, link>>) /\ WF_all(Reply(w))
       /\ SF_all(Carry(w)) /\ SF_all(link = w /\ Reply(w))
       /\ SF_all(Awaited(w, Store!Authenticate(w)))
       /\ SF_all(Awaited(w, Store!PutChunk(w) \/ Store!EndTrip(w)))

UploadFairSpec == UploadSpec /\ UploadFairness
-----------------------------------------------------------------------------
HeldByServer(i) ==
  Store!HeldContent(i.trip, i.part) = i.body

(* app.py's header: a client may retry anything it is unsure about.  For    *)
(* this client a repeat is never a conflict and a body never refused,       *)
(* whatever was lost, killed, purged or carried out late.                   *)
EveryRetryIsAReplay ==
  \A w \in Workers : req[w] # NULL => req[w].status \notin {409, 422}

(* An item leaves the device's queue only into the server's store, unless    *)
(* the tester forgets everything.  For a device with one token.             *)
NothingIsDropped ==
  [][\A i \in disk.outbox \ disk'.outbox :
       HeldByServer(i) \/ op.await = "forget"]_all

(* The server holds the end of a trip only when it holds every chunk of it: *)
(* a row of the ETA log never stands for a trace still in the queue.  For a *)
(* device with one token and a wall clock that is never set back.           *)
EndMeansComplete ==
  \A e \in sealed : e.part = End /\ HeldByServer(e) =>
    \A i \in sealed : i.trip = e.trip => HeldByServer(i)

(* Every sealed item reaches the server's store in the end, for as long as  *)
(* the device may upload.  For a device with one token.                     *)
Delivered ==
  \A id \in Trips : \A p \in 0..MaxSeq \cup {End} :
    (\E i \in disk.outbox : Key(i) = <<id, p>>)
      ~> (Store!HeldContent(id, p) # NULL \/ ~CanUpload(disk.settings))
=============================================================================
