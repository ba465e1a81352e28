---------------------------- MODULE TripRecorder ----------------------------
(***************************************************************************)
(* The trip-trace recorder of a device, web/lib/tripRecorder.ts, over the  *)
(* durable storage of web/lib/traceStorage.ts.                             *)
(*                                                                         *)
(* Operations run one at a time (`run').  Calling one only queues it, so   *)
(* an operation is taken to be called when the one before it is done.      *)
(* Beside them runs at most one drain of the outbox.  Both are JavaScript: *)
(* between two awaits a step is atomic, and an await is either a fetch or  *)
(* one storage transaction.  A transaction is queued where the code calls  *)
(* apply or load, transactions complete in that order, and completing one  *)
(* runs the continuation of whoever awaited it; before that the app may be *)
(* killed, the other party may run, or (StorageFails) it may be rejected.  *)
(*                                                                         *)
(* The server is whatever answers: DrainAnswer and Checked take the class  *)
(* of the answer as a parameter.  TripUpload puts the ingest service there.*)
(***************************************************************************)
EXTENDS TraceSealing

CONSTANTS
  Tokens,         \* tester tokens the device may be given
  Trips,          \* bound: the UUIDs newTripId will mint; compared, so numbers
  Routes,         \* the routes navigation may follow
  Destinations,   \* where navigation may be heading
  Fixes,          \* the GPS readings: [t, at, acc]
  MaxClock,       \* bound: the device's clock stops here
  MaxEffective,   \* bound: no artifact takes effect later
  MaxCrashes,     \* bound: how often the app is killed
  ClockSteps,     \* whether the wall clock may be set back
  StorageFails    \* whether a storage transaction may be rejected

SeqRange(s) == {s[n] : n \in DOMAIN s}

(* DeviceSettings, and the TripRecord of one trip. *)
Settings == [token : Tokens, enabled : BOOLEAN, rejected : BOOLEAN]

Places == {f.at : f \in Fixes} \cup (UNION {SeqRange(line) : line \in Routes})
            \cup (Destinations \ {NULL})

TripRecord ==
  [tripId : Trips, startedAt : Nat, anchors : SUBSET [at : Places, acc : Nat],
   head : Fixes \cup {NULL}, pending : Seq(Fixes), lastSealAt : Nat,
   nextSeq : 0..(MaxSeq + 1), sealedFixes : BOOLEAN,
   heldArtifacts : Seq([effective_at : Nat, line : Routes]),
   prediction : 0..MaxEffective]

ASSUME DeviceAssumption ==
  /\ Trips \subseteq Nat
  /\ Fixes \subseteq [t : Nat, at : Places, acc : Nat]
  /\ \A line \in Routes : line \in Seq(Places) /\ line # <<>>
  /\ \A p \in Places : Distance(p, p) = 0
  /\ NULL \notin Settings \cup TripRecord \cup Fixes
  /\ MaxClock \in Nat /\ MaxEffective \in Nat /\ MaxClock <= MaxEffective
  /\ MaxCrashes \in Nat /\ ClockSteps \in BOOLEAN /\ StorageFails \in BOOLEAN

VARIABLES
  settings,   \* in memory: DeviceSettings, or NULL
  trip,       \* in memory: the open TripRecord, or NULL
  outbox,     \* in memory: the items to send
  retry,      \* a retry timer is armed (cancelRetry, retryAt)
  op,         \* the operation running: what it awaits, and its locals
  drain,      \* the drain of the outbox: idle, or what it awaits
  txns,       \* storage transactions called and not complete: <<party, ops>>
  disk,       \* durable: settings, trips and outbox
  clock,      \* Date.now()
  crashes,    \* how often the app was killed
  accepted,   \* history: <<trip, fix>> for every fix a trip took
  sealed,     \* history: the items ever committed to the durable outbox
  sent        \* history: the items ever sent

memory  == <<settings, trip, outbox, retry>>
history == <<accepted, sealed, sent>>
vars == <<memory, op, drain, txns, disk, clock, crashes, history>>

Idle == [await |-> "nothing"]

Init ==
  /\ settings = NULL /\ trip = NULL /\ outbox = {} /\ retry = FALSE
  /\ op = [await |-> "launch"] /\ drain = Idle /\ txns = <<>>
  /\ disk = [settings |-> NULL, trips |-> {}, outbox |-> {}]
  /\ clock = 0 /\ crashes = 0
  /\ accepted = {} /\ sealed = {} /\ sent = {}

-----------------------------------------------------------------------------
(* Storage.  apply(ops) is all or nothing; ops.settings is {} to leave the  *)
(* settings alone, {s} to write s, {NULL} to delete them.                   *)

NoOps == [settings |-> {}, putTrips |-> {}, deleteTrips |-> {},
          putOutbox |-> {}, deleteOutbox |-> {}]

Applied(d, ops) ==
  [settings |-> IF ops.settings = {} THEN d.settings
                ELSE CHOOSE s \in ops.settings : TRUE,
   trips |-> {t \in {u \in d.trips : \A p \in ops.putTrips : p.tripId # u.tripId}
                      \cup ops.putTrips : t.tripId \notin ops.deleteTrips},
   outbox |-> {i \in {j \in d.outbox : \A p \in ops.putOutbox : Key(p) # Key(j)}
                      \cup ops.putOutbox : Key(i) \notin ops.deleteOutbox}]

(* A transaction is queued behind those of q: txns, or what is left of it. *)
Call(q, party, ops) == txns' = Append(q, <<party, ops>>)

Front(party) == txns # <<>> /\ txns[1][1] = party

Commits(party) ==
  /\ Front(party)
  /\ disk' = Applied(disk, txns[1][2])
  /\ sealed' = sealed \cup txns[1][2].putOutbox

-----------------------------------------------------------------------------
(* Uploading. *)

CanUpload(s) == s # NULL /\ s.enabled /\ ~s.rejected
CanRecord(s) == CanUpload(s)

(* The top of drain's loop. *)
Looped(s, ob, rt) ==
  IF CanUpload(s) /\ ~rt /\ ob # {}
  THEN [await |-> "answer", item |-> FirstOf(ob), token |-> s.token]
  ELSE Idle

Sends(d) == sent' = IF d.await = "answer" THEN sent \cup {d.item} ELSE sent

Loop(s, ob, rt) == drain' = Looped(s, ob, rt) /\ Sends(Looped(s, ob, rt))

(* flush: at most one drain at a time. *)
Flush(s, ob, rt) ==
  IF drain = Idle THEN Loop(s, ob, rt) ELSE UNCHANGED <<drain, sent>>

(* The answer to the item sent, by class; a fetch that fails is transient.  *)
(* Done and permanent both drop the item; a 401 marks the CURRENT settings. *)
DrainAnswer(kind) ==
  /\ drain.await = "answer"
  /\ \/ /\ kind \in {"done", "permanent"}
        /\ Call(txns, "drain", [NoOps EXCEPT !.deleteOutbox = {Key(drain.item)}])
        /\ drain' = [await |-> "delete", item |-> drain.item]
        /\ UNCHANGED <<settings, retry>>
     \/ /\ kind = "unauthorized"
        /\ IF settings = NULL
           THEN drain' = Idle /\ UNCHANGED <<settings, txns>>
           ELSE /\ settings' = [settings EXCEPT !.rejected = TRUE]
                /\ Call(txns, "drain", [NoOps EXCEPT !.settings = {settings'}])
                /\ drain' = [await |-> "reject"]
        /\ UNCHANGED retry
     \/ /\ kind = "transient"
        /\ retry' = TRUE
        /\ drain' = Idle
        /\ UNCHANGED <<settings, txns>>
  /\ UNCHANGED <<trip, outbox, op, disk, clock, crashes, accepted, sealed, sent>>

(* The item has left storage: forget it, and round the loop again. *)
DrainDeleted ==
  /\ drain.await = "delete" /\ Commits("drain")
  /\ txns' = Tail(txns)
  /\ outbox' = {i \in outbox : Key(i) # Key(drain.item)}
  /\ Loop(settings, outbox', retry)
  /\ UNCHANGED <<settings, trip, retry, op, clock, crashes, accepted>>

DrainRejected ==
  /\ drain.await = "reject" /\ Commits("drain")
  /\ txns' = Tail(txns)
  /\ drain' = Idle
  /\ UNCHANGED <<memory, op, clock, crashes, accepted, sent>>

DrainFailed ==
  /\ StorageFails /\ Front("drain")
  /\ txns' = Tail(txns)
  /\ drain' = Idle
  /\ UNCHANGED <<memory, op, disk, clock, crashes, history>>

(* The timer of scheduleRetry; its delay is left to the environment. *)
RetryFiresArmed ==                             \* defect: cancelRetry stays set
  /\ retry
  /\ Flush(settings, outbox, TRUE)
  /\ UNCHANGED <<memory, op, txns, disk, clock, crashes, accepted, sealed>>

RetryFires ==
  /\ retry
  /\ retry' = FALSE
  /\ Flush(settings, outbox, FALSE)
  /\ UNCHANGED <<settings, trip, outbox, op, txns, disk, clock, crashes,
                 accepted, sealed>>

-----------------------------------------------------------------------------
(* The rest of an operation that has ended a trip. *)

Leaving == [do |-> "leave"]
EndingOrphans(ts) == [do |-> "orphans", trips |-> ts]
Starting(line, dest) == [do |-> "start", line |-> line, destination |-> dest]

(* finalize: the sealed items in, the trip out, in one transaction. *)
KeepsTrip(t, items) ==                         \* defect: the trip stays
  [NoOps EXCEPT !.putOutbox = items]
FinalOps(t, items) ==
  [NoOps EXCEPT !.putOutbox = items, !.deleteTrips = {t.tripId}]

Finalizing(q, t, arrived, endedAt, then) ==
  LET final == Final(t, arrived, endedAt, clock)
  IN /\ Call(q, "op", FinalOps(t, final.items))
     /\ op' = [await |-> "finalize", t |-> final.trip, items |-> final.items,
               then |-> then]

(* `await apply({putTrips: [t], putOutbox: items})'. *)
Putting(q, t, items) ==
  /\ Call(q, "op", [NoOps EXCEPT !.putTrips = {t}, !.putOutbox = items])
  /\ op' = [await |-> "put", t |-> t, items |-> items]
  /\ trip' = t

(* The operation is over, with a flush or without one. *)
LeaveFlushing(q, s, ob, rt) == txns' = q /\ op' = Idle /\ Flush(s, ob, rt)
LeaveQuietly(q) == txns' = q /\ op' = Idle /\ UNCHANGED <<drain, sent>>

(* init, after its load and after each orphan. *)
EndOrphans(q, ts, s, ob, rt) ==
  \/ ts = {} /\ LeaveFlushing(q, s, ob, rt)
  \/ \E t \in ts :
       /\ Finalizing(q, t, FALSE, EndTime(t, t.startedAt), EndingOrphans(ts \ {t}))
       /\ UNCHANGED <<drain, sent>>

NewTrip(id, line, dest) ==
  [tripId |-> id, startedAt |-> clock,
   anchors |-> {Point(line[1]), Point(line[Len(line)])}
                 \cup (IF dest = NULL THEN {} ELSE {Point(dest)}),
   head |-> NULL, pending |-> <<>>, lastSealAt |-> clock, nextSeq |-> 0,
   sealedFixes |-> FALSE,
   heldArtifacts |-> <<[effective_at |-> clock, line |-> line]>>,
   prediction |-> clock]

(* newTripId mints a UUID nobody has seen. *)
FreshTrips ==
  Trips \ ({i.trip : i \in sealed} \cup {t.tripId : t \in disk.trips}
             \cup {a[1] : a \in accepted}
             \cup (IF trip = NULL THEN {} ELSE {trip.tripId}))

(* startTrip, once no trip is open. *)
StartTrip(q, line, dest) ==
  \/ /\ CanRecord(settings)
     /\ \E id \in FreshTrips : Putting(q, NewTrip(id, line, dest), {})
     /\ UNCHANGED <<drain, sent>>
  \/ /\ ~CanRecord(settings)
     /\ trip' = NULL
     /\ LeaveQuietly(q)

-----------------------------------------------------------------------------
(* The interface.  An operation is called when none is running. *)

InitCalled ==
  /\ op.await = "launch"
  /\ Call(txns, "op", NoOps)
  /\ op' = [await |-> "load"]
  /\ UNCHANGED <<memory, drain, disk, clock, crashes, history>>

InitLoaded ==
  /\ op.await = "load" /\ Front("op")
  /\ settings' = disk.settings
  /\ outbox' = disk.outbox
  /\ EndOrphans(Tail(txns), disk.trips, disk.settings, disk.outbox, retry)
  /\ UNCHANGED <<trip, retry, disk, clock, crashes, accepted, sealed>>

OptIn(k) ==
  /\ op = Idle
  /\ op' = [await |-> "me", token |-> k]
  /\ UNCHANGED <<memory, drain, txns, disk, clock, crashes, history>>

(* The answer of GET /v1/me: only a good token changes anything. *)
Checked(good) ==
  /\ op.await = "me"
  /\ \/ /\ good
        /\ settings' = [token |-> op.token, enabled |-> TRUE, rejected |-> FALSE]
        /\ Call(txns, "op", [NoOps EXCEPT !.settings = {settings'}])
        /\ op' = [await |-> "optIn"]
     \/ /\ ~good
        /\ op' = Idle
        /\ UNCHANGED <<settings, txns>>
  /\ UNCHANGED <<trip, outbox, retry, drain, disk, clock, crashes, history>>

OptedIn ==
  /\ op.await = "optIn" /\ Commits("op")
  /\ retry' = FALSE
  /\ LeaveFlushing(Tail(txns), settings, outbox, FALSE)
  /\ UNCHANGED <<settings, trip, outbox, clock, crashes, accepted>>

SetEnabled(enabled) ==
  /\ op = Idle /\ settings # NULL
  /\ settings' = [settings EXCEPT !.enabled = enabled]
  /\ Call(txns, "op", [NoOps EXCEPT !.settings = {settings'}])
  /\ op' = [await |-> "setEnabled", enabled |-> enabled]
  /\ UNCHANGED <<trip, outbox, retry, drain, disk, clock, crashes, history>>

(* Switching off also ends the open trip. *)
EnabledSet ==
  /\ op.await = "setEnabled" /\ Commits("op")
  /\ \/ /\ ~op.enabled /\ trip # NULL
        /\ Finalizing(Tail(txns), trip, FALSE, EndTime(trip, clock), Leaving)
        /\ trip' = op'.t
        /\ UNCHANGED <<drain, sent>>
     \/ /\ op.enabled \/ trip = NULL
        /\ LeaveFlushing(Tail(txns), settings, outbox, retry)
        /\ UNCHANGED trip
  /\ UNCHANGED <<settings, outbox, retry, clock, crashes, accepted>>

Forget ==
  /\ op = Idle
  /\ retry' = FALSE
  /\ Call(txns, "op", NoOps)
  /\ op' = [await |-> "forgetLoad"]
  /\ UNCHANGED <<settings, trip, outbox, drain, disk, clock, crashes, history>>

ForgetQueue(d) ==                              \* defect: an open trip stays
  [NoOps EXCEPT !.settings = {NULL}, !.deleteOutbox = {Key(i) : i \in d.outbox}]
ForgetOps(d) ==
  [NoOps EXCEPT !.settings = {NULL}, !.deleteTrips = {t.tripId : t \in d.trips},
                !.deleteOutbox = {Key(i) : i \in d.outbox}]

ForgetLoaded ==
  /\ op.await = "forgetLoad" /\ Front("op")
  /\ Call(Tail(txns), "op", ForgetOps(disk))
  /\ op' = [await |-> "forget"]
  /\ UNCHANGED <<memory, drain, disk, clock, crashes, history>>

Forgotten ==
  /\ op.await = "forget" /\ Commits("op")
  /\ settings' = NULL /\ trip' = NULL /\ outbox' = {}
  /\ LeaveQuietly(Tail(txns))
  /\ UNCHANGED <<retry, clock, crashes, accepted>>

(* A trip still open ends first. *)
StartTripCalled(line, dest) ==
  /\ op = Idle /\ FreshTrips # {}
  /\ \/ /\ trip # NULL
        /\ Finalizing(txns, trip, FALSE, EndTime(trip, clock), Starting(line, dest))
        /\ trip' = op'.t
        /\ UNCHANGED <<drain, sent>>
     \/ /\ trip = NULL
        /\ StartTrip(txns, line, dest)
  /\ UNCHANGED <<settings, outbox, retry, disk, clock, crashes, accepted, sealed>>

(* The first fix is the trip's origin, a private point of its own; a fix    *)
(* inside a private point's circle becomes the head and nothing more.       *)
Taken(t, fix) ==
  LET anchors == IF t.head # NULL THEN t.anchors
                 ELSE t.anchors \cup {[at |-> fix.at, acc |-> fix.acc]}
  IN [t EXCEPT !.anchors = anchors, !.head = fix,
               !.pending = IF ClearOf(fix, anchors) THEN Append(@, fix) ELSE @]

AddFix(fix) ==
  /\ op = Idle /\ trip # NULL /\ CanRecord(settings)
  /\ fix.acc <= MaxAccuracy /\ FollowsHead(trip.head, fix)
  /\ LET t == Taken(trip, fix)
         s == IF fix.t - t.lastSealAt >= SealInterval THEN Seal(t, clock)
              ELSE Sealed(t, {})
     IN Putting(txns, s.trip, s.items)
  /\ accepted' = accepted \cup {<<trip.tripId, fix>>}
  /\ UNCHANGED <<settings, outbox, retry, drain, disk, clock, crashes,
                 sealed, sent>>

(* The replacement takes effect strictly after the artifact it replaces. *)
TakesEffect(t) == Larger(clock, t.prediction + 1)

(* Artifacts are held until the trip has sealed a fix. *)
AtOnce(t) == TRUE                              \* defect: never held
ArtifactsGo(t) == t.sealedFixes

Reroute(line) ==
  /\ op = Idle /\ trip # NULL /\ CanRecord(settings)
  /\ LET at == TakesEffect(trip)
         fa == [effective_at |-> at, line |-> line]
         t == [trip EXCEPT !.anchors = @ \cup {Point(line[Len(line)])},
                           !.prediction = at]
         bodies == ArtifactBodies(fa, t.anchors)
     IN /\ at <= MaxEffective
        /\ IF ArtifactsGo(t)
           THEN Putting(txns, [t EXCEPT !.nextSeq = NextSeqAfter(t, bodies)],
                        Numbered(t, bodies, clock))
           ELSE Putting(txns, [t EXCEPT !.heldArtifacts = Append(@, fa)], {})
  /\ UNCHANGED <<settings, outbox, retry, drain, disk, clock, crashes, history>>

(* startTrip, addFix and reroute, once their trip is stored. *)
Put ==
  /\ op.await = "put" /\ Commits("op")
  /\ outbox' = outbox \cup op.items
  /\ \/ op.items # {} /\ LeaveFlushing(Tail(txns), settings, outbox', retry)
     \/ op.items = {} /\ LeaveQuietly(Tail(txns))
  /\ UNCHANGED <<settings, trip, retry, clock, crashes, accepted>>

EndTrip(arrived) ==
  /\ op = Idle /\ trip # NULL
  /\ Finalizing(txns, trip, arrived, EndTime(trip, clock), Leaving)
  /\ trip' = op'.t
  /\ UNCHANGED <<settings, outbox, retry, drain, disk, clock, crashes, history>>

(* finalize, once the trip is gone from storage, and what follows it. *)
Finalized ==
  /\ op.await = "finalize" /\ Commits("op")
  /\ outbox' = outbox \cup op.items
  /\ \/ /\ op.then.do = "leave"
        /\ trip' = NULL
        /\ LeaveFlushing(Tail(txns), settings, outbox', retry)
     \/ /\ op.then.do = "orphans"
        /\ EndOrphans(Tail(txns), op.then.trips, settings, outbox', retry)
        /\ UNCHANGED trip
     \/ /\ op.then.do = "start"
        /\ StartTrip(Tail(txns), op.then.line, op.then.destination)
  /\ UNCHANGED <<settings, retry, clock, crashes, accepted>>

(* `run' records the failure and goes on to the next operation. *)
OpFailedEnqueues ==                            \* defect: enqueued regardless
  /\ StorageFails /\ Front("op") /\ op.await = "put"
  /\ outbox' = outbox \cup op.items
  /\ LeaveQuietly(Tail(txns))
  /\ UNCHANGED <<settings, trip, retry, disk, clock, crashes, accepted, sealed>>

OpFailed ==
  /\ StorageFails /\ Front("op")
  /\ LeaveQuietly(Tail(txns))
  /\ UNCHANGED <<memory, disk, clock, crashes, accepted, sealed>>

RetryNow ==
  /\ op = Idle
  /\ retry' = FALSE
  /\ Flush(settings, outbox, FALSE)
  /\ UNCHANGED <<settings, trip, outbox, op, txns, disk, clock, crashes,
                 accepted, sealed>>

-----------------------------------------------------------------------------
(* The app is killed, at any point; only the disk survives. *)
Crash ==
  /\ crashes < MaxCrashes /\ op.await # "launch"
  /\ crashes' = crashes + 1
  /\ settings' = NULL /\ trip' = NULL /\ outbox' = {} /\ retry' = FALSE
  /\ op' = [await |-> "launch"] /\ drain' = Idle /\ txns' = <<>>
  /\ UNCHANGED <<disk, clock, history>>

ClockMoves ==
  /\ \/ clock < MaxClock /\ clock' = clock + 1
     \/ ClockSteps /\ clock' \in 0..(clock - 1)
  /\ UNCHANGED <<memory, op, drain, txns, disk, crashes, history>>

(* What the device does by itself, and what is done on it. *)
Uploads == DrainDeleted \/ DrainRejected \/ DrainFailed \/ RetryFires

Continues ==
  \/ InitCalled \/ InitLoaded \/ OptedIn \/ EnabledSet \/ ForgetLoaded \/ Forgotten
  \/ Put \/ Finalized \/ OpFailed

Called ==
  \/ \E k \in Tokens : OptIn(k)
  \/ \E enabled \in BOOLEAN : SetEnabled(enabled)
  \/ Forget \/ RetryNow
  \/ \E line \in Routes : Reroute(line) \/ \E dest \in Destinations : StartTripCalled(line, dest)
  \/ \E fix \in Fixes : AddFix(fix)
  \/ \E arrived \in BOOLEAN : EndTrip(arrived)

Device == Uploads \/ Continues \/ Called \/ Crash \/ ClockMoves

Kinds == {"done", "permanent", "unauthorized", "transient"}

Next == Device \/ (\E kind \in Kinds : DrainAnswer(kind)) \/ \E good \in BOOLEAN : Checked(good)

Spec == Init /\ [][Next]_vars
-----------------------------------------------------------------------------
FixesOf(i) == IF i.part = End THEN <<>> ELSE i.body.fixes
ArtifactsOf(i) == IF i.part = End THEN <<>> ELSE i.body.artifacts

IsSettings(s) == s = NULL \/ s \in Settings

IsTrip(t) ==
  t \in TripRecord /\ Increasing([n \in 1..Len(t.pending) |-> t.pending[n].t])

TypeOK ==
  /\ IsSettings(settings) /\ IsSettings(disk.settings)
  /\ trip = NULL \/ IsTrip(trip)
  /\ \A t \in disk.trips : IsTrip(t)
  /\ retry \in BOOLEAN
  /\ Len(txns) <= 2
  /\ \A i \in outbox \cup disk.outbox : i.trip \in Trips /\ i.part \in 0..MaxSeq \cup {End}
  /\ clock \in 0..MaxClock /\ crashes \in 0..MaxCrashes

(* tripRecorder.ts's header: everything is persisted at once, so a killed   *)
(* app loses nothing.  Between operations storage holds exactly the open    *)
(* trip and exactly the queue the app has, however uploads interleave.      *)
KilledAppLosesNothing ==
  op = Idle => /\ disk.trips = IF trip = NULL THEN {} ELSE {trip}
               /\ disk.outbox = outbox

(* traceStorage.ts's header: no seq is used again for other content, and a  *)
(* trip ends once, through kills and rejected transactions; so a retry is   *)
(* always a replay for the server, never a 409.                             *)
NoPartSealedTwice ==
  \A i, j \in sealed : Key(i) = Key(j) => i.body = j.body

(* Only what has reached storage is ever sent: what the server has seen can *)
(* be sent again, byte for byte, after a kill.                              *)
SentIsDurable == sent \subseteq sealed

(* Once a trip's end is queued nothing more is sealed for the trip. *)
NothingAfterEnd ==
  [][\A i \in sealed' \ sealed : \A e \in sealed :
       e.part = End => e.trip # i.trip]_vars

(* No sealed body is one the server's wire models refuse with a 422, which  *)
(* would lose it for good: not after reroutes within one instant, fixes     *)
(* stamped ahead of the wall clock, or a wall clock set back.               *)
BodiesAreValid == \A i \in sealed : ValidBody(i.body)

(* The chunks of a trip carry its fixes, and its artifacts, in the order of *)
(* their numbers: the server checks the order within a chunk only.          *)
ChunksInOrder ==
  \A i, j \in sealed :
    (i.trip = j.trip /\ i.part # End /\ j.part # End /\ i.part < j.part) =>
      /\ \A f \in SeqRange(FixesOf(i)), g \in SeqRange(FixesOf(j)) : f.t < g.t
      /\ \A a \in SeqRange(ArtifactsOf(i)), b \in SeqRange(ArtifactsOf(j)) :
           a.effective_at < b.effective_at

(* tracePrivacy.ts's rule.  A sealed fix is TRIM_M clear of the trip's      *)
(* first fix, and the trip has since taken a fix TRIM_M clear of it; every  *)
(* place about to be sealed is TRIM_M clear of every private point known.   *)
TakenBy(id) == {a[2] : a \in {b \in accepted : b[1] = id}}
Origin(id) == CHOOSE f \in TakenBy(id) : \A g \in TakenBy(id) : f.t <= g.t

PlacesOf(i) ==
  {[at |-> f.at, acc |-> f.acc] : f \in SeqRange(FixesOf(i))}
    \cup UNION {{Point(p) : p \in SeqRange(a.line)} : a \in SeqRange(ArtifactsOf(i))}

HeldBack ==
  /\ \A i \in sealed : \A f \in SeqRange(FixesOf(i)) :
       /\ Separation(f, Origin(i.trip)) >= Trim
       /\ \E g \in TakenBy(i.trip) : f.t < g.t /\ Separation(f, g) >= Trim
  /\ op.await \in {"put", "finalize"} =>
       \A i \in op.items : \A p \in PlacesOf(i) : ClearOf(p, op.t.anchors)

(* A trip that never gets clear of its ends uploads nothing but its end: no *)
(* artifact is sealed for a trip that has not sealed a fix.                 *)
NoArtifactBeforeFixes ==
  \A i \in sealed : ArtifactsOf(i) # <<>> =>
    \E j \in sealed : j.trip = i.trip /\ FixesOf(j) # <<>>

(* traceStorage.ts:83, "a trip's chunks before its end": an end is sent only *)
(* when no chunk of its trip is still waiting.                               *)
ChunksBeforeEnd ==
  (drain.await = "answer" /\ drain.item.part = End) =>
    \A i \in outbox : i.trip = drain.item.trip => i.part = End

(* tripRecorder.ts:115, forget deletes the token, the queue and any open     *)
(* trip from this device: once it is done, storage holds none of them.       *)
IsForgotten == op = Idle /\ settings = NULL

TracesForgotten == IsForgotten => disk.trips = {} /\ disk.outbox = {}
TokenForgotten  == IsForgotten => disk.settings = NULL
=============================================================================
