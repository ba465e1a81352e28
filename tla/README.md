# Verification of the safety-aware route planner

TLA+ models of the concurrent, stateful parts of this repository, the TLC runs
that check them, and theorems about them that the TLAPS proof system checks.
Paths are relative to the repository; `f.py:10` is line 10 of the file.

    tlasany M.tla                                    parse
    tlc -workers 2 -config X.cfg M                   run
    tlapm M.tla                                      prove

`PROJECT.json` is the index: components, runs, the source lines of every
definition (`map`), a defect that every property catches (`mutants`), the
hazards, the disagreements found, and the theorems.

## 1. Inventory of the system

The program answers "which way, and how safe" for a driver. A FastAPI service
(`api/` over `pyref/` or the C++ `core/`) searches routes in prebuilt packs; a
Next.js front end (`web/`) plans, navigates and, for opted-in testers, records
trip traces; a second service (`commute/`) ingests those traces into SQLite;
`ingestion/` builds the packs offline.

| Component | State it keeps | Operations | What is hard | What makes it correct |
|---|---|---|---|---|
| **Ingest service** `commute/` | SQLite: tokens, trips, chunks, ends | issue, revoke, PUT chunk, POST end, purge | a request spans two connections and the purge two instants; two workers race for a row; a retry meets a purged body; kills | a 200/201 stays true; first writer owns the trip; rows never change; retention is neither early nor omitted |
| **Recorder** `web/lib/tripRecorder.ts`, `tracePrivacy.ts`, `traceStorage.ts` | in memory and in IndexedDB: settings, open trip, outbox | init, optIn, setEnabled, forget, startTrip, addFix, reroute, endTrip, retryNow, drain | a drain runs beside the operations; storage is awaited, may reject, survives kills that memory does not; GPS time is not wall time | a kill loses nothing; one key, one content; nothing private leaves; every body is acceptable and in order |
| **Upload path** (both together) | the network | send, answer | lost answers, requests carried out after the device gave up on them | a retry is never a conflict; nothing is dropped; everything arrives |
| **Recorder hook** `web/lib/useTripRecorder.ts` | `prevRoute`, `ended`, a one-tab lock | effects calling the recorder | three effects of one commit; a second tab | a trip is open only in a live session |
| **Navigation** `web/lib/useNavigation.ts`, `useRouteProgress.ts` | React state and refs: followed route, arrival, streak, guard | start, exit, fix, answer, reroute | commits, effects, cleanups and answers interleave; state of one commit is read by effects of the next | answers followed belong to the current session; the guard is released |
| **Rate limiting** `api/ratelimit.py`, its callers in `routes.py` and `geocode.py` | token buckets in the process or in Redis, a table of clients in order of recency | acquire | key expiry, eviction, clock steps, Redis down, answers lost | the quota; a Retry-After that is kept; eviction is no way round it |
| **Wake lock** `web/lib/useWakeLock.ts` | sentinel, request token | acquire, release, visibility | overlapping requests, releases by the browser | no lock nobody wants; a wanted lock comes back |
| **Planner page** `web/app/page.tsx`, `web/lib/coverage.ts` | React state, sequence number, debounce timer | edit, follow GPS, preflight, answer, reset, start, exit | answers out of order; a timer, a refusal and a reset in between | what is shown is what is asked; it refuses what the service refuses |
| **Pack download** `api/packs_fetch.py` | packs on a volume | boot | a kill at any step, a bucket with other bytes, the disk of another deployment | the service comes up, with pinned packs only |
| **Pack registry** `api/registry.py`, `api/state.py`, `api/main.py` | packs, immutable once loaded | load, select | boxes that touch, a null box | one pack per point |
| **Route search** `pyref/`, `core/` | none between requests | plan, reroute | a search with turn costs and refunds at both ends; reruns, budget and labels that act on each other | least cost; counts and budget mean what they say; every request ends |
| **Ingestion** `ingestion/` | none; it writes packs | build | the control of an approach comes from four sources that override each other | one street, one control; no guess is counted |
| Geocoding proxy `api/geocode.py` | FIFO cache | geocode | identical queries in flight together | the upstream's quota |
| Sensors, views, schemas, simulation, scripts | browser subscriptions, or none | | | |

How they interact. The planner page holds the chosen route and hands it to
`useNavigation` while navigating (`page.tsx:125-130`); `useNavigation` calls the
route service when progress says off-route and shows its answer;
`useTripRecorder` watches the followed route, the arrival and the position, and
calls the recorder; the recorder seals chunks into its outbox and its drain
sends them to the ingest service with the tester's token. The two services
share nothing.

## 2. Modules, and how they correspond to the code

    IngestContract  <--implements--  TraceStore  <--TraceStoreProofs
                                        ^ INSTANCE
    TraceSealing <--EXTENDS-- TripRecorder <--EXTENDS-- TripUpload
                                  ^ TripRecorderProofs <-- TripUploadProofs
    Navigation <--NavigationProofs
    RateLimit <--RateLimitProofs
    PackRegistry <--EXTENDS-- PackService <--EXTENDS-- PlannerPage <--PlannerPageProofs
                                 WakeLock <--EXTENDS--'
    JunctionControl <-- RoadPack <-- SafetyCosts <--EXTENDS-- RoutePlanner
                          RouteSearch <--EXTENDS--------------'    ^
                              ^ RouteSearchProofs <--EXTENDS-- RoutePlannerProofs

An `MC` module beside each gives the constants their small values. Definitions
whose comment begins with `defect:` are not part of the model: each is the form
a plausible bug would give the definition below it, and `mutants` says which
property catches it.

**IngestContract** is what `commute/app.py`'s header and ADR-0018 promise a
device, with no table and no worker: write-once registers, owned by the first
token that writes to the trip, and an acknowledgement only of what is held.

**TraceStore** is the service. A write is one `BEGIN IMMEDIATE` transaction and
one action (`PutChunk`, `EndTrip`); a request is three (`Authenticate` reads
the token on a connection of its own, then the write, then `Respond`), so that
revocations, other workers, the purge and a kill come between. The purge is
two: it reads its clock (`PurgeBegin`) before its transaction (`PurgeWrite`).
A body stands for its canonical JSON and the SHA-256 of it: the digest is taken
to be injective. The server's clock does not go back.

**TraceSealing** is the pure part of the recorder: the privacy rules, the
sealing functions, the order of the outbox, and the wire models of
`commute/schemas.py` that a body must satisfy. A route is the sequence of
places its polyline is sampled at, so clipping has nothing to interpolate;
`Distance` is a parameter.

**TripRecorder** is the device. Operations are serialised by the code's `run`,
so one `op` holds what the running one awaits and its locals; beside it at most
one `drain`. Between two awaits JavaScript is atomic, so an action is the code
from one await to the next. Storage is a queue of transactions (`txns`), which
IndexedDB completes in the order they were made; completing one runs the
continuation of its caller. `Crash` keeps only `disk`. `ClockSteps` and
`StorageFails` let the wall clock go back and any transaction be rejected.
`drain`'s last await and the line that clears `flushing` fall in one microtask
checkpoint and are one step. The answer to a request is a parameter
(`DrainAnswer(kind)`), so that the module can be checked against any server.

**TripUpload** puts `TraceStore` there: `Carry` hands the item sent to a worker,
`Reply` classifies that worker's answer, `FetchFails` gives up on it while the
worker goes on. A request nobody waits for may still be carried out.

**Navigation** is the React hooks. `queued` holds the updates since the last
commit, `shown` the state of that commit, `due` the dependencies it changed.
`Render` commits, `Effects` runs the effects of that commit in their order with
cleanups first, `Click` does both at once, because React flushes a discrete
event and its effects synchronously while updates from effects, timers and
promises wait for a later task. Anything else may come between (`Overlaps`).
The continuations of a request (`then`, `catch`, `finally`) run in one go. A fix
too noisy to count, or within reach of the route's ends, is not in `Off`.

**RateLimit** is both limiters: one bucket for Nominatim, which fails closed,
and one per client for routing, which fails open. `config`, chosen at the start,
says which, and whether the buckets are in Redis or in the process. Time is in
ticks that earn a unit and a token is `Cost` units, so the code's floating point
is exact here and its rounding is left out. `bucket_step` and its Lua
transcription agree and are one set of operators (`Earned`, `Available`,
`Stepped`); the evaluation of the script is one action. With Redis a key
expires at `Ttl` whether or not Redis has deleted it (`Expire`), a call may
reach it or not (`Unreachable`) and be answered or not (`AnswerLost`), and
its `TIME` may be set back; set forward, it is that many ticks. In the process
`Touched` moves a client to the recent end and `Evicted` drops the least recent
with its bucket. `served`, `promise` and `others` are histories for the
properties, and start again where a bucket does. What is promised is per
bucket: N processes without Redis are N quotas, as the code says, and a Redis
that loses its keys is not modelled.

**PackRegistry** has the pure core of `api/registry.py` (boxes, `pack_for`,
`validate_coverage`) and the page's version of it in `web/lib/coverage.ts`, side
by side; nothing makes one use the other.

**PackService** is one container and what follows it: `Start` reads the
configuration and finds what is missing, each missing region is downloaded,
verified and renamed into place (`Downloaded`, `Verify`, `Install`), and `Load`
is the lifespan's `AppState.load`. Every step may be the last (`Kill`); a failed
boot is started again, by the platform. What is unpacked lies in a directory of
`mkdtemp` that no other boot opens, so only the rename changes the disk.
`Redeploy` puts another configuration and lock on the same disk or on a fresh
one. An archive stands for its SHA-256, which is taken to be injective. `todo`
is a set of positions in the list of regions: the code walks the list in order,
and the positions keep it.

**WakeLock** is the controller of `useWakeLock.ts` and a browser. `Acquire` is
`acquire` up to its `await`; `Granted` and `Denied` are what follows, under the
state of then. A release is asked for (`releasing`) and happens later
(`Released`); `Dropped` is the browser's own, and `Hidden` ends all locks.
A sentinel is named by the token of the request it answers.

**PlannerPage** is `page.tsx` over both. An event, the commit it causes and the
effects of that commit are one step here, because Navigation is about what
comes between them; the debounce timer (`RunRoute`), the network
(`RequestFails`, `AnswerArrives`) and the service (`ServiceReplies`, whatever
deployment it is by then) are steps of their own. `Commit` is every commit:
the GPS effect (`Adopted`), the debounce effect, the argument of the wake lock.
The routes of an answer are represented by the question they answer.

**JunctionControl** is how `ingestion/` decides what governs an approach: the
walk along each arm (`approach_controls.py`), the sharing between the arms of
one street, the node's own tag, a roundabout among the merged edges that meet
there, and the guess from road classes (`controls.py`). A sign's direction is
read against the order of the way where its edge towards the junction exists
(`follows`), and ignored where it does not. **RoadPack** assembles from it, and from tags, the arrays of
`pack.py` and the turn table of `turns.py`. **SafetyCosts** is `costs.py` over
them and over the traffic of a departure (`sim/`): penalty, the two counters,
the colour and the expected wait of every turn. All are operators on one
network, without state; numbers are integers in the units each module names, so
what floating point rounds is rounded down here.

**RouteSearch** is one call of `shortest_path`, one pop of the heap at a time,
for `pyref/search.py` and for `core/src/engine.cpp`, which a parity test keeps
equal. **RoutePlanner** is a request on top of it: endpoints become seeds and
refunds (`PlanOf`), then `compute_alternatives` slot by slot (`RunLevel`,
`LevelRun`, the hard-avoid run, `Rerun` with its surcharges, `Drop`, `Keep`,
`Reply`), or `compute_single` for a reroute.

## 3. Runs

Every run finishes within about three minutes with two workers; the largest
has 3.5 million distinct states. No run replaces a definition:
the constants alone make the instance small.

| Run | What it asks |
|---|---|
| `MCTraceStore` | Do races for a trip, replays, conflicts, revocations, purges and kills keep the promises of the contract, and is every raw trace cleared in the end? |
| `MCRecorderTrips` | Two trips under every operation while drain, timer and a kill interleave at every await: is anything lost, or sealed twice, or after the end? |
| `MCRecorderDrives` | Drives up and down a line, rerouting, while storage rejects and the clock is set back: is anything private or unacceptable sealed, or out of order? |
| `MCUploadRetries` | Recorder, network and service with two workers and a kill on either side: is a retry ever a conflict, an item ever dropped? |
| `MCUploadDelivery` | Does everything queued arrive, under fairness? |
| `MCNavigation` | Sessions, replans, fixes and answers at any moment between commits and effects: is an answer of another session heard, a trip open outside one, the guard held for ever? |
| `MCRateLimit` | Expiry, outages, lost answers, a clock set back, eviction: is anybody served above the rate, or sent back too early, or is eviction cheap? |
| `MCRoutePlanner` | Every plan and reroute of a small town, tagged in fourteen ways, by day and by night: is the search exact, does the budget hold as shown, are guesses never counted, does every request end? |
| `MCPlannerPage` | Page, lock and service through edits, fixes, late answers, sessions, hidden pages, killed boots and redeployments: is what is shown what is asked, is the lock held when wanted, does the service come up with pinned packs? |
| `MCRecorderForget`, `MCNavigationRetry`, `MCRouteSafeLabel` | Counterexamples to what the code's comments say; see section 6. |

Bounds and why they are enough.

- *TraceStore*: two tokens and three bodies, one of which the wire model
  refuses, are what a replay, a conflict, a takeover and a 422 need; one chunk
  and one end are the two tables. With
  `Retention = 0` and a clock of two instants, a purge that read the clock early
  meets a row received at that instant or after it, and one that read it late
  meets a row that is due. There is one worker in this run, as a request that
  races another was worth more states than the clock; `MCUploadRetries` has two,
  and the theorems of section 4 have any number.
- *Recorder, trips*: a place, a fix and no trimming make every fix seal as it
  comes, so the queue holds artifacts, fixes and ends within a few steps; two
  trips give a start over an open one, and an orphan beside a new one; one kill
  at any step, two before a launch is over being the same as one.
  `MaxEffective` stops rerouting: each reroute takes effect one later than the
  last.
- *Recorder, drives*: six places with trimming at 2 are the least on which a
  stretch of the line survives both ends, and the fixes include one that comes
  back on a place left behind, a poor one and one too poor. Fixes are stamped
  up to 3 while the clock stays within 0..1, so they are ahead of it.
- *Upload*: one trip of at most two chunks and an end; two workers are one
  request awaited and one given up on.
- *Navigation*: two routes of one level to swap between, one of another to tell
  apart; two requests in the air are one heard and one cancelled; a streak of 2
  has a before and an after (the code's is larger, and only its end matters).
  `MaxCalls` cuts effects that would send a third.
- *RateLimit*: a bucket of 4 units with tokens of 3 holds one call and a
  remainder, and a second of 2 ticks divides neither, so that rounding shows.
  With Redis one client is enough, as buckets share nothing there, and 11 ticks
  go beyond `Ttl` = 8 and leave a token's worth after it; in the process three
  clients compete for a table of two for 4 ticks, in which a bucket empties and
  earns a token back. `horizon` bounds the ticks, not the calls in one.
- *Planner*: two blocks of a town with an arterial, two streets, a one-way street
  and a dead end have every maneuver, an overtaken and a duplicate heap entry,
  detours on both sides of the budget and a diversity rerun. Each of the
  fourteen networks puts another tag near the middle junction, on a street that
  is two-way, one way towards it or one way out of it. A request is
  deterministic, so the instance is as large as the requests are many: 1,512 of
  them.
- *Page*: two regions side by side, four deployments (one with a lock under which
  the two regions touch, one with a pack pinned by hand), a bucket that may have
  any pack ever built or none. The page is opened when the service is up.
  `MaxDisturbances` = 4 edits, clicks, fixes, hidings or drops, a kill or a
  redeployment of the service counting twice: enough for two questions in the
  air with a reset or a session between, and for a kill after a redeployment.
  The steps of a boot, of the network and of the browser are not counted.

Where a run is narrower than a hazard, a theorem of section 4 covers the rest:
- two requests of one trip racing in the service: `AcknowledgedIsHeld` and
  `ImplementsContract`, for any set of workers;
- a rejected transaction together with a kill: `NoPartIsSealedTwice` and
  `WhatIsSentIsDurable`, as the first's run has kills without rejections and the
  second's rejections without kills;
- artifacts trimmed on a line that is driven back and forth: `FixesAreHeldBack`
  for which are held back and `ArtifactsFollowFixes` for when they go;
- a row purged of its text before it is resent: `RetriesAreReplays`, as the
  upload runs have no purge (`MCTraceStore` has it for the service alone).

`CHECK_DEADLOCK FALSE` appears where the clock and the trips are used up and a
device has nothing to do, and where `MaxCalls` cuts an effect off.

**Fairness.** `TraceStore!FairSpec` is fair to the purge and the clock only:
`entrypoint.sh` purges at boot and daily for as long as the container lives, and
strong fairness of `PurgeWrite` says that the container is not killed during
every purge. No request is owed. `TripUpload!UploadFairSpec` is weakly fair to
what JavaScript and the service run without waiting for anybody (continuations,
the armed retry timer, a worker's steps), says that a fetch settles, and is
strongly fair to the network and to the stages of an awaited request: attempts
may fail at any of them, not an endless series of attempts at the same one. No
operation by a tester is owed, nor is a drain started by anything but what the
code does to start it. `RoutePlanner!FairSpec` says that a request's thread runs.
`PlannerPage!FairSpec` is weakly fair to a boot, which its process and the
platform's restarts carry on, and strongly fair to the right archive being
downloaded and to its being unpacked: either may fail, but not always. Nothing
is owed to the page.

## 4. Proofs

For every value of the constants, under the assumptions that the modules name:
`NULL` and `End` are none of the things they mark the absence of; bounds and
thresholds are natural numbers; a route of the recorder is a non-empty sequence
of places and a place is at distance 0 from itself; a bucket that is full can
pay for a call; boxes and points are numbers; a configuration is a list of
regions, a disk holds packs; a graph is finite, with costs that are not
negative and a consistent heuristic. The planner's are about its inputs alone: a
network has finitely many edges, each told by its ends and its way, at
coordinates, of known classes (`NetworksAreRoads`); a request names a network,
an edge at each end, and a budget (`RequestsAreSane`); the configuration has no
negative number, no cap of 0 and no hour in which traffic stands still
(`CostsAreSane`, `DefaultsAreSane`); `fast` has lambda 0 and the inflation is at
least 1 (`LevelsAreSane`); a walk may take a step (`WalksAreBounded`). The one
about what is computed from them is `HeuristicIsConsistent`, which is the
assertion of `tests/test_astar_admissible.py:38` at lambda 0: whole numbers
round, so that it does not follow from geometry in the model. What a theorem
needs beyond that is in its own statement: that storage rejects nothing, that
the clock is not set back, that the device has one token; section 6 and the
hazards say what happens otherwise.

**TraceStoreProofs.** The safety invariants are not inductive. That an upload
answered with a 200 is held (`AckedIsHeld`) needs that an answer on its way out
already tells the truth (`AnswerIsHeld`), which needs that a row is never
without an owner (`Owned`): otherwise a second token could claim a trip that
has rows. That nothing is purged early (`NothingPurgedEarly`) needs that the
clock the purge has read is not ahead (`PurgeLags`). `IInv` is these, the types
and the two properties; one lemma per conjunct and action shows it preserved.
From it: `TypeCorrect`, `AcknowledgedIsHeld`, `RetentionIsKept`,
`StoreIsAppendOnly` (an action property, with the body never restored) and
`ImplementsContract`: every step of the service is a `Store`, an `Acknowledge`
or a stutter of the contract, with `owner` the trip table and `held` the
content columns of the two tables.

**TripRecorderProofs.** What was sealed once may be sealed again by whoever still
holds it: the trip in memory, its copy on the disk after a rejected transaction,
an orphan found at the next launch, an operation that waits for its put. So the
invariant `Inv` is about all of them. `TripInv`: every live copy of a trip has
left behind whatever was sealed for it (`Sound`: its next seq is beyond, its
pending fixes and artifacts come after, and with an end sealed there is no
copy). `ItemInv`: what was sealed for one trip is in one order (`Orderly`), and
whatever is queued, stored or sent was sealed. `OpInv`: what the operation under
way is about to seal continues its trip (`Proposed`). `QueueInv`: at most one
transaction of the operation and one of the drain are queued, and they are the
ones those two wait for, so a commit does what its caller expects. From `Inv`
follow `TypesHold`, `NoPartIsSealedTwice`, `WhatIsSentIsDurable`,
`SealedBodiesAreValid`, `SealedChunksAreInOrder` and the action property
`NothingIsSealedAfterEnd`, all with kills, rejections and a clock set back at
any step. Four more invariants rest on it:

- `FixesAreHeldBack` (`TakenInv`): whichever fixes a trip has taken, in however
  many chunks, none is near its first fix and each is far from a later one. It
  needs `Trim > 0`: with none, nothing is held back.
- `AKilledAppLosesNothing` and `ForgettingForgetsTraces` (`SameInv`, `OwnerInv`):
  while storage rejects nothing, disk and memory agree between operations, and
  traces have an owner's settings beside them.
- `ArtifactsFollowFixes` (`FixesInv`): a trip marked as having sealed fixes did. A
  trip with more artifacts than there are seqs would use up its seqs on them
  before its first fix; the theorem says so as a hypothesis (`FewHeld`) about
  the behaviour, and `ArtifactsFollowFixesInBounds` discharges it when there is
  a seq for every effective time, as there is in the runs.
- `AnEndGoesLast` (`AgeInv`): with a clock that is not set back, nothing of a trip
  was created after its end, so the sort of the outbox puts the end last.

The model's recursive functions over fixes and routes are reasoned about with
`LeastNat`: a set of naturals has a least member, hence induction over a set of
lengths (`InductionTo`) and recursive functions up to a length (`RecursionTo`).

**TripUploadProofs.** Put together, the recorder and the service run as each does by
itself (`DeviceIsTheRecorder`, `ServiceIsTheStore`), so every theorem about
either holds of the path. `PathInv` is what ties the two: a request under way
and a row held are of an item the device has sealed (`ReqInv`, `RowInv`), the
request awaited is for the item the drain waits for (`LinkInv`), and an answer
is already true of the tables (`ServiceInv`). As an item is sealed once with one
body, a retry repeats what is held, also after a purge, which keeps the digest
(`RetriesAreReplays`, for any number of workers and requests given up on).
For a device with one token no answer is about another tester's trip
(`NoStranger`), so what the drain deletes was acknowledged and is held
(`WhatIsDroppedIsHeld`, an action property); two tokens can break it, as
`tripRecorder.ts:399` allows. `EndsAreComplete` needs that while an end is
awaited, carried out late or held, all chunks of its trip are held (`EndInv`):
the drain turns to an end when no chunk of its trip is queued in memory
(`AgeInv`, which is why the clock must not be set back); memory has all that
storage has of a trip it knows (`MirrorInv`); and what has left storage is held,
or its trip is forgotten everywhere (`CoverInv`).

**NavigationProofs.** `GuardAlwaysReleased`: effects that leave the guard set
leave a request in the air, and the end of any request, heard or cancelled,
releases it. `RecordingIsNavigation`: the property speaks of moments when React
is done; `RecInv` extends it to those when it is not: an open trip is one the
hook has seen start and not end (`TripIsKnown`), and with no effect due the
hook has seen what is shown (`HookIsCurrent`), which a render may break only by
making an effect due. Neither needs any bound or assumption. `AnswersAreCurrent`:
with nothing due but the session effect, whatever would be heard is for the
route shown (`HeardFits`), because a commit that changes that route or arrives
makes the effect due whose cleanup cancels the request.
`NavigationTypes` is the types, the bound on requests in the air among them.

**RateLimitProofs.** `Quota` compares pairs of calls and says nothing of the
bucket that decides the next one. `QInv` adds that the calls since any earlier
one, and what the bucket holds, were paid for by a full bucket and the ticks
since (`Paid`). A call moves a token from one side to the other (`CallPaid`); a
tick adds at most one unit to what is held, also where it makes a key expire,
because the bucket was full long before (`TickEarns`, which is where `Ttl`
matters); a clock set back adds none (`BackEarnsNothing`). `QuotaHolds` is for
any number of clients, calls and evictions. `PromisesAreKept`: `PInv` says that
at the promised moment the bucket will have a token, counting from when it was
last read; a refusal reads it without taking anything, so the promise of an
earlier one stands. `EvictionTakesACrowd`: the table names each client once and in the order
of their calls, so whoever stands behind a client has called after its last call
(`LruInv`); when it is dropped from the front of a full table, that is as many
others as the table tracks, counted by mapping the positions of the table onto
them. `RateTypes` is from the same invariant.

**PlannerPageProofs.** `LockHeldAsWanted`: `LockInv` adds that nothing is held
while the latest request is in the air, that the controller forgets a lock when
it ends, that a hidden page has none, and that what the controller wants on a
visible page is held as soon as its latest request has been answered, older
ones notwithstanding. `PageShowsWhatIsAsked`: with `timer` armed the page owes
nothing; `PageInv` says that otherwise the request that counts, if there is one,
is about the fields of now (`About`), that sequence numbers name one request
each (`Numbered`), and that with an endpoint missing nothing is shown or awaited
(`Tidy`), which is why the debounce may end without a request.

Of the packs, in the same module, `ServedIsPinned`: `ServiceInv` says that whatever lies on
the disk under a region was pinned for it by a deployment so far or was there
at first, that the regions of a boot in progress can be fetched, and that a
verified archive is the pinned one. Kills need no argument of their own, since a
boot changes the disk only by a rename; a redeployment may only add to what was
pinned. That no point belongs to two packs is `CoverageIsExclusive`.
`PreflightIsPackFor` shows the two implementations of pack selection equal, and
`PagesAgree` applies it to every state.

**RouteSearchProofs.** `LazyDeletionLosesNothing`: the entry dropped as overtaken
is not the present entry of any edge, and a settled edge leaves each of its
turns either improved, and so in the heap, or no better. The first entry of a
heap is one of it (`FirstIsInHeap`) because costs are natural numbers.
`SearchesAreExact` strengthens that to `ExactInv`. `TreeInv`: the predecessors
account for every cost (`FromPred`) and have no cycle, which turns that cost
nothing would allow but for an order of arrival beside the costs (`stamp`), so
the walk back ends, has no edge twice and costs no more than the search has it
down for (`BackIs`, `BackCosts`). `BestInv`: a destination reached waits in the
heap or is no better than the best popped. Then the two sides meet. What
`Cheapest` finds, by any number of turns, the search has at that cost or less,
or an entry whose bound is no greater still waits (`CheapestIsCovered`; this is
where the heuristic must be consistent); when the first entry is past the best
by more than the slack, no such entry can lead to a cheaper destination
(`FoundIsCheapest`). The recursive functions of the model exist because each
value depends on the one before (`RecursionHolds`) or on an edge nearer to a
seed (`DepthHolds`). The specification is `SearchSpec`, the search alone on any
problems as `IsProblem` has them: a finite graph, costs and bounds that are
natural numbers, a consistent heuristic, as `tests/test_astar_admissible.py:38`
checks of the real one, and refunds of any size.

**RoutePlannerProofs.** A planner's step is a search's step or takes a run's
result, and what the next run asks for depends on the results so far. `PlannerInv`
is the invariant of all of it, and has a lemma for each action:

- `PlanInv`: the plan is the request's; a search under way is for it, at the
  costs of the current run; `ExactInv` of RouteSearchProofs holds of it.
- What a plan is made of is never negative (`PlansAreRoads`): pack, traffic,
  waits and penalties are followed from the network and the configuration through
  the order of the edges (`EdgesAreLinks`), the interpolation between two hours
  (`InterpolatedIs`) and the series of the Adams delay (`AdamsIsNatural`).
- `RunInv`: each run asks for good costs. Surcharged arcs, a lambda above 0 and
  the rerun's inflated arcs all cost at least the time alone, so the heuristic
  stays consistent with them (`GoodCostsAreAsked`). That is `IsProblem` for
  every run of every request, hence `PlannerSearchesAreExact`: `SearchIsExact`
  and `ReachedAreFollowed` of the planner's own searches.
- `RouteInv`: what is chosen or kept is a route of this plan, from the origin's
  seeds to a destination.
- `BudgetInv`: the first slot's run is at lambda 0 without surcharge, so its
  result has the least travel time of any route, it is never dropped as a
  duplicate, and it stays the one the ceiling is measured against. The sum that
  the model shows as an ETA is the cost that the search minimises at lambda 0
  (`EtaIs`, `TravelTimeIs`: both are one recursive sum over the arcs of a route).
  What is left under the ceiling is the fastest and what can be afforded, in
  their order (`CeilingIs`), hence `BudgetsHold`.

The other two theorems are about what the ingestion computes and hold in every
state because the plan is the request's. `WarningsAreTagged`: a control is on
an arm only where the walk outwards met a tag for this approach (`WalkHolds`,
`NearHolds`) or another arm of the same street had one (`Harmonized`); by cases
on the source (`Classified`), a turn priced as unsafe has at its approach a
control that was tagged, never the guessed one (`FlaggedIsTagged`).
`StreetsAgree`: after `Harmonized`, arms of one street show the same, and
`Resolved` gives arms that show the same the same control; what a junction's
own node says holds for all of them, but for who must stop (section 6).

**Only model-checked**: liveness (`EveryTraceExpires`, `Delivered`, `Answered`,
`ComesUp`), which is beyond the prover; and that the heuristic of the
instance's networks is consistent, an assumption TLC evaluates. Every invariant
and every action property of the passing runs is stated by a theorem. The runs
with a violation have none, as what they check is false.

## 5. Not modelled

Rendering, formatting and speech; device sensors but for the arrival of a fix;
wire schemas but for the validity of a trace body; developer scripts; the
download and simplification of OpenStreetMap extracts, elevation and the sanity
report: without lasting state of their own, or numeric work on large inputs. Of
the geocoding proxy only the quota is modelled: the cache in front of it holds
what the upstream said, and a hit takes no token. The one-tab lock of
`useTripRecorder.ts` is the browser's, and a second recorder on the same storage
would square the state of the first.

Inside the modelled parts: the ingest service's body-size middleware (the
recorder's own limits keep bodies under it), `/health` and printing; the
recorder's backoff delays, status strings and listeners; in navigation the
geometry of progress, the safety alerts, the error text and the Reset button;
IndexedDB being unavailable from the start; in rate limiting the address a
client is known by; in the planner the spatial index (an endpoint is given on
its edge), curved streets, floating point and time zones; in packs the command
line, litter of killed boots and what paths an archive contains; on the page
geocoding, the choice among the routes shown and the map.

## 6. Where code and comment part

Three runs are counterexamples; each finding in `PROJECT.json` quotes the line.

- `MCRecorderForget`: a 401 that arrives while forget awaits its delete writes
  the forgotten token back (`tripRecorder.ts:406`).
- `MCNavigationRetry`: after a failed reroute the next fix asks again, and its
  own progress update cancels that request (`useNavigation.ts:118`).
- `MCRouteSafeLabel`: with the `safe` run dropped as a duplicate of the fastest
  route, the balanced one becomes "safe" by position, though it is flagged more
  often than the fastest (`alternatives.py:161`).

Seen while modelling, with no run of their own:

- *Recorder.* With two opt-ins, the 401 to an upload of the first token marks the
  second as rejected (`tripRecorder.ts:405` against `traceStorage.ts:26`). With
  the wall clock set back, the end of a trip can be sent before its chunks, since
  the outbox is ordered by the clock first (`traceStorage.ts:87` against `:83`).
  `NoArtifactBeforeFixes` holds only while storage does not reject. A revocation
  between a request's authentication and its write is not noticed (`app.py:109`).
- *Navigation.* The commit of a rerouted path still holds the progress of the path
  it replaced, so the effect asks for another at once (`useNavigation.ts:92`
  against `:100-102`); ADR-0013's "one reroute per 18 s" rests on the reset. An
  answer that lands between the session effect and its commit leaves a session
  that is over with a followed route (`:70`), harmless to the recorder; after a
  change of session the guard lets a second request fly beside the cancelled one
  (`:72`).
- *Page.* `page.tsx:122` calls the active route frozen during a session, yet the
  map takes clicks and a late planner answer restarts the session. A plan that
  fails meanwhile takes the routes and the HUD away while `navigating` stays true
  (`:303`, `:641`), and the next plan that succeeds resumes the session unasked.
  A page opened before a redeployment keeps the `/meta` of the old packs (`:197`).
- *Packs.* A directory without a manifest, as an interrupted local build leaves it,
  is missing to `_is_present` and in the way of the rename: every boot ends in an
  `OSError`, not in a `PackFetchError` (`packs_fetch.py:174`). A pack on the disk
  is never replaced, so a new lock's build of one region can meet the old build
  of another, and then the boot refuses their coverage.
- *Planner.* An origin behind the destination on one one-way edge, when no way
  around is cheaper, gives an arrival before the departure
  (`alternatives.py:48`). `compute_single` at level `safe` has no budget ceiling,
  though its docstring says "exactly as the sweep honors it" (`:185`).
- *Ingestion.* A pedestrian signal on a junction's own node makes it a signal for
  cars (`controls.py:53`, against `approach_controls.py:88`), and of two equal
  main roads that cross at a side street both are given the right of way by the
  guess `STOP_2WAY`. A stop or yield on the junction's own node holds, of one
  street, only the approach of the lesser class where the class changes
  (`controls.py:94-114`), which is why `StreetAgrees` excepts it.

## 7. Plan

The composition of PlannerPage with Navigation, between React's commits: the
hazards at `useNavigation.ts:70` and `:92` are of that kind.
