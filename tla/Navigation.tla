----------------------------- MODULE Navigation -----------------------------
(***************************************************************************)
(* A live-navigation session: web/lib/useNavigation.ts over                *)
(* useRouteProgress.ts, as the planner page uses them and as               *)
(* useTripRecorder.ts reports them to the trip recorder.                   *)
(*                                                                         *)
(* The hooks are effects of a React component, and React is modelled by    *)
(* what it does with them.  An update of the state is queued; a render     *)
(* commits every queued update at once (Render); after it and before the   *)
(* next, the effects whose dependencies the commit changed run in the      *)
(* order they are declared, all cleanups first (Effects), and may queue    *)
(* updates in their turn.  A click is rendered and has its effects run at  *)
(* once (Click).  In between come GPS fixes, answers and other clicks.     *)
(***************************************************************************)
EXTENDS Naturals, FiniteSets

CONSTANTS
  Routes,         \* route objects, compared by identity
  Level,          \* the preference of each route
  Places,         \* where a fix may be
  Off,            \* route -> places whose fixes count as off it: far from its
                  \* line and from its ends, and accurate
  Destinations,   \* the places that may be chosen as destination
  Hysteresis,     \* OFF_ROUTE_HYSTERESIS_FIXES
  MaxCalls,       \* bound: reroute requests in the air
  Overlaps,       \* whether anything comes in before React is done
  Replans,        \* whether the planner may answer during a session
  Prompt,         \* whether an answer always comes before the next fix
  NULL

VARIABLES
  shown,      \* the state of the last commit
  queued,     \* field of shown -> the value its last queued update sets
  due,        \* the dependencies the commit changed, until its effects run
  flying,     \* reroutingRef
  streak,     \* offRouteStreakRef, as far as the threshold
  grace,      \* less than START_GRACE_MS since the route was set
  calls,      \* the reroute requests in the air; heard is ~cancelled
  prevRoute,  \* useTripRecorder's ref
  ended,      \* useTripRecorder's ref
  trip        \* whether the recorder was last told to start a trip

ASSUME NavigationAssumption == Hysteresis \in Nat /\ MaxCalls \in Nat

refs == <<flying, streak, grace, calls, prevRoute, ended, trip>>
vars == <<shown, queued, due, refs>>

Fields == {"navigating", "active", "destination", "position", "followed",
           "arrived", "progress"}

None == [f \in {} |-> NULL]

Init ==
  /\ shown = [navigating |-> FALSE, active |-> NULL, destination |-> NULL,
              position |-> NULL, followed |-> NULL, arrived |-> FALSE,
              progress |-> NULL]
  /\ queued = None /\ due = {} /\ calls = {}
  /\ flying = FALSE /\ streak = 0 /\ grace = FALSE
  /\ prevRoute = NULL /\ ended = FALSE /\ trip = FALSE

-----------------------------------------------------------------------------
(* A commit. *)

(* What the page passes to useNavigation and to useTripRecorder. *)
InitialRoute(s) == IF s.navigating THEN s.active ELSE NULL

UngatedRoute(s) == s.followed                  \* defect: nav.route as it is
RecordedRoute(s) == IF s.navigating THEN s.followed ELSE NULL

HasArrived(s) == s.followed # NULL /\ s.position # NULL /\ s.position = s.destination

(* The updates u applied, and arrival latched by the render. *)
Committed(u) ==
  LET s == [f \in Fields |-> IF f \in DOMAIN u THEN u[f] ELSE shown[f]]
  IN [s EXCEPT !.arrived = @ \/ HasArrived(s)]

(* The dependencies that are not the same: a new fix, or a new progress, is *)
(* a new object whatever it says.                                           *)
Changed(u, s) ==
  {f \in {"destination", "followed", "arrived", "position", "progress"} : s[f] # shown[f]}
    \cup {f \in {"position", "progress"} \cap DOMAIN u : u[f] # NULL}
    \cup {i \in {"initialRoute"} : InitialRoute(s) # InitialRoute(shown)}

-----------------------------------------------------------------------------
(* The effects of a commit s that changed d, in their order. *)

SessionUpdates(s, d) ==
  IF "initialRoute" \in d THEN [followed |-> InitialRoute(s), arrived |-> FALSE] ELSE None

(* useRouteProgress: a new route resets, then every fix counts. *)
Tracked(s) == s.followed # NULL /\ s.position # NULL

Streak(s, d) ==
  IF "followed" \in d \/ (Tracked(s) /\ (grace \/ s.position \notin Off[s.followed])) THEN 0
  ELSE IF Tracked(s) /\ streak < Hysteresis THEN streak + 1
  ELSE streak

Progress(s, d) == IF Tracked(s) THEN [off |-> Streak(s, d) >= Hysteresis] ELSE NULL

Moved(d) == d \cap {"followed", "position"} # {}

ProgressUpdates(s, d) == IF Moved(d) THEN [progress |-> Progress(s, d)] ELSE None

(* The updates u queued after the updates q. *)
Over(u, q) == [f \in DOMAIN u \cup DOMAIN q |-> IF f \in DOMAIN u THEN u[f] ELSE q[f]]

(* The reroute effect; its cleanup cancels the request of its last run. *)
Rerouting(s) == s.followed # NULL /\ ~s.arrived /\ s.progress # NULL /\ s.progress.off

Guarded(d) == flying /\ "initialRoute" \notin d

Fires(s, d) ==
  /\ d \ {"initialRoute"} # {}
  /\ Rerouting(s) /\ s.position # NULL /\ s.destination # NULL /\ ~Guarded(d)

KeptHeard(cs) == cs                            \* defect: no cleanup
Cancelled(cs) == {[c EXCEPT !.heard = FALSE] : c \in cs}

NewCall(s) ==
  [n |-> CHOOSE n \in 1..MaxCalls : \A c \in calls : c.n # n,
   route |-> s.followed, heard |-> TRUE]

RerouteEffect(s, d) ==
  /\ Fires(s, d) => Cardinality(calls) < MaxCalls
  /\ flying' = (Guarded(d) \/ Fires(s, d))
  /\ calls' = (IF d \ {"initialRoute"} = {} THEN calls ELSE Cancelled(calls))
                \cup (IF Fires(s, d) THEN {NewCall(s)} ELSE {})

(* useTripRecorder: its route effect, then its arrival effect. *)
Starts(s) == prevRoute = NULL /\ RecordedRoute(s) # NULL
Leaves(s) == prevRoute # NULL /\ RecordedRoute(s) = NULL

EndedKept(s) == ended                          \* defect: not reset at a start
EndedBefore(s) == ended /\ ~Starts(s)

Arrives(s) == s.arrived /\ RecordedRoute(s) # NULL /\ ~EndedBefore(s)

RecorderEffects(s) ==
  /\ prevRoute' = RecordedRoute(s)
  /\ ended' = (EndedBefore(s) \/ Leaves(s) \/ Arrives(s))
  /\ trip' = ((trip \/ Starts(s)) /\ ~(Leaves(s) /\ ~ended) /\ ~Arrives(s))

RunEffects(s, d) ==
  /\ queued' = Over(ProgressUpdates(s, d), Over(SessionUpdates(s, d), queued))
  /\ streak' = IF Moved(d) THEN Streak(s, d) ELSE streak
  /\ grace' = (grace \/ "followed" \in d)
  /\ RerouteEffect(s, d)
  /\ RecorderEffects(s)

-----------------------------------------------------------------------------
(* React. *)

Settled == queued = None /\ due = {}

Interrupts == Overlaps \/ Settled

Render ==
  /\ due = {} /\ queued # None
  /\ shown' = Committed(queued)
  /\ due' = Changed(queued, shown')
  /\ queued' = None
  /\ UNCHANGED refs

Effects ==
  /\ due # {}
  /\ RunEffects(shown, due)
  /\ due' = {}
  /\ UNCHANGED shown

Click(u) ==
  /\ Interrupts /\ due = {}
  /\ shown' = Committed(u)
  /\ RunEffects(shown', Changed(u, shown'))
  /\ UNCHANGED due

Queue(u) == Interrupts /\ queued' = Over(u, queued)

-----------------------------------------------------------------------------
(* What comes in. *)

StartNavigating == ~shown.navigating /\ shown.active # NULL /\ Click([navigating |-> TRUE])
ExitNavigating == shown.navigating /\ shown.followed # NULL /\ Click([navigating |-> FALSE])

(* A click on the map; the map takes clicks during a session too. *)
SetDestination(p) == shown.destination # p /\ Click([destination |-> p])

(* A set of routes from the planner, and the one selected. *)
PlannerAnswers(r) ==
  /\ Replans \/ ~shown.navigating
  /\ Queue([active |-> r])
  /\ UNCHANGED <<shown, due, refs>>

Fix(p) ==
  /\ Prompt => calls = {}
  /\ Queue([position |-> p])
  /\ UNCHANGED <<shown, due, refs>>

GraceOver ==
  /\ grace /\ grace' = FALSE
  /\ UNCHANGED <<shown, queued, due, flying, streak, calls, prevRoute, ended, trip>>

(* The continuations of a request, `finally' included, run in one go. *)
AnswerIfHeard(c, u) ==                         \* defect: cancelled, not released
  /\ Queue(IF c.heard THEN u ELSE None)
  /\ calls' = calls \ {c}
  /\ flying' = (flying /\ ~c.heard)
  /\ UNCHANGED <<shown, due, streak, grace, prevRoute, ended, trip>>

Answer(c, u) ==
  /\ Queue(IF c.heard THEN u ELSE None)
  /\ calls' = calls \ {c}
  /\ flying' = FALSE
  /\ UNCHANGED <<shown, due, streak, grace, prevRoute, ended, trip>>

(* The server answers with a new route of the level it was asked for. *)
Rerouted(c) ==
  \E r \in Routes \ {shown.followed, prevRoute} :
    Level[r] = Level[c.route] /\ Answer(c, [followed |-> r])
RerouteFails(c) == Answer(c, None)

Next ==
  \/ Render \/ Effects
  \/ StartNavigating \/ ExitNavigating \/ GraceOver
  \/ \E p \in Destinations : SetDestination(p)
  \/ \E p \in Places : Fix(p)
  \/ \E r \in Routes \cup {NULL} : PlannerAnswers(r)
  \/ \E c \in calls : Rerouted(c) \/ RerouteFails(c)

Spec == Init /\ [][Next]_vars
-----------------------------------------------------------------------------
Heard == {c \in calls : c.heard}

(* useTripRecorder.ts's refs and the calls it makes agree: a trip is open    *)
(* only for a route it has seen and not yet ended.                           *)
TypeOK ==
  /\ shown.followed \in Routes \cup {NULL} /\ shown.active \in Routes \cup {NULL}
  /\ DOMAIN queued \subseteq Fields
  /\ streak \in 0..Hysteresis /\ flying \in BOOLEAN
  /\ Cardinality(calls) <= MaxCalls /\ \A c \in calls : c.route \in Routes
  /\ trip => prevRoute # NULL /\ ~ended

(* An answer that will be followed belongs to the route being followed, in a *)
(* session that has not arrived: useNavigation.ts's cleanup, guard and latch *)
(* leave no request of another route, or of a session over, to be heard.     *)
HeardIsCurrent ==
  Settled => \A c \in Heard : c.route = shown.followed /\ ~shown.arrived

(* ADR-0017: recording only ever runs inside live navigation.  When React is *)
(* done, the recorder has an open trip only if the HUD shows a session that  *)
(* has not arrived.                                                          *)
RecordsOnlySessions ==
  Settled /\ trip => shown.navigating /\ shown.followed # NULL /\ ~shown.arrived

(* useNavigation.ts:57, the guard against a second reroute is only held while *)
(* a request is in the air: nothing can leave a session unable to reroute.    *)
GuardIsReleased == flying => calls # {}

(* useNavigation.ts:108-109, after a failure "the next off-route fix          *)
(* retries": the request in the air while the traveler is off the route is    *)
(* one whose answer will be heard.                                            *)
RetryIsHeard == Settled /\ flying /\ Rerouting(shown) => Heard # {}
=============================================================================
