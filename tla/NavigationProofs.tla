-------------------------- MODULE NavigationProofs --------------------------
(***************************************************************************)
(* What Navigation guarantees for every set of routes and places, and      *)
(* whatever comes in between two steps of React.                           *)
(***************************************************************************)
EXTENDS Navigation, FiniteSetTheorems, TLAPS

(* Effects that leave the guard set leave a request in the air: it was set   *)
(* before, and cancelling a request does not end it, or they have sent one.  *)
LEMMA EffectsKeepGuard ==
  ASSUME GuardIsReleased, NEW s, NEW d, RunEffects(s, d)
  PROVE  GuardIsReleased'
<1>1. RerouteEffect(s, d)
  BY DEF RunEffects
<1>2. CASE Fires(s, d)
  <2>1. NewCall(s) \in calls'
    BY <1>1, <1>2 DEF RerouteEffect
  <2> QED BY <2>1 DEF GuardIsReleased
<1>3. CASE ~Fires(s, d) /\ flying'
  <2>1. PICK c \in calls : TRUE
    BY <1>1, <1>3 DEF RerouteEffect, Guarded, GuardIsReleased
  <2>2. c \in calls' \/ [c EXCEPT !.heard = FALSE] \in calls'
    BY <1>1, <2>1 DEF RerouteEffect, Cancelled
  <2> QED BY <2>2 DEF GuardIsReleased
<1> QED BY <1>2, <1>3 DEF GuardIsReleased

LEMMA ClickKeepsGuard ==
  ASSUME GuardIsReleased, NEW u, Click(u)
  PROVE  GuardIsReleased'
BY EffectsKeepGuard DEF Click

(* The end of any request, heard or cancelled, releases the guard. *)
LEMMA AnswerReleasesGuard ==
  ASSUME NEW c, NEW u, Answer(c, u)
  PROVE  GuardIsReleased'
BY DEF Answer, GuardIsReleased

LEMMA GuardNext == GuardIsReleased /\ [Next]_vars => GuardIsReleased'
<1> SUFFICES ASSUME GuardIsReleased, [Next]_vars PROVE GuardIsReleased'
  OBVIOUS
<1>1. CASE UNCHANGED <<flying, calls>>
  BY <1>1 DEF GuardIsReleased
<1>2. CASE Effects
  BY <1>2, EffectsKeepGuard DEF Effects
<1>3. CASE StartNavigating \/ ExitNavigating
  BY <1>3, ClickKeepsGuard DEF StartNavigating, ExitNavigating
<1>4. ASSUME NEW p \in Destinations, SetDestination(p) PROVE GuardIsReleased'
  BY <1>4, ClickKeepsGuard DEF SetDestination
<1>5. ASSUME NEW c \in calls, Rerouted(c) \/ RerouteFails(c) PROVE GuardIsReleased'
  BY <1>5, AnswerReleasesGuard DEF Rerouted, RerouteFails
<1>6. Render \/ GraceOver \/ (\E p \in Places : Fix(p))
        \/ (\E r \in Routes \cup {NULL} : PlannerAnswers(r)) \/ UNCHANGED vars
      => UNCHANGED <<flying, calls>>
  BY DEF Render, GraceOver, Fix, PlannerAnswers, vars, refs
<1> QED BY <1>1, <1>2, <1>3, <1>4, <1>5, <1>6 DEF Next

(* useNavigation.ts:57: a session can never be left unable to reroute by a   *)
(* guard that nothing in the air will release.                               *)
THEOREM GuardAlwaysReleased == Spec => []GuardIsReleased
<1>1. Init => GuardIsReleased
  BY DEF Init, GuardIsReleased
<1> QED BY <1>1, GuardNext, PTL DEF Spec

-----------------------------------------------------------------------------
(* Recording only ever runs inside live navigation. *)

(* A render leaves the planner's click alone: no update of `navigating' is   *)
(* ever queued.                                                              *)
Shape ==
  /\ shown = [f \in Fields |-> shown[f]]
  /\ "navigating" \notin DOMAIN queued

(* An open trip is one the hook has seen start and has not ended. *)
TripIsKnown == trip => prevRoute # NULL /\ ~ended

(* With no effect due, the hook has seen what is shown. *)
HookIsCurrent ==
  due = {} => prevRoute = RecordedRoute(shown) /\ (trip => ~shown.arrived)

RecInv == Shape /\ TripIsKnown /\ HookIsCurrent

LEMMA RecInit == Init => RecInv
BY DEF Init, RecInv, Shape, Fields, None, TripIsKnown, HookIsCurrent, RecordedRoute

(* The recorder's effects, on a commit s, whatever was open before it. *)
LEMMA HookSees ==
  ASSUME TripIsKnown, NEW s, RecorderEffects(s)
  PROVE  /\ TripIsKnown'
         /\ prevRoute' = RecordedRoute(s)
         /\ trip' => ~s.arrived
<1>1. prevRoute' = RecordedRoute(s)
  BY DEF RecorderEffects
<1>2. trip' => (trip \/ Starts(s)) /\ ~(Leaves(s) /\ ~ended) /\ ~Arrives(s)
  BY Zenon DEF RecorderEffects
<1>3. ended' => EndedBefore(s) \/ Leaves(s) \/ Arrives(s)
  BY Zenon DEF RecorderEffects
<1>4. ASSUME trip' PROVE RecordedRoute(s) # NULL /\ ~EndedBefore(s) /\ ~s.arrived
  <2>1. RecordedRoute(s) # NULL
    BY <1>2, <1>4, Zenon DEF Starts, Leaves, TripIsKnown
  <2>2. ~EndedBefore(s)
    BY <1>2, <1>4, Zenon DEF EndedBefore, TripIsKnown
  <2> QED BY <1>2, <1>4, <2>1, <2>2, Zenon DEF Arrives
<1>5. trip' => ~ended'
  BY <1>2, <1>3, <1>4, Zenon DEF Leaves
<1> QED BY <1>1, <1>4, <1>5, Zenon DEF TripIsKnown

LEMMA CommitShape ==
  ASSUME Shape, NEW u
  PROVE  /\ Committed(u) = [f \in Fields |-> Committed(u)[f]]
         /\ "navigating" \notin DOMAIN u => Committed(u).navigating = shown.navigating
BY DEF Shape, Committed, Fields

LEMMA RecNext == RecInv /\ [Next]_vars => RecInv'
<1> SUFFICES ASSUME RecInv, [Next]_vars PROVE RecInv'
  OBVIOUS
<1> USE DEF RecInv
<1>1. CASE UNCHANGED <<shown, queued, due, prevRoute, ended, trip>>
  BY <1>1, Zenon DEF Shape, TripIsKnown, HookIsCurrent, RecordedRoute
<1>2. CASE Render
  <2>1. Shape'
    BY <1>2, CommitShape DEF Render, Shape, None
  <2>2. TripIsKnown'
    BY <1>2 DEF Render, refs, TripIsKnown
  <2>3. HookIsCurrent'
    <3> SUFFICES ASSUME due' = {} PROVE prevRoute = RecordedRoute(shown') /\ (trip => ~shown'.arrived)
      BY <1>2 DEF HookIsCurrent, Render, refs, RecordedRoute
    <3>1. shown'.followed = shown.followed /\ shown'.arrived = shown.arrived
      BY <1>2 DEF Render, Changed
    <3>2. shown'.navigating = shown.navigating
      BY <1>2, CommitShape DEF Render, Shape
    <3> QED BY <1>2, <3>1, <3>2 DEF Render, HookIsCurrent, RecordedRoute
  <2> QED BY <2>1, <2>2, <2>3
<1>3. ASSUME NEW s, NEW d, RunEffects(s, d), shown' = s, due' = {},
             s = [f \in Fields |-> s[f]]
      PROVE  RecInv'
  <2>1. Shape'
    BY <1>3 DEF Shape, RunEffects, Over, ProgressUpdates, SessionUpdates, None
  <2>2. TripIsKnown' /\ prevRoute' = RecordedRoute(s) /\ (trip' => ~s.arrived)
    BY <1>3, HookSees DEF RunEffects
  <2> QED BY <1>3, <2>1, <2>2 DEF HookIsCurrent, RecordedRoute
<1>4. CASE Effects
  BY <1>3, <1>4 DEF Effects, Shape
<1>5. ASSUME NEW u, Click(u) PROVE RecInv'
  BY <1>3, <1>5, CommitShape DEF Click
<1>6. ASSUME NEW u, Queue(u), "navigating" \notin DOMAIN u,
             UNCHANGED <<shown, due, prevRoute, ended, trip>>
      PROVE  RecInv'
  <2>1. Shape'
    BY <1>6 DEF Shape, Queue, Over
  <2> QED BY <1>6, <2>1, Zenon DEF TripIsKnown, HookIsCurrent, RecordedRoute
<1>7. CASE StartNavigating \/ ExitNavigating \/ \E p \in Destinations : SetDestination(p)
  BY <1>5, <1>7 DEF StartNavigating, ExitNavigating, SetDestination
<1>8. CASE (\E p \in Places : Fix(p)) \/ (\E r \in Routes \cup {NULL} : PlannerAnswers(r))
  BY <1>6, <1>8 DEF Fix, PlannerAnswers, refs
<1>9. ASSUME NEW c \in calls, Rerouted(c) \/ RerouteFails(c) PROVE RecInv'
  BY <1>6, <1>9 DEF Rerouted, RerouteFails, Answer, None
<1>10. CASE GraceOver
  BY <1>1, <1>10 DEF GraceOver
<1>11. CASE UNCHANGED vars
  BY <1>1, <1>11 DEF vars, refs
<1> QED BY <1>2, <1>4, <1>7, <1>8, <1>9, <1>10, <1>11 DEF Next

(* ADR-0017: whatever comes in between, the recorder has an open trip only   *)
(* while a session is shown that has not arrived.                            *)
THEOREM RecordingIsNavigation == Spec => []RecordsOnlySessions
<1>1. RecInv => RecordsOnlySessions
  BY DEF RecInv, TripIsKnown, HookIsCurrent, RecordsOnlySessions, Settled, RecordedRoute
<1> QED BY <1>1, RecInit, RecNext, PTL DEF Spec
-----------------------------------------------------------------------------
(* Types, and whose answers will be heard. *)

RouteOrNull == Routes \cup {NULL}

IsCall(c) ==
  /\ c = [x \in DOMAIN c |-> c[x]] /\ {"route", "heard"} \subseteq DOMAIN c
  /\ c.route \in Routes /\ c.heard \in BOOLEAN

(* What a commit may set a field to. *)
IsUpdate(u) ==
  /\ DOMAIN u \subseteq Fields
  /\ "followed" \in DOMAIN u => u["followed"] \in RouteOrNull
  /\ "active" \in DOMAIN u => u["active"] \in RouteOrNull

Typed ==
  /\ shown = [f \in Fields |-> shown[f]]
  /\ shown.followed \in RouteOrNull /\ shown.active \in RouteOrNull
  /\ IsUpdate(queued)
  /\ streak \in 0..Hysteresis /\ flying \in BOOLEAN
  /\ IsFiniteSet(calls) /\ Cardinality(calls) <= MaxCalls
  /\ \A c \in calls : IsCall(c)

(* Between a commit that changes what the reroute effect depends on and     *)
(* that effect, whose cleanup cancels, a request may be heard for another   *)
(* route.                                                                   *)
HeardFits ==
  due \ {"initialRoute"} = {} =>
    \A c \in Heard : c.route = shown.followed /\ ~shown.arrived

NavInv == Typed /\ HeardFits

(* The updates a click or an effect queues set fields to what they may be.  *)
LEMMA OverIs ==
  ASSUME NEW u, NEW q, IsUpdate(u), IsUpdate(q)
  PROVE  IsUpdate(Over(u, q))
BY DEF IsUpdate, Over

LEMMA NoneIs == IsUpdate(None) /\ DOMAIN None = {}
BY DEF IsUpdate, None

(* A commit of updates. *)
LEMMA CommittedIs ==
  ASSUME Typed, NEW u, IsUpdate(u)
  PROVE  LET s == Committed(u)
         IN /\ s = [f \in Fields |-> s[f]]
            /\ s.followed \in RouteOrNull /\ s.active \in RouteOrNull
BY DEF Typed, IsUpdate, Committed, Fields

(* A commit that changes none of what the reroute effect depends on leaves  *)
(* the followed route and the arrival as they are.                          *)
LEMMA UnchangedIs ==
  ASSUME NEW u, NEW s, Changed(u, s) \ {"initialRoute"} = {}
  PROVE  s.followed = shown.followed /\ s.arrived = shown.arrived
BY DEF Changed

(* Cancelling requests leaves as many of them at most, none of them heard.  *)
LEMMA CancelledIs ==
  ASSUME IsFiniteSet(calls), \A c \in calls : IsCall(c)
  PROVE  /\ IsFiniteSet(Cancelled(calls)) /\ Cardinality(Cancelled(calls)) <= Cardinality(calls)
         /\ \A c \in Cancelled(calls) : IsCall(c) /\ ~c.heard
<1>1. \A c \in Cancelled(calls) : IsCall(c) /\ ~c.heard
  <2> SUFFICES ASSUME NEW c \in calls
               PROVE  IsCall([c EXCEPT !.heard = FALSE]) /\ ~[c EXCEPT !.heard = FALSE].heard
    BY DEF Cancelled
  <2> DEFINE d == [c EXCEPT !.heard = FALSE]
  <2>1. d = [x \in DOMAIN c |-> IF x = "heard" THEN FALSE ELSE c[x]]
    BY DEF IsCall
  <2> HIDE DEF d
  <2>2. DOMAIN d = DOMAIN c
    BY <2>1
  <2>3. d = [x \in DOMAIN d |-> d[x]]
    <3> DEFINE g(x) == IF x = "heard" THEN FALSE ELSE c[x]
    <3>1. d = [x \in DOMAIN c |-> g(x)]
      BY <2>1
    <3> HIDE DEF g
    <3> QED BY <3>1
  <2>4. d.route = c.route /\ d.heard = FALSE /\ c.route \in Routes
        /\ {"route", "heard"} \subseteq DOMAIN c
    BY <2>1 DEF IsCall
  <2> QED BY <2>2, <2>3, <2>4 DEF IsCall
<1>2. IsFiniteSet(Cancelled(calls)) /\ Cardinality(Cancelled(calls)) <= Cardinality(calls)
  <2> DEFINE f == [c \in calls |-> [c EXCEPT !.heard = FALSE]]
  <2>1. f \in Surjection(calls, Cancelled(calls))
    BY DEF Surjection, Cancelled
  <2> HIDE DEF f
  <2> QED BY <2>1, FS_Surjection
<1> QED BY <1>1, <1>2

(* The effects of a commit s that changed d. *)
LEMMA EffectsType ==
  ASSUME Typed, NEW s, NEW d, RunEffects(s, d),
         s.followed \in RouteOrNull, s.active \in RouteOrNull
  PROVE  /\ IsUpdate(queued') /\ streak' \in 0..Hysteresis /\ flying' \in BOOLEAN
         /\ IsFiniteSet(calls') /\ Cardinality(calls') <= MaxCalls
         /\ \A c \in calls' : IsCall(c)
         /\ IF d \ {"initialRoute"} = {} THEN calls' = calls
            ELSE \A c \in calls' : c.heard => c.route = s.followed /\ ~s.arrived
<1>1. IsUpdate(queued')
  <2>1. IsUpdate(SessionUpdates(s, d))
    BY NoneIs DEF SessionUpdates, InitialRoute, IsUpdate, Fields, RouteOrNull
  <2>2. IsUpdate(ProgressUpdates(s, d))
    BY NoneIs DEF ProgressUpdates, IsUpdate, Fields
  <2> QED BY <2>1, <2>2, OverIs DEF RunEffects, Typed
<1>2. streak' \in 0..Hysteresis
  BY NavigationAssumption DEF RunEffects, Streak, Typed, NavigationAssumption
<1>3. flying' \in BOOLEAN
  BY Zenon DEF RunEffects, RerouteEffect
<1> DEFINE kept == IF d \ {"initialRoute"} = {} THEN calls ELSE Cancelled(calls)
           new == NewCall(s)
<1>4. calls' = kept \cup (IF Fires(s, d) THEN {new} ELSE {})
  BY DEF RunEffects, RerouteEffect
<1>5. /\ IsFiniteSet(kept) /\ Cardinality(kept) <= Cardinality(calls)
      /\ \A c \in kept : IsCall(c)
      /\ d \ {"initialRoute"} # {} => \A c \in kept : ~c.heard
  <2>1. IsFiniteSet(calls) /\ Cardinality(calls) \in Nat /\ \A c \in calls : IsCall(c)
    BY FS_CardinalityType DEF Typed
  <2> QED BY <2>1, CancelledIs
<1>6. CASE Fires(s, d)
  <2>1. IsCall(new) /\ new.route = s.followed /\ ~s.arrived /\ d \ {"initialRoute"} # {}
    <3>1. s.followed # NULL /\ ~s.arrived /\ d \ {"initialRoute"} # {}
      BY <1>6, Zenon DEF Fires, Rerouting
    <3>2. new.route = s.followed /\ new.heard = TRUE
      BY DEF NewCall
    <3>3. DOMAIN new = {"n", "route", "heard"} /\ new = [x \in DOMAIN new |-> new[x]]
      <4> DEFINE k == CHOOSE n \in 1..MaxCalls : \A c \in calls : c.n # n
      <4>1. new = [n |-> k, route |-> s.followed, heard |-> TRUE]
        BY DEF NewCall
      <4> HIDE DEF k, new
      <4>2. DOMAIN new = {"n", "route", "heard"}
        BY <4>1
      <4>3. new = [x \in {"n", "route", "heard"} |-> new[x]]
        BY <4>1
      <4> QED BY <4>2, <4>3
    <3>4. s.followed \in Routes
      BY <3>1 DEF RouteOrNull
    <3> HIDE DEF new
    <3>5. IsCall(new)
      BY <3>2, <3>3, <3>4 DEF IsCall
    <3> QED BY <3>1, <3>2, <3>5
  <2> HIDE DEF kept, new
  <2>2. calls' = kept \cup {new}
    BY <1>4, <1>6
  <2>3. Cardinality(calls) < MaxCalls
    BY <1>6 DEF RunEffects, RerouteEffect
  <2>4. IsFiniteSet(kept \cup {new}) /\ Cardinality(kept \cup {new}) <= Cardinality(kept) + 1
    <3>1. Cardinality(kept) \in Nat
      BY <1>5, FS_CardinalityType
    <3>2. /\ IsFiniteSet(kept \cup {new})
          /\ Cardinality(kept \cup {new}) =
               IF new \in kept THEN Cardinality(kept) ELSE Cardinality(kept) + 1
      BY <1>5, FS_AddElement
    <3> QED BY <3>1, <3>2
  <2>5. Cardinality(calls) \in Nat /\ Cardinality(kept) \in Nat
        /\ Cardinality(kept \cup {new}) \in Nat
    BY <1>5, <2>4, FS_CardinalityType DEF Typed
  <2>6. IsFiniteSet(calls') /\ Cardinality(calls') <= MaxCalls
    BY <1>5, <2>2, <2>3, <2>4, <2>5, NavigationAssumption DEF NavigationAssumption
  <2>7. \A c \in calls' : IsCall(c) /\ (c.heard => c.route = s.followed /\ ~s.arrived)
    BY <1>5, <2>1, <2>2
  <2> QED BY <1>1, <1>2, <1>3, <2>1, <2>6, <2>7
<1>7. CASE ~Fires(s, d)
  <2>1. calls' = kept
    BY <1>4, <1>7
  <2>2. Cardinality(kept) <= MaxCalls
    <3>1. Cardinality(calls) \in Nat /\ Cardinality(kept) \in Nat
      BY <1>5, FS_CardinalityType DEF Typed
    <3>2. Cardinality(calls) <= MaxCalls
      BY DEF Typed
    <3> HIDE DEF kept
    <3> QED BY <1>5, <3>1, <3>2, NavigationAssumption DEF NavigationAssumption
  <2> QED BY <1>1, <1>2, <1>3, <1>5, <2>1, <2>2
<1> QED BY <1>6, <1>7

LEMMA NavInit == Init => NavInv
<1> SUFFICES ASSUME Init PROVE NavInv
  OBVIOUS
<1>1. Typed
  <2>1. IsUpdate(queued)
    BY NoneIs DEF Init
  <2>2. IsFiniteSet(calls) /\ Cardinality(calls) <= MaxCalls /\ streak \in 0..Hysteresis
    BY NavigationAssumption, FS_EmptySet DEF Init, NavigationAssumption
  <2>3. shown = [f \in Fields |-> shown[f]]
    BY DEF Init, Fields
  <2>4. shown.followed = NULL /\ shown.active = NULL /\ calls = {} /\ flying = FALSE
    BY DEF Init
  <2> QED BY <2>1, <2>2, <2>3, <2>4 DEF Typed, RouteOrNull
<1>2. HeardFits
  BY DEF Init, HeardFits, Heard
<1> QED BY <1>1, <1>2 DEF NavInv

(* Effects run on the present commit, with what it changed. *)
LEMMA EffectsKeepNav ==
  ASSUME Typed, NEW s, NEW d, RunEffects(s, d), shown' = s, due' = {},
         s = [f \in Fields |-> s[f]], s.followed \in RouteOrNull, s.active \in RouteOrNull,
         d \ {"initialRoute"} = {} => \A c \in Heard : c.route = s.followed /\ ~s.arrived
  PROVE  NavInv'
<1>1. Typed'
  BY EffectsType DEF Typed
<1>2. HeardFits'
  <2> SUFFICES ASSUME NEW c \in calls', c.heard PROVE c.route = s.followed /\ ~s.arrived
    BY DEF HeardFits, Heard
  <2>1. CASE d \ {"initialRoute"} = {}
    <3>1. calls' = calls
      BY <2>1, EffectsType
    <3> QED BY <2>1, <3>1 DEF Heard
  <2>2. CASE d \ {"initialRoute"} # {}
    BY <2>2, EffectsType
  <2> QED BY <2>1, <2>2
<1> QED BY <1>1, <1>2 DEF NavInv

LEMMA ClickKeepsNav ==
  ASSUME NavInv, NEW u, IsUpdate(u), Click(u)
  PROVE  NavInv'
<1> DEFINE s == Committed(u)
<1>1. shown' = s /\ due = {} /\ due' = {} /\ RunEffects(s, Changed(u, s))
  BY DEF Click
<1>2. s = [f \in Fields |-> s[f]] /\ s.followed \in RouteOrNull /\ s.active \in RouteOrNull
  BY CommittedIs DEF NavInv
<1>3. Changed(u, s) \ {"initialRoute"} = {} =>
        \A c \in Heard : c.route = s.followed /\ ~s.arrived
  BY <1>1, UnchangedIs DEF NavInv, HeardFits
<1> HIDE DEF s
<1> QED BY <1>1, <1>2, <1>3, EffectsKeepNav DEF NavInv

(* The end of a request: one less, the others as they were. *)
LEMMA AnswerKeepsNav ==
  ASSUME NavInv, NEW c \in calls, NEW u, IsUpdate(u), Answer(c, u)
  PROVE  NavInv'
<1>1. /\ IsUpdate(queued') /\ calls' = calls \ {c} /\ flying' = FALSE
      /\ UNCHANGED <<shown, due, streak>>
  BY OverIs, NoneIs DEF Answer, Queue, NavInv, Typed
<1>2. IsFiniteSet(calls') /\ Cardinality(calls') <= MaxCalls
  <2>1. IsFiniteSet(calls) /\ Cardinality(calls) <= MaxCalls
    BY DEF NavInv, Typed
  <2>2. /\ IsFiniteSet(calls \ {c})
        /\ Cardinality(calls \ {c}) = Cardinality(calls) - 1
    BY <2>1, FS_RemoveElement
  <2>3. Cardinality(calls) \in Nat
    BY <2>1, FS_CardinalityType
  <2> QED BY <1>1, <2>1, <2>2, <2>3, NavigationAssumption DEF NavigationAssumption
<1>3. Typed'
  BY <1>1, <1>2 DEF NavInv, Typed
<1>4. HeardFits'
  BY <1>1 DEF NavInv, HeardFits, Heard
<1> QED BY <1>3, <1>4 DEF NavInv

LEMMA NavNext == NavInv /\ [Next]_vars => NavInv'
<1> SUFFICES ASSUME NavInv, [Next]_vars PROVE NavInv'
  OBVIOUS
<1>1. CASE Render
  <2>1. /\ shown' = Committed(queued) /\ due' = Changed(queued, shown') /\ due = {}
        /\ queued' = None /\ UNCHANGED <<flying, streak, calls>>
    BY <1>1 DEF Render, refs
  <2>2. Typed'
    BY <2>1, CommittedIs, NoneIs DEF NavInv, Typed
  <2>3. HeardFits'
    BY <2>1, UnchangedIs DEF NavInv, HeardFits, Heard
  <2> QED BY <2>2, <2>3 DEF NavInv
<1>2. CASE Effects
  BY <1>2, EffectsKeepNav DEF Effects, NavInv, Typed, HeardFits
<1>3. CASE StartNavigating \/ ExitNavigating \/ \E p \in Destinations : SetDestination(p)
  <2>1. \A p : /\ IsUpdate([navigating |-> TRUE]) /\ IsUpdate([navigating |-> FALSE])
               /\ IsUpdate([destination |-> p])
    BY DEF IsUpdate, Fields
  <2> QED BY <1>3, <2>1, ClickKeepsNav DEF StartNavigating, ExitNavigating, SetDestination
<1>4. CASE (\E p \in Places : Fix(p)) \/ (\E r \in Routes \cup {NULL} : PlannerAnswers(r))
  <2>1. PICK u : IsUpdate(u) /\ Queue(u) /\ UNCHANGED <<shown, due, refs>>
    <3>1. \A p, r : r \in RouteOrNull => IsUpdate([position |-> p]) /\ IsUpdate([active |-> r])
      BY DEF IsUpdate, Fields
    <3> QED BY <1>4, <3>1 DEF Fix, PlannerAnswers, RouteOrNull
  <2>2. IsUpdate(queued')
    BY <2>1, OverIs DEF Queue, NavInv, Typed
  <2> QED BY <2>1, <2>2 DEF NavInv, Typed, HeardFits, Heard, refs
<1>5. ASSUME NEW c \in calls, Rerouted(c) \/ RerouteFails(c) PROVE NavInv'
  <2>1. PICK u : IsUpdate(u) /\ Answer(c, u)
    <3>1. \A r \in Routes : IsUpdate([followed |-> r])
      BY DEF IsUpdate, Fields, RouteOrNull
    <3> QED BY <1>5, <3>1, NoneIs DEF Rerouted, RerouteFails
  <2> QED BY <2>1, AnswerKeepsNav
<1>6. CASE GraceOver \/ UNCHANGED vars
  BY <1>6 DEF GraceOver, vars, refs, NavInv, Typed, HeardFits, Heard
<1> QED BY <1>1, <1>2, <1>3, <1>4, <1>5, <1>6 DEF Next

LEMMA NavInvariant == Spec => []NavInv
BY NavInit, NavNext, PTL DEF Spec

(* The state of the hooks keeps its types, no more requests are in the air   *)
(* than may be, and the recorder has a trip open only for a route the hook   *)
(* has seen and not ended.                                                   *)
THEOREM NavigationTypes == Spec => []TypeOK
<1>1. NavInv /\ RecInv => TypeOK
  BY DEF NavInv, Typed, RecInv, TripIsKnown, TypeOK, RouteOrNull, IsUpdate, IsCall
<1>2. Spec => []RecInv
  BY RecInit, RecNext, PTL DEF Spec
<1> QED BY <1>1, <1>2, NavInvariant, PTL

(* useNavigation.ts:82-118: however fixes, answers, clicks and commits come  *)
(* in between, the cleanup of the reroute effect leaves no request of        *)
(* another route, or of a session that has arrived, whose answer would be    *)
(* followed.                                                                 *)
THEOREM AnswersAreCurrent == Spec => []HeardIsCurrent
<1>1. NavInv => HeardIsCurrent
  BY DEF NavInv, HeardFits, HeardIsCurrent, Settled
<1> QED BY <1>1, NavInvariant, PTL
=============================================================================
