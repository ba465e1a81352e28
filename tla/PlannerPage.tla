----------------------------- MODULE PlannerPage -----------------------------
(***************************************************************************)
(* The planner page, web/app/page.tsx, over the route service and the      *)
(* screen wake lock: GPS and clicks move the endpoints, every change arms  *)
(* a debounced request, and answers come when they come.                   *)
(*                                                                         *)
(* An event, the commit it causes and the effects of that commit are one   *)
(* step here (Navigation looks between them); the timer, the network and   *)
(* the service are steps of their own.  The session follows the selected   *)
(* route from the start; what reroutes do to it is Navigation's.           *)
(***************************************************************************)
EXTENDS PackService, WakeLock

CONSTANTS
  Points,          \* where endpoints may be
  Positions,       \* of these, where the traveler may be
  Settings,        \* departure, safety and detour budget together
  MaxDisturbances  \* bound: edits, clicks, fixes, hiding; kills and redeploys
                   \* of the service count twice

ASSUME EndpointsAreSomewhere ==
  /\ NULL \notin Points
  /\ \A p \in Points : p.lat \in Int /\ p.lon \in Int

VARIABLES
  page,      \* the React state
  timer,     \* the debounce timer is armed
  reqSeq,    \* reqSeq.current
  flying,    \* requests of /route in the air: [seq, query, reply]
  metaAsked, \* the request of /meta: "closed" before the page is opened, then
             \* "asked", then "settled"
  spent      \* what the disturbances so far count

pageVars == <<page, timer, reqSeq, flying, metaAsked>>
all == <<serviceVars, wakeVars, pageVars, spent>>

NoAnswer == [routes |-> NULL, error |-> NULL]

PageInit ==
  /\ page = [origin |-> NULL, destination |-> NULL, setting |-> CHOOSE s \in Settings : TRUE,
             meta |-> NULL, metaSettled |-> FALSE, followMode |-> TRUE, position |-> NULL,
             navigating |-> FALSE, routes |-> NULL, error |-> NULL, href |-> NULL,
             loading |-> FALSE]
  /\ timer = FALSE /\ reqSeq = 0 /\ flying = {} /\ metaAsked = "closed"
  /\ spent = 0

Init == ServiceInit /\ LockInit /\ PageInit

Query(p) == [origin |-> p.origin, destination |-> p.destination, setting |-> p.setting]

-----------------------------------------------------------------------------
(* What a commit does. *)

(* The GPS effect: a fix becomes the origin, while nobody is navigating and  *)
(* nothing else was chosen; one outside coverage stops that.                 *)
FollowsGps(p) ==
  p.position # NULL /\ p.followMode /\ ~p.navigating /\ p.metaSettled

Adopted(p) ==
  IF ~FollowsGps(p) THEN p
  ELSE IF p.meta # NULL /\ ~InsideCoverage(p.meta, p.position)
  THEN [p EXCEPT !.followMode = FALSE]
  ELSE [p EXCEPT !.origin = p.position]

(* runRoute's dependencies, which re-arm the debounce. *)
RouteDeps(p) == <<Query(p), p.meta>>

(* useWakeLock's argument; nav.route is set while activeRoute is. *)
ActiveRoute(p) == p.routes # NULL
WantsLock(p) == p.navigating /\ ActiveRoute(p)

(* The commit of p.  An endpoint clicked is a new object even if it did not  *)
(* move, hence `touched'.                                                    *)
Commit(p, touched) ==
  /\ page' = Adopted(p)
  /\ timer' = (timer \/ touched \/ RouteDeps(page') # RouteDeps(page))
  /\ SetWanted(WantsLock(page'))

(* A step of the page that no disturbance pays for. *)
Alone == UNCHANGED <<serviceVars, spent>>

Disturbs(cost) == spent + cost <= MaxDisturbances /\ spent' = spent + cost

Event(p, touched) ==
  /\ metaAsked # "closed" /\ Disturbs(1)
  /\ Commit(p, touched)
  /\ UNCHANGED <<serviceVars, flying, metaAsked>>

-----------------------------------------------------------------------------
(* The page is opened, and asks for /meta once.  Bound: it is opened when    *)
(* the service is up; a page opened earlier would hear that /meta failed.    *)
OpenPage ==
  /\ Healthy
  /\ metaAsked = "closed" /\ metaAsked' = "asked"
  /\ Alone /\ UNCHANGED <<wakeVars, page, timer, reqSeq, flying>>

MetaArrives(meta) ==
  /\ metaAsked = "asked" /\ metaAsked' = "settled"
  /\ Commit([page EXCEPT !.meta = meta, !.metaSettled = TRUE], FALSE)
  /\ Alone /\ UNCHANGED <<reqSeq, flying>>

MetaAnswered == Healthy /\ MetaArrives(MetaOf(registry))
MetaFails    == MetaArrives(NULL)

(* runRoute, from the timer to its request or refusal. *)
RunRoute ==
  /\ timer
  /\ IF page.origin = NULL \/ page.destination = NULL
     THEN timer' = FALSE /\ UNCHANGED <<page, reqSeq, flying, wakeVars>>
     ELSE LET refusal == IF page.meta = NULL THEN NULL
                         ELSE Preflight(page.meta, page.origin, page.destination)
          IN /\ timer' = FALSE
             /\ reqSeq' = reqSeq + 1
             /\ IF refusal # NULL
                THEN /\ page' = [page EXCEPT !.routes = NULL, !.loading = FALSE,
                                   !.error = [query |-> Query(page), why |-> refusal]]
                     /\ SetWanted(WantsLock(page'))
                     /\ UNCHANGED flying
                ELSE /\ page' = [page EXCEPT !.loading = TRUE, !.error = NULL]
                     /\ flying' = flying \cup {[seq |-> reqSeq + 1, query |-> Query(page),
                                                reply |-> NULL]}
                     /\ UNCHANGED wakeVars
  /\ Alone /\ UNCHANGED metaAsked

(* The service answers, or the connection breaks, whatever it was doing. *)
Replied(r, reply) ==
  /\ r.reply = NULL
  /\ flying' = (flying \ {r}) \cup {[r EXCEPT !.reply = reply]}
  /\ Alone /\ UNCHANGED <<wakeVars, page, timer, reqSeq, metaAsked>>

ServiceReplies(r) ==
  Healthy /\ Replied(r, RouteReply(r.query.origin, r.query.destination))
RequestFails(r) == Replied(r, [kind |-> "failed", why |-> "failed"])

EveryAnswer(r) == TRUE                         \* defect: stale answers count
IsCurrent(r) == r.seq = reqSeq

(* The continuation of fetchRoutes: a stale answer changes nothing. *)
Shows(r) ==
  IF r.reply.kind = "routes"
  THEN [page EXCEPT !.routes = r.query, !.href = [origin |-> r.query.origin,
                       destination |-> r.query.destination], !.loading = FALSE]
  ELSE [page EXCEPT !.routes = NULL, !.error = [query |-> r.query, why |-> r.reply.why],
                    !.loading = FALSE]

AnswerArrives(r) ==
  /\ r.reply # NULL
  /\ flying' = flying \ {r}
  /\ IF IsCurrent(r) THEN Commit(Shows(r), FALSE) ELSE UNCHANGED <<page, timer, wakeVars>>
  /\ Alone /\ UNCHANGED <<reqSeq, metaAsked>>

-----------------------------------------------------------------------------
(* setPoint and pickGeocode: the panel, and the map even during a session. *)
SetOrigin(p) ==
  Event([page EXCEPT !.origin = p, !.followMode = FALSE], TRUE) /\ UNCHANGED reqSeq
SetDestination(p) == Event([page EXCEPT !.destination = p], TRUE) /\ UNCHANGED reqSeq

(* The panel's settings; the panel is away while the HUD is up. *)
SetSetting(s) ==
  /\ ~WantsLock(page) /\ s # page.setting
  /\ Event([page EXCEPT !.setting = s], FALSE) /\ UNCHANGED reqSeq

Fix(p) == p # page.position /\ Event([page EXCEPT !.position = p], FALSE) /\ UNCHANGED reqSeq

LocateMe ==
  ~page.followMode /\ Event([page EXCEPT !.followMode = TRUE], FALSE) /\ UNCHANGED reqSeq

Cleared == [page EXCEPT !.origin = NULL, !.destination = NULL, !.routes = NULL,
              !.error = NULL, !.loading = FALSE, !.followMode = FALSE, !.navigating = FALSE]

Reset == ~WantsLock(page) /\ Event(Cleared, FALSE) /\ reqSeq' = reqSeq + 1

StartNavigating ==
  /\ ~WantsLock(page) /\ ActiveRoute(page) /\ page.followMode /\ page.position # NULL
  /\ Event([page EXCEPT !.navigating = TRUE], FALSE) /\ UNCHANGED reqSeq

ExitNavigating ==
  WantsLock(page) /\ Event([page EXCEPT !.navigating = FALSE], FALSE) /\ UNCHANGED reqSeq

-----------------------------------------------------------------------------
ServiceDisturbed == Kill \/ \E c \in Configs : Redeploy(c)
BrowserDisturbs  == Hidden \/ \E s \in live : Dropped(s)

PageStep ==
  \/ OpenPage \/ MetaAnswered \/ MetaFails \/ RunRoute
  \/ \E r \in flying : ServiceReplies(r) \/ RequestFails(r) \/ AnswerArrives(r)

Edits ==
  \/ \E p \in Points : SetOrigin(p) \/ SetDestination(p)
  \/ \E p \in Positions : Fix(p)
  \/ \E s \in Settings : SetSetting(s)
  \/ LocateMe \/ Reset \/ StartNavigating \/ ExitNavigating

Next ==
  \/ PageStep \/ Edits
  \/ BootStep /\ UNCHANGED <<wakeVars, pageVars, spent>>
  \/ ServiceDisturbed /\ Disturbs(2) /\ UNCHANGED <<wakeVars, pageVars>>
  \/ (BrowserStep \/ Shown) /\ UNCHANGED <<serviceVars, pageVars, spent>>
  \/ BrowserDisturbs /\ Disturbs(1) /\ UNCHANGED <<serviceVars, pageVars>>

Spec == Init /\ [][Next]_all

(* A boot goes on, and the platform starts another when one has failed.      *)
(* Downloads and archives may fail, but not every one of an endless series.  *)
Of(A) == A /\ UNCHANGED <<wakeVars, pageVars, spent>>

Fairness ==
  /\ WF_all(Of(BootStep))
  /\ SF_all(Of(GoodDownload)) /\ SF_all(Of(GoodVerify))

FairSpec == Spec /\ Fairness
-----------------------------------------------------------------------------
OnlyPinnedServed == OnlyPinnedPacksServed(Points)

(* main.py's lifespan: "a container that cannot serve its configured regions *)
(* should fail loudly at boot", and one that can comes up, wherever earlier  *)
(* boots were killed and whatever the bucket answered them.                  *)
ComesUp == Bootable ~> (Healthy \/ ~Bootable)

(* ADR-0014 decision 6: with the /meta of the deployment that answers, the   *)
(* page refuses exactly the pairs that the service would, for its reasons,   *)
(* at every point, those on the edges of two packs included.                 *)
PreflightAgrees ==
  (Healthy /\ page.meta = MetaOf(registry)) =>
    \A o, d \in Points :
      Preflight(page.meta, o, d) = PackFor(MetaOf(registry), o, d).refusal

(* Once the debounce has run and no answer is awaited, what the page shows,  *)
(* routes or an error, is about the endpoints and settings it shows, and a   *)
(* page that was reset shows nothing; the Google Maps link is always for the *)
(* routes above it; and it says "Routing..." exactly while the answer it     *)
(* will show is awaited.                                                     *)
ShownIsAsked ==
  /\ (~timer /\ ~\E r \in flying : r.seq = reqSeq) =>
       /\ page.routes # NULL => page.routes = Query(page)
       /\ page.error # NULL => page.error.query = Query(page)
  /\ page.routes # NULL =>
       page.href = [origin |-> page.routes.origin, destination |-> page.routes.destination]
  /\ page.loading = \E r \in flying : r.seq = reqSeq
=============================================================================
