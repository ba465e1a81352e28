------------------------- MODULE PlannerPageProofs -------------------------
(***************************************************************************)
(* What PlannerPage guarantees for every set of points, packs, settings    *)
(* and deployments, and any number of disturbances; and what the service   *)
(* it calls, PackService, serves: with boots killed at any step, a bucket  *)
(* that has anything, and the disk of one deployment under another.        *)
(***************************************************************************)
EXTENDS PlannerPage, FiniteSetTheorems, WellFoundedInduction, TLAPS

-----------------------------------------------------------------------------
(* The wake lock. *)

Held == live \ releasing

LockTypes ==
  /\ wake \in [wanted : BOOLEAN, sentinel : Nat, requestToken : Nat, acquired : BOOLEAN]
  /\ requests \subseteq 1..wake.requestToken
  /\ live \subseteq 1..wake.requestToken
  /\ releasing \subseteq live
  /\ visible \in BOOLEAN /\ denied \in BOOLEAN

(* A lock held is the controller's and wanted; a request is answered once,   *)
(* and while the last one is not, nothing is held; the controller forgets a  *)
(* lock when it ends, and all end when the page is hidden.                   *)
LockInv ==
  /\ LockTypes
  /\ requests \cap live = {}
  /\ \A s \in Held : s = wake.sentinel /\ wake.wanted /\ wake.acquired
  /\ wake.requestToken \in requests => Held = {}
  /\ wake.sentinel # NoSentinel => wake.sentinel \in live
  /\ ~visible => live = {}
  /\ (wake.wanted /\ visible /\ ~denied /\ wake.requestToken \notin requests)
       => wake.sentinel \in Held

LockStep ==
  \/ \E next \in BOOLEAN : SetWanted(next)
  \/ BrowserStep \/ Shown \/ Hidden
  \/ \E s \in live : Dropped(s)

LEMMA AcquireKeepsLock ==
  ASSUME LockInv, Held = {}, NEW l, l = wake \/ l = [wake EXCEPT !.wanted = TRUE],
         Acquire(l), UNCHANGED <<live, releasing>>,
         visible' = visible \/ visible' = TRUE
  PROVE  LockInv'
<1> DEFINE token == wake.requestToken + 1
<1>1. /\ wake'.requestToken = token
      /\ wake'.sentinel = wake.sentinel
      /\ wake' \in [wanted : BOOLEAN, sentinel : Nat, requestToken : Nat, acquired : BOOLEAN]
  <2> DEFINE Type == [wanted : BOOLEAN, sentinel : Nat, requestToken : Nat, acquired : BOOLEAN]
  <2>1. l \in Type /\ l.requestToken = wake.requestToken /\ l.sentinel = wake.sentinel
    <3>1. CASE l = wake
      BY <3>1 DEF LockInv, LockTypes
    <3>2. CASE l = [wake EXCEPT !.wanted = TRUE]
      BY <3>2 DEF LockInv, LockTypes
    <3> QED BY <3>1, <3>2
  <2>2. wake' = [l EXCEPT !.requestToken = l.requestToken + 1]
    BY DEF Acquire
  <2> QED BY <2>1, <2>2
<1>2. requests' = requests \cup {token} /\ denied' = FALSE
  BY DEF Acquire, LockInv, LockTypes
<1>3. Held' = {}
  BY DEF Held
<1>4. token \in Nat /\ 1..wake.requestToken \subseteq 1..token /\ token \in 1..token
      /\ token \notin 1..wake.requestToken
  BY DEF LockInv, LockTypes
<1>5. LockTypes'
  BY <1>1, <1>2, <1>4 DEF LockInv, LockTypes
<1>6. requests' \cap live' = {} /\ token \in requests'
  BY <1>2, <1>4 DEF LockInv, LockTypes
<1> QED BY <1>1, <1>3, <1>5, <1>6 DEF LockInv

LEMMA SetWantedKeepsLock ==
  ASSUME LockInv, NEW next \in BOOLEAN, SetWanted(next)
  PROVE  LockInv'
<1>1. CASE next = wake.wanted
  BY <1>1 DEF SetWanted, Unasked, LockInv, LockTypes, Held
<1>2. CASE next /\ ~wake.wanted
  <2>1. Held = {}
    BY <1>2 DEF LockInv
  <2>2. /\ Acquire([wake EXCEPT !.wanted = TRUE])
        /\ UNCHANGED <<live, releasing, visible>>
    BY <1>2 DEF SetWanted
  <2> QED BY <2>1, <2>2, AcquireKeepsLock
<1>3. CASE ~next /\ wake.wanted
  BY <1>3 DEF SetWanted, Unasked, LockInv, LockTypes, Held, NoSentinel
<1>4. wake.wanted \in BOOLEAN
  BY DEF LockInv, LockTypes
<1> QED BY <1>1, <1>2, <1>3, <1>4

LEMMA GrantedKeepsLock ==
  ASSUME LockInv, NEW t \in requests, Granted(t)
  PROVE  LockInv'
<1>1. CASE IsStale(t)
  BY <1>1 DEF Granted, IsStale, LockInv, LockTypes, Held, NoSentinel
<1>2. CASE ~IsStale(t)
  BY <1>2 DEF Granted, IsStale, LockInv, LockTypes, Held, NoSentinel
<1> QED BY <1>1, <1>2

LEMMA DeniedKeepsLock ==
  ASSUME LockInv, NEW t \in requests, Denied(t)
  PROVE  LockInv'
<1>1. CASE t = wake.requestToken
  BY <1>1 DEF Denied, LockInv, LockTypes, Held
<1>2. CASE t # wake.requestToken
  BY <1>2 DEF Denied, LockInv, LockTypes, Held
<1> QED BY <1>1, <1>2

LEMMA EndedKeepsLock ==
  ASSUME LockInv,
         \/ \E s \in releasing : Released(s)
         \/ \E s \in live : Dropped(s)
         \/ Hidden
  PROVE  LockInv'
<1>1. ASSUME NEW s \in releasing, Released(s) PROVE LockInv'
  BY <1>1 DEF Released, Ended, LockInv, LockTypes, Held, NoSentinel
<1>2. ASSUME NEW s \in live, Dropped(s) PROVE LockInv'
  BY <1>2 DEF Dropped, Ended, LockInv, LockTypes, Held, NoSentinel
<1>3. CASE Hidden
  BY <1>3 DEF Hidden, Ended, LockInv, LockTypes, Held, NoSentinel
<1> QED BY <1>1, <1>2, <1>3

LEMMA ShownKeepsLock == ASSUME LockInv, Shown PROVE LockInv'
<1>1. Held = {}
  BY DEF Shown, LockInv, LockTypes, Held
<1>2. CASE Reacquires
  <2>1. Acquire(wake) /\ UNCHANGED <<live, releasing>> /\ visible' = TRUE
    BY <1>2 DEF Shown
  <2> QED BY <1>1, <2>1, AcquireKeepsLock
<1>3. CASE ~Reacquires
  BY <1>3 DEF Shown, Reacquires, Unasked, LockInv, LockTypes, Held, NoSentinel
<1> QED BY <1>2, <1>3

(* Every step of the system is one of the lock's, or leaves it alone. *)
LEMMA NextOnLock == [Next]_all => LockStep \/ UNCHANGED wakeVars
<1> SUFFICES ASSUME [Next]_all PROVE LockStep \/ UNCHANGED wakeVars
  OBVIOUS
<1>1. ASSUME NEW p, NEW touched, Commit(p, touched) PROVE LockStep
  <2>1. WantsLock(page') \in BOOLEAN
    BY DEF WantsLock
  <2> QED BY <1>1, <2>1 DEF Commit, LockStep
<1>2. ASSUME NEW p, NEW touched, Event(p, touched) PROVE LockStep
  BY <1>1, <1>2 DEF Event
<1>3. CASE PageStep
  <2>1. CASE OpenPage
    BY <2>1 DEF OpenPage
  <2>2. ASSUME NEW m, MetaArrives(m) PROVE LockStep
    BY <1>1, <2>2 DEF MetaArrives
  <2>3. CASE RunRoute
    <3>1. WantsLock(page') \in BOOLEAN
      BY DEF WantsLock
    <3> QED BY <2>3, <3>1 DEF RunRoute, LockStep
  <2>4. ASSUME NEW r, ServiceReplies(r) \/ RequestFails(r) PROVE UNCHANGED wakeVars
    BY <2>4 DEF ServiceReplies, RequestFails, Replied
  <2>5. ASSUME NEW r, AnswerArrives(r) PROVE LockStep \/ UNCHANGED wakeVars
    BY <1>1, <2>5 DEF AnswerArrives
  <2> QED BY <1>3, <2>1, <2>2, <2>3, <2>4, <2>5 DEF PageStep, MetaAnswered, MetaFails
<1>4. CASE Edits
  BY <1>2, <1>4 DEF Edits, SetOrigin, SetDestination, Fix, SetSetting, LocateMe, Reset,
                    StartNavigating, ExitNavigating
<1>5. CASE (BrowserStep \/ Shown) /\ UNCHANGED <<serviceVars, pageVars, spent>>
  BY <1>5 DEF LockStep
<1>6. CASE BrowserDisturbs
  BY <1>6 DEF BrowserDisturbs, LockStep
<1>7. CASE UNCHANGED wakeVars
  BY <1>7
<1>8. CASE UNCHANGED all
  BY <1>8 DEF all
<1> QED BY <1>3, <1>4, <1>5, <1>6, <1>7, <1>8 DEF Next

LEMMA LockInvNext == LockInv /\ [Next]_all => LockInv'
<1> SUFFICES ASSUME LockInv, [Next]_all PROVE LockInv'
  OBVIOUS
<1>1. CASE UNCHANGED wakeVars
  BY <1>1 DEF wakeVars, LockInv, LockTypes, Held
<1>2. CASE LockStep
  BY <1>2, SetWantedKeepsLock, GrantedKeepsLock, DeniedKeepsLock, EndedKeepsLock,
     ShownKeepsLock DEF LockStep, BrowserStep
<1> QED BY <1>1, <1>2, NextOnLock

(* useWakeLock.ts:98-161: no interleaving of sessions, hiding, late grants   *)
(* and slow releases leaves a lock held that nobody wants, or a wanted one   *)
(* let go.                                                                   *)
THEOREM LockHeldAsWanted == Spec => []HeldAsWanted
<1>1. Init => LockInv
  <2> SUFFICES ASSUME LockInit PROVE LockInv
    BY DEF Init
  <2>1. LockTypes
    BY DEF LockInit, LockTypes, NoSentinel
  <2>2. Held = {} /\ ~wake.wanted /\ wake.sentinel = NoSentinel
    BY DEF LockInit, Held
  <2> QED BY <2>1, <2>2 DEF LockInit, LockInv
<1>2. LockInv => HeldAsWanted
  BY DEF LockInv, LockTypes, Held, HeldAsWanted
<1> QED BY <1>1, <1>2, LockInvNext, PTL DEF Spec
-----------------------------------------------------------------------------
(* What the page shows. *)

PageFields ==
  {"origin", "destination", "setting", "meta", "metaSettled", "followMode", "position",
   "navigating", "routes", "error", "href", "loading"}

Awaited(seq, air) == \E r \in air : r.seq = seq

(* A sequence number names one request, and none is ahead of reqSeq. *)
Numbered(seq, air) ==
  /\ seq \in Nat
  /\ \A r \in air : r.seq \in 1..seq /\ DOMAIN r = {"seq", "query", "reply"}
  /\ \A r, s \in air : r.seq = s.seq => r = s

(* A page p with its loading flag and its link in order, which shows no      *)
(* error while it awaits an answer, and neither shows nor awaits anything    *)
(* while an endpoint is missing.                                             *)
Tidy(p, seq, air) ==
  /\ DOMAIN p = PageFields
  /\ IF Awaited(seq, air) THEN p.loading = TRUE /\ p.error = NULL ELSE p.loading = FALSE
  /\ p.routes # NULL =>
       p.href = [origin |-> p.routes.origin, destination |-> p.routes.destination]
  /\ (p.origin = NULL \/ p.destination = NULL) =>
       p.routes = NULL /\ p.error = NULL /\ ~Awaited(seq, air)

(* What p shows, or awaits, is about the query q. *)
About(p, q, seq, air) ==
  /\ \A r \in air : r.seq = seq => r.query = q
  /\ ~Awaited(seq, air) =>
       /\ p.routes # NULL => p.routes = q
       /\ p.error # NULL => p.error.query = q

PageInv ==
  /\ Numbered(reqSeq, flying)
  /\ Tidy(page, reqSeq, flying)
  /\ timer \in BOOLEAN
  /\ ~timer => About(page, Query(page), reqSeq, flying)

(* A commit that changes no question leaves the debounce alone. *)
LEMMA CommitKeepsPage ==
  ASSUME NEW p, NEW touched \in BOOLEAN, Commit(p, touched), timer \in BOOLEAN,
         Numbered(reqSeq', flying'), Tidy(p, reqSeq', flying'),
         ~timer => About(p, Query(page), reqSeq', flying')
  PROVE  PageInv'
<1>1. page' = Adopted(p)
  BY DEF Commit
<1>2. Tidy(page', reqSeq', flying') /\ page'.routes = p.routes /\ page'.error = p.error
  BY <1>1 DEF Tidy, Adopted, FollowsGps, PageFields
<1>3. ~timer' => ~timer /\ Query(page') = Query(page)
  BY DEF Commit, RouteDeps
<1>4. timer' \in BOOLEAN
  BY DEF Commit
<1>5. ~timer' => About(page', Query(page'), reqSeq', flying')
  BY <1>2, <1>3 DEF About
<1> QED BY <1>2, <1>4, <1>5 DEF PageInv

LEMMA EditKeepsPage ==
  ASSUME PageInv, NEW p, NEW touched \in BOOLEAN, Event(p, touched), UNCHANGED reqSeq,
         DOMAIN p = PageFields, p.loading = page.loading, p.href = page.href,
         p.routes = page.routes, p.error = page.error,
         p.origin = NULL => page.origin = NULL,
         p.destination = NULL => page.destination = NULL
  PROVE  PageInv'
<1>1. Commit(p, touched) /\ UNCHANGED flying
  BY DEF Event
<1>2. Tidy(p, reqSeq', flying') /\ Numbered(reqSeq', flying')
  BY <1>1 DEF PageInv, Tidy
<1>3. ~timer => About(p, Query(page), reqSeq', flying')
  BY <1>1 DEF PageInv, About
<1> QED BY <1>1, <1>2, <1>3, CommitKeepsPage DEF PageInv

LEMMA EditsKeepPage == ASSUME PageInv, Edits PROVE PageInv'
<1>1. DOMAIN page = PageFields
  BY DEF PageInv, Tidy
<1>2. ASSUME NEW p \in Points, SetOrigin(p) \/ SetDestination(p) PROVE PageInv'
  BY <1>1, <1>2, EditKeepsPage, EndpointsAreSomewhere DEF SetOrigin, SetDestination, PageFields
<1>3. ASSUME NEW p \in Positions, Fix(p) PROVE PageInv'
  BY <1>1, <1>3, EditKeepsPage DEF Fix, PageFields
<1>4. ASSUME NEW s \in Settings, SetSetting(s) PROVE PageInv'
  BY <1>1, <1>4, EditKeepsPage DEF SetSetting, PageFields
<1>5. CASE LocateMe \/ StartNavigating \/ ExitNavigating
  BY <1>1, <1>5, EditKeepsPage DEF LocateMe, StartNavigating, ExitNavigating, PageFields
<1>6. CASE Reset
  <2>1. Commit(Cleared, FALSE) /\ UNCHANGED flying /\ reqSeq' = reqSeq + 1
    BY <1>6 DEF Reset, Event
  <2>2. ~Awaited(reqSeq', flying') /\ Numbered(reqSeq', flying')
    BY <2>1 DEF PageInv, Numbered, Awaited
  <2>3. Tidy(Cleared, reqSeq', flying')
    BY <1>1, <2>2 DEF Tidy, Cleared, PageFields
  <2>4. About(Cleared, Query(page), reqSeq', flying')
    BY <1>1, <2>2 DEF About, Awaited, Cleared, PageFields
  <2> QED BY <2>1, <2>2, <2>3, <2>4, CommitKeepsPage DEF PageInv
<1> QED BY <1>2, <1>3, <1>4, <1>5, <1>6 DEF Edits

LEMMA MetaKeepsPage == ASSUME PageInv, NEW m, MetaArrives(m) PROVE PageInv'
<1> DEFINE p == [page EXCEPT !.meta = m, !.metaSettled = TRUE]
<1>1. Commit(p, FALSE) /\ UNCHANGED <<reqSeq, flying>>
  BY DEF MetaArrives
<1>2. Tidy(p, reqSeq', flying') /\ Numbered(reqSeq', flying')
  BY <1>1 DEF PageInv, Tidy, PageFields
<1>3. ~timer => About(p, Query(page), reqSeq', flying')
  BY <1>1 DEF PageInv, Tidy, About, PageFields
<1> HIDE DEF p
<1> QED BY <1>1, <1>2, <1>3, CommitKeepsPage DEF PageInv

LEMMA RunRouteKeepsPage == ASSUME PageInv, RunRoute PROVE PageInv'
<1> DEFINE refusal == IF page.meta = NULL THEN NULL
                      ELSE Preflight(page.meta, page.origin, page.destination)
           asked   == [seq |-> reqSeq + 1, query |-> Query(page), reply |-> NULL]
<1>1. DOMAIN page = PageFields /\ timer' = FALSE
  BY DEF PageInv, Tidy, RunRoute
<1>2. CASE page.origin = NULL \/ page.destination = NULL
  <2>1. UNCHANGED <<page, reqSeq, flying>>
    BY <1>2 DEF RunRoute
  <2>2. About(page, Query(page), reqSeq, flying)
    BY <1>2 DEF PageInv, Tidy, About, Awaited
  <2> QED BY <1>1, <2>1, <2>2 DEF PageInv
<1>3. CASE ~(page.origin = NULL \/ page.destination = NULL) /\ refusal # NULL
  <2>1. /\ reqSeq' = reqSeq + 1 /\ UNCHANGED flying
        /\ page' = [page EXCEPT !.routes = NULL, !.loading = FALSE,
                                !.error = [query |-> Query(page), why |-> refusal]]
    BY <1>3 DEF RunRoute
  <2>2. ~Awaited(reqSeq', flying') /\ Numbered(reqSeq', flying')
    BY <2>1 DEF PageInv, Numbered, Awaited
  <2>3. Query(page') = Query(page)
    BY <1>1, <2>1 DEF Query, PageFields
  <2>4. Tidy(page', reqSeq', flying')
    BY <1>1, <1>3, <2>1, <2>2 DEF Tidy, PageFields
  <2>5. About(page', Query(page'), reqSeq', flying')
    BY <1>1, <2>1, <2>2, <2>3 DEF About, Awaited, PageFields
  <2> QED BY <1>1, <2>2, <2>4, <2>5 DEF PageInv
<1>4. CASE ~(page.origin = NULL \/ page.destination = NULL) /\ refusal = NULL
  <2>1. /\ reqSeq' = reqSeq + 1 /\ flying' = flying \cup {asked}
        /\ page' = [page EXCEPT !.loading = TRUE, !.error = NULL]
    BY <1>4 DEF RunRoute
  <2>2. Awaited(reqSeq', flying')
    <3>1. asked \in flying' /\ asked.seq = reqSeq'
      BY <2>1
    <3> QED BY <3>1 DEF Awaited
  <2>3. Numbered(reqSeq', flying') /\ \A r \in flying' : r.seq = reqSeq' => r = asked
    BY <2>1 DEF PageInv, Numbered
  <2>4. Query(page') = Query(page)
    BY <1>1, <2>1 DEF Query, PageFields
  <2>5. Tidy(page', reqSeq', flying')
    BY <1>1, <1>4, <2>1, <2>2 DEF PageInv, Tidy, PageFields
  <2>6. About(page', Query(page'), reqSeq', flying')
    BY <2>2, <2>3, <2>4 DEF About
  <2> QED BY <1>1, <2>3, <2>5, <2>6 DEF PageInv
<1> QED BY <1>2, <1>3, <1>4

LEMMA RepliedKeepsPage ==
  ASSUME PageInv, NEW r \in flying, NEW reply, Replied(r, reply)
  PROVE  PageInv'
<1> DEFINE answered == [r EXCEPT !.reply = reply]
<1>1. flying' = (flying \ {r}) \cup {answered} /\ UNCHANGED <<page, timer, reqSeq>>
  BY DEF Replied
<1>2. DOMAIN answered = {"seq", "query", "reply"} /\ answered.seq = r.seq
      /\ answered.query = r.query
  BY DEF PageInv, Numbered
<1> HIDE DEF answered
<1>3. Numbered(reqSeq', flying')
  BY <1>1, <1>2 DEF PageInv, Numbered
<1>4. Awaited(reqSeq', flying') <=> Awaited(reqSeq, flying)
  BY <1>1, <1>2 DEF Awaited
<1>5. \A s \in flying' : s.seq = reqSeq =>
        \E t \in flying : t.seq = reqSeq /\ t.query = s.query
  BY <1>1, <1>2
<1> QED BY <1>1, <1>3, <1>4, <1>5 DEF PageInv, Tidy, About

LEMMA AnswerKeepsPage ==
  ASSUME PageInv, NEW r \in flying, AnswerArrives(r)
  PROVE  PageInv'
<1>1. flying' = flying \ {r} /\ UNCHANGED reqSeq
  BY DEF AnswerArrives
<1>2. Numbered(reqSeq', flying')
  BY <1>1 DEF PageInv, Numbered
<1>3. CASE ~IsCurrent(r)
  <2>1. UNCHANGED <<page, timer>>
    BY <1>3 DEF AnswerArrives
  <2>2. Awaited(reqSeq', flying') <=> Awaited(reqSeq, flying)
    BY <1>1, <1>3 DEF Awaited, IsCurrent
  <2> QED BY <1>1, <1>2, <2>1, <2>2 DEF PageInv, Tidy, About
<1>4. CASE IsCurrent(r)
  <2>1. Commit(Shows(r), FALSE)
    BY <1>4 DEF AnswerArrives
  <2>2. ~Awaited(reqSeq', flying')
    BY <1>1, <1>4 DEF PageInv, Numbered, Awaited, IsCurrent
  <2>3. page.origin # NULL /\ page.destination # NULL
    BY <1>4 DEF PageInv, Tidy, Awaited, IsCurrent
  <2>4. Tidy(Shows(r), reqSeq', flying')
    BY <2>2, <2>3 DEF PageInv, Tidy, Shows, PageFields
  <2>5. ~timer => About(Shows(r), Query(page), reqSeq', flying')
    <3>1. ~timer => r.query = Query(page)
      BY <1>4 DEF PageInv, About, IsCurrent
    <3>2. DOMAIN page = PageFields
      BY DEF PageInv, Tidy
    <3>3. \/ Shows(r).routes = r.query /\ Shows(r).error = NULL
          \/ Shows(r).routes = NULL /\ Shows(r).error.query = r.query
      BY <1>4, <3>2 DEF PageInv, Tidy, Awaited, IsCurrent, Shows, PageFields
    <3> QED BY <2>2, <3>1, <3>3 DEF About, Awaited
  <2> QED BY <1>2, <2>1, <2>4, <2>5, CommitKeepsPage DEF PageInv
<1> QED BY <1>3, <1>4

LEMMA PageInvNext == PageInv /\ [Next]_all => PageInv'
<1> SUFFICES ASSUME PageInv, [Next]_all PROVE PageInv'
  OBVIOUS
<1>1. CASE UNCHANGED <<page, timer, reqSeq, flying>>
  BY <1>1 DEF PageInv
<1>2. CASE Edits
  BY <1>2, EditsKeepPage
<1>3. CASE PageStep
  <2>1. CASE OpenPage
    BY <1>1, <2>1 DEF OpenPage
  <2>2. CASE MetaAnswered \/ MetaFails
    BY <2>2, MetaKeepsPage DEF MetaAnswered, MetaFails
  <2>3. CASE RunRoute
    BY <2>3, RunRouteKeepsPage
  <2>4. ASSUME NEW r \in flying, ServiceReplies(r) \/ RequestFails(r) PROVE PageInv'
    BY <2>4, RepliedKeepsPage DEF ServiceReplies, RequestFails
  <2>5. ASSUME NEW r \in flying, AnswerArrives(r) PROVE PageInv'
    BY <2>5, AnswerKeepsPage
  <2> QED BY <1>3, <2>1, <2>2, <2>3, <2>4, <2>5 DEF PageStep
<1>4. CASE ~PageStep /\ ~Edits
  BY <1>1, <1>4 DEF Next, pageVars, all
<1> QED BY <1>2, <1>3, <1>4

(* page.tsx:248-294: however slow answers, stale answers, edits, refusals and *)
(* resets interleave, a settled page shows what its own fields ask for.       *)
THEOREM PageShowsWhatIsAsked == Spec => []ShownIsAsked
<1>1. Init => PageInv
  <2> SUFFICES ASSUME PageInit PROVE PageInv
    BY DEF Init
  <2>1. DOMAIN page = PageFields /\ page.routes = NULL /\ page.error = NULL /\ page.loading = FALSE
    BY DEF PageInit, PageFields
  <2>2. Numbered(reqSeq, flying) /\ ~Awaited(reqSeq, flying) /\ timer = FALSE
    BY DEF PageInit, Numbered, Awaited
  <2>3. About(page, Query(page), reqSeq, flying)
    BY <2>1, <2>2 DEF About, Awaited
  <2> QED BY <2>1, <2>2, <2>3 DEF PageInv, Tidy
<1>2. PageInv => ShownIsAsked
  <2> SUFFICES ASSUME PageInv PROVE ShownIsAsked
    OBVIOUS
  <2>1. page.loading = \E r \in flying : r.seq = reqSeq
    BY DEF PageInv, Tidy, Awaited
  <2> QED BY <2>1 DEF PageInv, Tidy, About, Awaited, ShownIsAsked
<1> QED BY <1>1, <1>2, PageInvNext, PTL DEF Spec

-----------------------------------------------------------------------------
(* Coverage. *)

LEMMA FirstIndexIsFirst ==
  ASSUME NEW S, S \subseteq Nat, S # {}
  PROVE  FirstIndex(S) \in S /\ \A j \in S : FirstIndex(S) <= j
<1>1. PICK i \in S : \A j \in S : ~(<<j, i>> \in OpToRel(<, Nat))
  BY NatLessThanWellFounded, WFMin, Zenon
<1>2. ASSUME NEW j \in S PROVE i <= j
  <2>1. i \in Nat /\ j \in Nat /\ <<j, i>> \in Nat \X Nat
    OBVIOUS
  <2>2. ~(<<j, i>>[1] < <<j, i>>[2])
    BY <1>1, <2>1 DEF OpToRel
  <2> QED BY <2>1, <2>2
<1> QED BY <1>2 DEF FirstIndex

LEMMA BoxesOfOnePointMeet ==
  ASSUME NEW a, NEW b, NEW x \in Int, NEW y \in Int,
         \A c \in {a, b} : /\ {c.west, c.east, c.south, c.north} \subseteq Int
                          /\ c.west <= x /\ x <= c.east /\ c.south <= y /\ y <= c.north
  PROVE  Intersects(a, b) /\ Intersects(b, a)
BY DEF Intersects

(* validate_coverage, api/registry.py:142-161: boxes that pass it, touching *)
(* ones refused, leave no point to two packs.                               *)
LEMMA CoverageIsExclusive ==
  ASSUME NEW packs, DOMAIN packs \subseteq Int, ValidCoverage(packs),
         \A i \in DOMAIN packs : packs[i].bbox # NULL =>
           {packs[i].bbox.west, packs[i].bbox.south, packs[i].bbox.east,
            packs[i].bbox.north} \subseteq Int,
         Len(packs) <= 1 => \A i, j \in DOMAIN packs : i = j,
         Len(packs) \in Int,
         NEW p, p.lat \in Int, p.lon \in Int,
         NEW i \in DOMAIN packs, NEW j \in DOMAIN packs,
         BboxContains(packs[i].bbox, p), BboxContains(packs[j].bbox, p)
  PROVE  i = j
<1> SUFFICES ASSUME i # j PROVE FALSE
  OBVIOUS
<1>1. packs[i].bbox # NULL /\ packs[j].bbox # NULL
  BY DEF ValidCoverage
<1>2. ASSUME NEW k \in {i, j}
      PROVE  /\ packs[k].bbox.west \in Int /\ packs[k].bbox.east \in Int
             /\ packs[k].bbox.south \in Int /\ packs[k].bbox.north \in Int
             /\ packs[k].bbox.west <= p.lon /\ p.lon <= packs[k].bbox.east
             /\ packs[k].bbox.south <= p.lat /\ p.lat <= packs[k].bbox.north
  BY <1>1 DEF BboxContains
<1>3. Intersects(packs[i].bbox, packs[j].bbox) /\ Intersects(packs[j].bbox, packs[i].bbox)
  <2> DEFINE a == packs[i].bbox
             b == packs[j].bbox
             x == p.lon
             y == p.lat
  <2>1. \A c \in {a, b} : /\ {c.west, c.east, c.south, c.north} \subseteq Int
                           /\ c.west <= x /\ x <= c.east /\ c.south <= y /\ y <= c.north
    BY <1>2
  <2>2. x \in Int /\ y \in Int
    OBVIOUS
  <2> HIDE DEF a, b, x, y
  <2>3. Intersects(a, b) /\ Intersects(b, a)
    BY <2>1, <2>2, BoxesOfOnePointMeet
  <2> QED BY <2>3 DEF a, b
<1> QED BY <1>3 DEF ValidCoverage

(* coverage.ts:77-99 against registry.py:105-121, written twice in two        *)
(* languages: over the packs of a /meta answer they refuse the same pairs for *)
(* the same reason.                                                           *)
THEOREM PreflightIsPackFor ==
  ASSUME NEW packs, packs # <<>>, NEW o, NEW d
  PROVE  Preflight(packs, o, d) = PackFor(packs, o, d).refusal
<1>1. \A p : PacksAt(packs, p) = {i \in DOMAIN packs : BboxContains(packs[i].bbox, p)}
  BY DEF PacksAt, ClientContains, BboxContains
<1>2. \A p : PackForPoint(packs, p) = Owner(packs, p)
  BY <1>1 DEF PackForPoint, Owner
<1> QED BY <1>2 DEF Preflight, PackFor, Owned, Refused

-----------------------------------------------------------------------------
(* Boots. *)

Names == ServedRegions(config)

(* What region r may have been given by a lock in force so far, or before.   *)
Pinnable(r) == Packs \cap PinnedFor(r)

BootTypes ==
  /\ config \in Known /\ config \in deployed
  /\ DOMAIN disk = Regions
  /\ DOMAIN boot = {"pc", "todo", "archive"}

DiskIsPinned == \A r \in Regions : disk[r] \in Pinnable(r) \cup {NULL, Half}

Fetching == boot.pc \in {"fetch", "verify", "install"}

TodoIsFetchable ==
  Fetching => /\ boot.todo # {} /\ boot.todo \subseteq DOMAIN Names
              /\ \A i \in boot.todo : Fetchable(config, Region(i))

ArchiveIsKnown ==
  /\ boot.pc \in {"verify", "install"} => boot.archive \in Packs \cup {Garbled}
  /\ boot.pc = "install" => Verified(Current) /\ HasPayload(Current)

RegistryIsPinned ==
  registry # NULL =>
    /\ DOMAIN registry # {} /\ DOMAIN registry \subseteq Nat
    /\ ValidCoverage(registry)
    /\ Len(registry) \in Nat /\ DOMAIN registry = 1..Len(registry)
    /\ config.pinned = NULL =>
         \A i \in DOMAIN registry :
           /\ registry[i].pack \in Pinnable(registry[i].name)
           /\ registry[i].bbox = registry[i].pack.bbox

ServiceInv ==
  BootTypes /\ DiskIsPinned /\ TodoIsFetchable /\ ArchiveIsKnown /\ RegistryIsPinned

LEMMA NamesAreRegions ==
  ASSUME NEW c \in Known
  PROVE  ServedRegions(c) \in Seq(Regions)
BY ConfigsNameRegions DEF ServedRegions

LEMMA CurrentIsFetchable ==
  ASSUME ServiceInv, Fetching
  PROVE  /\ FirstIndex(boot.todo) \in boot.todo
         /\ Current \in Regions /\ Fetchable(config, Current)
<1>1. boot.todo # {} /\ boot.todo \subseteq DOMAIN Names /\ Names \in Seq(Regions)
  BY NamesAreRegions DEF ServiceInv, BootTypes, TodoIsFetchable, Names
<1>2. FirstIndex(boot.todo) \in boot.todo
  BY <1>1, FirstIndexIsFirst
<1> QED BY <1>1, <1>2 DEF ServiceInv, TodoIsFetchable, Current, Region, Names

(* A step of a boot that changes neither the disk nor what is served. *)
LEMMA BootsKeepsService ==
  ASSUME ServiceInv, NEW next, Boots(next), DOMAIN next = {"pc", "todo", "archive"},
         \/ next.pc \notin {"fetch", "verify", "install"}
         \/ /\ next.todo # {} /\ next.todo \subseteq DOMAIN Names
            /\ \A i \in next.todo : Fetchable(config, Region(i)),
         next.pc \in {"verify", "install"} => next.archive \in Packs \cup {Garbled},
         next.pc = "install" => /\ next.todo = boot.todo /\ next.archive = boot.archive
                                /\ Verified(Current) /\ HasPayload(Current)
  PROVE  ServiceInv'
<1>1. UNCHANGED <<config, disk, registry, deployed>> /\ boot' = next
  BY DEF Boots
<1>2. BootTypes' /\ DiskIsPinned' /\ RegistryIsPinned'
  BY <1>1 DEF ServiceInv, BootTypes, DiskIsPinned, RegistryIsPinned, Pinnable, PinnedFor
<1>3. TodoIsFetchable'
  BY <1>1 DEF TodoIsFetchable, Fetching, Names, Region
<1>4. ArchiveIsKnown'
  BY <1>1 DEF ArchiveIsKnown, Verified, HasPayload, Current, Region
<1> QED BY <1>2, <1>3, <1>4 DEF ServiceInv

LEMMA AtIs == \A pc : /\ DOMAIN At(pc) = {"pc", "todo", "archive"} /\ At(pc).pc = pc
                      /\ \A t : /\ [At(pc) EXCEPT !.todo = t].pc = pc
                                /\ [At(pc) EXCEPT !.todo = t].todo = t
                                /\ DOMAIN [At(pc) EXCEPT !.todo = t] = {"pc", "todo", "archive"}
BY DEF At, Down

LEMMA StartKeepsService == ASSUME ServiceInv, Start PROVE ServiceInv'
<1>1. CASE config.pinned = NULL /\ Names # <<>> /\ Missing # {} /\ MissingFetchable
  <2>1. Boots([At("fetch") EXCEPT !.todo = Missing])
    BY <1>1 DEF Start, Names
  <2>2. Missing \subseteq DOMAIN Names /\ \A i \in Missing : Fetchable(config, Region(i))
    BY <1>1 DEF Missing, MissingFetchable, Names
  <2> QED BY <1>1, <2>1, <2>2, AtIs, BootsKeepsService
<1>2. CASE ~(config.pinned = NULL /\ Names # <<>> /\ Missing # {} /\ MissingFetchable)
  <2>1. Boots(At("load")) \/ Boots(At("failed"))
    BY <1>2 DEF Start, Names
  <2> QED BY <2>1, AtIs, BootsKeepsService
<1> QED BY <1>1, <1>2

LEMMA DownloadKeepsService ==
  ASSUME ServiceInv, NEW a \in Packs \cup {Garbled}, Downloaded(a)
  PROVE  ServiceInv'
<1> DEFINE next == [boot EXCEPT !.pc = "verify", !.archive = a]
<1>1. /\ DOMAIN next = {"pc", "todo", "archive"} /\ next.pc = "verify"
      /\ next.todo = boot.todo /\ next.archive = a
  BY DEF ServiceInv, BootTypes
<1>2. Boots(next) /\ Fetching
  BY DEF Downloaded, Fetching
<1> HIDE DEF next
<1> QED BY <1>1, <1>2, BootsKeepsService DEF ServiceInv, TodoIsFetchable

LEMMA VerifyKeepsService == ASSUME ServiceInv, Verify PROVE ServiceInv'
<1> DEFINE next == [boot EXCEPT !.pc = "install"]
<1>1. /\ DOMAIN next = {"pc", "todo", "archive"} /\ next.pc = "install"
      /\ next.todo = boot.todo /\ next.archive = boot.archive
  BY DEF ServiceInv, BootTypes
<1>2. Fetching /\ boot.pc = "verify"
  BY DEF Verify, Fetching
<1>3. CASE Verified(Current) /\ HasPayload(Current)
  <2>1. Boots(next)
    BY <1>3 DEF Verify
  <2> HIDE DEF next
  <2> QED BY <1>1, <1>2, <1>3, <2>1, BootsKeepsService DEF ServiceInv, TodoIsFetchable, ArchiveIsKnown
<1>4. CASE ~(Verified(Current) /\ HasPayload(Current))
  <2>1. Boots(At("failed"))
    BY <1>4 DEF Verify
  <2> QED BY <2>1, AtIs, BootsKeepsService
<1> QED BY <1>3, <1>4

LEMMA InstallKeepsService == ASSUME ServiceInv, Install PROVE ServiceInv'
<1> DEFINE rest == boot.todo \ {FirstIndex(boot.todo)}
<1>1. /\ FirstIndex(boot.todo) \in boot.todo /\ Current \in Regions
      /\ Fetchable(config, Current)
  BY CurrentIsFetchable DEF Install, Fetching
<1>2. UNCHANGED <<config, registry, deployed>> /\ boot.pc = "install"
  BY DEF Install
<1>3. BootTypes' /\ RegistryIsPinned'
  BY <1>2, AtIs DEF Install, ServiceInv, BootTypes, RegistryIsPinned, Pinnable, PinnedFor
<1>4. DiskIsPinned'
  <2>1. CASE disk' = disk
    BY <1>2, <2>1 DEF ServiceInv, DiskIsPinned, Pinnable, PinnedFor
  <2>2. CASE disk' = [disk EXCEPT ![Current] = boot.archive]
    <3>1. boot.archive \in Packs /\ boot.archive = config.lock.sha[Current]
      BY <1>2 DEF ServiceInv, ArchiveIsKnown, Verified, HasPayload
    <3>2. boot.archive \in Pinnable(Current)
      BY <1>1, <3>1 DEF ServiceInv, BootTypes, Pinnable, PinnedFor, Fetchable
    <3> QED BY <1>2, <2>2, <3>2 DEF ServiceInv, BootTypes, DiskIsPinned, Pinnable, PinnedFor
  <2> QED BY <2>1, <2>2 DEF Install
<1>5. boot'.pc \in {"load", "failed"} \/ (boot' = [At("fetch") EXCEPT !.todo = rest] /\ rest # {})
  <2>1. CASE disk[Current] = NULL /\ rest = {}
    <3>1. boot' = At("load")
      BY <2>1 DEF Install
    <3> QED BY <3>1, AtIs
  <2>2. CASE disk[Current] = NULL /\ rest # {}
    BY <2>2 DEF Install
  <2>3. CASE disk[Current] # NULL
    <3>1. boot' = At("failed")
      BY <2>3 DEF Install
    <3> QED BY <3>1, AtIs
  <2> QED BY <2>1, <2>2, <2>3
<1>6. TodoIsFetchable' /\ ArchiveIsKnown'
  <2>1. CASE boot'.pc \in {"load", "failed"}
    BY <2>1 DEF TodoIsFetchable, ArchiveIsKnown, Fetching
  <2>2. CASE boot' = [At("fetch") EXCEPT !.todo = rest] /\ rest # {}
    <3>1. boot'.pc = "fetch" /\ boot'.todo = rest /\ rest # {}
      BY <2>2, AtIs
    <3> QED BY <1>2, <3>1 DEF ServiceInv, TodoIsFetchable, ArchiveIsKnown, Fetching, Names, Region
  <2> QED BY <1>5, <2>1, <2>2
<1> QED BY <1>3, <1>4, <1>6 DEF ServiceInv

LEMMA LoadKeepsService == ASSUME ServiceInv, Load PROVE ServiceInv'
<1>1. /\ UNCHANGED <<config, disk, deployed>> /\ registry' = Served(config, disk)
      /\ boot' = At("failed") \/ boot' = At("up")
  BY DEF Load
<1>2. BootTypes' /\ DiskIsPinned' /\ TodoIsFetchable' /\ ArchiveIsKnown'
  BY <1>1, AtIs DEF ServiceInv, BootTypes, DiskIsPinned, TodoIsFetchable, ArchiveIsKnown,
                    Fetching, Pinnable, PinnedFor
<1>3. ASSUME registry' # NULL, config.pinned # NULL PROVE RegistryIsPinned'
  <2>1. registry' = <<Entry(config.pinned.region, config.pinned)>> /\ ValidCoverage(registry')
    BY <1>1, <1>3 DEF Served
  <2> QED BY <1>1, <1>3, <2>1 DEF RegistryIsPinned
<1>4. ASSUME registry' # NULL, config.pinned = NULL PROVE RegistryIsPinned'
  <2>1. /\ registry' = [i \in DOMAIN Names |-> Entry(Names[i], disk[Names[i]])]
        /\ ValidCoverage(registry') /\ Names # <<>>
        /\ \A i \in DOMAIN Names : Loads(config, disk, Names[i])
    BY <1>1, <1>4 DEF Served, Names
  <2>2. Names \in Seq(Regions)
    BY NamesAreRegions DEF ServiceInv, BootTypes, Names
  <2>3. DOMAIN registry' = 1..Len(Names) /\ Len(Names) \in Nat /\ Len(Names) # 0
    BY <2>1, <2>2
  <2>4. Len(registry') = Len(Names)
    BY <2>1, <2>2, <2>3
  <2>5. ASSUME NEW i \in DOMAIN registry'
        PROVE  /\ registry'[i].pack \in Pinnable(registry'[i].name)
               /\ registry'[i].bbox = registry'[i].pack.bbox
    <3>1. registry'[i] = Entry(Names[i], disk[Names[i]]) /\ Names[i] \in Regions
      BY <2>1, <2>2, <2>5
    <3>2. disk[Names[i]] \in Pinnable(Names[i])
      BY <2>1, <2>5, <3>1 DEF Loads, ServiceInv, DiskIsPinned
    <3> QED BY <3>1, <3>2 DEF Entry
  <2> QED BY <1>1, <2>1, <2>3, <2>4, <2>5 DEF RegistryIsPinned, Pinnable, PinnedFor
<1>5. ASSUME registry' = NULL PROVE RegistryIsPinned'
  BY <1>5 DEF RegistryIsPinned
<1> QED BY <1>2, <1>3, <1>4, <1>5 DEF ServiceInv

LEMMA KillKeepsService == ASSUME ServiceInv, Kill PROVE ServiceInv'
<1>1. UNCHANGED <<config, disk, deployed>> /\ boot' = Down /\ registry' = NULL
  BY DEF Kill
<1> QED BY <1>1 DEF Down, ServiceInv, BootTypes, DiskIsPinned, TodoIsFetchable, ArchiveIsKnown,
                    RegistryIsPinned, Fetching, Pinnable, PinnedFor

LEMMA RedeployKeepsService ==
  ASSUME ServiceInv, NEW c \in Configs, Redeploy(c)
  PROVE  ServiceInv'
<1>1. /\ config' = c /\ boot' = Down /\ registry' = NULL
      /\ disk' \in {disk, [r \in Regions |-> NULL]} /\ deployed' = deployed \cup {c}
  BY DEF Redeploy
<1>2. \A r : Pinnable(r) \subseteq Pinnable(r)'
  BY <1>1 DEF Pinnable, PinnedFor
<1>3. DiskIsPinned'
  BY <1>1, <1>2 DEF ServiceInv, DiskIsPinned
<1> QED BY <1>1, <1>3 DEF Down, ServiceInv, BootTypes, Known, TodoIsFetchable, ArchiveIsKnown,
                          RegistryIsPinned, Fetching

LEMMA ServiceInvNext == ServiceInv /\ [Next]_all => ServiceInv'
<1> SUFFICES ASSUME ServiceInv, [Next]_all PROVE ServiceInv'
  OBVIOUS
<1>1. CASE UNCHANGED serviceVars
  BY <1>1 DEF serviceVars, ServiceInv, BootTypes, DiskIsPinned, TodoIsFetchable, ArchiveIsKnown,
    RegistryIsPinned, Fetching, Names, Region, Current, Verified, HasPayload, Pinnable, PinnedFor
<1>2. CASE BootStep
  <2>1. CASE DownloadFails \/ UnpackFails \/ Restart
    <3>1. Boots(At("failed")) \/ Boots(Down)
      BY <2>1 DEF DownloadFails, UnpackFails, Restart
    <3>2. Down.pc = "down" /\ DOMAIN Down = {"pc", "todo", "archive"}
      BY DEF Down
    <3> QED BY <3>1, <3>2, AtIs, BootsKeepsService
  <2> QED BY <1>2, <2>1, StartKeepsService, DownloadKeepsService, VerifyKeepsService,
             InstallKeepsService, LoadKeepsService DEF BootStep
<1>3. CASE ServiceDisturbed
  BY <1>3, KillKeepsService, RedeployKeepsService DEF ServiceDisturbed
<1>4. CASE PageStep \/ Edits
  BY <1>1, <1>4 DEF PageStep, Edits, OpenPage, MetaAnswered, MetaFails, MetaArrives, RunRoute,
    ServiceReplies, RequestFails, Replied, AnswerArrives, Alone, SetOrigin, SetDestination,
    SetSetting, Fix, LocateMe, Reset, StartNavigating, ExitNavigating, Event
<1> QED BY <1>1, <1>2, <1>3, <1>4 DEF Next, all

LEMMA ServiceInvInit == Init => ServiceInv
<1> SUFFICES ASSUME ServiceInit PROVE ServiceInv
  BY DEF Init
<1>1. PICK first \in AtFirst : config = first[1] /\ disk = first[2]
  BY DEF ServiceInit
<1>2. disk \in [Regions -> Packs \cup {NULL, Half}]
  BY <1>1, DisksHoldPacks
<1>3. \A r : disk[r] \in PinnedFor(r)
  BY <1>1 DEF PinnedFor
<1>4. DiskIsPinned
  BY <1>2, <1>3 DEF DiskIsPinned, Pinnable
<1> QED BY <1>1, <1>2, <1>4 DEF ServiceInit, Down, Known, ServiceInv, BootTypes, TodoIsFetchable,
                               ArchiveIsKnown, RegistryIsPinned, Fetching

(* packs_fetch.py's header and registry.py:142: whatever boots were killed   *)
(* and whatever the bucket answered, a pack that answers was pinned for its  *)
(* region, and no point belongs to two packs.                                *)
THEOREM ServedIsPinned == Spec => []OnlyPinnedServed
<1>1. ServiceInv => OnlyPinnedServed
  <2> SUFFICES ASSUME ServiceInv, registry # NULL, config.pinned = NULL
               PROVE  /\ \A i \in DOMAIN registry :
                           registry[i].pack \in Packs \cap PinnedFor(registry[i].name)
                      /\ \A p \in Points :
                           Cardinality({i \in DOMAIN registry :
                                          BboxContains(registry[i].bbox, p)}) <= 1
    BY DEF OnlyPinnedServed, OnlyPinnedPacksServed
  <2>1. \A i \in DOMAIN registry : registry[i].pack \in Packs \cap PinnedFor(registry[i].name)
    BY DEF ServiceInv, RegistryIsPinned, Pinnable
  <2>2. ASSUME NEW p \in Points
        PROVE  Cardinality({i \in DOMAIN registry : BboxContains(registry[i].bbox, p)}) <= 1
    <3> DEFINE owners == {i \in DOMAIN registry : BboxContains(registry[i].bbox, p)}
    <3>1. \A i, j \in owners : i = j
      <4>1. \A i \in DOMAIN registry : registry[i].bbox # NULL =>
              {registry[i].bbox.west, registry[i].bbox.south, registry[i].bbox.east,
               registry[i].bbox.north} \subseteq Int
        BY <2>1, BoxesAreNumbers DEF ServiceInv, RegistryIsPinned
      <4>2. /\ DOMAIN registry \subseteq Int /\ ValidCoverage(registry)
            /\ Len(registry) \in Int
            /\ Len(registry) <= 1 => \A i, j \in DOMAIN registry : i = j
        BY DEF ServiceInv, RegistryIsPinned
      <4> QED BY <4>1, <4>2, EndpointsAreSomewhere, CoverageIsExclusive
    <3>2. CASE owners = {}
      BY <3>2, FS_EmptySet
    <3>3. CASE owners # {}
      <4>1. PICK i \in owners : TRUE
        BY <3>3
      <4>2. owners = {i}
        BY <3>1, <4>1
      <4>3. Cardinality({i}) = 1
        BY FS_Singleton
      <4> QED BY SMTT(30), <4>2, <4>3
    <3> QED BY <3>2, <3>3
  <2> QED BY <2>1, <2>2
<1> QED BY <1>1, ServiceInvInit, ServiceInvNext, PTL DEF Spec

(* ADR-0014 decision 6, in every state of a deployment: a page that has the   *)
(* /meta of the packs in force refuses what the service refuses.              *)
THEOREM PagesAgree == Spec => []PreflightAgrees
<1>1. ServiceInv => PreflightAgrees
  <2> SUFFICES ASSUME ServiceInv, registry # NULL, page.meta = MetaOf(registry),
                      NEW o \in Points, NEW d \in Points
               PROVE  Preflight(page.meta, o, d) = PackFor(MetaOf(registry), o, d).refusal
    BY DEF PreflightAgrees, Healthy
  <2>1. MetaOf(registry) # <<>>
    BY DEF ServiceInv, RegistryIsPinned, MetaOf
  <2> QED BY <2>1, PreflightIsPackFor
<1> QED BY <1>1, ServiceInvInit, ServiceInvNext, PTL DEF Spec
=============================================================================
