------------------------------ MODULE WakeLock ------------------------------
(***************************************************************************)
(* The screen wake lock: createWakeLockController of web/lib/useWakeLock.ts *)
(* over a browser that grants a request or refuses it, some time later,    *)
(* runs a release some time later, drops a lock when it likes, and drops   *)
(* every lock the moment the page is hidden.                               *)
(*                                                                         *)
(* A sentinel is named by the token of the request it answers.             *)
(***************************************************************************)
EXTENDS Integers

NoSentinel == 0   \* null: tokens begin at 1

VARIABLES
  wake,      \* the controller: [wanted, sentinel, requestToken], and
             \* `acquired', what its onChange last said
  requests,  \* tokens of the requests in the air
  live,      \* sentinels the browser has granted and not released
  releasing, \* sentinels whose release has been asked for
  visible,   \* document.visibilityState
  denied     \* history: since the last request the browser has refused or
             \* dropped a lock of its own accord

wakeVars == <<wake, requests, live, releasing, visible, denied>>

LockInit ==
  /\ wake = [wanted |-> FALSE, sentinel |-> NoSentinel, requestToken |-> 0, acquired |-> FALSE]
  /\ requests = {} /\ live = {} /\ releasing = {}
  /\ visible = TRUE
  /\ denied = FALSE

(* acquire, as far as its request. *)
Acquire(l) ==
  /\ wake' = [l EXCEPT !.requestToken = @ + 1]
  /\ requests' = requests \cup {l.requestToken + 1}
  /\ denied' = FALSE

Unasked(l) == wake' = l /\ UNCHANGED <<requests, denied>>

(* setWanted *)
SetWanted(next) ==
  /\ \/ /\ next = wake.wanted
        /\ Unasked(wake)
        /\ UNCHANGED releasing
     \/ /\ next /\ ~wake.wanted
        /\ Acquire([wake EXCEPT !.wanted = TRUE])
        /\ UNCHANGED releasing
     \/ /\ ~next /\ wake.wanted
        /\ Unasked([wake EXCEPT !.wanted = FALSE])
        /\ releasing' = releasing \cup (live \cap {wake.sentinel})
  /\ UNCHANGED <<live, visible>>

IsUnwanted(token) == ~wake.wanted              \* defect: superseded, not stale
IsStale(token) == token # wake.requestToken \/ ~wake.wanted

(* The request resolves: a stale one lets go of its lock at once. *)
Granted(token) ==
  /\ token \in requests /\ visible
  /\ requests' = requests \ {token}
  /\ live' = live \cup {token}
  /\ \/ /\ IsStale(token)
        /\ releasing' = releasing \cup {token}
        /\ UNCHANGED wake
     \/ /\ ~IsStale(token)
        /\ wake' = [wake EXCEPT !.sentinel = token, !.acquired = TRUE]
        /\ UNCHANGED releasing
  /\ UNCHANGED <<visible, denied>>

(* A rejection is routine; a hidden page always gets one. *)
Denied(token) ==
  /\ token \in requests
  /\ requests' = requests \ {token}
  /\ wake' = IF token = wake.requestToken THEN [wake EXCEPT !.acquired = FALSE] ELSE wake
  /\ denied' = (denied \/ (visible /\ token = wake.requestToken))
  /\ UNCHANGED <<live, releasing, visible>>

(* The `release' events of the sentinels s. *)
Ended(s) ==
  /\ wake' = IF wake.sentinel \in s
             THEN [wake EXCEPT !.sentinel = NoSentinel, !.acquired = FALSE] ELSE wake
  /\ live' = live \ s
  /\ releasing' = releasing \ s

Released(s) ==
  /\ s \in releasing /\ Ended({s})
  /\ UNCHANGED <<requests, visible, denied>>

(* Low battery, or anything else the browser decides warrants it. *)
Dropped(s) ==
  /\ s \in live \ releasing /\ Ended({s})
  /\ denied' = TRUE
  /\ UNCHANGED <<requests, visible>>

Hidden ==
  /\ visible /\ visible' = FALSE
  /\ Ended(live)
  /\ UNCHANGED <<requests, denied>>

(* onVisibilityChange *)
Reacquires == wake.wanted /\ wake.sentinel = NoSentinel

Shown ==
  /\ ~visible /\ visible' = TRUE
  /\ IF Reacquires THEN Acquire(wake) ELSE Unasked(wake)
  /\ UNCHANGED <<live, releasing>>

BrowserStep ==
  \/ \E t \in requests : Granted(t) \/ Denied(t)
  \/ \E s \in releasing : Released(s)
-----------------------------------------------------------------------------
(* ADR-0012, a lock for exactly the mounted session: however starts, stops,  *)
(* hides, shows and late answers interleave, a lock the browser holds is the *)
(* one the controller knows and wants, or is being released.  And while the  *)
(* page is visible and nothing is in the air, a wanted lock is held, unless  *)
(* the browser refused or dropped it after the last request.                 *)
HeldAsWanted ==
  /\ \A s \in live \ releasing : s = wake.sentinel /\ wake.wanted /\ wake.acquired
  /\ (wake.wanted /\ visible /\ requests = {} /\ ~denied) => wake.sentinel \in live \ releasing
=============================================================================
