--------------------------- MODULE IngestContract ---------------------------
(***************************************************************************)
(* What the trip-trace ingest service promises a device (commute/app.py's  *)
(* header and ADR-0018), with no table, no transaction and no worker: a    *)
(* set of write-once registers, one per chunk and one per trip end.  A     *)
(* trip belongs to the first token that writes to it; a register is        *)
(* written once, by its trip's owner; an upload is acknowledged only while *)
(* its own content is what the register holds, so "stored" said once stays *)
(* true.  TraceStore is shown to implement this specification.             *)
(***************************************************************************)

CONSTANTS
  Tokens,   \* tester tokens
  Trips,    \* trip UUIDs
  Parts,    \* the registers of a trip: its chunk numbers and its end
  Bodies,   \* contents of an upload
  NULL      \* no owner, or nothing held

VARIABLES
  owner,    \* owner[t]: the token trip t belongs to, or NULL
  held,     \* held[t][p]: the content of part p of trip t, or NULL
  acked     \* the uploads the service has answered with a 200 or a 201

vars == <<owner, held, acked>>

Init ==
  /\ owner = [t \in Trips |-> NULL]
  /\ held  = [t \in Trips |-> [p \in Parts |-> NULL]]
  /\ acked = {}

(* A first write to part p of trip t, by the trip's owner-to-be. *)
Store(k, t, p, b) ==
  /\ owner[t] \in {NULL, k}
  /\ held[t][p] = NULL
  /\ owner' = [owner EXCEPT ![t] = k]
  /\ held'  = [held EXCEPT ![t][p] = b]
  /\ UNCHANGED acked

(* The service tells k that it holds b: now, or after any number of resends. *)
Acknowledge(k, t, p, b) ==
  /\ owner[t] = k
  /\ held[t][p] = b
  /\ acked' = acked \cup {[token |-> k, trip |-> t, part |-> p, body |-> b]}
  /\ UNCHANGED <<owner, held>>

Next ==
  \E k \in Tokens, t \in Trips, p \in Parts, b \in Bodies :
    Store(k, t, p, b) \/ Acknowledge(k, t, p, b)

Spec == Init /\ [][Next]_vars
=============================================================================
