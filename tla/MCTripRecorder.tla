--------------------------- MODULE MCTripRecorder ---------------------------
(***************************************************************************)
(* TripRecorder on small instances.  Places are points of a line and the   *)
(* clock's unit is the least interval between two fixes.                   *)
(***************************************************************************)
EXTENDS TripRecorder, TLC

CONSTANTS k0, k1

LineDistance(p, q) == IF p < q THEN q - p ELSE p - q

(* With Trim and SealInterval 0 every fix is sealed as it arrives: the      *)
(* shortest instance whose queue holds artifacts, fixes and ends.           *)
ShortRoute == {<<0, 1>>}
OneFix == {[t |-> 0, at |-> 0, acc |-> 0]}

(* Driving up and down a line of six places, with fixes good and poor; the  *)
(* reroute ends where fixes may have been accepted already.                 *)
BranchingRoutes == {<<0, 1, 2, 3, 4, 5>>, <<5, 4, 3, 2>>}
Wander ==
  {[t |-> n, at |-> p, acc |-> 0] : n \in {1, 3}, p \in {2, 5}}
    \cup {[t |-> 0, at |-> 0, acc |-> 0], [t |-> 1, at |-> 3, acc |-> 0],
          [t |-> 2, at |-> 3, acc |-> 1], [t |-> 2, at |-> 5, acc |-> 0],
          [t |-> 3, at |-> 5, acc |-> 2]}
=============================================================================
