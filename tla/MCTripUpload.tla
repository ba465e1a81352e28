---------------------------- MODULE MCTripUpload ----------------------------
(* TripUpload on small instances. *)
EXTENDS TripUpload, TLC

CONSTANTS k0, k1, w0, w1

LineDistance(p, q) == IF p < q THEN q - p ELSE p - q

(* With Trim and SealInterval 0 every fix is sealed as it arrives. *)
ShortRoute == {<<0, 1>>}
OneFix == {[t |-> 0, at |-> 0, acc |-> 0]}
=============================================================================
