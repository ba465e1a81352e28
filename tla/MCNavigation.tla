---------------------------- MODULE MCNavigation ----------------------------
(***************************************************************************)
(* Navigation on a small instance: two routes of one level and one of      *)
(* another, a place on the way of each, and the destination.               *)
(***************************************************************************)
EXTENDS Navigation, TLC

CONSTANTS f1, f2, s1, onF, onS, end

MCRoutes == {f1, f2, s1}
MCLevel == [r \in MCRoutes |-> IF r = s1 THEN "safe" ELSE "fast"]
MCOff == [r \in MCRoutes |-> IF r = s1 THEN {onF} ELSE {onS}]

Symmetry == Permutations({f1, f2})
=============================================================================
