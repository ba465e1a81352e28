---------------------------- MODULE PackRegistry ----------------------------
(***************************************************************************)
(* Which packs a deployment serves and which of them a request belongs to: *)
(* the pure core of api/registry.py, and the page's own version of it in   *)
(* web/lib/coverage.ts, which refuses a pair of points before asking.      *)
(*                                                                         *)
(* A served pack is [name, bbox]; a bbox is [west, south, east, north] or  *)
(* NULL, a point [lat, lon].                                               *)
(***************************************************************************)
EXTENDS Integers, Sequences, FiniteSets

CONSTANT NULL

Refusals == {"origin", "destination", "different"}

Owned(name)  == [pack |-> name, refusal |-> NULL]
Refused(why) == [pack |-> NULL, refusal |-> why]

(* bbox_contains: closed on every side; a null bbox contains everything. *)
BboxContains(bbox, p) ==
  bbox # NULL =>
    /\ bbox.south <= p.lat /\ p.lat <= bbox.north
    /\ bbox.west  <= p.lon /\ p.lon <= bbox.east

FirstIndex(indices) == CHOOSE i \in indices : \A j \in indices : i <= j

(* _owner: the first pack that contains the point. *)
Owner(packs, p) ==
  LET own == {i \in DOMAIN packs : BboxContains(packs[i].bbox, p)}
  IN IF own = {} THEN NULL ELSE packs[FirstIndex(own)].name

(* pack_for: the origin is checked first. *)
PackFor(packs, origin, destination) ==
  LET o == Owner(packs, origin)
      d == Owner(packs, destination)
  IN CASE o = NULL           -> Refused("origin")
       [] o # NULL /\ d = NULL -> Refused("destination")
       [] o # NULL /\ d # NULL -> IF o = d THEN Owned(o) ELSE Refused("different")

(* _check_bbox *)
WellFormed(bbox) == bbox.west <= bbox.east /\ bbox.south <= bbox.north

(* _intersects: sharing an edge or a corner counts. *)
Intersects(a, b) ==
  a.west <= b.east /\ b.west <= a.east /\ a.south <= b.north /\ b.south <= a.north

(* validate_coverage *)
ValidCoverage(packs) ==
  /\ \A i, j \in DOMAIN packs : i # j => packs[i].name # packs[j].name
  /\ Len(packs) > 1 => \A i \in DOMAIN packs : packs[i].bbox # NULL
  /\ \A i \in DOMAIN packs : packs[i].bbox # NULL => WellFormed(packs[i].bbox)
  /\ \A i, j \in DOMAIN packs :
       i < j => ~Intersects(packs[i].bbox, packs[j].bbox)

(* served_regions: SR_REGIONS, then [api] regions, then [region] active.  An *)
(* empty SR_REGIONS counts as unset, an empty [api] regions is an error:     *)
(* PackConfigError, here <<>>.                                               *)
ServedRegions(config) ==
  CASE config.srRegions # <<>> -> config.srRegions
    [] config.srRegions = <<>> /\ config.apiRegions # NULL -> config.apiRegions
    [] config.srRegions = <<>> /\ config.apiRegions = NULL -> <<config.active>>

-----------------------------------------------------------------------------
(* coverage.ts, over the packs of a /meta answer. *)

InteriorContains(bbox, p) ==                   \* defect: open on every side
  bbox # NULL =>
    /\ bbox.south < p.lat /\ p.lat < bbox.north
    /\ bbox.west  < p.lon /\ p.lon < bbox.east

ClientContains(bbox, p) ==
  bbox # NULL =>
    /\ p.lat >= bbox.south /\ p.lat <= bbox.north
    /\ p.lon >= bbox.west  /\ p.lon <= bbox.east

PacksAt(packs, p) == {i \in DOMAIN packs : ClientContains(packs[i].bbox, p)}

PackForPoint(packs, p) ==
  IF PacksAt(packs, p) = {} THEN NULL ELSE packs[FirstIndex(PacksAt(packs, p))].name

InsideCoverage(packs, p) == PackForPoint(packs, p) # NULL

(* preflight: why /route would refuse the pair, or NULL. *)
Preflight(packs, origin, destination) ==
  LET o == PackForPoint(packs, origin)
      d == PackForPoint(packs, destination)
  IN IF packs = <<>> THEN NULL
     ELSE IF o = NULL THEN "origin"
     ELSE IF d = NULL THEN "destination"
     ELSE IF o # d THEN "different" ELSE NULL
=============================================================================
