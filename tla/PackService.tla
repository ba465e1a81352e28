----------------------------- MODULE PackService -----------------------------
(***************************************************************************)
(* A deployment of the route service, from the start of its container to   *)
(* its answers: api/packs_fetch.py, what api/main.py's lifespan and        *)
(* AppState.load do with it, and the pack selection of api/routes.py.      *)
(*                                                                         *)
(* The process may be killed between any two steps; what it has unpacked   *)
(* so far is in a staging directory of its own (mkdtemp), which no other   *)
(* boot looks into, so only a rename changes the pack directory.           *)
(*                                                                         *)
(* A pack is [region, build, format, bbox].  Its archive and the digest of *)
(* its archive are taken to be the pack: SHA-256 is injective here.        *)
(***************************************************************************)
EXTENDS PackRegistry

CONSTANTS
  Regions,       \* directory names under `pack_dir'
  Packs,         \* every pack ever built
  Garbled,       \* an archive that is not one
  Half,          \* a directory without a manifest
  Configs,       \* deployments: configuration, environment and packs.lock
  PackFormat,    \* PACK_FORMAT_VERSION
  AtFirst        \* <<config, disk>>: what the first boot may be given

(* Config: [srRegions, apiRegions, active], zones: preset -> has a timezone, *)
(* pinned: the pack SR_PACK_DIR names, or NULL; lock: packs.lock, or NULL.   *)
(* Lock: [baseUrl, format] and sha: region -> the pack it pins.              *)

Known == Configs \cup {f[1] : f \in AtFirst}

ASSUME ConfigsNameRegions ==
  \A c \in Known : /\ c.srRegions \in Seq(Regions)
                   /\ c.apiRegions # NULL => c.apiRegions \in Seq(Regions)
                   /\ c.active \in Regions

ASSUME DisksHoldPacks ==
  \A f \in AtFirst : f[2] \in [Regions -> Packs \cup {NULL, Half}]

ASSUME BoxesAreNumbers ==
  \A p \in Packs : p.bbox # NULL =>
    {p.bbox.west, p.bbox.south, p.bbox.east, p.bbox.north} \subseteq Int

VARIABLES
  config,    \* the deployment in force
  disk,      \* region -> its pack, Half, or NULL
  boot,      \* the process: [pc], todo: positions of the regions to fetch,
             \* archive: downloaded
  registry,  \* app.state.app_state: the served packs, or NULL before it exists
  deployed   \* history: the configs in force so far

serviceVars == <<config, disk, boot, registry, deployed>>

Down == [pc |-> "down", todo |-> {}, archive |-> NULL]
At(pc) == [Down EXCEPT !.pc = pc]

ServiceInit ==
  /\ \E first \in AtFirst : config = first[1] /\ disk = first[2]
  /\ boot = Down
  /\ registry = NULL
  /\ deployed = {config}

-----------------------------------------------------------------------------
(* ensure_packs *)

(* PacksLock.enabled *)
Enabled(lock) == lock.baseUrl /\ lock.sha # <<>>

Fetchable(c, r) ==
  c.lock # NULL /\ Enabled(c.lock) /\ c.lock.format = PackFormat /\ r \in DOMAIN c.lock.sha

IsUpToDate(r) ==                               \* defect: a stale pack is missing
  disk[r] \notin {NULL, Half} /\ (Fetchable(config, r) => disk[r] = config.lock.sha[r])
IsPresent(r) == disk[r] \notin {NULL, Half}

Region(i) == ServedRegions(config)[i]

Missing == {i \in DOMAIN ServedRegions(config) : ~IsPresent(Region(i))}

MissingFetchable == \A i \in Missing : Fetchable(config, Region(i))

(* The region being fetched. *)
Current == Region(FirstIndex(boot.todo))

Boots(next) ==
  /\ boot' = next
  /\ UNCHANGED <<config, disk, registry, deployed>>

(* lifespan: a pinned pack is neither looked for nor fetched. *)
Start ==
  /\ boot.pc = "down"
  /\ Boots(CASE config.pinned # NULL -> At("load")
             [] config.pinned = NULL /\ ServedRegions(config) = <<>> -> At("failed")
             [] config.pinned = NULL /\ ServedRegions(config) # <<>> ->
                  IF Missing = {} THEN At("load")
                  ELSE IF MissingFetchable
                  THEN [At("fetch") EXCEPT !.todo = Missing]
                  ELSE At("failed"))

(* _download: whatever the bucket has at the region's URL. *)
Downloaded(archive) ==
  /\ boot.pc = "fetch"
  /\ Boots([boot EXCEPT !.pc = "verify", !.archive = archive])

DownloadFails == boot.pc = "fetch" /\ Boots(At("failed"))

AnyArchive(r) == TRUE                          \* defect: the digest not compared
Verified(r) == boot.archive = config.lock.sha[r]

(* The archive holds the region's directory, with its manifest. *)
HasPayload(r) == boot.archive # Garbled /\ boot.archive.region = r

(* _fetch_one, as far as the rename: the digest, then the layout. *)
Verify ==
  /\ boot.pc = "verify"
  /\ Boots(IF Verified(Current) /\ HasPayload(Current)
           THEN [boot EXCEPT !.pc = "install"] ELSE At("failed"))

UnpackFails == boot.pc = "verify" /\ Boots(At("failed"))

(* os.replace: an OSError when the directory is there and not empty. *)
Install ==
  LET rest == boot.todo \ {FirstIndex(boot.todo)}
  IN
  /\ boot.pc = "install"
  /\ \/ /\ disk[Current] = NULL
        /\ disk' = [disk EXCEPT ![Current] = boot.archive]
        /\ boot' = IF rest = {} THEN At("load") ELSE [At("fetch") EXCEPT !.todo = rest]
     \/ /\ disk[Current] # NULL
        /\ boot' = At("failed")
        /\ UNCHANGED disk
  /\ UNCHANGED <<config, registry, deployed>>

-----------------------------------------------------------------------------
(* AppState.load *)

(* pack_timezone: a preset needs a zone; only a pinned pack may be no preset. *)
HasZone(c, r) == r \in DOMAIN c.zones /\ c.zones[r]
PinnedHasZone(c) == c.pinned.region \in DOMAIN c.zones => c.zones[c.pinned.region]

(* GraphPack.load, validate_pack_name *)
Loads(c, d, r) ==
  d[r] \notin {NULL, Half} /\ d[r].format = PackFormat /\ d[r].region = r /\ HasZone(c, r)

Entry(name, pack) == [name |-> name, bbox |-> pack.bbox, pack |-> pack]

(* load_pinned_pack, load_served_packs, PackRegistry: NULL is an error. *)
Served(c, d) ==
  LET names == ServedRegions(c)
      packs == IF c.pinned # NULL THEN <<Entry(c.pinned.region, c.pinned)>>
               ELSE [i \in DOMAIN names |-> Entry(names[i], d[names[i]])]
      loaded == IF c.pinned # NULL
                THEN c.pinned.format = PackFormat /\ PinnedHasZone(c)
                ELSE names # <<>> /\ \A i \in DOMAIN names : Loads(c, d, names[i])
  IN IF loaded /\ ValidCoverage(packs) THEN packs ELSE NULL

Load ==
  /\ boot.pc = "load"
  /\ registry' = Served(config, disk)
  /\ boot' = At(IF registry' = NULL THEN "failed" ELSE "up")
  /\ UNCHANGED <<config, disk, deployed>>

(* A process that could not boot has ended, and the platform starts another. *)
Restart == boot.pc = "failed" /\ Boots(Down)

Kill ==
  /\ boot.pc # "down"
  /\ boot' = Down /\ registry' = NULL
  /\ UNCHANGED <<config, disk, deployed>>

(* Another image or environment, on the same disk or on a fresh one.  Only   *)
(* the tests and a developer pin a pack.                                     *)
Redeploy(c) ==
  /\ config.pinned = NULL /\ c.pinned = NULL
  /\ c # config /\ config' = c
  /\ boot' = Down /\ registry' = NULL
  /\ disk' \in {disk, [r \in Regions |-> NULL]}
  /\ deployed' = deployed \cup {c}

-----------------------------------------------------------------------------
(* The handlers. *)

(* /health: 503 until app_state exists. *)
Healthy == registry # NULL

(* /meta *)
MetaOf(reg) == [i \in DOMAIN reg |-> [name |-> reg[i].name, bbox |-> reg[i].bbox]]

(* /route, /reroute: _select_pack; the planner itself is RoutePlanner. *)
RouteReply(origin, destination) ==
  LET picked == PackFor(MetaOf(registry), origin, destination)
  IN IF picked.refusal = NULL THEN [kind |-> "routes", why |-> NULL]
     ELSE [kind |-> "refused", why |-> picked.refusal]

BootStep ==
  \/ Start \/ DownloadFails \/ Verify \/ UnpackFails \/ Install \/ Load \/ Restart
  \/ \E a \in Packs \cup {Garbled} : Downloaded(a)

(* The platform keeps starting the service, and a boot goes on.  Downloads   *)
(* fail, or bring something else, but not for ever, and so do archives.      *)
GoodDownload == boot.pc = "fetch" /\ Downloaded(config.lock.sha[Current])
GoodVerify   == boot.pc = "verify" /\ Verified(Current) /\ Verify
-----------------------------------------------------------------------------
(* packs_fetch.py's header: a boot killed at any step, a bucket that has     *)
(* other bytes, a deployment on the disk of another: a pack that answers is  *)
(* one that the lock of a deployment pinned for that region, or that was     *)
(* there already, and no point belongs to two of them.                       *)
PinnedFor(r) ==
  {f[2][r] : f \in AtFirst}
    \cup {c.lock.sha[r] : c \in {c \in deployed : c.lock # NULL /\ r \in DOMAIN c.lock.sha}}

OnlyPinnedPacksServed(points) ==
  (registry # NULL /\ config.pinned = NULL) =>
    /\ \A i \in DOMAIN registry :
         registry[i].pack \in Packs \cap PinnedFor(registry[i].name)
    /\ \A p \in points :
         Cardinality({i \in DOMAIN registry : BboxContains(registry[i].bbox, p)}) <= 1

(* What a boot left alone would serve. *)
AfterFetch ==
  [r \in Regions |-> IF disk[r] = NULL /\ Fetchable(config, r)
                     THEN config.lock.sha[r] ELSE disk[r]]
Bootable == Served(config, AfterFetch) # NULL
=============================================================================
