--------------------------- MODULE MCRoutePlanner ---------------------------
(* Two blocks of a small town: Elm Street 1-2-3 in the north, one way from  *)
(* 1 to 2, the arterial Main Street 4-5-6 through its middle, Oak Street    *)
(* 2-5-7 across it, a dead end at 7.  21 to 24 are the points just before   *)
(* junction 5 on its north, west, east and south arm, where signs stand.    *)
EXTENDS RoutePlanner

(* A street is the nodes of its way in order. *)
Streets ==
  <<<<1, 2>>, <<2, 3>>, <<1, 4>>, <<3, 6>>, <<4, 22, 5>>, <<5, 23, 6>>, <<2, 21, 5>>, <<5, 24, 7>>>>
Main == {5, 6}

Steps(street) == {<<street[i], street[i + 1]>> : i \in 1..(Len(street) - 1)}
InOrder  == UNION {Steps(Streets[w]) : w \in DOMAIN Streets}
Segments == {{s[1], s[2]} : s \in InOrder}

Near == {21, 22, 23, 24}
Plain == [highway |-> "none", all |-> FALSE, crossing |-> FALSE, dir |-> "none",
          override |-> NULL]
Sign(kind) == [Plain EXCEPT !.highway = kind]

(* The streets as they may be driven, given between which ends they may not. *)
Driven(closed) ==
  {r \in UNION {{<<w, Streets[w]>>, <<w, Reverse(Streets[w])>>} : w \in DOMAIN Streets} :
    <<r[2][1], Last(r[2])>> \notin closed}

(* Main Street is signed for its speed and lanes, the others are not. *)
Link(w, street, rings, closed) ==
  [tail |-> street[1], head |-> Last(street), way |-> w,
   classes |-> {IF w \in Main THEN 2 ELSE 6}, oneway |-> <<Last(street), street[1]>> \in closed,
   lanes |-> IF w \in Main THEN {4} ELSE {}, maxspeed |-> IF w \in Main THEN {20} ELSE {},
   ring |-> w \in rings]

Town(tags, rings, oneWays) ==
  LET nodes  == 1..7 \cup Near
      closed == oneWays \cup {<<2, 1>>}
      edges  == UNION {Steps(r[2]) : r \in Driven(closed)}
      name(s) == CASE s \subseteq {4, 22, 5, 23, 6} -> "main"
                   [] s \subseteq {2, 21, 5, 24, 7} -> "oak"
                   [] OTHER -> NULL
  IN [tag |-> [n \in nodes |-> IF n \in DOMAIN tags THEN tags[n] ELSE Plain],
      adj |-> [n \in nodes |-> {m \in nodes : {n, m} \in Segments}],
      junctions |-> 1..7,
      len |-> [s \in Segments |-> IF s \cap Near = {} THEN 200
                                  ELSE IF 5 \in s THEN 10 ELSE 190],
      name |-> [s \in Segments |-> name(s)],
      follows |-> [e \in edges |-> e \in InOrder \/ <<e[2], e[1]>> \notin edges],
      at |-> <<<<0, 400>>, <<200, 400>>, <<400, 400>>, <<0, 200>>, <<200, 200>>,
               <<400, 200>>, <<200, 0>>>>,
      links |-> {Link(r[1], r[2], rings, closed) : r \in Driven(closed)}]

Tagged1(tags) == Town(tags, {}, {})

MCNetworks ==
  [bare      |-> Tagged1(<<>>),
   oneStop   |-> Tagged1(24 :> [Sign("stop") EXCEPT !.dir = "backward"]),
   stopAway  |-> Tagged1(24 :> [Sign("stop") EXCEPT !.dir = "forward"]),
   allStop   |-> Tagged1([n \in Near |-> Sign("stop")]),
   stopAll   |-> Tagged1(5 :> [Sign("stop") EXCEPT !.all = TRUE]),
   signal    |-> Tagged1(22 :> Sign("signal")),
   crossing  |-> Tagged1(22 :> [Sign("signal") EXCEPT !.crossing = TRUE]),
   giveWay   |-> Tagged1(21 :> Sign("give_way")),
   open      |-> Tagged1(5 :> [Plain EXCEPT !.override = "NONE"]),
   arrow     |-> Tagged1(5 :> [Plain EXCEPT !.override = "SIGNAL_PROTECTED"]),
   mini      |-> Tagged1(5 :> Sign("mini_roundabout")),
   ring      |-> Town(<<>>, {8}, {}),
   noEntry   |-> Town(24 :> Sign("stop"), {}, {<<5, 7>>}),
   leaving   |-> Town(21 :> [Sign("stop") EXCEPT !.dir = "forward"], {}, {<<2, 5>>})]

(* The number of the edge from a to b. *)
Edge(edges, a, b) == CHOOSE e \in DOMAIN edges : edges[e].tail = a /\ edges[e].head = b

MCCfg ==
  [stop4way |-> 25, yield |-> 60, yieldRow |-> 35, signalLeft |-> 35, rightOfWay |-> 20,
   inferred |-> 50, wMan |-> 100, wSpeed |-> 50, wLanes |-> 30, wVol |-> 60, wMed |-> 40,
   severity |-> [STRAIGHT |-> 60, LEFT |-> 100, RIGHT |-> 15, UTURN |-> 120],
   speedCap |-> 28, lanesCap |-> 6, volumeCap |-> 800, k |-> 45, uturn |-> 30,
   aSpeed |-> 40, aLanes |-> 30, aVol |-> 30, busyFloor |-> [r \in 0..8 |-> IF r <= 2 THEN 50 ELSE 0],
   busyThreshold |-> 45, majorLanes |-> 4, majorRank |-> 3, tauUnsafe |-> 80, tauCaution |-> 50,
   allWayStop |-> 6, signalMajor |-> 8, signalMinor |-> 22, tcCrossing |-> 65, tcLeft |-> 71,
   tcLeftWide |-> 75, tcRight |-> 62, tcPriorityLeft |-> 41, wideLanes |-> 8, delayCap |-> 120,
   lambda |-> [fast |-> 0, balanced |-> 50, safe |-> 150], jaccard |-> 80, inflate |-> 13,
   maxReruns |-> 2, surcharge |-> 1000000, astar |-> TRUE,
   groups |-> [arterial |-> {2}], baseVolume |-> [r \in 0..8 |-> IF r = 2 THEN 400 ELSE 40],
   profiles |->
     [arterial |-> [speed |-> [h \in 0..23 |-> IF h \in 7..8 THEN 50 ELSE 100],
                    volume |-> [h \in 0..23 |-> IF h \in 7..8 THEN 100 ELSE 10]],
      local |-> [speed |-> [h \in 0..23 |-> 100],
                 volume |-> [h \in 0..23 |-> IF h \in 7..8 THEN 100 ELSE 10]]]]

(* Eight in the morning, and half past midnight. *)
Peak  == 480
Night == 30
MCSpeed == [r \in 0..8 |-> 10]
MCLanes == [r \in 0..8 |-> 2]

MCPlans ==
  UNION {LET edges == EdgesOf(MCNetworks[n]) IN
    { [net |-> n, departure |-> d, origin |-> <<Edge(edges, o[1], o[2]), o[3]>>,
       dest |-> <<Edge(edges, t[1], t[2]), t[3]>>, safety |-> s[1], budget |-> s[2]] :
        d \in {Peak, Night},
        o \in {<<7, 5, 50>>, <<4, 1, 50>>, <<1, 2, 50>>},
        t \in {<<4, 5, 50>>, <<2, 3, 50>>, <<1, 2, 20>>, <<7, 5, 80>>},
        s \in {<<TRUE, 0>>, <<TRUE, 25>>, <<TRUE, 100>>, <<FALSE, 25>>} } :
    n \in DOMAIN MCNetworks}

MCReroutes ==
  UNION {LET edges == EdgesOf(MCNetworks[n]) IN
    { [net |-> n, departure |-> Peak, origin |-> <<Edge(edges, 7, 5), 50>>,
       dest |-> <<Edge(edges, t[1], t[2]), 20>>, level |-> l, lambda |-> MCCfg.lambda[l],
       budget |-> b] :
        t \in {<<4, 5>>, <<2, 3>>, <<7, 5>>}, l \in {"fast", "safe"}, b \in {0, 100} } :
    n \in DOMAIN MCNetworks}
=============================================================================
