----------------------------- MODULE ImportedData -----------------------------
(***************************************************************************)
(* The import from the OSM elements to the sorted nodes, ways and areas    *)
(* and the route graphs, and what must be true of the files.  Steps 1 to   *)
(* 15 are those of the driver; 16 is its step for the routing data, which  *)
(* comes after those for the indexes.                                      *)
(*                                                                         *)
(* An input has the elements of the OSM files and the parameters: the      *)
(* number of ways in a block (rawWayBlockSize), whether areas have to be   *)
(* simple (strictAreas), whether and in blocks of how many objects to sort *)
(* (sortObjects, sortBlockSize), the number of sort cells in a row         *)
(* (tiles), and the number of route nodes in a block (routeNodeBlockSize). *)
(***************************************************************************)
EXTENDS Import, RouteData

LOCAL INSTANCE TLC
LOCAL INSTANCE FiniteSetsExt
LOCAL INSTANCE SequencesExt

Raw == {"rawnodes.dat", "rawways.dat", "rawcoastline.dat", "rawturnrestr.dat", "rawrels.dat",
        "coord.dat", "distribution.dat", "bounding.dat"}

\* What the steps write, by the number of the step.
StepWrites ==
  <<{"types.dat"}, Raw, {"rawnode.idx"}, {"rawway.idx"}, {"rawrel.idx"},
    {"relarea.tmp", "wayareablack.dat"}, {"wayarea.tmp"}, {"areas.tmp"}, {},
    {"wayway.tmp", "turnrestr.dat"}, {"areas2.tmp", "ways.tmp"}, {"nodes.tmp"},
    {"nodes.dat", "nodes.idmap", "nodeaddress.dat"},
    {"areas.dat", "areas.idmap", "areaaddress.dat"},
    {"ways.dat", "ways.idmap", "wayaddress.dat"},
    {"intersections.dat", "routefoot.dat", "routebicycle.dat", "routecar.dat"}>>

StepReads ==
  <<{}, {}, {"rawnodes.dat"}, {"rawways.dat"}, {"rawrels.dat"},
    {"rawrels.dat", "rawrel.idx", "rawways.dat", "rawway.idx", "coord.dat"},
    {"distribution.dat", "rawways.dat", "wayareablack.dat", "coord.dat"},
    {"wayarea.tmp", "relarea.tmp"}, {},
    {"distribution.dat", "rawturnrestr.dat", "rawways.dat", "coord.dat"},
    {"areas.tmp", "wayway.tmp"}, {"rawnodes.dat"}, {"nodes.tmp"}, {"areas2.tmp"}, {"ways.tmp"},
    {"turnrestr.dat", "ways.idmap", "coord.dat", "ways.dat", "areas.dat"}>>

\* A numeric index: where each id is.
Index(objects) == [id \in Ids(objects) |-> Min({i \in DOMAIN objects : objects[i].id = id})]

\* What can be found by an index.
Indexed(objects, index) ==
  LET found == SelectSeq([i \in DOMAIN objects |-> i],
                         LAMBDA i : objects[i].id \in DOMAIN index /\ index[objects[i].id] = i)
  IN  [n \in DOMAIN found |-> objects[found[n]]]

\* The files of a sorting step.
SortedFiles(objects, name, params) ==
  LET sorted == Sort(objects, params)
  IN  (name \o "s.dat") :> [objects |-> sorted.dat, count |-> sorted.count]
      @@ (name \o "s.idmap") :> sorted.idmap
      @@ (name \o "address.dat") :> sorted.address

\* The steps.
RunStep(in, k, fs) ==
  LET raw == [rawrels |-> Indexed(fs["rawrels.dat"], fs["rawrel.idx"]),
              rawways |-> Indexed(fs["rawways.dat"], fs["rawway.idx"]),
              coord |-> fs["coord.dat"]]
      plain == [rawways |-> fs["rawways.dat"], coord |-> fs["coord.dat"],
                distribution |-> fs["distribution.dat"]]
      block == in.params.rawWayBlockSize
      made ==
        CASE k = 1 -> "types.dat" :> Types
          [] k = 2 -> LET p == Preprocess(in.elements)
                      IN  "rawnodes.dat" :> p.rawnodes @@ "rawways.dat" :> p.rawways
                          @@ "rawcoastline.dat" :> p.rawcoastline
                          @@ "rawturnrestr.dat" :> p.rawturnrestr @@ "rawrels.dat" :> p.rawrels
                          @@ "coord.dat" :> p.coord @@ "distribution.dat" :> p.distribution
                          @@ "bounding.dat" :> p.bounding
          [] k = 3 -> "rawnode.idx" :> Index(fs["rawnodes.dat"])
          [] k = 4 -> "rawway.idx" :> Index(fs["rawways.dat"])
          [] k = 5 -> "rawrel.idx" :> Index(fs["rawrels.dat"])
          [] k = 6 -> LET r == RelationAreas(raw, in.params.strictAreas)
                      IN  "relarea.tmp" :> r.relarea @@ "wayareablack.dat" :> r.wayareablack
          [] k = 7 -> "wayarea.tmp" :> WayAreas(plain, fs["wayareablack.dat"], block)
          [] k = 8 -> "areas.tmp" :> MergeAreaData(fs["wayarea.tmp"], fs["relarea.tmp"])
          [] k = 9 -> <<>>
          [] k = 10 -> LET w == WayWays([rawturnrestr |-> fs["rawturnrestr.dat"]] @@ plain, block)
                       IN  "wayway.tmp" :> w.wayway @@ "turnrestr.dat" :> w.turnrestr
          [] k = 11 -> LET o == OptimizeIds(fs["areas.tmp"], fs["wayway.tmp"])
                       IN  "areas2.tmp" :> o.areas2 @@ "ways.tmp" :> o.ways
          [] k = 12 -> "nodes.tmp" :> NodeData(fs["rawnodes.dat"])
          [] k = 13 -> SortedFiles(fs["nodes.tmp"], "node", in.params)
          [] k = 14 -> SortedFiles(fs["areas2.tmp"], "area", in.params)
          [] k = 15 -> SortedFiles(fs["ways.tmp"], "way", in.params)
          [] k = 16 -> RoutingData(fs, in.params.routeNodeBlockSize)
      ok ==
        /\ k = 2 => Sorted(in.elements)
        /\ k = 7 /\ in.params.strictAreas =>
             ~SomeAreaNotSimple(plain, fs["wayareablack.dat"], block)
  IN  [ok |-> ok, files |-> made]

------------------------------------------------------------------------------
(* What the OSM elements say                                               *)

Finished == reached = Len(StepWrites) /\ current = 0

Elements(kind) == Range(OfKind(input.elements, kind))
NodeIds        == {n.id : n \in Elements("node")}
PointOf(id)    == (CHOOSE n \in Elements("node") : n.id = id).point
PointsOfWay(w) == [n \in DOMAIN w.nodes |-> PointOf(w.nodes[n])]
WayOf(id)      == CHOOSE w \in Elements("way") : w.id = id

\* The ways the map should show as lines, and as areas.
Known(w)  == Range(w.nodes) \subseteq NodeIds /\ Len(w.nodes) >= 2
Lines     == {w \in Elements("way") : Known(w) /\ ~IsArea(w) /\ KnownType(w.wayType) # "ignore"}
OwnAreas  == {w \in Elements("way") : /\ Known(w) /\ IsArea(w) /\ Len(RawWay(w).nodes) >= 3
                                      /\ KnownType(w.areaType) # "ignore"}

\* The points of the grid on a line, and how far it goes from point to point.
Trace(points) ==
  Range(points) \union
  UNION {{p \in (0..(MapSize - 1)) \X (0..(MapSize - 1)) : OnSegment(p, points[i], points[i + 1])} :
           i \in 1..(Len(points) - 1)}

Length(points) ==
  FoldFunction(+, 0, [i \in 1..(Len(points) - 1) |->
    LET d == [c \in {1, 2} |-> points[i + 1][c] - points[i][c]]
    IN  (IF d[1] < 0 THEN 0 - d[1] ELSE d[1]) + (IF d[2] < 0 THEN 0 - d[2] ELSE d[2])])

StoredWays  == files["ways.dat"].objects
StoredAreas == files["areas.dat"].objects

\* The stored way that stands for w.
Carries(way, w) ==
  /\ way.type = w.wayType
  /\ way.features = w.features
  /\ Trace(PointsOfWay(w)) \subseteq Trace(way.nodes)

------------------------------------------------------------------------------

\* Each record for the location index is at the offset of the object it was made
\* from, and each named object of a type to be found has one.
Addressed ==
  LET Names(o) == IF "rings" \in DOMAIN o
                  THEN {<<o.rings[r].type, o.rings[r].features.name>> : r \in DOMAIN o.rings}
                  ELSE {<<o.type, o.features.name>>}
      Wanted(o) == {n \in Names(o) : n[2] # "" /\ TypeInfo[n[1]].indexAsPOI}
  IN  \A name \in {"node", "way", "area"} :
        LET objects == files[name \o "s.dat"].objects
            records == Range(files[name \o "address.dat"])
        IN  /\ \A a \in records : /\ a.offset \in DOMAIN objects
                                   /\ <<a.type, a.name>> \in Names(objects[a.offset])
            /\ \A i \in DOMAIN objects : \A n \in Wanted(objects[i]) :
                 \E a \in records : a.offset = i /\ <<a.type, a.name>> = n

(* Each file has as many objects as it says, every object is in it once    *)
(* and has one entry in the id map, at its offset; every node with a type  *)
(* is there, and every area of a way is there either by itself or as a     *)
(* ring of a relation's area, however many passes the blocks of ways and   *)
(* of objects to sort made necessary.  So is every record for the location *)
(* index.                                                                  *)
EveryObjectOnce ==
  Finished =>
    /\ \A name \in {"node", "way", "area"} :
         LET objects == files[name \o "s.dat"].objects
             idmap   == files[name \o "s.idmap"]
         IN  /\ files[name \o "s.dat"].count = Len(objects)
             /\ Len(idmap) = Len(objects)
             /\ \A i \in DOMAIN objects :
                  /\ idmap[i] = [kind |-> objects[i].kind, id |-> objects[i].id, offset |-> i]
                  /\ \A k \in DOMAIN objects :
                       i # k => <<idmap[i].kind, idmap[i].id>> # <<idmap[k].kind, idmap[k].id>>
    /\ Ids(files["nodes.dat"].objects) =
         {n.id : n \in {n \in Elements("node") : KnownType(n.type) # "ignore"}}
    /\ \A w \in OwnAreas :
         LET own == {a \in Range(StoredAreas) : a.kind = "way" /\ a.id = w.id}
             in  == {r \in Elements("relation") :
                       /\ \E a \in Range(StoredAreas) : a.kind = "relation" /\ a.id = r.id
                       /\ \E m \in Range(r.members) : m.type = "way" /\ m.id = w.id}
         IN  own = {} <=> in # {}
    /\ Addressed

(* Every line of the map is in one stored way of its type and features,    *)
(* and none is stored twice: joining ways end to end, leaving out points   *)
(* on a straight line and reading ways type by type change nothing else.   *)
WaysKeepTheirForm ==
  Finished =>
    /\ \A w \in Lines : \E way \in Range(StoredWays) : Carries(way, w)
    /\ \A type \in TypeNames \ {"ignore"} :
         FoldFunction(+, 0, [i \in DOMAIN StoredWays |->
           IF StoredWays[i].type = type THEN Length(StoredWays[i].nodes) ELSE 0])
         = FoldSet(LAMBDA w, sum : sum + Length(PointsOfWay(w)), 0,
                   {w \in Lines : w.wayType = type})

\* The stored lines and rings one can travel on that have an OSM node in them.
UsersOf(n) ==
  {way \in Range(StoredWays) : /\ CanTravel(way)
                               /\ \E w \in Lines : n \in Range(w.nodes) /\ Carries(way, w)}
  \union
  {ring \in UNION {Range(a.rings) : a \in Range(StoredAreas)} :
     /\ CanRoute(ring.type)
     /\ \E w \in OwnAreas : /\ n \in Range(w.nodes) /\ w.areaType = ring.type
                            /\ Range(ring.nodes) \subseteq Range(PointsOfWay(w))}

\* The steps from node to node a vehicle can take on the map, with their
\* lengths.  Around an area that touches only two junctions there is only the
\* way in the order of its nodes: the other one leads to the same junction.
StepsOn(vehicle, junctions) ==
  LET May(w, d)    == <<vehicle, d>> \in Access(RawWay(w))
      Step(a, b)   == <<a, b, GridDistance(PointOf(a), PointOf(b))>>
      Forth(nodes) == {Step(nodes[k], nodes[k + 1]) : k \in 1..(Len(nodes) - 1)}
      Back(nodes)  == {Step(nodes[k + 1], nodes[k]) : k \in 1..(Len(nodes) - 1)}
      Round(w)     == RawWay(w).nodes \o <<w.nodes[1]>>
  IN  UNION {Forth(w.nodes) : w \in {w \in Lines : May(w, "forward")}}
      \union
      UNION {Back(w.nodes) : w \in {w \in Lines : May(w, "backward")}}
      \union
      UNION {Forth(Round(w)) \union (IF Cardinality(Range(w.nodes) \intersect junctions) = 2
                                    THEN {} ELSE Back(Round(w))) :
               w \in {w \in OwnAreas : May(w, "forward") /\ May(w, "backward")}}

\* The steps by the usable paths of a route graph.
StepsIn(file) ==
  UNION {{<<k, path.offset, path.distance>> :
            path \in {p \in Range(file[k].paths) : p.usable}} : k \in DOMAIN file}

\* How far it is from place to place by at most sixteen such steps.  A function
\* that is compared with another is evaluated once and for all.
FarAway == 1000

Evaluated(f) == CHOOSE e \in {f} : e = f

Distances(places, steps) ==
  LET Direct(p) == IF p[1] = p[2] THEN 0
                   ELSE Min({FarAway} \union {s[3] : s \in {s \in steps : <<s[1], s[2]>> = p}})
      direct == Evaluated([p \in places \X places |-> Direct(p)])
      Doubled(d) == Evaluated([p \in places \X places |->
                                 Min({d[<<p[1], x>>] + d[<<x, p[2]>>] : x \in places})])
      two   == Doubled(direct)
      four  == Doubled(two)
      eight == Doubled(four)
  IN  Doubled(eight)

(* In the graph of each vehicle, every junction of the map it may use has  *)
(* one route node; every path leads to a route node; and from any junction *)
(* to any other it is as far by the paths a vehicle may use as it is along *)
(* the lines and areas of the map.  This relates the elements that were    *)
(* imported to the offsets in the last file: no crossing is lost when ids  *)
(* are optimised and lines reduced, no path left without the node it leads *)
(* to when that was written in a later block.                              *)
GraphFollowsMap ==
  Finished =>
    \A users \in {[n \in NodeIds |-> UsersOf(n)]} :
    LET junctions == {n \in NodeIds : Cardinality(users[n]) >= 2}
    IN  \A vehicle \in Vehicles :
          LET file  == files["route" \o vehicle \o ".dat"]
              known == {n \in junctions : \E line \in users[n] :
                           "kind" \notin DOMAIN line \/ CanTravelBy(line, vehicle)}
              Node(n) == {k \in DOMAIN file : file[k].coord = PointOf(n)}
          IN  /\ Len(file) = Cardinality(known)
              /\ \A n \in known : Node(n) # {}
              /\ \A k \in DOMAIN file : \A path \in Range(file[k].paths) :
                   path.offset \in DOMAIN file
              /\ \A onMap \in {Distances(NodeIds, StepsOn(vehicle, junctions))},
                    inGraph \in {Distances(DOMAIN file, StepsIn(file))} :
                   \A n, m \in known : \A k \in Node(n), l \in Node(m) :
                       inGraph[<<k, l>>] = onMap[<<n, m>>]

(* A turn restriction names the stored ways its roads have become part of, *)
(* by whatever joining of ways; and in the graphs exactly the turns that   *)
(* the map forbids are excluded, from the one to the other way at the node *)
(* of the restriction, unless nobody may use the one way, or there is no   *)
(* path along the other.                                                   *)
RestrictionsFollowWays ==
  Finished =>
    LET Named(id, osm) ==
          WayOf(osm) \in Lines =>
            \E way \in Range(StoredWays) : way.id = id /\ Carries(way, WayOf(osm))
        Offset(osm) == {n \in DOMAIN StoredWays :
                          /\ WayOf(osm) \in Lines /\ CanTravel(StoredWays[n])
                          /\ Carries(StoredWays[n], WayOf(osm))}
        Forbidden == UNION {{<<PointOf(r.via), o[1], o[2]>> :
                               o \in {o \in Offset(r.from) \X Offset(r.to) : o[1] # o[2]}} :
                              r \in {r \in Range(files["rawturnrestr.dat"]) :
                                       r.via \in Range(WayOf(r.from).nodes)
                                                   \intersect Range(WayOf(r.to).nodes)}}
        Excluded(node) == {<<node.coord, e.source.offset, node.paths[e.targetIndex].object.offset>> :
                             e \in node.excludes}
        HasPath(node, way) == \E p \in Range(node.paths) :
                                p.object = [kind |-> "way", offset |-> way]
    IN  /\ \A k \in DOMAIN files["rawturnrestr.dat"] :
             LET raw == files["rawturnrestr.dat"][k]
                 now == files["turnrestr.dat"][k]
             IN  now.via = raw.via /\ Named(now.from, raw.from) /\ Named(now.to, raw.to)
        /\ \A vehicle \in Vehicles : \A node \in Range(files["route" \o vehicle \o ".dat"]) :
             Excluded(node) = {t \in Forbidden : t[1] = node.coord /\ HasPath(node, t[3])}

(* The ways of a relation, with those of the relations it is composed of.  *)
RECURSIVE WaysWithin(_)
WaysWithin(ids) ==
  LET relations == {r \in Elements("relation") : r.id \in ids}
      members   == UNION {Range(r.members) : r \in relations}
      below     == {m.id : m \in {m \in members : m.type = "relation"}}
  IN  {m.id : m \in {m \in members : m.type = "way"}}
      \union IF below \subseteq ids THEN {} ELSE WaysWithin(below \union ids)

\* Even-odd: a line from p to the east crosses the ways an odd number of times.
WithinWays(p, ways) ==
  LET edges == UNION {{<<w, i>> : i \in 1..(Len(WayOf(w).nodes) - 1)} : w \in ways}
      crossed == {e \in edges : Crosses(p, PointOf(WayOf(e[1]).nodes[e[2]]),
                                           PointOf(WayOf(e[1]).nodes[e[2] + 1]))}
  IN  Cardinality(crossed) % 2 = 1

\* The innermost ring around p is an outer ring: rings of odd level are.
WithinRings(p, rings) ==
  LET around == {r \in DOMAIN rings : rings[r].nodes # <<>> /\ RelationOfPoint(p, rings[r].nodes) = 1}
  IN  around # {} /\ Max({rings[r].ring : r \in around}) % 2 = 1

(* The area of a relation covers what its ways enclose by the even-odd     *)
(* rule, holes and islands within holes: in whatever pieces, directions    *)
(* and order its rings are given, and however deep they are nested.        *)
AreasCoverTheSame ==
  Finished =>
    \A a \in {a \in Range(StoredAreas) : a.kind = "relation"} :
      LET ways == WaysWithin({a.id})
      IN  \A p \in {x \in 0..(MapSize - 1) : x % 2 = 1} \X {y \in 0..(MapSize - 1) : y % 2 = 1} :
            WithinRings(p, a.rings) <=> WithinWays(p, ways)

==============================================================================
