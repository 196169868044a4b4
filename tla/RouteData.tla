------------------------------- MODULE RouteData -------------------------------
(***************************************************************************)
(* The import's routing data (GenRouteDat.cpp): turn restrictions with the *)
(* offsets of ways and the ids of nodes in the stored files, which objects *)
(* meet at which node, and for every kind of vehicle the graph of these    *)
(* nodes, written block by block.  A path has the offset of the node it    *)
(* leads to; if that node is not written yet, the node of the path is read *)
(* again and written over when it is.                                      *)
(*                                                                         *)
(* The paths along ways and around areas are those of RouteGraph.  It is   *)
(* told of the other vehicles only whether one of them may use a way in    *)
(* both directions; that is all that matters as long as none may use it in *)
(* just the one direction that is closed to all others.  A path names its  *)
(* object, without the list of objects of the node between; speeds and     *)
(* grades are left out; distances are along the grid.                      *)
(***************************************************************************)
EXTENDS SortData

LOCAL INSTANCE TLC
LOCAL INSTANCE Integers
LOCAL INSTANCE FiniteSetsExt
LOCAL INSTANCE SequencesExt

Vehicles == {"foot", "bicycle", "car"}

------------------------------------------------------------------------------
(* Turn restrictions                                                       *)

\* ReadTurnRestrictionIds()
RestrictionIds(turnrestr) ==
  [ways  |-> UNION {{r.from, r.to} : r \in Range(turnrestr)},
   nodes |-> {r.via : r \in Range(turnrestr)}]

\* ResolveWayIds(): the offsets of those that are stored as ways; 0 for the others.
ResolveWayIds(ids, idmap) ==
  [id \in ids |->
     LET entries == {n \in DOMAIN idmap : idmap[n].kind = "way" /\ idmap[n].id = id}
     IN  IF entries = {} THEN 0 ELSE idmap[Max(entries)].offset]

\* ResolveNodeIds()
ResolveNodeIds(ids, coord) ==
  [id \in ids |-> IF HasCoord(coord, id) THEN SubstituteId(coord, id) ELSE 0]

\* Mutant: the node keeps its OSM id.
TurnRestrictionsByOSMId(turnrestr, idmap, coord) ==
  LET wayOffset == ResolveWayIds(RestrictionIds(turnrestr).ways, idmap)
      known(r)  == wayOffset[r.from] # 0 /\ wayOffset[r.to] # 0
  IN  Map(LAMBDA r : [from |-> wayOffset[r.from], via |-> r.via, to |-> wayOffset[r.to],
                      allow |-> r.type # "no_turn"],
          SelectSeq(turnrestr, known))

\* ReadTurnRestrictions(): what cannot be resolved is dropped.
TurnRestrictions(turnrestr, idmap, coord) ==
  LET ids       == RestrictionIds(turnrestr)
      wayOffset == ResolveWayIds(ids.ways, idmap)
      nodeId    == ResolveNodeIds(ids.nodes, coord)
      known(r)  == wayOffset[r.from] # 0 /\ nodeId[r.via] # 0 /\ wayOffset[r.to] # 0
  IN  Map(LAMBDA r : [from |-> wayOffset[r.from], via |-> nodeId[r.via], to |-> wayOffset[r.to],
                      allow |-> r.type # "no_turn"],
          SelectSeq(turnrestr, known))

------------------------------------------------------------------------------
(* Intersections.  A reference to an object has its kind and offset.       *)

Directions == {"forward", "backward"}

\* GetAccess(): the flags of the access feature, or those of the type.
Access(object) ==
  IF object.features.access # <<>> THEN First(object.features.access)
  ELSE TypeInfo[object.type].vehicles \X Directions

\* AccessFeatureValue::CanRoute(), for all vehicles and for one.
CanTravel(object) == Access(object) \intersect (Vehicles \X Directions) # {}
CanTravelBy(object, vehicle) == Access(object) \intersect ({vehicle} \X Directions) # {}

\* The ways that someone may use, and the areas of one ring whose type can be
\* travelled on; they are sorted by their offset.
RoutableRefs(ways, areas) ==
  LET Way(n)  == IF n <= Len(ways) /\ ~TypeInfo[ways[n].type].ignore /\ CanTravel(ways[n])
                 THEN <<[kind |-> "way", offset |-> n]>> ELSE <<>>
      Area(n) == IF /\ n <= Len(areas) /\ ~TypeInfo[areas[n].rings[1].type].ignore
                    /\ CanRoute(areas[n].rings[1].type) /\ Len(areas[n].rings) = 1
                 THEN <<[kind |-> "area", offset |-> n]>> ELSE <<>>
  IN  FlattenSeq([n \in 1..Max({Len(ways), Len(areas)}) |-> Way(n) \o Area(n)])

\* What a reference leads along: the way, or the ring of the area.
Along(ways, areas, ref) == IF ref.kind = "way" THEN ways[ref.offset] ELSE areas[ref.offset].rings[1]

\* NodeUseMap: ids that at least two objects use.
UsedTwice(lines) ==
  {id \in UNION {Range(l.ids) : l \in Range(lines)} \ {0} :
     Cardinality({k \in DOMAIN lines : id \in Range(lines[k].ids)}) >= 2}

Ascending(ids) ==
  IF ids = {} THEN <<>> ELSE SelectSeq([n \in 1..Max(ids) |-> n], LAMBDA n : n \in ids)

\* intersections.dat: by their ids, with the objects that meet there.
IntersectionsOf(ways, areas) ==
  LET refs  == RoutableRefs(ways, areas)
      lines == [k \in DOMAIN refs |-> Along(ways, areas, refs[k])]
      At(id) == SelectSeq(refs, LAMBDA r : id \in Range(Along(ways, areas, r).ids))
  IN  Map(LAMBDA id : [id |-> id, objects |-> At(id)], Ascending(UsedTwice(lines)))

------------------------------------------------------------------------------
(* Route graphs                                                            *)

GridDistance(a, b) ==
  LET Apart(x, y) == IF x < y THEN y - x ELSE x - y
  IN  Apart(a[1], b[1]) + Apart(a[2], b[2])

\* CopyFlags(), CopyFlagsForward(), CopyFlagsBackward(): a vehicle goes around an
\* area only if it may do so in both directions.  The points of a line that have
\* no id get a number of their own.
GraphLine(line, k, ref, vehicle) ==
  LET Both(v)  == {v} \X Directions \subseteq Access(line)
      May(d)   == IF ref.kind = "area" THEN Both(vehicle) ELSE <<vehicle, d>> \in Access(line)
  IN  [points |-> [n \in DOMAIN line.nodes |->
                     IF n <= Len(line.ids) /\ line.ids[n] # 0 THEN line.ids[n] ELSE 1000 * k + n],
       forward   |-> May("forward"),
       backward  |-> May("backward"),
       others    |-> \E v \in Vehicles : Both(v),
       hasAccess |-> ~line.features.restricted,
       area      |-> ref.kind = "area"]

\* LoadWays(), LoadAreas() and what RouteGraph makes of them: for each route
\* node its paths and excluded turns.
GraphOf(ways, areas, restrictions, vehicle) ==
  LET refs   == RoutableRefs(ways, areas)
      lines  == [k \in DOMAIN refs |->
                   GraphLine(Along(ways, areas, refs[k]), k, refs[k], vehicle)]
      place  == [p \in UNION {{<<k, n>> : n \in DOMAIN lines[k].points} : k \in DOMAIN lines} |->
                   Along(ways, areas, refs[p[1]]).nodes[p[2]]]
      at     == {<<lines[p[1]].points[p[2]], place[p]>> : p \in DOMAIN place}
      points == {a[1] : a \in at}
      node   == [p \in points |-> (CHOOSE a \in at : a[1] = p)[2]]
      Graph  == INSTANCE RouteGraph WITH
                  Points   <- points,
                  Distance <- [p \in points |-> [q \in points |-> GridDistance(node[p], node[q])]]
      LineOf(offset) == CHOOSE k \in 0..Len(refs) :
                        IF k = 0 THEN [kind |-> "way", offset |-> offset] \notin Range(refs)
                        ELSE refs[k] = [kind |-> "way", offset |-> offset]
      turns  == Map(LAMBDA r : [r EXCEPT !.from = LineOf(@), !.to = LineOf(@)], restrictions)
  IN  [graph |-> Graph!RouteGraph(lines, turns), refs |-> refs, node |-> node]

\* A route node at the end of the file.  Its offset is its number.
StoreNode(graph, state, id) ==
  LET n == Len(state.file) + 1
      paths == graph.graph[id].paths
      Offset(to) == IF to \in DOMAIN state.offsets THEN state.offsets[to] ELSE 0
      Stored(p)  == [offset |-> Offset(p.to), object |-> graph.refs[p.way],
                     distance |-> p.distance, usable |-> p.usable,
                     hasAccess |-> p.hasAccess]
      Excluded(e) == [source |-> graph.refs[e.source], targetIndex |-> e.targetIndex]
      pending == {[id |-> paths[k].to, node |-> n, index |-> k] :
                    k \in {k \in DOMAIN paths : Offset(paths[k].to) = 0}}
  IN  [file |-> Append(state.file,
                  [id |-> id, coord |-> graph.node[id], paths |-> Map(Stored, paths),
                   excludes |-> {Excluded(e) : e \in graph.graph[id].excludes}]),
       offsets |-> (id :> n) @@ state.offsets,
       pending |-> state.pending \union pending]

\* Mutant: only paths between nodes of one block are completed.
HandlePendingOfBlock(state, block) ==
  LET now == {p \in state.pending : p.id \in block /\ state.file[p.node].id \in block}
      Completed(n, k) ==
        IF \E p \in now : p.node = n /\ p.index = k
        THEN state.offsets[(CHOOSE p \in now : p.node = n /\ p.index = k).id]
        ELSE state.file[n].paths[k].offset
  IN  [state EXCEPT !.pending = @ \ now,
                    !.file = [n \in DOMAIN @ |-> [@[n] EXCEPT !.paths =
                                [k \in DOMAIN @ |-> [@[k] EXCEPT !.offset = Completed(n, k)]]]]]

\* HandlePendingOffsets(): the paths that waited for nodes of the block.
HandlePendingOffsets(state, block) ==
  LET now == {p \in state.pending : p.id \in block}
      Completed(n, k) ==
        IF \E p \in now : p.node = n /\ p.index = k
        THEN state.offsets[(CHOOSE p \in now : p.node = n /\ p.index = k).id]
        ELSE state.file[n].paths[k].offset
  IN  [state EXCEPT !.pending = @ \ now,
                    !.file = [n \in DOMAIN @ |-> [@[n] EXCEPT !.paths =
                                [k \in DOMAIN @ |-> [@[k] EXCEPT !.offset = Completed(n, k)]]]]]

\* WriteRouteGraph(): the intersections by blocks; those of no use to the
\* vehicle are left out.
WriteRouteGraph(intersections, graph, blockSize) ==
  LET IdsIn(b) == LET first == (b - 1) * blockSize + 1
                    last  == Min({b * blockSize, Len(intersections)})
                IN  [n \in 1..(last - first + 1) |-> intersections[first + n - 1].id]
      Block(state, b) ==
        LET stored == FoldLeft(LAMBDA s, id : StoreNode(graph, s, id), state,
                               SelectSeq(IdsIn(b), LAMBDA id : id \in DOMAIN graph.graph))
        IN  HandlePendingOffsets(stored, Range(IdsIn(b)))
      blocks == (Len(intersections) + blockSize - 1) \div blockSize
  IN  FoldLeft(Block, [file |-> <<>>, offsets |-> <<>>, pending |-> {}],
               [b \in 1..blocks |-> b]).file

\* RouteDataGenerator::Import()
RoutingData(fs, blockSize) ==
  LET ways  == fs["ways.dat"].objects
      areas == fs["areas.dat"].objects
      intersections == IntersectionsOf(ways, areas)
      restrictions  == TurnRestrictions(fs["turnrestr.dat"], fs["ways.idmap"], fs["coord.dat"])
      Graph(vehicle) == WriteRouteGraph(intersections,
                                        GraphOf(ways, areas, restrictions, vehicle), blockSize)
  IN  "intersections.dat" :> intersections @@ "routefoot.dat" :> Graph("foot")
      @@ "routebicycle.dat" :> Graph("bicycle") @@ "routecar.dat" :> Graph("car")

==============================================================================
