------------------------------ MODULE MapObjects ------------------------------
(***************************************************************************)
(* What is drawn of a map.  The import writes the indexes of nodes, ways   *)
(* and areas, the files of optimized ways and areas and the index of land  *)
(* and water; a style sheet is loaded; and MapService::GetObjects() and    *)
(* GetGroundTiles() are called for one part of the map after the other,    *)
(* with the objects of the call before to fill again.                      *)
(***************************************************************************)
EXTENDS LowZoom, StyleSheet, WaterIndex

CONSTANTS Contents,         (* the maps, each with its style sheet and bounds  *)
          Boxes,            (* the parts of the map that are looked at         *)
          Magnifications,   (* in half levels                                  *)
          MaximumAreaLevel, (* levels of the tree beyond that of the map       *)
          Scale,            (* of a level: the size of things that depend on it *)
          Places            (* in the square of a point: what is looked at there *)

(* A map: its nodes, ways and areas in the order of their file offsets; the coastlines,
   as LoadCoastlines() reads them, the rings that the land really has and the box around
   it all, in the units of the water index; the sheet; the most objects that are wanted;
   and how many calls, and how many failing reads, a behaviour has with it. *)
ASSUME MapObjectsAssumption ==
  /\ Magnifications \subseteq Nat /\ MaximumAreaLevel \in Nat
  /\ Places \subseteq (0..(PointWidth - 1)) \X (0..(PointWidth - 1))
  /\ \A map \in Contents :
       /\ map.calls \in Nat /\ map.failures \in Nat
       /\ map.limits \subseteq [{"nodes", "ways", "areas"} -> Nat]

VARIABLES map,      (* the map and its style sheet                             *)
          files,    (* what the import has written                             *)
          style,    (* StyleConfig                                             *)
          broken,   (* the indexes whose scanner has an error                  *)
          cells,    (* AreaAreaIndex::indexCache: the cells that were read     *)
          hollow,   (* and what it has of those that could not be read         *)
          asked,    (* the last call                                           *)
          data,     (* MapData: the objects                                    *)
          returned, (* what the call returned                                  *)
          calls, failures

vars == <<map, files, style, broken, cells, hollow, asked, data, returned, calls, failures>>

Indexes == {"node", "way", "area", "lowZoomWay", "lowZoomArea"}

NoData == [nodes |-> {}, ways |-> {}, areas |-> {}, groundTiles |-> {}]

Init ==
  /\ map \in Contents
  /\ files = <<>> /\ style = <<>>
  /\ broken = {} /\ cells = {} /\ hollow = <<>>
  /\ asked = <<>> /\ data = NoData /\ returned = "nothing"
  /\ calls = 0 /\ failures = 0

------------------------------------------------------------------------------
(* Import and style sheet                                                   *)

Boxed(object, box) == [offset |-> object.offset, type |-> object.type, box |-> box]

BoxedNodes(m) == {Boxed(n, BoxOf(<<n.at>>)) : n \in Range(m.nodes)}
BoxedWays(m)  == {Boxed(w, BoxOf(w.nodes)) : w \in Range(m.ways)}
BoxedAreas(m) == {Boxed(a, AreaBox(a)) : a \in Range(m.areas)}

OfTypeBoxed(boxed, type) ==
  {[offset |-> o.offset, box |-> o.box] : o \in {b \in boxed : b.type = type}}

FilesOf(m) ==
  [nodeIndex |-> [t \in NodeTypes |-> AreaNodeBitmap(OfTypeBoxed(BoxedNodes(m), t))],
   wayIndex  |-> [t \in WayTypes |-> AreaWayBitmap(OfTypeBoxed(BoxedWays(m), t))],
   areaIndex |-> WriteTree(BoxedAreas(m)),
   waysopt   |-> HandleWays(m.ways),
   areasopt  |-> HandleAreas(m.areas),
   water     |-> WriteWaterIndex(m.coastlines, m.lost, m.ways, m.bounds)]

Import ==
  /\ files = <<>>
  /\ files' = <<FilesOf(map)>>
  /\ UNCHANGED <<map, style, broken, cells, hollow, asked, data, returned, calls, failures>>

LoadStyle ==
  /\ files # <<>> /\ style = <<>>
  /\ style' = <<Postprocess(map.sheet)>>
  /\ UNCHANGED <<map, files, broken, cells, hollow, asked, data, returned, calls, failures>>

------------------------------------------------------------------------------
(* GetObjects() and GetGroundTiles()                                        *)

\* Magnification::level is the whole part of the logarithm.
LevelAt(call) == call.magnification \div 2

NodeTypesAt(call) == GetNodeTypesWithMaxMag(style[1], LevelAt(call))
WayTypesAt(call)  == GetWayTypesByPrioWithMaxMag(style[1], LevelAt(call))
AreaTypesAt(call) == GetAreaTypesWithMaxMag(style[1], LevelAt(call))

\* Does a lookup in an index of cells read from the file?
Reads(bitmaps, types, box) == \E t \in types \intersect DOMAIN bitmaps : Intersects(bitmaps[t], box)

Section(objects, success, reads) == [objects |-> objects, success |-> success, reads |-> reads]

NodesFrom(bitmaps, call, types, unreadable) ==
  IF ~Reads(bitmaps, types, call.box) THEN Section({}, TRUE, {})
  ELSE IF "node" \in unreadable THEN Section({}, FALSE, {"node"})
  ELSE Section({n \in Range(map.nodes) :
                  n.offset \in AreaNodeOffsets(bitmaps, types, call.box, call.limits.nodes)},
               TRUE, {"node"})

GetObjectsNodes(call, unreadable) ==
  NodesFrom(files[1].nodeIndex, call, NodeTypesAt(call), unreadable)

\* An optimized object has the position in its own file as its offset.
FileOffset(object) == IF "place" \in DOMAIN object THEN object.place ELSE object.offset

\* Objects of the call before are taken again, the others are read.
Reused(last, objects, found) ==
  {o \in last : FileOffset(o) \in found}
    \union {o \in Range(objects) : o.offset \in found \ {FileOffset(l) : l \in last}}

LowZoomWays(call, unreadable) ==
  GetWays(IF HasOptimizations(call.magnification) THEN files[1].waysopt ELSE {}, call.box,
          LevelAt(call), WayTypesAt(call), "lowZoomWay" \notin unreadable)

\* A failure of the low zoom index is not reported: it goes on with the other index.
WaysFrom(bitmaps, call, low, left, unreadable) ==
  LET lowZoom == {i \in {"lowZoomWay"} : low.failed}
  IN  IF ~Reads(bitmaps, UNION Range(left), call.box) THEN Section(low.objects, TRUE, lowZoom)
      ELSE IF "way" \in unreadable THEN Section({}, FALSE, lowZoom \union {"way"})
      ELSE Section(low.objects \union
                     Reused(data.ways, map.ways, AreaWayOffsets(bitmaps, left, call.box, call.limits.ways)),
                   TRUE, lowZoom \union {"way"})

GetObjectsWays(call, low, unreadable) ==
  WaysFrom(files[1].wayIndex, call, low,
           [i \in DOMAIN WayTypesAt(call) |-> WayTypesAt(call)[i] \intersect low.types], unreadable)

LowZoomAreas(call, unreadable) ==
  GetAreas(IF HasOptimizations(call.magnification) THEN files[1].areasopt ELSE {}, call.box,
           LevelAt(call), AreaTypesAt(call), "lowZoomArea" \notin unreadable)

\* The areas that are not among the optimized ones, and the cells that are read for them.
ScanTree(call, types) ==
  IF types = {} THEN [offsets |-> {}, visited |-> <<>>]
  ELSE TreeOffsets(files[1].areaIndex, hollow, call.box, LevelAt(call) + MaximumAreaLevel,
                   types, call.limits.areas)

\* The cells that are not in the cache yet, and those of them that cannot be read.
NewCells(visited) ==
  SelectSeq(visited, LAMBDA c : c \notin cells \union DOMAIN hollow)

FailingCells(visited, unreadable) ==
  SelectSeq(NewCells(visited),
            LAMBDA c : "area" \in unreadable \/ c \notin DOMAIN files[1].areaIndex)

AreasFrom(low, scan, new, failing) ==
  [objects |-> IF failing = <<>> THEN low.objects \union Reused(data.areas, map.areas, scan.offsets)
               ELSE {},
   success |-> failing = <<>>,
   reads   |-> {i \in {"lowZoomArea"} : low.failed} \union {i \in {"area"} : new # <<>>},
   cells   |-> {new[i] : i \in {j \in DOMAIN new : \A k \in 1..j : new[k] \notin Range(failing)}},
   failed  |-> {failing[i] : i \in DOMAIN failing \intersect {1}}]

\* GetObjectsAreas(): as for the ways; the first cell that cannot be read is the last.
GetObjectsAreas(low, scan, unreadable) ==
  AreasFrom(low, scan, NewCells(scan.visited), FailingCells(scan.visited, unreadable))

\* A read error stays with the scanner.  One that could not be opened is opened again by the
\* next call: that of the areas is open once a cell has been read.
Fails(cell, failing) ==
  \E opened \in BOOLEAN :
    /\ ~opened => "area" \in failing \ broken /\ cell # {} /\ cells' = {}
    /\ broken' = IF opened THEN broken \union failing \union {i \in {"area"} : cell # {}} ELSE broken
    /\ \E left \in [cell -> UNION {Unfinished(files[1].areaIndex, c, opened /\ "area" \notin broken) : c \in cell}] :
         hollow' = hollow @@ left

\* All three sections run to their end; if one has failed nothing is returned at all.
GetObjects(call, failing, ground) ==
  \E lowWays \in {LowZoomWays(call, broken \union failing)},
     lowAreas \in {LowZoomAreas(call, broken \union failing)} :
  \E scan \in {ScanTree(call, lowAreas.types)} :
  \E nodes \in {GetObjectsNodes(call, broken \union failing)},
     ways \in {GetObjectsWays(call, lowWays, broken \union failing)},
     areas \in {GetObjectsAreas(lowAreas, scan, broken \union failing)} :
    LET success == nodes.success /\ ways.success /\ areas.success
    IN  /\ failing \subseteq UNION {nodes.reads, ways.reads, areas.reads}
        /\ cells' = cells \union areas.cells
        /\ Fails(areas.failed, failing)
        /\ data' = IF success
                   THEN [nodes |-> nodes.objects, ways |-> ways.objects, areas |-> areas.objects,
                         groundTiles |-> ground]
                   ELSE [NoData EXCEPT !.groundTiles = ground]
        /\ returned' = IF success THEN "objects" ELSE "failure"

GetGroundTiles(call) ==
  GetRegions(files[1].water, Fine([x |-> call.box.left, y |-> call.box.bottom]),
             Fine([x |-> call.box.right, y |-> call.box.top]), LevelAt(call))

Call ==
  /\ style # <<>> /\ calls < map.calls /\ calls' = calls + 1
  /\ \E box \in Boxes, magnification \in Magnifications, limits \in map.limits :
       LET call == [box |-> box, magnification |-> magnification, limits |-> limits]
       IN  /\ asked' = <<call>>
           /\ \E failing \in {{}} \union (IF failures < map.failures THEN {{i} : i \in Indexes} ELSE {}),
                 ground \in {GetGroundTiles(call)} :
                /\ GetObjects(call, failing, ground)
                /\ failures' = failures + Cardinality(failing)
  /\ UNCHANGED <<map, files, style>>

\* The breaker is set before the call; set later, it has the same effect at the next of
\* the steps of a section.  What is drawn after it is not shown, the ground included.
Abort ==
  /\ style # <<>> /\ calls < map.calls /\ calls' = calls + 1
  /\ asked' = <<>> /\ data' = NoData /\ returned' = "failure"
  /\ UNCHANGED <<map, files, style, broken, cells, hollow, failures>>

\* Database::Close() and Open() make new indexes.  The data stay.
Reopen ==
  /\ broken # {} \/ hollow # <<>>
  /\ broken' = {} /\ cells' = {} /\ hollow' = <<>>
  /\ asked' = <<>> /\ returned' = "nothing"
  /\ UNCHANGED <<map, files, style, data, calls, failures>>

Next == Import \/ LoadStyle \/ Call \/ Abort \/ Reopen

Spec == Init /\ [][Next]_vars

------------------------------------------------------------------------------
(* Properties                                                               *)

Answered == returned = "objects" /\ asked # <<>> /\ hollow = <<>>

Meets(box) == BoxesMeet(box, asked[1].box)

\* The types whose objects come from the optimized files, if those can be read.
Optimizes(file, type) ==
  /\ HasOptimizations(asked[1].magnification)
  /\ \E d \in file : d.type = type /\ d.optLevel = LevelAt(asked[1])

\* The areas that are not too small to be looked for.
AreasInReach ==
  {a \in Range(map.areas) : LevelOf(AreaBox(a)) <= LevelAt(asked[1]) + MaximumAreaLevel}

AllMeeting(objects, boxOf(_)) == {o \in objects : Meets(boxOf(o))}

\* Of a priority: the objects in the box, and how often the cells of the box list them.
NodesMeeting(types) == {n \in AllMeeting(Range(map.nodes), LAMBDA n : BoxOf(<<n.at>>)) : n.type \in types}
WaysMeeting(types)  == {w \in AllMeeting(Range(map.ways), LAMBDA w : BoxOf(w.nodes)) : w.type \in types}
AreasMeeting(types) == {a \in AllMeeting(AreasInReach, AreaBox) : a.type \in types}

Entries(kind, bitmaps, types) ==
  LET listed(t) == LET lists == Rows(kind, bitmaps[t], asked[1].box)
                   IN  FoldLeft(LAMBDA n, l : n + Len(l), 0, lists)
  IN  FoldSet(LAMBDA t, n : n + listed(t), 0, types \intersect DOMAIN bitmaps)

\* At low zoom a type has the optimized objects of the magnification, or, if it is not
\* optimized or the file cannot be read, its own.
FromOptimized(delivered, file, type) ==
  \E d \in file :
    /\ d.type = type /\ d.optLevel = LevelAt(asked[1]) /\ HasOptimizations(asked[1].magnification)
    /\ {o \in delivered : o.type = type} \subseteq Range(d.objects)

OptimizedMeeting(file, type, boxOf(_)) ==
  {o \in UNION {Range(d.objects) : d \in {e \in file : e.type = type /\ e.optLevel = LevelAt(asked[1])}} :
     Meets(boxOf(o))}

\* The optimized objects in the first of all cells of their type.
InFirstCell(file, type) ==
  UNION {{o \in Range(d.objects) : o.place \in Range(d.index.lists[1])} :
           d \in {e \in file : e.type = type /\ e.index.written}}

\* Every object in the box of a type that the style sheet wants at the magnification
\* has been loaded, and nothing else: from its index or, at low zoom, from the file of
\* optimized objects (those in the first cell aside), but not a type from both, also
\* when the optimized files cannot be read.  "Returns all objects conforming to the
\* given restrictions", whatever a failed or aborted call left behind.
FindsAllObjects ==
  Answered =>
    LET call == asked[1]
    IN  /\ Entries("node", files[1].nodeIndex, NodeTypesAt(call)) <= call.limits.nodes =>
             /\ NodesMeeting(NodeTypesAt(call)) \subseteq data.nodes
             /\ \A n \in data.nodes : n.type \in NodeTypesAt(call)
        /\ Entries("way", files[1].wayIndex, UNION Range(WayTypesAt(call))) <= call.limits.ways =>
             /\ \A w \in data.ways : w.type \in UNION Range(WayTypesAt(call))
             /\ \A t \in UNION Range(WayTypesAt(call)) :
                  IF FromOptimized(data.ways, files[1].waysopt, t)
                  THEN OptimizedMeeting(files[1].waysopt, t, LAMBDA w : BoxOf(w.nodes))
                         \ InFirstCell(files[1].waysopt, t) \subseteq data.ways
                  ELSE WaysMeeting({t}) \subseteq data.ways
                       /\ {w \in data.ways : w.type = t} \subseteq Range(map.ways)
        /\ Len(map.areas) < call.limits.areas =>
             /\ \A a \in data.areas : a.type \in AreaTypesAt(call)
             /\ \A t \in AreaTypesAt(call) :
                  IF FromOptimized(data.areas, files[1].areasopt, t)
                  THEN OptimizedMeeting(files[1].areasopt, t, AreaBox)
                         \ InFirstCell(files[1].areasopt, t) \subseteq data.areas
                  ELSE AreasMeeting({t}) \subseteq data.areas
                       /\ {a \in data.areas : a.type = t} \subseteq Range(map.areas)

\* The same without the exception: "So zero means 'no data for this cell'".
FindsOptimizedObjects ==
  Answered =>
    \A t \in UNION Range(WayTypesAt(asked[1])) :
      FromOptimized(data.ways, files[1].waysopt, t) =>
        OptimizedMeeting(files[1].waysopt, t, LAMBDA w : BoxOf(w.nodes)) \subseteq data.ways

\* Types in an order, of which as many are there as the limit allows: each completely or
\* not at all, and the first that is not would have exceeded the limit.
KeepsFirst(priorities, delivered, meeting(_), entries(_), limit) ==
  /\ Cardinality(delivered) <= limit
  /\ \E n \in 0..Len(priorities) :
       /\ \A i \in 1..n : meeting(priorities[i]) \subseteq delivered
       /\ \A i \in (n + 1)..Len(priorities) : \A o \in delivered : o.type \notin priorities[i]
       /\ n < Len(priorities) => entries(UNION {priorities[i] : i \in 1..(n + 1)}) > limit

\* Where there are too many objects the most important types of ways are kept, the types of
\* nodes with the lowest ids, and the areas of the largest levels, each completely or not
\* at all; a limit drops nothing that it allows.
LimitDropsLeastImportant ==
  Answered =>
    LET call  == asked[1]
        types == SetToSortSeq(NodeTypesAt(call), <)
        ways  == [i \in DOMAIN WayTypesAt(call) |->
                    {t \in WayTypesAt(call)[i] : ~FromOptimized(data.ways, files[1].waysopt, t)}]
        own   == {a \in data.areas : a \in Range(map.areas)}
        level(a) == LevelOf(AreaBox(a))
        deepest  == Min({LevelAt(call) + MaximumAreaLevel, AreaAreaIndexMaxMag})
    IN  /\ KeepsFirst([i \in DOMAIN types |-> {types[i]}], data.nodes, NodesMeeting,
                      LAMBDA t : Entries("node", files[1].nodeIndex, t), call.limits.nodes)
        /\ KeepsFirst(ways, data.ways \intersect Range(map.ways), WaysMeeting,
                      LAMBDA t : Entries("way", files[1].wayIndex, t), call.limits.ways)
        /\ \E n \in -1..deepest :
             /\ \A a \in AreasMeeting({t \in AreaTypesAt(call) :
                                          ~FromOptimized(data.areas, files[1].areasopt, t)}) :
                  level(a) <= n => a \in own
             /\ \A a \in own : level(a) <= n
             /\ n < deepest /\ AreasMeeting(AreaTypesAt(call)) # {} /\ own # AreasMeeting(AreaTypesAt(call)) =>
                  Cardinality({a \in Range(map.areas) : level(a) <= n + 1}) >= call.limits.areas

\* Does the object have the way's points in a row, in one direction or the other?
HasPoints(object, way) ==
  \E i \in 0..(Len(object.nodes) - Len(way.nodes)) :
    SubSeq(object.nodes, i + 1, i + Len(way.nodes)) \in {way.nodes, Reverse(way.nodes)}

Segments(ways) == FoldLeft(LAMBDA n, w : n + Len(w.nodes) - 1, 0, ways)

\* The optimized ways of a type are its ways, joined to longer ones of the same number: every
\* way with a shared end that is larger than a pixel is part of one of them, and no stretch
\* is there twice.  Of the areas every outer ring larger than a pixel is there.
LowZoomKeepsWhatCanBeSeen ==
  files # <<>> =>
    /\ \A d \in files[1].waysopt :
         LET ways == SelectSeq(map.ways, LAMBDA w : w.type = d.type /\ {w.ids[1], Last(w.ids)} # {0})
         IN  /\ \A w \in Range(ways) :
                  TooSmall(BoxOf(w.nodes), d.optLevel)
                  \/ \E o \in Range(d.objects) : o.ref = w.ref /\ HasPoints(o, w)
             /\ Segments(d.objects) <= Segments(ways)
    /\ \A d \in files[1].areasopt : \A a \in Range(OfType(map.areas, d.type)) :
         \A r \in Range(a.rings) :
           r.ring # 1 \/ TooSmall(r.box, d.optLevel)
           \/ \E o \in Range(d.objects) : o.offset = a.offset /\ r \in Range(o.rings)

\* What the sheet says of an object: the rules for it one after the other, each setting
\* its attributes.
SheetStyle(kind, slot, object, level) ==
  LET applying == SelectSeq(map.sheet.rules,
        LAMBDA r : /\ r.kind = kind /\ r.slot = slot /\ AppliesAt(r, object.type, level)
                   /\ Matches(r.criteria, object.features, Scale[level]))
      composed == FoldLeft(LAMBDA s, r : CopyAttributes(s, r.attributes, DOMAIN r.attributes),
                        Defaults(kind), applying)
  IN  IF IsVisible(kind, composed) THEN <<composed>> ELSE <<>>

\* What is found in the tables for it.  (The only rule that matches may hide the object: it is
\* returned with that.)
FoundStyle(tables, kind, slot, object, level) ==
  LET found == GetFeatureStyle(kind, tables.selectors[<<kind, slot>>][object.type], level,
                               object.features, Scale[level])
  IN  IF found # <<>> /\ IsVisible(kind, found[1]) THEN found ELSE <<>>

\* Ways of a type that nothing is drawn of at the last level the rules name are not loaded
\* beyond it.
EndsHidden(object) ==
  /\ LevelAt(asked[1]) >= Len(style[1].ways.types)
  /\ \A i \in DOMAIN WayTypesAt(asked[1]) : object.type \notin WayTypesAt(asked[1])[i]

\* Whatever the rules of the sheet together make visible in the box is loaded, and drawn
\* with the attributes that the rules give it, in their order.
ShowsWhatTheSheetSays ==
  Answered =>
    LET level == LevelAt(asked[1])
        shows(tables, objects, delivered, rest) ==
          \A k \in DOMAIN tables.selectors, o \in objects :
            /\ FoundStyle(tables, k[1], k[2], o, level) = SheetStyle(k[1], k[2], o, level)
            /\ SheetStyle(k[1], k[2], o, level) # <<>> => o \in delivered \/ rest
    IN  /\ shows(style[1].nodes, NodesMeeting(NodeTypes), data.nodes,
                 Len(map.nodes) > asked[1].limits.nodes)
        /\ \A w \in WaysMeeting(WayTypes) :
             shows(style[1].ways, {w}, data.ways,
                   EndsHidden(w) \/ Optimizes(files[1].waysopt, w.type)
                   \/ Entries("way", files[1].wayIndex, WayTypes) > asked[1].limits.ways)
        /\ \A a \in AreasMeeting(AreaTypes) :
             shows(style[1].areas, {a}, data.areas,
                   Optimizes(files[1].areasopt, a.type)
                   \/ Len(map.areas) >= asked[1].limits.areas)

\* What lies in a cell of the index: some places in each point of the map.
PlacesIn(region) ==
  LET width == GroundWidth(region.level)
  IN  {<<region.cell.x * width + PointWidth * at[1] + place[1],
         region.cell.y * width + PointWidth * at[2] + place[2]>> :
         at \in (0..(width \div PointWidth - 1)) \X (0..(width \div PointWidth - 1)), place \in Places}

\* An island within a cell that is smaller than a pixel is left out.
LargeEnough(ring, level) ==
  LET box == G!GetBoundingBox(ring)
  IN  \/ GroundCell(<<box.minX, box.minY>>, level) # GroundCell(<<box.maxX, box.maxY>>, level)
      \/ Min({box.maxX - box.minX, box.maxY - box.minY}) >= GroundPixel[level]

LandAt(rings, p) == Cardinality({r \in rings : G!IsCoordInArea(p, r)}) % 2 = 1

\* Where a coastline begins or ends without another that goes on: no side of it is known there.
LooseEnds(coastlines) ==
  LET lines == {c \in Range(coastlines) : ~c.isArea}
  IN  {Head(c.coast) : c \in {d \in lines : \A o \in lines : o.back # d.front}}
        \union {Last(c.coast) : c \in {d \in lines : \A o \in lines : o.front # d.back}}

\* Land is painted where the coastlines have it on their left, and water where they have it
\* on their right, however the lines are cut and in whatever order they come: nowhere does
\* the water run over the land or the land over the water.  Unknown may be left, as long as
\* any coast can be seen, only land, and only where no way runs.
LandAndWaterAreRight ==
  map.coastlines # <<>> =>
    \A region \in data.groundTiles :
      \/ region.cell \notin LevelCells(map.bounds, region.level)
      \/ region.cell \in {GroundCell(p, region.level) : p \in LooseEnds(LoadCoastlines(map.coastlines, map.lost))}
      \/ \E rings \in {{r \in map.land : LargeEnough(r, region.level)}} : \A p \in PlacesIn(region) :
           CASE Painted(region, p) = "land"    -> LandAt(rings, p)
             [] Painted(region, p) = "water"   -> ~LandAt(rings, p)
             [] Painted(region, p) = "unknown" ->
                  /\ LandAt(rings, p) \/ rings = {}
                  /\ \A w \in Range(map.ways) : w.type \notin IgnoreSeaLand =>
                       \A n \in Range(w.nodes) : GroundCell(Fine(n), region.level) # region.cell

==============================================================================
