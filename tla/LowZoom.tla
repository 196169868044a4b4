-------------------------------- MODULE LowZoom --------------------------------
(***************************************************************************)
(* waysopt.dat and areasopt.dat: for every magnification up to a certain   *)
(* one, the ways and areas of some types, without those too small to be    *)
(* seen, and the ways with the same number joined to longer ones.          *)
(*                                                                         *)
(* A way has the ids of its points, 0 where no other way has the point; an *)
(* area has rings, each with its nesting and its box, of which the first   *)
(* is a master ring without points if it was a relation.                   *)
(***************************************************************************)
EXTENDS CellIndex

CONSTANTS OptimizedTypes,      (* the types of ways and of areas to optimize   *)
          OptimizationMinMag, OptimizationMaxMag,
          OptimizationMaxWayCount,
          PixelSize            (* of a magnification: what a pixel is of the map *)

ASSUME LowZoomAssumption ==
  /\ OptimizationMinMag \in Nat /\ OptimizationMaxMag \in Nat
  /\ OptimizationMaxWayCount \in Nat
  /\ PixelSize \in [OptimizationMinMag..OptimizationMaxMag -> Nat]

OptimizationLevels == OptimizationMinMag..OptimizationMaxMag

OfType(objects, type) == SelectSeq(objects, LAMBDA o : o.type = type)

------------------------------------------------------------------------------
(* GetWays() and GetAreas(): as many types at once as fit into the memory   *)

\* The object is collected; while there are too many, the type with the fewest is
\* given up until the next pass.
CollectObject(pass, object) ==
  LET held(s, t)  == Len(OfType(s.objects, t))
      giveUp(s, ignored) ==
        LET counts == {held(s, t) : t \in s.types} \ {0}
            victim == CHOOSE t \in s.types : held(s, t) = Min(counts)
        IN  IF Len(s.objects) > OptimizationMaxWayCount /\ Cardinality(s.types) > 1
            THEN [objects |-> SelectSeq(s.objects, LAMBDA o : o.type # victim),
                  types   |-> s.types \ {victim}]
            ELSE s
  IN  IF object.type \notin pass.types THEN pass
      ELSE FoldLeft(giveUp, [pass EXCEPT !.objects = Append(@, object)], SetToSeq(pass.types))

\* The types that a pass takes, with all their objects.
Pass(types, objects) ==
  FoldLeft(CollectObject, [objects |-> <<>>, types |-> types], objects)

\* The passes until no type is left: the types that have been taken, with their objects.
Passes(types, objects) ==
  LET pass(s, ignored) ==
        LET taken == Pass(s.left, objects)
        IN  IF s.left = {} THEN s
            ELSE [left |-> s.left \ taken.types,
                  batches |-> s.batches \o [i \in 1..Cardinality(taken.types) |->
                    LET type == SetToSortSeq(taken.types, <)[i]
                    IN  [type |-> type, objects |-> OfType(taken.objects, type)]]]
  IN  SelectSeq(FoldLeft(pass, [left |-> types, batches |-> <<>>], SetToSeq(types)).batches,
                LAMBDA b : b.objects # <<>>)

------------------------------------------------------------------------------
(* MergeWays()                                                              *)

\* The entries of waysByJoin for an id that are not used yet and look like the way; a
\* closed way has two.
Joining(ways, used, way, id) ==
  {e \in (DOMAIN ways \ used) \X {"front", "back"} :
     /\ id # 0
     /\ ways[e[1]].ref = way.ref
     /\ id = IF e[2] = "front" THEN ways[e[1]].ids[1] ELSE Last(ways[e[1]].ids)}

\* The points of another way before those of the way, turned around if they begin alike.
AtFront(way, other) ==
  LET turned == way.ids[1] = other.ids[1]
      join(a, b) == (IF turned THEN Reverse(b) ELSE b) \o Tail(a)
  IN  [way EXCEPT !.ids = join(way.ids, other.ids), !.nodes = join(way.nodes, other.nodes)]

\* Mutant: a way that is turned around keeps the point it is joined at.
AtBackTwice(way, other) ==
  LET turned == Last(way.ids) # other.ids[1]
      join(a, b) == a \o (IF turned THEN Reverse(b) ELSE Tail(b))
  IN  [way EXCEPT !.ids = join(way.ids, other.ids), !.nodes = join(way.nodes, other.nodes)]

AtBack(way, other) ==
  LET turned == Last(way.ids) # other.ids[1]
      join(a, b) == a \o Tail(IF turned THEN Reverse(b) ELSE b)
  IN  [way EXCEPT !.ids = join(way.ids, other.ids), !.nodes = join(way.nodes, other.nodes)]

\* A way is joined to the only other one at an end, first at its front.
Extend(ways, s) ==
  LET front == Joining(ways, s.used, s.way, s.way.ids[1])
      back  == Joining(ways, s.used, s.way, Last(s.way.ids))
      other(entries) == CHOOSE i \in DOMAIN ways : \E e \in entries : e[1] = i
  IN  CASE Cardinality(front) = 1 ->
             [used |-> s.used \union {other(front)}, way |-> AtFront(s.way, ways[other(front)])]
        [] Cardinality(front) # 1 /\ Cardinality(back) = 1 ->
             [used |-> s.used \union {other(back)}, way |-> AtBack(s.way, ways[other(back)])]
        [] OTHER -> s

\* From every shared end on, in the order of the ids, as far as ways can be joined.
MergeWays(ways) ==
  LET ends == SetToSortSeq({ways[i].ids[1] : i \in DOMAIN ways}
                           \union {Last(ways[i].ids) : i \in DOMAIN ways}, <)
      at(id) == SelectSeq([i \in DOMAIN ways |-> i],
                          LAMBDA i : id # 0 /\ id \in {ways[i].ids[1], Last(ways[i].ids)})
      grow(s, i) ==
        LET grown == FoldLeft(LAMBDA g, ignored : Extend(ways, g),
                              [used |-> s.used \union {i}, way |-> ways[i]], ways)
        IN  IF i \in s.used THEN s
            ELSE [used |-> grown.used, merged |-> Append(s.merged, grown.way)]
      starts == FlattenSeq([k \in DOMAIN ends |-> at(ends[k])])
  IN  FoldLeft(grow, [used |-> {}, merged |-> <<>>], starts).merged

------------------------------------------------------------------------------
(* OptimizeWays() and OptimizeAreas()                                       *)

\* Smaller than a pixel?
TooSmall(box, level) ==
  box.right - box.left <= PixelSize[level] /\ box.top - box.bottom <= PixelSize[level]

\* The points that make no difference are dropped as well, which changes no box.
OptimizeWays(ways, level) == SelectSeq(ways, LAMBDA w : ~TooSmall(BoxOf(w.nodes), level))

\* A ring is dropped with the rings within it.
OptimizeRings(rings, level) ==
  LET drop(s, r) ==
        CASE s.below >= 0 /\ r.ring > s.below -> s
          [] ~(s.below >= 0 /\ r.ring > s.below) /\ r.ring # 0 /\ TooSmall(r.box, level) ->
               [s EXCEPT !.below = r.ring]
          [] OTHER -> [rings |-> Append(s.rings, r), below |-> -1]
  IN  FoldLeft(drop, [rings |-> <<>>, below |-> -1], rings).rings

\* The outer rings.
AreaBox(area) ==
  LET outer == {area.rings[i].box : i \in {j \in DOMAIN area.rings : area.rings[j].ring = 1}}
  IN  [left   |-> Min({b.left : b \in outer}),   right |-> Max({b.right : b \in outer}),
       bottom |-> Min({b.bottom : b \in outer}), top   |-> Max({b.top : b \in outer})]

OptimizeAreas(areas, level) ==
  LET optimized == [i \in DOMAIN areas |->
                      [areas[i] EXCEPT !.rings = OptimizeRings(areas[i].rings, level)]]
  IN  SelectSeq(optimized,
        LAMBDA a : \E i \in DOMAIN areas :
          /\ a.offset = areas[i].offset
          /\ IF Len(areas[i].rings) > 1 THEN Len(a.rings) > 1 ELSE a.rings # <<>>)

------------------------------------------------------------------------------
(* HandleWays() and HandleAreas()                                           *)

\* WriteWays(), WriteAreas(): the objects get their places in the new file.
Placed(objects, type, level) ==
  [i \in DOMAIN objects |-> objects[i] @@ [place |-> 1000 * type + 100 * level + i]]

\* A type at a magnification: the objects that are left, and the index of them, if
\* there are any.
TypeData(type, level, objects, bitmap(_), boxOf(_)) ==
  LET placed == Placed(objects, type, level)
  IN  [type |-> type, optLevel |-> level, objects |-> placed,
       index |-> bitmap({[offset |-> placed[i].place, box |-> boxOf(placed[i])] :
                           i \in DOMAIN placed})]

\* No ways are left over if all have no shared ends: then there is no TypeData either.
HandleWays(ways) ==
  LET merged(batch) == [type |-> batch.type, objects |-> MergeWays(batch.objects)]
      batches == Passes(OptimizedTypes.way, ways)
      merges  == {b \in {merged(batches[i]) : i \in DOMAIN batches} : b.objects # <<>>}
  IN  {TypeData(b.type, level, OptimizeWays(b.objects, level), LowZoomWayBitmap,
                LAMBDA w : BoxOf(w.nodes)) : b \in merges, level \in OptimizationLevels}

HandleAreas(areas) ==
  LET batches == Passes(OptimizedTypes.area, areas)
  IN  {TypeData(batches[i].type, level, OptimizeAreas(batches[i].objects, level),
                LowZoomAreaBitmap, AreaBox) : i \in DOMAIN batches, level \in OptimizationLevels}

------------------------------------------------------------------------------
(* OptimizeWaysLowZoom and OptimizeAreasLowZoom                             *)

\* A magnification is counted in half levels.
HasOptimizations(magnification) == magnification <= 2 * OptimizationMaxMag

\* Type after type, in order.  Those with data of this level are no longer looked for
\* elsewhere.  If the file cannot be read, those from the first that has to be read on are.
Optimized(file, box, level, order, readable, offsets(_, _)) ==
  LET types   == Range(order)
      matches == {d \in file : d.type \in types /\ d.optLevel = level}
      place(d) == CHOOSE i \in DOMAIN order : order[i] = d.type
      failing == {place(d) : d \in {m \in matches : ~readable /\ Intersects(m.index, box)}}
      done    == {d \in matches : \A i \in failing : place(d) < i}
      read(d) == LET found == offsets(d.index, box)
                 IN  {d.objects[i] : i \in {j \in DOMAIN d.objects : d.objects[j].place \in found}}
  IN  [objects |-> UNION {read(d) : d \in done},
       types   |-> types \ {d.type : d \in done}, failed |-> failing # {}]

GetWays(file, box, level, priorities, readable) ==
  Optimized(file, box, level,
            FlattenSeq([i \in DOMAIN priorities |-> SetToSortSeq(priorities[i], <)]),
            readable, LowZoomWayOffsets)

GetAreas(file, box, level, types, readable) ==
  Optimized(file, box, level, SetToSortSeq(types, <), readable, LowZoomAreaOffsets)

==============================================================================
