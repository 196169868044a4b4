---------------------------- MODULE ImportObjects ----------------------------
(***************************************************************************)
(* The import's areas, ways and nodes before they are sorted: GenWayAreaDat,*)
(* MergeAreaData, GenWayWayDat (which joins ways of the same features),    *)
(* GenOptimizeAreaWayIds and GenNodeDat.                                   *)
(*                                                                         *)
(* Ways are read type by type: as many types in one go as fit into a block *)
(* of blockSize ways, whoever has most ways last; the types too large for  *)
(* any block way by way.                                                   *)
(***************************************************************************)
EXTENDS RelationAreas

LOCAL INSTANCE TLC
LOCAL INSTANCE FiniteSetsExt
LOCAL INSTANCE SequencesExt

OfType(ways, type) == SelectSeq(ways, LAMBDA w : w.type = type)

\* The types of which there are as many objects as a block holds.
SlowTypes(counts, blockSize) == {t \in TypeNames : counts[t] >= blockSize}

\* The type with the fewest ways so far, the first of them.
Victim(ways, types) ==
  LET there == {i \in DOMAIN Types : Types[i] \in types /\ OfType(ways, Types[i]) # <<>>}
      Count(i) == Len(OfType(ways, Types[i]))
  IN  CHOOSE i \in there : \A k \in there : Count(i) < Count(k) \/ (Count(i) = Count(k) /\ i <= k)

\* While there are too many ways, the smallest type has to wait.
RECURSIVE Evict(_, _)
Evict(state, blockSize) ==
  LET victim == Types[Victim(state.ways, state.types)]
  IN  IF Len(state.ways) > blockSize /\ Cardinality({w.type : w \in Range(state.ways)}) > 1
      THEN Evict([ways |-> SelectSeq(state.ways, LAMBDA w : w.type # victim),
                  types |-> state.types \ {victim}], blockSize)
      ELSE state

\* Mutant: ways of a type that has to wait are collected again.
CollectAgain(rawways, types, blockSize) ==
  FoldLeft(LAMBDA state, w : IF w.type \in types
                             THEN Evict([state EXCEPT !.ways = Append(@, w)], blockSize)
                             ELSE state,
           [ways |-> <<>>, types |-> types], rawways)

\* GetAreas(), GetWays(): the ways of as many of the types as fit.
Collect(rawways, types, blockSize) ==
  FoldLeft(LAMBDA state, w : IF w.type \in state.types
                             THEN Evict([state EXCEPT !.ways = Append(@, w)], blockSize)
                             ELSE state,
           [ways |-> <<>>, types |-> types], rawways)

\* The ways of one pass, by the index of their types.
ByType(ways) == FlattenSeq([i \in DOMAIN Types |-> OfType(ways, Types[i])])

------------------------------------------------------------------------------
(* GenWayAreaDat, MergeAreaData                                            *)

Resolvable(coord, way) == \A n \in Range(way.nodes) : HasCoord(coord, n)

\* WriteArea(): a way with a node that is missing is left out.
WriteAreas(coord, ways) ==
  LET Area(way) == StoredArea("way", way.id, <<[Part(coord, way) EXCEPT
                     !.ring = outerRingId, !.type = way.type, !.features = way.features]>>)
  IN  Map(Area, SelectSeq(ways, LAMBDA w : Resolvable(coord, w)))

RECURSIVE AreaPasses(_, _, _, _)
AreaPasses(coord, candidates, types, blockSize) ==
  LET pass == Collect(candidates, types, blockSize)
  IN  IF types = {} THEN <<>>
      ELSE WriteAreas(coord, ByType(pass.ways))
           \o AreaPasses(coord, candidates, types \ pass.types, blockSize)

\* Mutant: the black list is not read.
AreaCandidatesUnlisted(rawways, blacklist) ==
  SelectSeq(rawways, LAMBDA w : w.isArea /\ Len(w.nodes) >= 3)

\* An area has three nodes and did not become part of a relation.
AreaCandidates(rawways, blacklist) ==
  SelectSeq(rawways, LAMBDA w : w.isArea /\ Len(w.nodes) >= 3 /\ w.id \notin blacklist)

\* wayarea.tmp
WayAreas(raw, blacklist, blockSize) ==
  LET slow == SlowTypes([t \in TypeNames |-> raw.distribution[t].areas], blockSize)
      candidates == AreaCandidates(raw.rawways, blacklist)
  IN  AreaPasses(raw.coord, candidates, TypeNames \ slow, blockSize)
      \o WriteAreas(raw.coord, SelectSeq(candidates, LAMBDA w : w.type \in slow \ {"ignore"}))

\* With strict areas WriteArea() means to leave out an area that is not simple;
\* but the message asks the area for its type, that is for its first ring, which
\* it does not have yet, and the process dies.
SomeAreaNotSimple(raw, blacklist, blockSize) ==
  \E area \in Range(WayAreas(raw, blacklist, blockSize)) : ~AreaIsSimple(area.rings[1].nodes)

\* areas.tmp
MergeAreaData(wayarea, relarea) == wayarea \o relarea

------------------------------------------------------------------------------
(* GenWayWayDat                                                            *)

IsRestricted(restrictions, wayId, nodeId) ==
  \E r \in Range(restrictions) : r.via = nodeId /\ wayId \in {r.from, r.to}

\* Mutant: only restrictions that begin there are.
UpdateRestrictionsFrom(restrictions, oldId, newId) ==
  [i \in DOMAIN restrictions |->
     IF restrictions[i].from = oldId THEN [restrictions[i] EXCEPT !.from = newId]
     ELSE restrictions[i]]

\* The restrictions of a way that became part of another are the other's.
UpdateRestrictions(restrictions, oldId, newId) ==
  LET New(id) == IF id = oldId THEN newId ELSE id
  IN  [i \in DOMAIN restrictions |->
         [restrictions[i] EXCEPT !.from = New(@), !.to = New(@)]]

\* The longest ways first.
ByNodeCount(ways) ==
  LET order == SetToSortSeq(DOMAIN ways, LAMBDA i, k :
                 \/ Len(ways[i].nodes) > Len(ways[k].nodes)
                 \/ Len(ways[i].nodes) = Len(ways[k].nodes) /\ i < k)
  IN  [i \in DOMAIN ways |-> ways[order[i]]]

\* The ways that are left and are known to start at a node.  A way is known by
\* the form it had before any merging.
Starting(sorted, state, nodeId) ==
  {c \in state.left : First(sorted[c].nodes) = nodeId /\ Last(sorted[c].nodes) # nodeId}

\* Mutant: attributes are not compared.
CandidatesOfAnyKind(sorted, state, w, nodeId) ==
  {c \in Starting(sorted, state, nodeId) \ {w} :
     ~IsRestricted(state.restrictions, sorted[c].id, nodeId)}

Candidates(sorted, state, w, nodeId) ==
  {c \in Starting(sorted, state, nodeId) \ {w} :
     /\ ~IsRestricted(state.restrictions, sorted[c].id, nodeId)
     /\ sorted[c].features = sorted[w].features}

\* Way w takes in what starts at its end, again and again.
RECURSIVE Extended(_, _, _)
Extended(sorted, state, w) ==
  LET candidates == Candidates(sorted, state, w, Last(state.nodes[w]))
      c          == Min(candidates)
  IN  IF candidates = {} THEN state
      ELSE Extended(sorted,
                    [left |-> state.left \ {c},
                     nodes |-> [state.nodes EXCEPT ![w] = @ \o Tail(state.nodes[c])],
                     restrictions |-> UpdateRestrictions(state.restrictions,
                                                         sorted[c].id, sorted[w].id)], w)

\* MergeWays(): the ways of one type.  Not from a one-way street that could go
\* on in several ways, nor from one with a restriction at its end.
MergeWays(ways, restrictions) ==
  LET sorted == ByNodeCount(ways)
      Merge(state, w) ==
        LET end == Last(state.nodes[w])
        IN  IF \/ w \notin state.left
               \/ IsOneway(sorted[w])
                  /\ Cardinality(Starting(sorted, state, end)) > 2
               \/ IsRestricted(state.restrictions, sorted[w].id, end)
            THEN state ELSE Extended(sorted, state, w)
      merged == FoldLeft(Merge, [left |-> DOMAIN sorted,
                                 nodes |-> [w \in DOMAIN sorted |-> sorted[w].nodes],
                                 restrictions |-> restrictions],
                         [w \in DOMAIN sorted |-> w])
      left == SetToSortSeq(merged.left, <)
  IN  [ways |-> [i \in DOMAIN left |-> [sorted[left[i]] EXCEPT !.nodes = merged.nodes[left[i]]]],
       restrictions |-> merged.restrictions]

\* WriteWay(): a way with a node that is missing is left out.
WriteWays(coord, ways) ==
  LET Way(way) == [kind |-> "way", id |-> way.id, type |-> way.type, features |-> way.features,
                   ids |-> Part(coord, way).ids, nodes |-> Part(coord, way).nodes]
  IN  Map(Way, SelectSeq(ways, LAMBDA w : Resolvable(coord, w)))

RECURSIVE WayPasses(_, _, _, _)
WayPasses(raw, types, blockSize, state) ==
  LET pass == Collect(SelectSeq(raw.rawways, LAMBDA w : ~w.isArea), types, blockSize)
      OneType(s, type) ==
        LET merged == MergeWays(OfType(pass.ways, type), s.restrictions)
        IN  [wayway |-> s.wayway \o WriteWays(raw.coord, merged.ways),
             restrictions |-> merged.restrictions]
  IN  IF types = {} THEN state
      ELSE WayPasses(raw, types \ pass.types, blockSize, FoldLeft(OneType, state, Types))

\* wayway.tmp and turnrestr.dat.  Ways of a large type are not merged.  The code
\* keeps restrictions in a set of pointers and writes them by their addresses; here
\* they stay in the order of the raw file, which nothing that reads them depends on.
WayWays(raw, blockSize) ==
  LET slow == SlowTypes([t \in TypeNames |-> raw.distribution[t].ways], blockSize)
      done == WayPasses(raw, TypeNames \ slow, blockSize,
                        [wayway |-> <<>>, restrictions |-> raw.rawturnrestr])
  IN  [wayway |-> done.wayway \o WriteWays(raw.coord,
         SelectSeq(raw.rawways, LAMBDA w : ~w.isArea /\ w.type \in slow \ {"ignore"})),
       turnrestr |-> done.restrictions]

------------------------------------------------------------------------------
(* GenOptimizeAreaWayIds, GenNodeDat                                       *)

CanRoute(type) == TypeInfo[type].canRoute

\* Mutant: only ways count.
UsesByWays(areas, ways, id) ==
  Cardinality({w \in DOMAIN ways : CanRoute(ways[w].type) /\ id \in Range(ways[w].ids)})
  + Cardinality({w \in DOMAIN ways : /\ CanRoute(ways[w].type)
                                     /\ First(ways[w].ids) = id /\ Last(ways[w].ids) = id})

\* The routable rings and ways with node id; a circular way counts twice.
Uses(areas, ways, id) ==
  Cardinality({<<a, r>> \in UNION {{a} \X DOMAIN areas[a].rings : a \in DOMAIN areas} :
                 CanRoute(areas[a].rings[r].type) /\ id \in Range(areas[a].rings[r].ids)})
  + Cardinality({w \in DOMAIN ways : CanRoute(ways[w].type) /\ id \in Range(ways[w].ids)})
  + Cardinality({w \in DOMAIN ways : /\ CanRoute(ways[w].type)
                                     /\ First(ways[w].ids) = id /\ Last(ways[w].ids) = id})

\* areas2.tmp and ways.tmp: only ids that are used at least twice are kept.
OptimizeIds(areas, ways) ==
  LET Kept(ids) == [n \in DOMAIN ids |-> IF Uses(areas, ways, ids[n]) >= 2 THEN ids[n] ELSE 0]
  IN  [areas2 |-> [a \in DOMAIN areas |->
                     [areas[a] EXCEPT !.rings = [r \in DOMAIN @ |->
                        [@[r] EXCEPT !.ids = Kept(@)]]]],
       ways |-> [w \in DOMAIN ways |-> [ways[w] EXCEPT !.ids = Kept(@)]]]

\* nodes.tmp
NodeData(rawnodes) ==
  Map(LAMBDA n : [kind |-> "node", id |-> n.id, type |-> n.type, features |-> n.features,
                  point |-> n.point],
      rawnodes)

==============================================================================
