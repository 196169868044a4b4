------------------------------- MODULE RawData -------------------------------
(***************************************************************************)
(* The first steps of the import: Preprocess turns the elements of the     *)
(* OSM files, in the order they come, into raw nodes, ways, coastlines,    *)
(* turn restrictions and relations, the coordinates of all nodes, and      *)
(* how many objects there are of each type.                                *)
(*                                                                         *)
(* What the type configuration makes of the tags of an element is part of  *)
(* the element: the node type, the way and the area type, the relation     *)
(* type.  Type "ignore" is the one without index.  A page of coordinates   *)
(* is a function from the slots that are set.                              *)
(***************************************************************************)
EXTENDS Naturals, Sequences, FiniteSets

LOCAL INSTANCE TLC
LOCAL INSTANCE SequencesExt

CONSTANTS
  Types,         (* the sequence of type names, in the order of their index *)
  TypeInfo,      (* name -> what the type configuration says of the type   *)
  CoordPageSize  (* coordinates on a page of coord.dat                     *)

ASSUME RawDataAssumption ==
  /\ CoordPageSize \in Nat \ {0}
  /\ Types # <<>> /\ Types[1] = "ignore"
  /\ DOMAIN TypeInfo = {Types[i] : i \in DOMAIN Types}

TypeNames == DOMAIN TypeInfo

\* The type an object gets: one that is to be ignored is no type.
KnownType(type) == IF TypeInfo[type].ignore THEN "ignore" ELSE type

\* The feature values the import looks at.  The value of the access feature, if
\* there is one, is a set of flags: a vehicle with a direction it may take, or
\* "oneway" with the direction of the one-way street.
NoFeatures == [name |-> "", location |-> "", address |-> "", access |-> <<>>, restricted |-> FALSE]

\* RawWay::IsOneway()
IsOneway(way) ==
  \E d \in {"forward", "backward"} : <<"oneway", d>> \in UNION {a : a \in Range(way.features.access)}

First(s) == s[1]
Closed(nodes) == Len(nodes) > 3 /\ First(nodes) = Last(nodes)

------------------------------------------------------------------------------
(* The coordinates                                                         *)

(* Before the first page the current one has the greatest number there is.  *)
NoPage == 2147483647

\* coord.dat while it is written: the pages on disk, the offsets of pages, and
\* the page in memory.  Page 0 of the file is the header.
EmptyCoord ==
  [file |-> <<>>, index |-> <<>>, pageCount |-> 1,
   currentPageId |-> NoPage, currentPageOffset |-> 0, coords |-> <<>>]

StoreCurrentPage(store) ==
  [store EXCEPT !.file = (store.currentPageOffset :> store.coords) @@ @,
                !.currentPageId = NoPage]

\* A coordinate for the page in memory, for a new page, or for one already written.
StoreCoord(store, id, point) ==
  LET pageId == id \div CoordPageSize
      set    == (id % CoordPageSize) :> point
      saved  == IF store.currentPageId = NoPage THEN store ELSE StoreCurrentPage(store)
  IN  IF store.currentPageId = pageId
      THEN [store EXCEPT !.coords = set @@ @]
      ELSE IF pageId \notin DOMAIN saved.index
      THEN [saved EXCEPT !.coords = set,
                         !.currentPageId = pageId,
                         !.currentPageOffset = saved.pageCount,
                         !.index = (pageId :> saved.pageCount) @@ @,
                         !.pageCount = @ + 1]
      ELSE [saved EXCEPT !.file[saved.index[pageId]] = set @@ @]

\* Mutant: the last page is never stored.
CloseCoordKeepingPage(store) == [file |-> store.file, index |-> store.index]

\* Cleanup(): the page in memory, unless it is page 0, and the offsets.
CloseCoord(store) ==
  LET saved == IF store.currentPageId = 0 THEN store ELSE StoreCurrentPage(store)
  IN  [file |-> saved.file, index |-> saved.index]

\* CoordDataFile::Get() of one id: whether it is there, and with which
\* substitute id and where.
HasCoord(coord, id) ==
  LET pageId == id \div CoordPageSize
  IN  /\ pageId \in DOMAIN coord.index
      /\ coord.index[pageId] \in DOMAIN coord.file
      /\ (id % CoordPageSize) \in DOMAIN coord.file[coord.index[pageId]]

\* Slots are counted from the end of the header, so the very first has no number.
SubstituteId(coord, id) ==
  (coord.index[id \div CoordPageSize] - 1) * CoordPageSize + (id % CoordPageSize)

CoordOf(coord, id) == coord.file[coord.index[id \div CoordPageSize]][id % CoordPageSize]

------------------------------------------------------------------------------
(* Elements                                                                *)

\* ProcessWay(): is it an area, by the tag area, by the types it has, or by its form?
IsArea(way) ==
  LET noWay  == way.wayType = "ignore"
      noArea == way.areaType = "ignore"
      round  == Closed(way.nodes)
  IN  CASE way.area = "yes" /\ ~noArea -> TRUE
        [] way.area = "no" /\ ~noWay   -> FALSE
        [] noWay /\ noArea             -> round
        [] noWay # noArea              -> noWay
        [] OTHER                       -> round /\ ~TypeInfo[way.wayType].pinWay

\* The raw way: an area does not repeat its first node.
RawWay(way) ==
  [id |-> way.id, type |-> KnownType(IF IsArea(way) THEN way.areaType ELSE way.wayType),
   isArea |-> IsArea(way),
   nodes |-> IF IsArea(way) /\ Closed(way.nodes) THEN Front(way.nodes) ELSE way.nodes,
   features |-> way.features]

\* A coastline is an area if it is closed or declared to be one.
RawCoastline(way) ==
  [id |-> way.id,
   isArea |-> Closed(way.nodes) \/ (Len(way.nodes) > 3 /\ way.area = "yes"),
   nodes |-> RawWay(way).nodes]

\* The last of the members that come in a role until all three are there.
MemberInRole(relation, type, role) ==
  LET in == {i \in DOMAIN relation.members :
               relation.members[i].type = type /\ relation.members[i].role = role}
      complete(n) == \A r \in {<<"way", "from">>, <<"node", "via">>, <<"way", "to">>} :
                       \E i \in 1..n : relation.members[i].type = r[1]
                                         /\ relation.members[i].role = r[2]
      seen == {i \in in : ~complete(i - 1)}
  IN  IF in = {} THEN 0
      ELSE relation.members[CHOOSE i \in seen : \A k \in seen : k <= i].id

\* ProcessTurnRestriction(): only restrictions with all three members are kept.
RawTurnRestriction(relation) ==
  [type |-> relation.restriction,
   from |-> MemberInRole(relation, "way", "from"),
   via  |-> MemberInRole(relation, "node", "via"),
   to   |-> MemberInRole(relation, "way", "to")]

IsTurnRestriction(relation) ==
  /\ relation.restriction # "none"
  /\ \A member \in {"from", "via", "to"} : RawTurnRestriction(relation)[member] # 0

\* An ignored type keeps a relation from being an area, whatever its tag type says.
IsMultipolygon(relation) ==
  IF relation.type = "ignore" THEN relation.multipolygon
  ELSE /\ ~TypeInfo[relation.type].ignore
       /\ TypeInfo[relation.type].multipolygon \/ relation.multipolygon

RawRelation(relation) ==
  [id |-> relation.id, type |-> relation.type, members |-> relation.members,
   features |-> relation.features]

------------------------------------------------------------------------------
(* Preprocess                                                              *)

OfKind(elements, kind) == SelectSeq(elements, LAMBDA e : e.kind = kind)

\* Ways of fewer than two nodes and relations without members are left out.
NodesOf(elements)     == OfKind(elements, "node")
WaysOf(elements)      == SelectSeq(OfKind(elements, "way"), LAMBDA w : Len(w.nodes) >= 2)
RelationsOf(elements) == SelectSeq(OfKind(elements, "relation"), LAMBDA r : r.members # <<>>)

Map(Op(_), s) == [i \in DOMAIN s |-> Op(s[i])]

\* Elements must come by increasing id, in all files together.  A way that is left
\* out does not count; a relation that is must only not come too late itself.
Sorted(elements) ==
  \A kind \in {"node", "way", "relation"} :
    LET s == IF kind = "way" THEN WaysOf(elements) ELSE OfKind(elements, kind)
    IN  \A i, k \in DOMAIN s :
          i < k /\ (kind = "relation" => s[i].members # <<>>) => s[i].id <= s[k].id

\* distribution.dat counts by the type of the element.
Distribution(elements) ==
  [t \in TypeNames |->
     [nodes |-> Len(SelectSeq(NodesOf(elements), LAMBDA n : n.type = t)),
      ways  |-> Len(SelectSeq(WaysOf(elements), LAMBDA w : ~IsArea(w) /\ w.wayType = t)),
      areas |-> Len(SelectSeq(WaysOf(elements), LAMBDA w : IsArea(w) /\ w.areaType = t))
                + Len(SelectSeq(RelationsOf(elements),
                                LAMBDA r : IsMultipolygon(r) /\ r.type = t))]]

\* The box of all nodes.
BoundingBox(elements) ==
  LET nodes == NodesOf(elements)
      Least(c)    == CHOOSE x \in {nodes[i].point[c] : i \in DOMAIN nodes} :
                       \A i \in DOMAIN nodes : x <= nodes[i].point[c]
      Greatest(c) == CHOOSE x \in {nodes[i].point[c] : i \in DOMAIN nodes} :
                       \A i \in DOMAIN nodes : nodes[i].point[c] <= x
  IN  [min |-> <<Least(1), Least(2)>>, max |-> <<Greatest(1), Greatest(2)>>]

\* Mutant: coordinates only of nodes that have a type.
CoordinatesTyped(elements) ==
  CloseCoord(FoldLeft(LAMBDA store, n : IF n.type = "ignore" THEN store
                                        ELSE StoreCoord(store, n.id, n.point),
                      EmptyCoord, NodesOf(elements)))

Coordinates(elements) ==
  CloseCoord(FoldLeft(LAMBDA store, n : StoreCoord(store, n.id, n.point),
                      EmptyCoord, NodesOf(elements)))

\* The files of Preprocess; elements that are not sorted make it fail.
Preprocess(elements) ==
  [rawnodes |-> SelectSeq(NodesOf(elements), LAMBDA n : KnownType(n.type) # "ignore"),
   rawways |-> Map(RawWay, WaysOf(elements)),
   rawcoastline |-> Map(RawCoastline, SelectSeq(WaysOf(elements), LAMBDA w : w.coastline)),
   rawturnrestr |-> Map(RawTurnRestriction,
                        SelectSeq(RelationsOf(elements), IsTurnRestriction)),
   rawrels |-> Map(RawRelation, SelectSeq(RelationsOf(elements), IsMultipolygon)),
   coord |-> Coordinates(elements),
   distribution |-> Distribution(elements),
   bounding |-> BoundingBox(elements)]

==============================================================================
