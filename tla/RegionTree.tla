----------------------------- MODULE RegionTree ------------------------------
(***************************************************************************)
(* What LocationIndexGenerator makes of the imported objects: the tree of  *)
(* regions, with the places that are other names of a region, the streets  *)
(* and squares (locations) of every region, their addresses, and its       *)
(* points of interest; and location.idx, to which it writes them.          *)
(*                                                                         *)
(* A name is a sequence of words, a word a number; the empty name is none. *)
(* The tree is a sequence of regions that name their children; its first   *)
(* is the root.  Objects and address records are those of the files that   *)
(* the import has sorted, in the order of the files.                       *)
(***************************************************************************)
EXTENDS Geometry

LOCAL INSTANCE TLC
LOCAL INSTANCE SequencesExt
LOCAL INSTANCE FiniteSetsExt

CONSTANTS RegionTypes, LocationTypes, POITypes,  (* what the type configuration says *)
          ShortWords,      (* the words of at most five letters                 *)
          CellSize,        (* the side of a cell of the region index            *)
          IgnoreMinimum    (* how often a word occurs that is ignored; 5 in the code *)

ASSUME RegionTreeAssumption == CellSize \in Nat \ {0} /\ IgnoreMinimum \in Nat

OuterRing == 1
Root      == 1
NoName    == <<>>

Ref(type, offset) == [type |-> type, offset |-> offset]

Mapped(s, Op(_)) == [i \in DOMAIN s |-> Op(s[i])]

------------------------------------------------------------------------------
(* The regions                                                             *)

OuterNodes(area) ==
  LET outer == SelectSeq(area.rings, LAMBDA ring : ring.ring = OuterRing)
  IN  [i \in DOMAIN outer |-> outer[i].nodes]

\* CalculateMinMax(): the box around all its areas.
Region(name, reference, areas) ==
  [name |-> name, reference |-> reference, areas |-> areas,
   box |-> IF areas = <<>> THEN <<>> ELSE GetBoundingBox(FlattenSeq(areas)),
   aliases |-> <<>>, pois |-> <<>>, locations |-> <<>>, children |-> <<>>]

RegionOf(area) == Region(area.rings[1].name, Ref("area", area.offset), OuterNodes(area))

RootRegion == <<Region(<<0>>, Ref("none", 0), <<>>)>>

\* Below the first child that has one of its areas in one of its own.
RECURSIVE AddRegion(_, _, _)
AddRegion(tree, parent, region) ==
  LET IsWithin(child) ==
        /\ BoxesMeet(region.box, tree[child].box)
        /\ \E i \in DOMAIN region.areas, j \in DOMAIN tree[child].areas :
             IsAreaSubOfArea(region.areas[i], tree[child].areas[j])
      around == SelectSeq(tree[parent].children, IsWithin)
  IN  IF around # <<>> THEN AddRegion(tree, around[1], region)
      ELSE [Append(tree, region) EXCEPT ![parent].children = Append(@, Len(tree) + 1)]

\* The named boundaries with a level.
GetBoundaryAreas(areas) ==
  SelectSeq(areas, LAMBDA a : /\ a.type = "boundary_administrative"
                              /\ a.rings[1].name # NoName /\ a.level # 0)

SortInBoundaries(tree, boundaries, level) ==
  FoldLeft(LAMBDA t, area : AddRegion(t, Root, RegionOf(area)), tree,
           SelectSeq(boundaries, LAMBDA a : a.level = level))

\* Level after level, so that a region is there before what is within it.
Boundaries(tree, areas) ==
  FoldLeft(LAMBDA t, level : SortInBoundaries(t, GetBoundaryAreas(areas), level), tree,
           [level \in 1..10 |-> level])

IndexRegionAreas(tree, areas) ==
  FoldLeft(LAMBDA t, area : AddRegion(t, Root, RegionOf(area)), tree,
           SelectSeq(areas, LAMBDA a : a.type \in RegionTypes /\ a.rings[1].name # NoName))

RECURSIVE GetRegionTreeDepth(_, _)
GetRegionTreeDepth(tree, r) ==
  1 + Max({0} \union {GetRegionTreeDepth(tree, tree[r].children[i]) : i \in DOMAIN tree[r].children})

\* The regions from r downwards, each with its level.
RECURSIVE SortInRegion(_, _, _)
SortInRegion(tree, r, level) ==
  <<[region |-> r, level |-> level]>>
    \o FlattenSeq([i \in DOMAIN tree[r].children |-> SortInRegion(tree, tree[r].children[i], level + 1)])

\* The regions of a level below the root.
OfLevel(tree, level) ==
  Mapped(SelectSeq(SortInRegion(tree, Root, 0), LAMBDA x : x.level = level), LAMBDA x : x.region)

\* Mutant: the uppermost regions first.
IndexRegionsTopDown(tree) ==
  FlattenSeq([level \in 1..(GetRegionTreeDepth(tree, Root) - 1) |-> OfLevel(tree, level)])

\* The deepest regions first, without the root.
IndexRegions(tree) ==
  LET depth == GetRegionTreeDepth(tree, Root)
  IN  FlattenSeq([k \in 1..(depth - 1) |-> OfLevel(tree, depth - k)])

Cell(x) == x \div CellSize

InCells(box, p) ==
  /\ Cell(box.minX) <= Cell(p[1]) /\ Cell(p[1]) <= Cell(box.maxX)
  /\ Cell(box.minY) <= Cell(p[2]) /\ Cell(p[2]) <= Cell(box.maxY)

IsIn(region, p) == \E i \in DOMAIN region.areas : IsCoordInArea(p, region.areas[i])

\* The first region of the index, that is one of the deepest, with the point in it.
GetRegionForNode(tree, index, p) ==
  LET found == SelectSeq(index, LAMBDA r : InCells(tree[r].box, p) /\ IsIn(tree[r], p))
  IN  IF found = <<>> THEN Root ELSE found[1]

------------------------------------------------------------------------------
(* Places, streets, addresses and points of interest                       *)

\* Another name of the innermost region around the place.
RECURSIVE AddAliasToRegion(_, _, _, _)
AddAliasToRegion(tree, r, alias, p) ==
  LET around == SelectSeq(tree[r].children, LAMBDA c : IsIn(tree[c], p))
  IN  IF around # <<>> THEN AddAliasToRegion(tree, around[1], alias, p)
      ELSE IF tree[r].name = alias.name THEN tree
      ELSE [tree EXCEPT ![r].aliases = Append(@, alias)]

IndexRegionNodes(tree, index, nodes) ==
  FoldLeft(LAMBDA t, n : AddAliasToRegion(t, GetRegionForNode(t, index, n.coord),
                                          [reference |-> n.offset, name |-> n.name], n.coord),
           tree, SelectSeq(nodes, LAMBDA n : n.type \in RegionTypes /\ n.name # NoName))

LocationIn(region, name) ==
  IF name \in DOMAIN region.locations THEN region.locations[name]
  ELSE [objects |-> <<>>, addresses |-> <<>>]

AddLocation(tree, r, name, object) ==
  LET location == LocationIn(tree[r], name)
  IN  [tree EXCEPT ![r].locations =
         name :> [location EXCEPT !.objects = Append(@, object)] @@ @]

AddPOI(tree, r, name, object) ==
  [tree EXCEPT ![r].pois = Append(@, [name |-> name, object |-> object])]

\* An address of a street that the region does not know is dropped, and so is a
\* number that the street has already.
AddAddress(tree, r, item) ==
  IF \/ item.location \notin DOMAIN tree[r].locations
     \/ \E a \in Range(tree[r].locations[item.location].addresses) : a.name = item.name
  THEN tree
  ELSE [tree EXCEPT ![r].locations[item.location].addresses =
          Append(@, [name |-> item.name, object |-> item.object])]

AddItem(tree, r, item) ==
  CASE item.what = "location" -> AddLocation(tree, r, item.name, item.object)
    [] item.what = "poi"      -> AddPOI(tree, r, item.name, item.object)
    [] item.what = "address"  -> AddAddress(tree, r, item)

\* An area is asked for its first node only, a way for all.
Touches(item, area) ==
  IF item.object.type = "area" THEN IsCoordInArea(item.nodes[1], area)
  ELSE IsAreaAtLeastPartlyInArea(item.nodes, area)

\* To every region that touches it, from the bottom upwards, until one has it
\* completely in one of its areas; once for each of its areas that touches it.
RECURSIVE AddWhereItTouches(_, _, _)
AddWhereItTouches(tree, r, item) ==
  LET children == tree[r].children
      tries == FlattenSeq([i \in DOMAIN children |->
                 [k \in DOMAIN tree[children[i]].areas |-> [child |-> children[i], area |-> k]]])
      Try(state, try) ==
        IF /\ ~state.complete
           /\ BoxesMeet(GetBoundingBox(item.nodes), tree[try.child].box)
           /\ Touches(item, tree[try.child].areas[try.area])
        THEN AddWhereItTouches(state.tree, try.child, item) ELSE state
      below == FoldLeft(Try, [tree |-> tree, complete |-> FALSE], tries)
  IN  IF below.complete THEN below
      ELSE [tree |-> AddItem(below.tree, r, item),
            complete |-> \E k \in DOMAIN tree[r].areas : IsAreaCompletelyInArea(item.nodes, tree[r].areas[k])]

\* To the innermost region that has it completely in one of its areas, or to r.
RECURSIVE AddWhereItLies(_, _, _)
AddWhereItLies(tree, r, item) ==
  LET HasIt(child) ==
        /\ BoxesMeet(GetBoundingBox(item.nodes), tree[child].box)
        /\ \E k \in DOMAIN tree[child].areas : IsAreaCompletelyInArea(item.nodes, tree[child].areas[k])
      around == SelectSeq(tree[r].children, HasIt)
  IN  IF around # <<>> THEN AddWhereItLies(tree, around[1], item) ELSE AddItem(tree, r, item)

\* The search starts at the region with the corner of the object's box.
RegionOfBox(tree, index, nodes) ==
  LET box == GetBoundingBox(nodes) IN GetRegionForNode(tree, index, <<box.minX, box.minY>>)

Item(what, object, name, nodes) == [what |-> what, object |-> object, name |-> name, nodes |-> nodes]

\* A master ring without nodes stands for all outer rings.
AddLocationAreaToRegion(tree, index, area, ring) ==
  LET parts == IF ring.nodes = <<>> THEN OuterNodes(area) ELSE <<ring.nodes>>
  IN  FoldLeft(LAMBDA t, nodes :
                 AddWhereItTouches(t, RegionOfBox(t, index, nodes),
                                   Item("location", Ref("area", area.offset), ring.name, nodes)).tree,
               tree, parts)

IndexLocationAreas(tree, index, areas) ==
  LET AddRings(t, area) ==
        FoldLeft(LAMBDA u, ring : AddLocationAreaToRegion(u, index, area, ring), t,
                 SelectSeq(area.rings, LAMBDA ring : ring.type \in LocationTypes /\ ring.name # NoName))
  IN  FoldLeft(AddRings, tree, areas)

AddLocationWayToRegion(tree, r, way) ==
  AddWhereItTouches(tree, r, Item("location", Ref("way", way.offset), way.name, way.nodes)).tree

IndexLocationWays(tree, index, ways) ==
  FoldLeft(LAMBDA t, w : AddLocationWayToRegion(t, RegionOfBox(t, index, w.nodes), w), tree,
           SelectSeq(ways, LAMBDA w : w.type \in LocationTypes /\ w.name # NoName))

IsAddress(x) == x.location # NoName /\ x.address # NoName
IsPOI(x)     == x.name # NoName /\ x.type \in POITypes

AddressItem(x, type) ==
  [what |-> "address", object |-> Ref(type, x.offset), name |-> x.address, location |-> x.location,
   nodes |-> x.nodes]

AddAddressAreaToRegion(tree, r, x) == AddWhereItLies(tree, r, AddressItem(x, "area"))

AddPOIAreaToRegion(tree, r, x) ==
  AddWhereItLies(tree, r, Item("poi", Ref("area", x.offset), x.name, x.nodes))

IndexAddressAreas(tree, index, records) ==
  LET Add(t, x) ==
        LET r == RegionOfBox(t, index, x.nodes)
            u == IF IsAddress(x) THEN AddAddressAreaToRegion(t, r, x) ELSE t
        IN  IF IsPOI(x) THEN AddPOIAreaToRegion(u, r, x) ELSE u
  IN  FoldLeft(Add, tree, records)

AddPOIWayToRegion(tree, r, x) ==
  AddWhereItTouches(tree, r, Item("poi", Ref("way", x.offset), x.name, x.nodes)).tree

\* The addresses of ways are not looked at.
IndexAddressWays(tree, index, records) ==
  FoldLeft(LAMBDA t, x : AddPOIWayToRegion(t, RegionOfBox(t, index, x.nodes), x), tree,
           SelectSeq(records, IsPOI))

\* The region with the node gets it, without looking further.
AddAddressNodeToRegion(tree, r, x) == AddAddress(tree, r, AddressItem(x, "node"))

AddPOINodeToRegion(tree, r, x) == AddPOI(tree, r, x.name, Ref("node", x.offset))

IndexAddressNodes(tree, index, records) ==
  LET Add(t, x) ==
        LET r == GetRegionForNode(t, index, x.nodes[1])
            u == IF IsAddress(x) THEN AddAddressNodeToRegion(t, r, x) ELSE t
        IN  IF IsPOI(x) THEN AddPOINodeToRegion(u, r, x) ELSE u
  IN  FoldLeft(Add, tree, records)

------------------------------------------------------------------------------
(* Words that are ignored                                                  *)

\* The short words of a name of several words, and each with the word before it.
TokensOf(name) ==
  LET At(i) == (IF name[i] \in ShortWords THEN <<<<name[i]>>>> ELSE <<>>)
                 \o (IF i < Len(name) /\ name[i + 1] \in ShortWords THEN <<<<name[i], name[i + 1]>>>> ELSE <<>>)
  IN  IF Len(name) > 1 THEN FlattenSeq([i \in DOMAIN name |-> At(i)]) ELSE <<>>

\* What occurs often and is not the whole of a name of one word.
IgnoreTokens(names) ==
  LET all   == FlattenSeq(Mapped(names, TokensOf))
      limit == Max({IgnoreMinimum, Cardinality(Range(all)) \div 100})
      Often(t) == Cardinality({i \in DOMAIN all : all[i] = t}) >= limit
  IN  {t \in Range(all) : Often(t) /\ ~(Len(t) = 1 /\ t \in Range(names))}

RegionNames(tree) ==
  FlattenSeq([r \in DOMAIN tree |-> <<tree[r].name>> \o Mapped(tree[r].aliases, LAMBDA a : a.name)])

LocationNames(tree) ==
  FlattenSeq([r \in DOMAIN tree |-> Mapped(tree[r].pois, LAMBDA p : p.name)
                                      \o SetToSeq(DOMAIN tree[r].locations)])

------------------------------------------------------------------------------
\* The tree of a map, as it is when it is written.
TreeOf(map) ==
  LET regions   == IndexRegionAreas(Boundaries(RootRegion, map.areas), map.areas)
      index     == IndexRegions(regions)
      places    == IndexRegionNodes(regions, index, map.nodes)
      squares   == IndexLocationAreas(places, index, map.areas)
      streets   == IndexLocationWays(squares, index, map.ways)
      areas     == IndexAddressAreas(streets, index, map.areaAddresses)
      ways      == IndexAddressWays(areas, index, map.wayAddresses)
  IN  IndexAddressNodes(ways, index, map.nodeAddresses)

------------------------------------------------------------------------------
(* location.idx                                                            *)
(*                                                                         *)
(* The file is a sequence of blocks, and the offset of a block is its      *)
(* place less one; the header is at offset 0, behind it the tree (in front *)
(* of every region a slot with the offset behind what is below it), then   *)
(* the data of the regions, then the addresses.  Two slots are filled in   *)
(* later: a region's offset of its data, and a location's offset of its    *)
(* addresses.  A location is known by the block and its place in it, and   *)
(* so is an address.                                                       *)

None == 0

BlockAt(file, offset) == file[offset + 1]

Entry(region, parent) ==
  [block |-> "region", data |-> None, parent |-> parent, name |-> region.name,
   object |-> region.reference, aliases |-> region.aliases, children |-> Len(region.children)]

\* How out, a record of the file and of where each region was written, goes on with
\* the regions in a sequence, each behind its slot.
RECURSIVE WriteRegionIndexEntry(_, _, _, _)
WriteChildren(out, tree, children, parent) ==
  LET Child(o, c) ==
        LET slot  == Len(o.file) + 1
            below == WriteRegionIndexEntry([o EXCEPT !.file = Append(@, [block |-> "slot", next |-> None])],
                                           tree, c, parent)
        IN  [below EXCEPT !.file[slot].next = Len(below.file)]
  IN  FoldLeft(Child, out, children)

WriteRegionIndexEntry(out, tree, r, parent) ==
  LET at == Len(out.file)
  IN  WriteChildren([file |-> Append(out.file, Entry(tree[r], parent)), at |-> out.at @@ (r :> at)],
                    tree, tree[r].children, at)

\* The root itself is not written, only how many regions are directly below it: it
\* has no offset, and none is what their parent is.
WriteRegionIndex(file, tree) ==
  WriteChildren([file |-> Append(file, [block |-> "root", children |-> Len(tree[Root].children)]),
                 at |-> <<>>],
                tree, tree[Root].children, None)

Before(a, b) ==
  \E i \in 1..(Len(b)) :
    /\ i - 1 <= Len(a) /\ SubSeq(a, 1, i - 1) = SubSeq(b, 1, i - 1)
    /\ i > Len(a) \/ a[i] < b[i]

\* In the order of their names.
LocationNamesOf(region) == SortSeq(SetToSeq(DOMAIN region.locations), Before)

LocationData(region) ==
  Mapped(LocationNamesOf(region), LAMBDA name :
    [name |-> name, addresses |-> None,
     objects |-> SortSeq(region.locations[name].objects, LAMBDA a, b : a.offset < b.offset)])

RegionData(region) ==
  [block |-> "data", pois |-> SortSeq(region.pois, LAMBDA a, b : a.object.offset < b.object.offset),
   locations |-> LocationData(region)]

RECURSIVE WriteRegionDataEntry(_, _, _)
WriteRegionDataEntry(out, tree, r) ==
  LET data == Len(out.file)
      written == [out EXCEPT !.file = [Append(@, RegionData(tree[r])) EXCEPT ![out.at[r] + 1].data = data]]
  IN  FoldLeft(LAMBDA o, c : WriteRegionDataEntry(o, tree, c), written, tree[r].children)

WriteRegionData(out, tree) ==
  FoldLeft(LAMBDA o, c : WriteRegionDataEntry(o, tree, c), out, tree[Root].children)

RECURSIVE WriteAddressDataEntry(_, _, _)
WriteAddressDataEntry(out, tree, r) ==
  LET names == LocationNamesOf(tree[r])
      data  == BlockAt(out.file, out.at[r]).data
      Addresses(o, i) ==
        LET all == tree[r].locations[names[i]].addresses
            block == [block |-> "addresses",
                      addresses |-> SortSeq(all, LAMBDA a, b : a.object.offset < b.object.offset)]
        IN  IF all = <<>> THEN o
            ELSE [o EXCEPT !.file = [Append(@, block)
                                       EXCEPT ![data + 1].locations[i].addresses = Len(o.file)]]
      written == FoldLeft(Addresses, out, [i \in DOMAIN names |-> i])
  IN  FoldLeft(LAMBDA o, c : WriteAddressDataEntry(o, tree, c), written, tree[r].children)

WriteAddressData(out, tree) ==
  FoldLeft(LAMBDA o, c : WriteAddressDataEntry(o, tree, c), out, tree[Root].children)

Header(tree) ==
  [block |-> "header", regionIgnoreTokens |-> IgnoreTokens(RegionNames(tree)),
   locationIgnoreTokens |-> IgnoreTokens(LocationNames(tree))]

\* LocationIndexGenerator::Import()
FileOf(tree) ==
  WriteAddressData(WriteRegionData(WriteRegionIndex(<<Header(tree)>>, tree), tree), tree).file

==============================================================================
