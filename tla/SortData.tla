------------------------------- MODULE SortData -------------------------------
(***************************************************************************)
(* The import's sorting (SortDat.h, SortNodeDat, SortWayDat, SortAreaDat): *)
(* nodes, ways and areas are written by the cell of the map they are in,   *)
(* without the nodes of lines that are not needed, and what has a name or  *)
(* an address gets a record for the location index.                        *)
(*                                                                         *)
(* An offset in a file is the number of its next object.  The parameters   *)
(* of the import are a record; tiles is the number of cells in a row.      *)
(* Points have coordinates below MapSize.                                  *)
(***************************************************************************)
EXTENDS ImportObjects

LOCAL INSTANCE TLC
LOCAL INSTANCE FiniteSetsExt
LOCAL INSTANCE SequencesExt

CONSTANT MapSize

ASSUME SortDataAssumption == MapSize \in Nat \ {0}

------------------------------------------------------------------------------
(* The nodes of lines and rings                                            *)

\* RemoveDuplicateNodes(): of neighbours at the same place one is enough if one
\* of them has no id.  The id that is moved to the node before comes too late:
\* that node's id has been copied.
WithoutDuplicates(line) ==
  LET Next(state, n) ==
        LET id   == IF n <= Len(state.ids) THEN state.ids[n] ELSE 0
            prev == IF n - 1 <= Len(state.ids) THEN state.ids[n - 1] ELSE 0
        IN  IF line.nodes[n] = Last(state.nodes) /\ id = 0 THEN state
            ELSE IF line.nodes[n] = Last(state.nodes) /\ prev = 0
            THEN [state EXCEPT !.ids[n - 1] = id]
            ELSE [state EXCEPT !.nodes = Append(@, line.nodes[n]),
                               !.kept = IF n <= Len(state.ids) THEN Append(@, id) ELSE @]
      last == FoldLeft(Next, [nodes |-> <<line.nodes[1]>>, ids |-> line.ids,
                              kept |-> IF line.ids = <<>> THEN <<>> ELSE <<line.ids[1]>>],
                       [n \in 1..(Len(line.nodes) - 1) |-> n + 1])
  IN  [nodes |-> last.nodes, ids |-> last.kept]

OnSegment(p, a, b) ==
  /\ a # b
  /\ (p[1] - a[1]) * (b[2] - a[2]) = (p[2] - a[2]) * (b[1] - a[1])
  /\ \A c \in {1, 2} : (a[c] <= p[c] /\ p[c] <= b[c]) \/ (b[c] <= p[c] /\ p[c] <= a[c])

\* Mutant: nodes with an id are not needed either.
WithoutRedundantIds(line) ==
  LET size == Len(line.nodes)
      Next(kept, n) ==
        IF n < size /\ OnSegment(line.nodes[n], line.nodes[Last(kept)], line.nodes[n + 1])
        THEN kept ELSE Append(kept, n)
      kept == FoldLeft(Next, <<1>>, [n \in 1..(size - 1) |-> n + 1])
  IN  IF size < 3 THEN line
      ELSE [nodes |-> [i \in DOMAIN kept |-> line.nodes[kept[i]]],
            ids |-> IF line.ids = <<>> THEN <<>> ELSE [i \in DOMAIN kept |-> line.ids[kept[i]]]]

\* RemoveRedundantNodes(): a node without id, on the way from the last node
\* kept to the next, is not needed.
WithoutRedundant(line) ==
  LET size == Len(line.nodes)
      Next(kept, n) ==
        IF /\ n < size
           /\ OnSegment(line.nodes[n], line.nodes[Last(kept)], line.nodes[n + 1])
           /\ n > Len(line.ids) \/ line.ids[n] = 0
        THEN kept ELSE Append(kept, n)
      kept == FoldLeft(Next, <<1>>, [n \in 1..(size - 1) |-> n + 1])
  IN  IF size < 3 THEN line
      ELSE [nodes |-> [i \in DOMAIN kept |-> line.nodes[kept[i]]],
            ids |-> IF line.ids = <<>> THEN <<>> ELSE [i \in DOMAIN kept |-> line.ids[kept[i]]]]

Line(object) == [nodes |-> object.nodes, ids |-> object.ids]

Reduced(object, line) == [object EXCEPT !.nodes = line.nodes, !.ids = line.ids]

\* What is left of a way, or a ring, and whether there is anything left of it.
ReducedLine(object, atLeast) ==
  LET unique == WithoutDuplicates(Line(object))
      same   == Len(unique.nodes) = Len(object.nodes)
  IN  IF object.nodes = <<>> THEN [left |-> TRUE, object |-> object]
      ELSE [left |-> same \/ Len(unique.nodes) >= atLeast,
            object |-> Reduced(object, WithoutRedundant(IF same THEN Line(object) ELSE unique))]

\* The rings of an area that are left; none if only the master ring is.
ReducedRings(rings) ==
  LET lines == Map(LAMBDA r : ReducedLine(r, 3), rings)
      left  == SelectSeq(lines, LAMBDA l : l.left)
  IN  IF \/ left = <<>>
         \/ /\ Len(left) < Len(lines) /\ Len(left) = 1
            /\ left[1].object.ring = masterRingId
      THEN <<>> ELSE Map(LAMBDA l : l.object, left)

------------------------------------------------------------------------------
(* The filters                                                             *)

Address(offset, object, features, nodes) ==
  [offset |-> offset, type |-> object.type, name |-> features.name,
   location |-> features.location, address |-> features.address, nodes |-> nodes]

\* NodeLocationProcessorFilter: an address needs a location to be written down.
NodeAddress(node, offset) ==
  LET f == node.features
      known == IF f.address # "" /\ f.location # "" THEN f
               ELSE [f EXCEPT !.location = "", !.address = ""]
  IN  IF TypeInfo[node.type].indexAsPOI /\ (f.address # "" \/ f.name # "")
      THEN <<Address(offset, node, known, <<node.point>>)>> ELSE <<>>

\* WayLocationProcessorFilter
WayAddress(way, offset) ==
  IF TypeInfo[way.type].indexAsPOI /\ way.features.name # ""
  THEN <<Address(offset, way, [way.features EXCEPT !.address = ""], way.nodes)>>
  ELSE <<>>

\* AreaLocationProcessorFilter: the master ring has a record for each outer ring.
AreaAddress(area, offset) ==
  LET Outer == SelectSeq(area.rings, LAMBDA r : r.ring = outerRingId)
      Of(ring) ==
        LET f == ring.features
        IN  IF \/ ~TypeInfo[ring.type].ignore /\ f.location # "" /\ f.address # ""
               \/ TypeInfo[ring.type].indexAsPOI /\ f.name # ""
            THEN IF ring.ring = masterRingId /\ ring.nodes = <<>>
                 THEN Map(LAMBDA r : Address(offset, ring, f, r.nodes), Outer)
                 ELSE <<Address(offset, ring, f, ring.nodes)>>
            ELSE <<>>
  IN  FlattenSeq(Map(Of, area.rings))

\* What the filters make of an object: the records, and what is saved.
Filtered(object, offset) ==
  CASE object.kind = "node" ->
         [address |-> NodeAddress(object, offset),
          saved |-> <<[object EXCEPT !.features.location = ""]>>]
    [] "rings" \notin DOMAIN object ->
         LET reduced == ReducedLine(object, 2)
         IN  [address |-> WayAddress(object, offset),
              saved |-> IF reduced.left THEN <<reduced.object>> ELSE <<>>]
    [] OTHER ->
         LET bare  == [r \in DOMAIN object.rings |->
                         [object.rings[r] EXCEPT !.features.location = ""]]
             rings == ReducedRings(bare)
         IN  [address |-> AreaAddress(object, offset),
              saved |-> IF rings = <<>> THEN <<>>
                        ELSE <<[object EXCEPT !.rings = StoredRings(rings)]>>]

\* Mutant: the offset is that of the next object.
SavedTooFar(files, object) ==
  LET f == Filtered(object, Len(files.dat) + 2)
  IN  [dat |-> files.dat \o f.saved, address |-> files.address \o f.address,
       idmap |-> files.idmap \o Map(LAMBDA o : [kind |-> o.kind, id |-> o.id,
                                                offset |-> Len(files.dat) + 1], f.saved),
       count |-> files.count + Len(f.saved)]

\* An object at the end of the file, with its entry of the id map.
Saved(files, object) ==
  LET f == Filtered(object, Len(files.dat) + 1)
  IN  [dat |-> files.dat \o f.saved, address |-> files.address \o f.address,
       idmap |-> files.idmap \o Map(LAMBDA o : [kind |-> o.kind, id |-> o.id,
                                                offset |-> Len(files.dat) + 1], f.saved),
       count |-> files.count + Len(f.saved)]

NoFiles == [dat |-> <<>>, address |-> <<>>, idmap |-> <<>>, count |-> 0]

------------------------------------------------------------------------------
(* Sorting                                                                 *)

\* GetTopLeftCoordinate()
PointsOf(object) ==
  CASE object.kind = "node"         -> {object.point}
    [] "rings" \notin DOMAIN object -> Range(object.nodes)
    [] OTHER -> UNION {Range(object.rings[r].nodes) :
                         r \in {r \in DOMAIN object.rings : object.rings[r].ring = outerRingId}}

TopLeft(object) == <<Min({p[1] : p \in PointsOf(object)}), Max({p[2] : p \in PointsOf(object)})>>

CellOf(object, tiles) ==
  LET corner == TopLeft(object)
  IN  ((corner[2] * tiles) \div MapSize) * tiles + ((corner[1] * tiles) \div MapSize)

\* Within a cell from west to east, and from north to south.
InOrder(objects) ==
  LET Before(i, k) ==
        LET a == TopLeft(objects[i])
            b == TopLeft(objects[k])
        IN  \/ a[1] < b[1]
            \/ a[1] = b[1] /\ a[2] > b[2]
            \/ a = b /\ i < k
      order == SetToSortSeq(DOMAIN objects, Before)
  IN  [i \in DOMAIN objects |-> objects[order[i]]]

InCell(stored, cell) == SelectSeq(stored, LAMBDA e : e.cell = cell)

\* Mutant: the range is not reduced.
CutKeepingRange(state, sortBlockSize) ==
  LET limit == (sortBlockSize * 9) \div 10
      upTo(c) == Len(SelectSeq(state.stored, LAMBDA e : e.cell <= c))
      cut == Min({c \in {e.cell : e \in Range(state.stored)} : upTo(c) > limit})
  IN  [state EXCEPT !.stored = SelectSeq(@, LAMBDA e : e.cell < cut)]

\* Too many objects for a block: the cells after the first that fill nine
\* tenths of it have to wait.  If the first does that alone, nothing is left
\* and the range stays as it is.
Cut(state, sortBlockSize) ==
  LET limit == (sortBlockSize * 9) \div 10
      cells == {e.cell : e \in Range(state.stored)}
      upTo(c) == Len(SelectSeq(state.stored, LAMBDA e : e.cell <= c))
      cut   == Min({c \in cells : upTo(c) > limit})
      kept  == {c \in cells : c < cut}
  IN  [stored |-> SelectSeq(state.stored, LAMBDA e : e.cell < cut),
       maxIndex |-> IF kept = {} THEN state.maxIndex ELSE Max(kept)]

\* One pass over the objects: those of the cells from minIndex on that fit.
Pass(objects, params, minIndex) ==
  LET Read(state, object) ==
        LET cell   == CellOf(object, params.tiles)
            stored == IF minIndex <= cell /\ cell <= state.maxIndex
                      THEN Append(state.stored, [cell |-> cell, object |-> object])
                      ELSE state.stored
            next   == [state EXCEPT !.stored = stored]
        IN  IF /\ Len(stored) > params.sortBlockSize
               /\ Cardinality({e.cell : e \in Range(stored)}) > 1
            THEN Cut(next, params.sortBlockSize) ELSE next
  IN  FoldLeft(Read, [stored |-> <<>>, maxIndex |-> params.tiles * params.tiles - 1], objects)

\* Renumber(): passes until the last cell has been written or nothing is found.
RECURSIVE Renumber(_, _, _, _)
Renumber(objects, params, minIndex, files) ==
  LET pass    == Pass(objects, params, minIndex)
      cells   == SetToSortSeq({e.cell : e \in Range(pass.stored)}, <)
      ordered == FlattenSeq([i \in DOMAIN cells |->
                   InOrder(Map(LAMBDA e : e.object, InCell(pass.stored, cells[i])))])
      written == FoldLeft(Saved, files, ordered)
  IN  IF pass.stored = <<>> \/ pass.maxIndex = params.tiles * params.tiles - 1 THEN written
      ELSE Renumber(objects, params, pass.maxIndex + 1, written)

\* Copy(): in the order of the file.  The count includes what was not saved.
Copy(objects) == [FoldLeft(Saved, NoFiles, objects) EXCEPT !.count = Len(objects)]

\* SortDataGenerator::Import()
Sort(objects, params) ==
  IF params.sortObjects THEN Renumber(objects, params, 0, NoFiles) ELSE Copy(objects)

==============================================================================
