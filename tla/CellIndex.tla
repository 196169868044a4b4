------------------------------ MODULE CellIndex -------------------------------
(***************************************************************************)
(* The indexes from cells of the map to the objects in them: areanode.idx, *)
(* areaway.idx and the bitmaps of waysopt.dat and areasopt.dat; and the    *)
(* tree of cells of areaarea.idx.  In those with bitmaps a type of         *)
(* objects has a level, that of the size of its cells, and a rectangle of  *)
(* cells, the bitmap, with the position of each cell's list of file        *)
(* offsets in the data section behind it, or 0.                            *)
(*                                                                         *)
(* The map is a square of 2^MaxLevel points; a cell of level l is a square *)
(* of 2^(MaxLevel - l) of them.  An object that is indexed has its file    *)
(* offset and its bounding box.                                            *)
(***************************************************************************)
EXTENDS Integers, Sequences, SequencesExt, FiniteSets, Functions

CONSTANTS ByteValues,       (* the values a byte of an encoded number can hold *)
          OffsetByteValues, (* the values a byte of a bitmap entry can hold    *)
          MaxLevel,         (* the level whose cells are single points         *)
          FirstLevel,       (* of a kind of index: the first level it tries    *)
          MinFillRate,      (* AreaNodeIndexMinFillRate, in percent            *)
          CellSizeMax, CellSizeAverage,                         (* of nodes    *)
          HighFill,         (* the ways from which on a cell has too many: 128 *)
          OptimizationCellSizeMax, OptimizationCellSizeAverage

Kinds == {"node", "way", "lowZoomWay", "lowZoomArea"}

ASSUME CellIndexAssumption ==
  /\ ByteValues \in Nat \ {0, 1} /\ OffsetByteValues \in Nat \ {0, 1}
  /\ MaxLevel \in Nat /\ FirstLevel \in [Kinds -> 0..MaxLevel]
  /\ {MinFillRate, CellSizeMax, CellSizeAverage, HighFill,
      OptimizationCellSizeMax, OptimizationCellSizeAverage} \subseteq Nat

LowZoom(kind) == kind \in {"lowZoomWay", "lowZoomArea"}

------------------------------------------------------------------------------
(* Cells and levels                                                         *)

CellWidth(level) == 2 ^ (MaxLevel - level)

ToCell(coordinate, level) == coordinate \div CellWidth(level)

BoxOf(points) ==
  LET xs == {points[i].x : i \in DOMAIN points}
      ys == {points[i].y : i \in DOMAIN points}
  IN  [left |-> Min(xs), right |-> Max(xs), bottom |-> Min(ys), top |-> Max(ys)]

BoxesMeet(a, b) ==
  a.left <= b.right /\ b.left <= a.right /\ a.bottom <= b.top /\ b.bottom <= a.top

\* The cells that the bounding box of an object covers.
CellsOf(box, level) ==
  {[x |-> x, y |-> y] : x \in ToCell(box.left, level)..ToCell(box.right, level),
                        y \in ToCell(box.bottom, level)..ToCell(box.top, level)}

\* cellFillCount: how many of the objects there are in each cell that has any.
FillCount(objects, level) ==
  [cell \in UNION {CellsOf(o.box, level) : o \in objects} |->
     Cardinality({o \in objects : cell \in CellsOf(o.box, level)})]

Total(counts) == FoldFunction(+, 0, counts)

\* The cells of the rectangle around them.
Rectangle(cells) ==
  (Max({c.x : c \in cells}) - Min({c.x : c \in cells}) + 1)
    * (Max({c.y : c \in cells}) - Min({c.y : c \in cells}) + 1)

\* A level does for nodes if the next one would leave most cells empty, or else if
\* no cell has too many nodes and the average is not too high.
NodesFit(counts) ==
  LET cells == DOMAIN counts
  IN  \/ cells = {}
      \/ 100 * Cardinality(cells) <= MinFillRate * Rectangle(cells)
      \/ /\ \A c \in cells : counts[c] <= CellSizeMax
         /\ Total(counts) <= CellSizeAverage * Cardinality(cells)

\* FitsIndexCriteria(): fewer than 5% of the cells have too many ways; what was
\* to be said of the average and of the fill rate is commented out.
WaysFit(counts) ==
  LET cells  == DOMAIN counts
      toLow  == {c \in cells : 5 * Cardinality(cells) * counts[c] < 2 * Total(counts)}
      toHigh == {c \in cells \ toLow : counts[c] > HighFill}
  IN  cells = {} \/ 20 * Cardinality(toHigh) < Cardinality(cells)

OptimizedFit(counts) ==
  LET cells == DOMAIN counts
  IN  /\ \A c \in cells : counts[c] <= OptimizationCellSizeMax
      /\ Total(counts) <= OptimizationCellSizeAverage * Cardinality(cells)

Fit(kind, counts) ==
  CASE kind = "node" -> NodesFit(counts)
    [] kind = "way"  -> WaysFit(counts)
    [] LowZoom(kind) -> OptimizedFit(counts)

\* Level after level is tried until one does.
IndexLevel(kind, objects) ==
  Min({l \in FirstLevel[kind]..MaxLevel : Fit(kind, FillCount(objects, l))})

------------------------------------------------------------------------------
(* WriteBitmap()                                                            *)

BytesFor(number, values) ==
  CHOOSE n \in 1..8 : number < values ^ n /\ (n > 1 => number >= values ^ (n - 1))

\* Mutant: column by column.
ByColumn(a, b) == a.x < b.x \/ (a.x = b.x /\ a.y < b.y)

\* Pixel::operator<: row by row.
Before(a, b) == a.y < b.y \/ (a.y = b.y /\ a.x < b.x)

\* typeCellOffsets: the cells with objects and the offsets, ascending, in each.
CellOffsets(objects, level) ==
  LET cells == SetToSortSeq(UNION {CellsOf(o.box, level) : o \in objects}, Before)
      here(cell) == {o \in objects : cell \in CellsOf(o.box, level)}
  IN  [k \in 1..Len(cells) |->
         [cell |-> cells[k], offsets |-> SetToSortSeq({o.offset : o \in here(cells[k])}, <)]]

\* The bytes of a list: their number, the first of them and the differences.
BytesOf(offsets) ==
  LET bytes[i \in 0..Len(offsets)] ==
        IF i = 0 THEN BytesFor(Len(offsets), ByteValues)
        ELSE bytes[i - 1]
             + BytesFor(offsets[i] - (IF i = 1 THEN 0 ELSE offsets[i - 1]), ByteValues)
  IN  bytes[Len(offsets)]

\* Where every list starts in the data section, and behind the last the size of it.
Starts(lists) ==
  LET start[k \in 1..(Len(lists) + 1)] ==
        IF k = 1 THEN 0 ELSE start[k - 1] + BytesOf(lists[k - 1].offsets)
  IN  start

\* A position in the data section is stored with 1 added, so that 0 means that a
\* cell is empty and nothing else; the low zoom generators leave that out.
Shift(kind) == IF LowZoom(kind) THEN 0 ELSE 1

\* dataOffsetBytes; only the index of ways takes the 1 into account.
OffsetBytes(kind, size) ==
  BytesFor(IF kind = "way" THEN size + 1 ELSE size, OffsetByteValues)

NoBitmap == [written |-> FALSE]

Bitmap(kind, objects, level) ==
  LET lists  == CellOffsets(objects, level)
      starts == Starts(lists)
      xs     == {lists[k].cell.x : k \in 1..Len(lists)}
      ys     == {lists[k].cell.y : k \in 1..Len(lists)}
      values == OffsetByteValues ^ OffsetBytes(kind, starts[Len(lists) + 1])
  IN  [written |-> TRUE, level |-> level,
       left |-> Min(xs), right |-> Max(xs), bottom |-> Min(ys), top |-> Max(ys),
       entry |-> [x \in Min(xs)..Max(xs), y \in Min(ys)..Max(ys) |->
                    LET at == {k \in 1..Len(lists) : lists[k].cell = [x |-> x, y |-> y]}
                    IN  IF at = {} THEN 0 ELSE (starts[Min(at)] + Shift(kind)) % values],
       starts |-> starts, lists |-> [k \in 1..Len(lists) |-> lists[k].offsets]]

\* The index of the objects of a type.
WriteIndex(kind, objects) ==
  IF objects = {} THEN NoBitmap ELSE Bitmap(kind, objects, IndexLevel(kind, objects))

AreaNodeBitmap(nodes)    == WriteIndex("node", nodes)
AreaWayBitmap(ways)      == WriteIndex("way", ways)
LowZoomWayBitmap(ways)   == WriteIndex("lowZoomWay", ways)
LowZoomAreaBitmap(areas) == WriteIndex("lowZoomArea", areas)

------------------------------------------------------------------------------
(* GetOffsets()                                                             *)

\* Load() gives each type the part of the map that its cells cover.
Intersects(bitmap, box) ==
  LET width == CellWidth(bitmap.level)
  IN  /\ bitmap.written
      /\ box.right >= bitmap.left * width /\ box.left < (bitmap.right + 1) * width
      /\ box.top >= bitmap.bottom * width /\ box.bottom < (bitmap.top + 1) * width

\* The lists that are read for a row: as many as entries of it are not 0, one after
\* the other from where the first of these says.
Row(kind, bitmap, columns, y) ==
  LET filled == {x \in columns : bitmap.entry[x, y] # 0}
      first  == bitmap.entry[Min(filled), y] - Shift(kind)
      at     == CHOOSE k \in 1..Len(bitmap.lists) : bitmap.starts[k] = first
  IN  IF filled = {} THEN <<>>
      ELSE SubSeq(bitmap.lists, at, Min({at + Cardinality(filled) - 1, Len(bitmap.lists)}))

Rows(kind, bitmap, box) ==
  IF ~Intersects(bitmap, box) THEN <<>>
  ELSE LET cell(coordinate) == ToCell(coordinate, bitmap.level)
           columns == Max({cell(box.left), bitmap.left})..Min({cell(box.right), bitmap.right})
           bottom  == Max({cell(box.bottom), bitmap.bottom})
           top     == Min({cell(box.top), bitmap.top})
       IN  FlattenSeq([i \in 1..(top - bottom + 1) |->
                         Row(kind, bitmap, columns, bottom + i - 1)])

\* The optimized objects have no limit.
OptimizedOffsets(kind, bitmap, box) ==
  LET lists == Rows(kind, bitmap, box) IN UNION {Range(lists[i]) : i \in DOMAIN lists}

LowZoomWayOffsets(bitmap, box)  == OptimizedOffsets("lowZoomWay", bitmap, box)
LowZoomAreaOffsets(bitmap, box) == OptimizedOffsets("lowZoomArea", bitmap, box)

Found(offsets, exceeded) == [offsets |-> offsets, exceeded |-> exceeded]

\* Reading stops at the list that might exceed the limit.
Collect(found, lists, size, limit) ==
  LET add(f, list) ==
        IF f.exceeded THEN f
        ELSE IF size + Cardinality(f.offsets) + Len(list) > limit
        THEN Found(f.offsets, TRUE)
        ELSE Found(f.offsets \union {list[i] : i \in 1..Len(list)}, FALSE)
  IN  FoldLeft(add, found, lists)

\* Mutant: what was read before the limit was met is kept.
GetOffsetsUpToLimit(kind, bitmaps, priorities, box, limit) ==
  LET addPriority(found, types) ==
        LET addType(f, type) ==
              Collect(f, Rows(kind, bitmaps[type], box), Cardinality(found.offsets), limit)
            new == FoldLeft(addType, Found({}, FALSE), SetToSortSeq(types, <))
        IN  IF found.exceeded THEN found
            ELSE Found(found.offsets \union new.offsets, new.exceeded)
  IN  FoldLeft(addPriority, Found({}, FALSE), priorities)

\* All the objects of a priority are taken, or none and no others after it.
GetOffsets(kind, bitmaps, priorities, box, limit) ==
  LET addPriority(found, types) ==
        LET addType(f, type) ==
              Collect(f, Rows(kind, bitmaps[type], box), Cardinality(found.offsets), limit)
            new == FoldLeft(addType, Found({}, FALSE), SetToSortSeq(types, <))
        IN  IF found.exceeded THEN found
            ELSE IF new.exceeded THEN Found(found.offsets, TRUE)
            ELSE Found(found.offsets \union new.offsets, FALSE)
  IN  FoldLeft(addPriority, Found({}, FALSE), priorities)

\* Every type of nodes is a priority of its own.
AreaNodeOffsets(bitmaps, types, box, limit) ==
  LET order == SetToSortSeq(types \intersect DOMAIN bitmaps, <)
  IN  GetOffsets("node", bitmaps, [i \in DOMAIN order |-> {order[i]}], box, limit).offsets

AreaWayOffsets(bitmaps, priorities, box, limit) ==
  GetOffsets("way", bitmaps, priorities, box, limit).offsets

------------------------------------------------------------------------------
(* The tree of areaarea.idx: an area is kept in one cell only, that of its *)
(* centre, at the last level whose cells are as large as the area; it may  *)
(* stick out of the cell by half of its size.  A cell of a level has the   *)
(* four cells of the next level that it is made of as children.            *)

CONSTANT AreaAreaIndexMaxMag   (* the last level of the tree *)

ASSUME AreaTreeAssumption == AreaAreaIndexMaxMag \in 0..(MaxLevel - 1)

Root == [level |-> 0, x |-> 0, y |-> 0]

Parent(cell) == [level |-> cell.level - 1, x |-> cell.x \div 2, y |-> cell.y \div 2]

\* The children in the order of the file.
\*   01
\*   23
Children(cell) ==
  LET child(dx, dy) == [level |-> cell.level + 1, x |-> 2 * cell.x + dx, y |-> 2 * cell.y + dy]
  IN  <<child(0, 1), child(1, 1), child(0, 0), child(1, 0)>>

------------------------------------------------------------------------------
(* Import()                                                                 *)

\* The highest level where the bounding box is not larger than a cell.
LevelOf(box) ==
  Max({0} \union
      {l \in 0..AreaAreaIndexMaxMag : box.right - box.left <= CellWidth(l)
                                      /\ box.top - box.bottom <= CellWidth(l)})

\* The cell that holds the centre of the box.
CellOf(box) ==
  LET level == LevelOf(box)
  IN  [level |-> level, x |-> ToCell((box.left + box.right) \div 2, level),
       y |-> ToCell((box.bottom + box.top) \div 2, level)]

\* From the last level to level 0: the cells with areas and those above them.
TreeCells(areas) ==
  LET level[l \in 0..AreaAreaIndexMaxMag] ==
        {c \in {CellOf(a.box) : a \in areas} : c.level = l}
          \union (IF l = AreaAreaIndexMaxMag THEN {} ELSE {Parent(c) : c \in level[l + 1]})
  IN  UNION {level[l] : l \in 0..AreaAreaIndexMaxMag}

\* The index file: of a cell, the children it has, and its areas.
WriteTree(areas) ==
  LET cells == TreeCells(areas)
  IN  [c \in cells |-> [children |-> SelectSeq(Children(c), LAMBDA d : d \in cells),
                        areas |-> {a \in areas : CellOf(a.box) = c}]]

------------------------------------------------------------------------------
(* GetOffsets()                                                             *)

\* Mutant: only the cells that the box itself covers.
CoversBox(cell, box) ==
  LET width == CellWidth(cell.level)
  IN  /\ cell.x * width <= box.right /\ (cell.x + 1) * width > box.left
      /\ cell.y * width <= box.top /\ (cell.y + 1) * width > box.bottom

\* Is the box within half a cell of this one?
Interferes(cell, box) ==
  LET width == CellWidth(cell.level)
      x     == cell.x * width
      y     == cell.y * width
  IN  /\ 2 * x <= 2 * box.right + width /\ 2 * y <= 2 * box.top + width
      /\ 2 * (x + width) >= 2 * box.left - width /\ 2 * (y + width) >= 2 * box.bottom - width

\* What memory that was never written may hold in the place of a cell: the offset of none.
Astray(cell) == cell @@ [astray |-> TRUE]

\* What the file has of a cell.
FileEntry(tree, cell) ==
  IF cell \in DOMAIN tree THEN tree[cell] ELSE [children |-> <<>>, areas |-> {}]

\* A cell whose read fails stays in the cache: with the children that were read up to then
\* and, for the others, 0 or what the memory held; or with all of them, and its areas up to
\* one of them, the others having type 0.  (At the last level there are no children to read;
\* an area counts as not read if its type or its offset was not.)
Unfinished(tree, cell, readable) ==
  LET entry == FileEntry(tree, cell)
      slots == Children(cell)
      first == IF cell.level < AreaAreaIndexMaxMag THEN 0 ELSE 4
      last  == IF readable THEN 4 ELSE first
      children(read, left) ==
        SelectSeq([i \in 1..4 |-> IF i <= read THEN slots[i] ELSE Astray(slots[i])],
                  LAMBDA c : c \in Range(entry.children) \union {Astray(slots[i]) : i \in left})
      areas(offset) ==
        {IF a.offset < offset THEN a ELSE [a EXCEPT !.type = 0] : a \in entry.areas}
  IN  UNION {{[children |-> children(read, left), areas |-> {}] :
                left \in SUBSET ((read + 1)..4)} : read \in first..last}
      \union {[entry EXCEPT !.areas = areas(a.offset)] :
                a \in {b \in entry.areas : readable}}

\* The entry of a cell: the one in the cache, if a read of it has failed before.
CellEntry(tree, hollow, cell) ==
  IF cell \in DOMAIN hollow THEN hollow[cell] ELSE FileEntry(tree, cell)

\* A level: the areas of its cells, unless there are too many, and the cells of the next.
ScanLevel(tree, hollow, cells, box, types, found, maxCount) ==
  LET scan(s, cell) ==
        LET entry == CellEntry(tree, hollow, cell)
        IN  IF s.stop THEN s
            ELSE IF Cardinality(found) + Cardinality(s.offsets) + Cardinality(entry.areas) >= maxCount
            THEN [s EXCEPT !.stop = TRUE, !.visited = Append(@, cell)]
            ELSE [offsets |-> s.offsets \union {a.offset : a \in {b \in entry.areas : b.type \in types}},
                  next    |-> s.next \o SelectSeq(entry.children, LAMBDA c : Interferes(c, box)),
                  visited |-> Append(s.visited, cell), stop |-> FALSE]
  IN  FoldLeft(scan, [offsets |-> {}, next |-> <<>>, visited |-> <<>>, stop |-> FALSE], cells)

\* Level by level, until there are too many areas; and the cells that are read for it.
\* Without any area there is not even the cell to begin with.
TreeOffsets(tree, hollow, box, maxLevel, types, maxCount) ==
  LET step(s, level) ==
        LET scanned == ScanLevel(tree, hollow, s.cells, box, types, s.offsets, maxCount)
        IN  IF s.stopped \/ s.cells = <<>> THEN s
            ELSE [offsets |-> IF scanned.stop THEN s.offsets ELSE s.offsets \union scanned.offsets,
                  cells   |-> scanned.next, visited |-> s.visited \o scanned.visited,
                  stopped |-> scanned.stop]
      levels == [i \in 1..(Min({maxLevel, AreaAreaIndexMaxMag}) + 1) |-> i - 1]
  IN  FoldLeft(step, [offsets |-> {}, cells |-> <<Root>>, visited |-> <<>>, stopped |-> FALSE], levels)

==============================================================================
