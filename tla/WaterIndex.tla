------------------------------ MODULE WaterIndex ------------------------------
(***************************************************************************)
(* Land and water: GenWaterIndex.cpp makes of the coastlines, which have   *)
(* the land on their left, an index of cells that are land, water, coast   *)
(* or unknown, with polygons of land in the cells of the coast; and        *)
(* WaterIndex reads it.                                                    *)
(*                                                                         *)
(* A point is the pair of its longitude and its latitude, in units that    *)
(* are finer than those of the map.  The world is a square of WorldWidth   *)
(* of them.  Where a coastline crosses the border of a cell it crosses it  *)
(* at such a point, and never in a corner.                                 *)
(***************************************************************************)
EXTENDS CellIndex

CONSTANTS WorldWidth,
          PointWidth,        (* of a point of the map                          *)
          WaterIndexMinMag, WaterIndexMaxMag,
          MagnificationGap,  (* levels from the map's to the index's: 4        *)
          FillRounds,        (* of FillWater(): 20                             *)
          GroundPixel,       (* the width of a pixel on a level of the index   *)
          IgnoreSeaLand      (* the types of ways that do not tell land: ferries *)

ASSUME WaterIndexAssumption ==
  /\ {WorldWidth, PointWidth} \subseteq Nat \ {0}
  /\ {WaterIndexMinMag, WaterIndexMaxMag, MagnificationGap, FillRounds} \subseteq Nat
  /\ GroundPixel \in [WaterIndexMinMag..WaterIndexMaxMag -> Nat \ {0}]

G == INSTANCE Geometry

\* The elements of a large set in their order.
Ordered(set, before(_, _)) == SortSeq(FoldSet(LAMBDA e, seq : Append(seq, e), <<>>, set), before)

------------------------------------------------------------------------------
(* Coastlines                                                               *)

\* The node of a coastline is known by where it is.  One with a node that was not found in the
\* data is dropped.
LoadCoastlines(raw, lost) ==
  LET resolved == SelectSeq(raw, LAMBDA c : Range(c.nodes) \intersect lost = {})
  IN  [i \in DOMAIN resolved |->
         [isArea |-> resolved[i].isArea, coast |-> resolved[i].nodes,
          front |-> Head(resolved[i].nodes), back |-> Last(resolved[i].nodes)]]

\* The lines are gone through again and again, each taking in the one that starts where it
\* ends.  Of the lines that start at a node only the first can be found.
TakeIn(m, i) ==
  LET next == {j \in m.starts \ {i} : m.lines[j].front = m.lines[i].back}
  IN  IF i \in m.gone \/ next = {} THEN m
      ELSE LET j == CHOOSE n \in next : TRUE
           IN  [lines  |-> [m.lines EXCEPT ![i].back = m.lines[j].back,
                                           ![i].coast = @ \o Tail(m.lines[j].coast)],
                starts |-> m.starts \ {j}, gone |-> m.gone \union {j}]

RECURSIVE TakeInAll(_)
TakeInAll(m) ==
  LET once == FoldLeft(TakeIn, m, [i \in DOMAIN m.lines |-> i])
  IN  IF once = m THEN m ELSE TakeInAll(once)

\* A line that ends where it starts is an area, which does not repeat the node.
Closed(line) ==
  IF line.front = line.back THEN [isArea |-> TRUE, coast |-> Front(line.coast)]
  ELSE [isArea |-> FALSE, coast |-> line.coast]

MergeCoastlines(coastlines) ==
  LET lines  == SelectSeq(coastlines, LAMBDA c : ~c.isArea)
      areas  == SelectSeq(coastlines, LAMBDA c : c.isArea)
      merged == TakeInAll([lines  |-> lines, gone |-> {},
                           starts |-> {i \in DOMAIN lines :
                                         \A j \in 1..(i - 1) : lines[j].front # lines[i].front}])
      left   == SelectSeq([i \in DOMAIN lines |-> i], LAMBDA i : i \notin merged.gone)
  IN  [i \in DOMAIN areas |-> [isArea |-> TRUE, coast |-> areas[i].coast]]
        \o [i \in DOMAIN left |-> Closed(merged.lines[left[i]])]

------------------------------------------------------------------------------
(* Cells and their borders                                                  *)

GroundWidth(level) == WorldWidth \div 2 ^ level

GroundCell(p, level) == [x |-> p[1] \div GroundWidth(level), y |-> p[2] \div GroundWidth(level)]

CellsBetween(a, b) ==
  {[x |-> x, y |-> y] : x \in Min({a.x, b.x})..Max({a.x, b.x}), y \in Min({a.y, b.y})..Max({a.y, b.y})}

\* Level::SetBox(): the cells of the box around the map.
LevelCells(bounds, level) == CellsBetween(GroundCell(bounds.min, level), GroundCell(bounds.max, level))

CornerOf(cell, level, corner) ==
  <<(cell.x + (IF corner \in {1, 2} THEN 1 ELSE 0)) * GroundWidth(level),
    (cell.y + (IF corner \in {0, 1} THEN 1 ELSE 0)) * GroundWidth(level)>>

\* Top left, top right, bottom right and bottom left: border i goes from corner i to the next.
Borders == 0..3

\* The cell on the other side of a border.
Beyond(cell, border) ==
  [x |-> CASE border = 1 -> cell.x + 1 [] border = 3 -> cell.x - 1 [] OTHER -> cell.x,
   y |-> CASE border = 0 -> cell.y + 1 [] border = 2 -> cell.y - 1 [] OTHER -> cell.y]

Absolute(n) == IF n < 0 THEN -n ELSE n

LineIntersection(a1, a2, b1, b2) ==
  LET p == G!Positions(a1, a2, b1, b2)
      at(i) == a1[i] + ((Absolute(p.onA) * (a2[i] - a1[i])) \div Absolute(p.whole))
  IN  <<at(1), at(2)>>

CrossesBorder(a, b, cell, level, border) ==
  G!LinesIntersect(a, b, CornerOf(cell, level, border), CornerOf(cell, level, (border + 1) % 4))

CellsOfSegment(a, b, level) ==
  LET from == GroundCell(a, level)
      to   == GroundCell(b, level)
  IN  IF from = to THEN {from}
      ELSE {c \in CellsBetween(from, to) :
              c = from \/ \E border \in Borders : CrossesBorder(a, b, c, level, border)}

\* GetCells()
CellsOfPath(points, level) ==
  UNION {CellsOfSegment(points[p], points[p + 1], level) : p \in 1..(Len(points) - 1)}

MarkCoastlineCells(coastlines, level, states) ==
  LET marked == UNION {CellsOfPath(coastlines[c].coast, level) : c \in DOMAIN coastlines}
  IN  [c \in DOMAIN states |-> IF states[c] = "unknown" /\ c \in marked THEN "coast" ELSE states[c]]

------------------------------------------------------------------------------
(* Where a coastline crosses the borders of a cell                          *)

DistanceSquare(a, b) == (a[1] - b[1]) * (a[1] - b[1]) + (a[2] - b[2]) * (a[2] - b[2])

Crossing(k, points, p, cell, level, border) ==
  LET at == LineIntersection(points[p], points[p + 1],
                             CornerOf(cell, level, border), CornerOf(cell, level, (border + 1) % 4))
  IN  [coastline |-> k, prev |-> p, point |-> at, distance |-> DistanceSquare(points[p], at),
       border |-> border]

Directed(crossing, direction) == crossing @@ [direction |-> direction]

\* One crossing leaves the cell of the segment's start or enters that of its end; of two the
\* nearer one enters.
SegmentCrossings(k, points, p, cell, level) ==
  LET borders == SetToSortSeq({border \in Borders :
                                 CrossesBorder(points[p], points[p + 1], cell, level, border)}, <)
      crossing(i) == Crossing(k, points, p, cell, level, borders[i])
      nearer == IF crossing(1).distance <= crossing(2).distance THEN 1 ELSE 2
  IN  IF borders = <<>> THEN {}
      ELSE IF Len(borders) = 1
      THEN {Directed(crossing(1), IF cell = GroundCell(points[p], level) THEN -1
                                  ELSE IF cell = GroundCell(points[p + 1], level) THEN 1 ELSE 0)}
      ELSE {Directed(crossing(nearer), 1), Directed(crossing(3 - nearer), -1)}

\* GetCellIntersections(): of one coastline, with the cells they are of.
CellIntersections(k, points, cells, level) ==
  UNION {UNION {{<<c, i>> : i \in SegmentCrossings(k, points, p, c, level)} :
                  c \in {d \in cells : d \in CellsBetween(GroundCell(points[p], level),
                                                          GroundCell(points[p + 1], level))
                                       /\ GroundCell(points[p], level) # GroundCell(points[p + 1], level)}} :
           p \in 1..(Len(points) - 1)}

\* GetCoastlineData(): areas get their first point again at the end.
CoastlineData(coastlines, cells, level) ==
  [k \in DOMAIN coastlines |->
     LET coast    == coastlines[k].coast
         box      == G!GetBoundingBox(coast)
         points   == IF coastlines[k].isArea THEN Append(coast, Head(coast)) ELSE coast
         cell     == GroundCell(<<box.minX, box.minY>>, level)
         complete == cell = GroundCell(<<box.maxX, box.maxY>>, level)
     IN  [isArea |-> coastlines[k].isArea, points |-> points, complete |-> complete, cell |-> cell,
          pixels |-> Min({box.maxX - box.minX, box.maxY - box.minY}) \div GroundPixel[level],
          intersections |-> IF complete THEN {} ELSE CellIntersections(k, points, cells, level)]]

\* HandleAreaCoastlinesCompletelyInACell(): all of the area, unless it is too small to be seen.
AreasWithin(data, cell) ==
  LET areas == SelectSeq(data, LAMBDA c : c.isArea /\ c.complete /\ c.pixels >= 1 /\ c.cell = cell)
  IN  [i \in DOMAIN areas |-> areas[i].points]

------------------------------------------------------------------------------
(* The land in a cell: along a coastline from where it leaves the cell back *)
(* to where it came in, clockwise along the border to the next that leaves  *)

ByPath(a, b) == a.prev < b.prev \/ (a.prev = b.prev /\ a.distance < b.distance)

\* How far along its border a point is, clockwise.
Along(border, p) == CASE border = 0 -> p[1] [] border = 1 -> -p[2] [] border = 2 -> -p[1] [] border = 3 -> p[2]

ClockWise(a, b) ==
  \/ a.border < b.border
  \/ a.border = b.border /\ Along(a.border, a.point) < Along(b.border, b.point)

IsLeftOnSameBorder(border, a, b) == Along(border, b) >= Along(border, a)

PathFromItsStart(data, k, cell) ==
  Ordered({ci[2] : ci \in {d \in data[k].intersections : d[1] = cell}}, ByPath)

\* The intersections of a coastline with a cell in the order of its path.  An area that starts
\* in the cell leaves it first: that is put last.
PathOrder(data, k, cell) ==
  LET path == PathFromItsStart(data, k, cell)
  IN  IF path # <<>> /\ data[k].isArea /\ path[1].direction = -1 THEN Append(Tail(path), path[1])
      ELSE path

GetPreviousIntersection(path, current) ==
  {path[i - 1] : i \in {j \in 2..Len(path) : path[j] = current}}

GetNextCW(clockwise, current) ==
  clockwise[((CHOOSE i \in DOMAIN clockwise : clockwise[i] = current) % Len(clockwise)) + 1]

WalkBorderCW(cell, level, incoming, outgoing) ==
  LET corners == ((outgoing.border + 4) - incoming.border) % 4
      around  == IF corners = 0 /\ ~IsLeftOnSameBorder(incoming.border, incoming.point, outgoing.point)
                 THEN 4 ELSE corners
  IN  [i \in 1..around |-> CornerOf(cell, level, (incoming.border + i) % 4)] \o <<outgoing.point>>

\* The points from the one before the outgoing back to the one behind the incoming.
WalkPathBack(outgoing, incoming, points, isArea) ==
  LET size  == Len(points)
      back  == outgoing.prev - incoming.prev
      steps == IF isArea /\ (back < 0 \/ (back = 0 /\ outgoing.distance <= incoming.distance))
               THEN back + size ELSE back
  IN  [i \in 1..steps |-> points[((outgoing.prev - i + size) % size) + 1]] \o <<incoming.point>>

\* A polygon that cannot be closed is dropped.
RECURSIVE Sling(_, _, _, _, _, _)
Sling(data, here, initial, outgoing, coords, used) ==
  LET previous == GetPreviousIntersection(here.paths[outgoing.coastline], outgoing)
  IN  IF ~\E incoming \in previous : incoming.direction = 1 THEN [coords |-> <<>>, used |-> used]
      ELSE LET incoming == CHOOSE i \in previous : TRUE
               line     == data[outgoing.coastline]
               next     == GetNextCW(here.clockwise, incoming)
               walked   == coords \o WalkPathBack(outgoing, incoming, line.points, line.isArea)
               around   == walked \o WalkBorderCW(here.cell, here.level, incoming, next)
           IN  IF next = initial THEN [coords |-> around, used |-> used]
               ELSE IF next.direction # -1 THEN [coords |-> <<>>, used |-> used]
               ELSE Sling(data, here, initial, next, around, used \union {next})

RECURSIVE Slings(_, _, _)
Slings(data, here, outer) ==
  IF outer = <<>> THEN <<>>
  ELSE LET sling == Sling(data, here, outer[1], outer[1], <<outer[1].point>>, {})
           left  == SelectSeq(Tail(outer), LAMBDA i : i \notin sling.used)
       IN  (IF sling.coords = <<>> THEN <<>> ELSE <<sling.coords>>) \o Slings(data, here, left)

\* HandleCoastlinesPartiallyInACell()
SlingsIn(data, cell, level) ==
  LET paths == [k \in DOMAIN data |-> PathOrder(data, k, cell)]
      outer == FlattenSeq([k \in DOMAIN paths |->
                             SelectSeq(Reverse(paths[k]), LAMBDA i : i.direction = -1)])
  IN  Slings(data, [cell |-> cell, level |-> level, paths |-> paths,
                    clockwise |-> Ordered(UNION {Range(paths[k]) : k \in DOMAIN paths}, ClockWise)],
             outer)

GroundTiles(data, cells, level) ==
  LET tiles   == [c \in cells |-> AreasWithin(data, c) \o SlingsIn(data, c, level)]
  IN  [c \in {d \in cells : tiles[d] # <<>>} |-> tiles[c]]

------------------------------------------------------------------------------
(* Land and water                                                           *)

OnBorder(p, cell, level, border) ==
  LET axis == IF border \in {0, 2} THEN 2 ELSE 1
  IN  p[axis] = CornerOf(cell, level, border)[axis]

Corners(cell, level) == {CornerOf(cell, level, corner) : corner \in Borders}

\* What an edge of a land polygon says of the cell beyond a border: land, if it is all of the
\* border, coast if it starts within it.
EdgeSays(edge, cell, level, border) ==
  IF edge = <<CornerOf(cell, level, border), CornerOf(cell, level, (border + 1) % 4)>> THEN "land"
  ELSE IF OnBorder(edge[1], cell, level, border) /\ edge[1] \notin Corners(cell, level) THEN "coast"
  ELSE "unknown"

EdgesOf(tile) == [i \in 1..(Len(tile) - 1) |-> <<tile[i], tile[i + 1]>>]

\* The first edge that says something decides, and if there is none it is water.
BeyondIs(tiles, cell, level, border) ==
  LET edges == FlattenSeq([t \in DOMAIN tiles |-> EdgesOf(tiles[t])])
      says  == SelectSeq([e \in DOMAIN edges |-> EdgeSays(edges[e], cell, level, border)],
                         LAMBDA s : s # "unknown")
  IN  IF says = <<>> THEN "water" ELSE says[1]

\* All borders of a cell with tiles are judged; what is known already stays.
CalculateLandCells(states, tiles, level) ==
  FoldLeft(LAMBDA known, cell :
             LET judged == {Beyond(cell, border) : border \in Borders} \intersect DOMAIN known
             IN  [c \in DOMAIN known |->
                    IF known[c] # "unknown" \/ c \notin judged THEN known[c]
                    ELSE BeyondIs(tiles[cell], cell, level,
                                  CHOOSE border \in Borders : Beyond(cell, border) = c)],
           states, Ordered(DOMAIN tiles, Before))

\* A point of the map has its place within that square.
Fine(p) == <<PointWidth * p.x + 1, PointWidth * p.y + 1>>

AssumeLand(ways, states, level) ==
  LET telling == SelectSeq(ways, LAMBDA w : w.type \notin IgnoreSeaLand /\ Len(w.nodes) >= 2)
      covered == UNION {CellsOfPath([n \in DOMAIN telling[w].nodes |-> Fine(telling[w].nodes[n])], level) :
                          w \in DOMAIN telling}
  IN  [c \in DOMAIN states |-> IF states[c] = "unknown" /\ c \in covered THEN "land" ELSE states[c]]

RECURSIVE FillWater(_, _)
FillWater(states, rounds) ==
  LET filled == [c \in DOMAIN states |->
                   IF states[c] = "unknown"
                      /\ \E border \in Borders : /\ Beyond(c, border) \in DOMAIN states
                                                 /\ states[Beyond(c, border)] = "water"
                   THEN "water" ELSE states[c]]
  IN  IF rounds = 0 \/ filled = states THEN states ELSE FillWater(filled, rounds - 1)

\* Unknown cells in a line, with land right before them and land or coast behind them.
InLand(states, cell, step(_, _)) ==
  LET side(steps) == {n \in steps : /\ step(cell, n) \in DOMAIN states
                                    /\ states[step(cell, n)] # "unknown"}
      before == side(-(2 ^ WaterIndexMaxMag)..-1)
      behind == side(1..2 ^ WaterIndexMaxMag)
  IN  /\ states[cell] = "unknown" /\ before # {} /\ behind # {}
      /\ states[step(cell, Max(before))] = "land"
      /\ states[step(cell, Min(behind))] \in {"land", "coast"}

FillLines(states, step(_, _)) ==
  [c \in DOMAIN states |-> IF InLand(states, c, step) THEN "land" ELSE states[c]]

\* Row by row and then column by column, until nothing changes.
RECURSIVE FillLand(_)
FillLand(states) ==
  LET rows   == FillLines(states, LAMBDA c, n : [c EXCEPT !.x = @ + n])
      filled == FillLines(rows, LAMBDA c, n : [c EXCEPT !.y = @ + n])
  IN  IF filled = states THEN states ELSE FillLand(filled)

\* What is written for a level.
WriteLevel(coastlines, ways, bounds, level) ==
  LET cells  == LevelCells(bounds, level)
      tiles  == GroundTiles(CoastlineData(coastlines, cells, level), cells, level)
      marked == MarkCoastlineCells(coastlines, level, [c \in cells |-> "unknown"])
      told   == AssumeLand(ways, CalculateLandCells(marked, tiles, level), level)
      wet    == IF coastlines = <<>> THEN told ELSE FillWater(told, FillRounds)
  IN  [states |-> FillLand(wet), tiles |-> tiles]

WriteWaterIndex(raw, lost, ways, bounds) ==
  LET coastlines == MergeCoastlines(LoadCoastlines(raw, lost))
  IN  [level \in WaterIndexMinMag..WaterIndexMaxMag |-> WriteLevel(coastlines, ways, bounds, level)]

------------------------------------------------------------------------------
(* WaterIndex                                                               *)

IndexLevelFor(level) == Max({WaterIndexMinMag, Min({WaterIndexMaxMag, level + MagnificationGap})})

\* A cell with tiles has their position in place of its state: it is coast.
RegionOf(written, cell, level) ==
  [cell |-> cell, level |-> level,
   type |-> IF cell \in DOMAIN written.tiles THEN "coast"
            ELSE IF cell \in DOMAIN written.states THEN written.states[cell] ELSE "unknown",
   land |-> IF cell \in DOMAIN written.tiles THEN written.tiles[cell] ELSE <<>>]

GetRegions(index, min, max, level) ==
  LET at == IndexLevelFor(level)
  IN  {RegionOf(index[at], cell, at) : cell \in CellsBetween(GroundCell(min, at), GroundCell(max, at))}

\* DrawGroundTiles(): a cell of the coast has the colour of the sea, and on it its land.
Painted(region, p) ==
  IF \E t \in DOMAIN region.land : G!IsCoordInArea(p, region.land[t]) THEN "land"
  ELSE IF region.type = "coast" THEN "water" ELSE region.type

==============================================================================
