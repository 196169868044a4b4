---------------------------- MODULE MCMapObjects ------------------------------
(* Constants for model checking MapObjects: maps of eight by eight points. *)
EXTENDS MapObjects

CONSTANTS Families, FewRules

P(x, y) == [x |-> x, y |-> y]

Box(left, right, bottom, top) ==
  [left |-> left, right |-> right, bottom |-> bottom, top |-> top]

Node(i, type, at) == [offset |-> 3 * i + 1, type |-> type, at |-> at, features |-> {}]

Way(i, type, ref, ids, nodes) ==
  [offset |-> 3 * i + 1, type |-> type, ref |-> ref, ids |-> ids, nodes |-> nodes, features |-> {}]

Outer(box) == [ring |-> 1, box |-> box]
Inner(box) == [ring |-> 2, box |-> box]
Master     == [ring |-> 0, box |-> Box(0, 0, 0, 0)]

Area(i, type, rings) == [offset |-> 3 * i + 1, type |-> type, rings |-> rings, features |-> {}]

MCNodeTypes == {1, 2}
MCWayTypes  == {2, 3}
MCAreaTypes == {1, 3}

MCFirstLevel == [k \in Kinds |-> IF k \in {"node", "way"} THEN 1 ELSE 0]
MCOptimizedTypes == [way |-> {2, 3}, area |-> {1}]
MCPixelSize == [l \in OptimizationMinMag..OptimizationMaxMag |-> IF l = 0 THEN 2 ELSE 1]
MCScale == [l \in 0..4 |-> [mm |-> l, px |-> 4 * l]]

------------------------------------------------------------------------------
(* Style sheets                                                             *)

All == [features |-> {}, size |-> NoSize]
With(feature) == [features |-> {feature}, size |-> NoSize]
AtLeast(mm) ==
  [features |-> {}, size |-> [minMM |-> mm, minPx |-> NoMaxLevel, maxMM |-> NoMaxLevel, maxPx |-> NoMaxLevel]]

Rule(kind, types, min, max, criteria, attributes) ==
  [kind |-> kind, slot |-> "", types |-> types, min |-> min, max |-> max, criteria |-> criteria,
   attributes |-> attributes]

Line(types, min, max, criteria, attributes) == Rule("wayLine", types, min, max, criteria, attributes)

Thin   == [lineColor |-> 1, displayWidth |-> 1]
Red    == [lineColor |-> 2]
Hidden == [lineColor |-> 0]

WayRules ==
  {Line({2, 3}, 0, NoMaxLevel, All, Thin), Line({3}, 1, 2, With("bridge"), Red),
   Line({2, 3}, 1, 2, All, Hidden), Line({2}, 0, NoMaxLevel, With("bridge"), [width |-> 2]),
   Line({2}, 2, NoMaxLevel, All, Red),
   Rule("wayPathText", {3}, 1, NoMaxLevel, With("bridge"), [label |-> 1])}

OtherRules ==
  {Rule("areaFill", {1, 3}, 0, NoMaxLevel, All, [fillColor |-> 1]),
   Rule("areaFill", {3}, 1, 2, With("name"), [fillColor |-> 0, borderWidth |-> 1]),
   Rule("areaFill", {1, 3}, 1, NoMaxLevel, AtLeast(2), [borderColor |-> 1]),
   Rule("areaText", {1}, 2, NoMaxLevel, With("name"), [label |-> 1]),
   Rule("nodeIcon", {1, 2, 3}, 1, 2, All, [symbol |-> 1]),
   Rule("nodeIcon", {2}, 0, NoMaxLevel, With("name"), [iconName |-> 1])}

Sheet(rules) == [rules |-> rules, wayPrio |-> [t \in {2, 3} |-> 5 - t]]

Sheets ==
  {Sheet(rules) : rules \in [1..FewRules -> WayRules] \union [1..FewRules -> OtherRules]
                     \union {<<a, b, c, d>> : a \in OtherRules, b \in WayRules, c \in OtherRules, d \in WayRules}}

\* Everything is drawn.
FullSheet ==
  Sheet(<<Line({2, 3}, 0, NoMaxLevel, All, Thin),
          Rule("areaFill", {1, 3}, 0, NoMaxLevel, All, [fillColor |-> 1]),
          Rule("nodeIcon", {1, 2}, 0, NoMaxLevel, All, [symbol |-> 1])>>)

------------------------------------------------------------------------------
(* Maps                                                                     *)

SomeArea == Area(9, 3, <<Outer(Box(2, 3, 2, 3))>>)

FewOrAll == {[nodes |-> 2, ways |-> 2, areas |-> 2], [nodes |-> 50, ways |-> 50, areas |-> 50]}

Map(nodes, ways, areas, sheet, times, faults) ==
  [nodes |-> nodes, ways |-> ways, areas |-> areas, sheet |-> sheet, calls |-> times, failures |-> faults,
   limits |-> FewOrAll, coastlines |-> <<>>, lost |-> {}, land |-> {}, bounds |-> [min |-> <<9, 9>>, max |-> <<54, 54>>]]

Points == {P(x, y) : x \in {0, 3, 4}, y \in {2, 5}}

\* Three nodes wherever they may be.
NodeMaps ==
  {Map(<<Node(1, t[1], p[1]), Node(2, t[2], p[2]), Node(3, 2, p[3])>>, <<>>, <<SomeArea>>, FullSheet, 1, 0) :
     t \in [1..2 -> MCNodeTypes], p \in {q \in [1..3 -> Points] : q[1] # q[3]}}

\* Three ways of one stretch each, with ends shared or not, and with two numbers.
PointOf(way, id, end) == IF id = 0 THEN P(way + 2, 7 - way) ELSE P(2 * id, IF id = 3 THEN 0 ELSE 1)

WayOf(i, type, ref, from, to) ==
  Way(i, type, ref, <<from, to>>, <<PointOf(i, from, 1), PointOf(i, to, 2)>>)

WayMaps ==
  {Map(<<>>, <<WayOf(1, 3, 1, ends[1], ends[2]), WayOf(2, type, 1, ends[3], ends[4]),
               WayOf(3, 3, ref, ends[5], ends[6])>>, <<SomeArea>>, FullSheet, 1, 0) :
     type \in {2, 3}, ref \in {1, 2},
     ends \in {e \in [1..6 -> 0..3] : /\ <<e[1], e[2]>> \in {<<1, 2>>, <<0, 1>>, <<3, 3>>}
                                      /\ \A i \in {1, 3, 5} : e[i] # e[i + 1] \/ e[i] # 0}}

\* Four ways next to each other.
CrowdedMaps ==
  {Map(<<>>, [i \in 1..4 |-> Way(i, 2, i % 2, <<0, 0>>, <<P(i - 1, y), P(i - 1, y + length)>>)],
       <<SomeArea>>, FullSheet, 1, 0) : length \in 1..2, y \in 0..4}

AreaBoxes == {Box(0, 0, 0, 0), Box(0, 6, 1, 7), Box(3, 4, 3, 4), Box(4, 5, 4, 6), Box(2, 5, 3, 3)}

\* Two areas, one of them with a hole or with two outer rings.
AreaMaps ==
  {Map(<<>>, <<>>, <<Area(1, t, <<Outer(a)>>), Area(2, 1, rings)>>, FullSheet, 1, 0) :
     t \in MCAreaTypes, a \in AreaBoxes,
     rings \in {<<Outer(b)>> : b \in AreaBoxes}
               \union {<<Master, Outer(b), Inner(Box(3, 3, 3, 3))>> : b \in AreaBoxes}
               \union {<<Master, Outer(b), Inner(Box(3, 3, 4, 4)), Outer(c)>> :
                         b \in AreaBoxes, c \in {Box(0, 0, 0, 0), Box(6, 7, 6, 7)}}}

Styled(object, features) == [object EXCEPT !.features = features]

StyledMap(sheet, times, faults) ==
  Map(<<Node(1, 1, P(3, 3)), Styled(Node(2, 2, P(3, 2)), {"name"})>>,
      <<WayOf(1, 2, 1, 1, 2), Styled(WayOf(2, 3, 1, 2, 3), {"bridge"}), Styled(WayOf(3, 2, 1, 1, 3), {"bridge"})>>,
      <<Area(1, 1, <<Outer(Box(0, 6, 1, 7))>>), Styled(Area(2, 3, <<Outer(Box(3, 4, 3, 4))>>), {"name"}),
        Styled(Area(3, 1, <<Outer(Box(1, 2, 2, 4))>>), {"name"})>>,
      sheet, times, faults)

\* The same map again and again, with limits that come and go, or with a read that fails;
\* and with a breaker.
FailingMaps ==
  {StyledMap(FullSheet, 3, 0),
   [StyledMap(FullSheet, 3, 1) EXCEPT !.limits = {[nodes |-> 50, ways |-> 50, areas |-> 50]}]}

------------------------------------------------------------------------------
(* Coastlines                                                               *)

MCGroundPixel == (1 :> 8 @@ 2 :> 4 @@ 3 :> 2)
MCPlaces == {<<2, 2>>, <<4, 4>>, <<6, 2>>, <<2, 6>>, <<6, 6>>}

\* Islands, counterclockwise: in a cell, over one border, over a corner, a diamond over
\* another, two capes over the same border, and one with cells of land in it.
Islands ==
  <<<< <<17, 17>>, <<23, 17>>, <<23, 23>>, <<17, 23>> >>,
    << <<19, 19>>, <<27, 19>>, <<27, 21>>, <<19, 21>> >>,
    << <<21, 21>>, <<27, 21>>, <<27, 27>>, <<21, 27>> >>,
    << <<19, 23>>, <<23, 19>>, <<25, 19>>, <<29, 23>>, <<29, 25>>, <<25, 29>>, <<23, 29>>, <<19, 25>> >>,
    << <<17, 17>>, <<31, 17>>, <<31, 27>>, <<27, 27>>, <<27, 21>>, <<21, 21>>, <<21, 27>>, <<17, 27>> >>,
    << <<13, 13>>, <<43, 13>>, <<43, 43>>, <<29, 43>>, <<27, 41>>, <<13, 41>> >> >>

\* Coasts from one side of the map to the other: straight, with a bay and a cape over the
\* border of a cell, and winding along it.
Coasts ==
  << << <<-5, 29>>, <<69, 29>> >>,
     << <<-5, 29>>, <<19, 29>>, <<19, 35>>, <<21, 35>>, <<21, 27>>, <<37, 27>>, <<47, 37>>, <<47, 29>>, <<69, 29>> >>,
     << <<-5, 31>>, <<27, 31>>, <<27, 33>>, <<25, 33>>, <<25, 37>>, <<29, 37>>, <<29, 31>>, <<69, 31>> >> >>

World == << <<-9, -9>>, <<75, -9>>, <<75, 75>>, <<-9, 75>> >>

\* The land on the left of a coast that runs from west to east, and from east to west.
North(coast) == coast \o << <<75, 29>>, <<75, 75>>, <<-9, 75>>, <<-9, 29>> >>
South(coast) == coast \o << <<-9, 29>>, <<-9, -9>>, <<75, -9>>, <<75, 29>> >>

From(ring, start) == SubSeq(ring, start, Len(ring)) \o SubSeq(ring, 1, start - 1)

AreaCoast(ring) == [isArea |-> TRUE, nodes |-> ring]

\* The ways of a line that is cut at some of its points.
CutLine(points, cuts) ==
  LET ends == <<1>> \o SetToSortSeq(cuts, <) \o <<Len(points)>>
  IN  [i \in 1..(Len(ends) - 1) |-> [isArea |-> FALSE, nodes |-> SubSeq(points, ends[i], ends[i + 1])]]

CutRing(ring, cuts) == CutLine(Append(ring, ring[1]), cuts)

Orders(lines) ==
  {[i \in DOMAIN lines |-> lines[order[i]]] :
     order \in {o \in [DOMAIN lines -> DOMAIN lines] : Range(o) = DOMAIN lines}}

CoastMap(coastlines, land, ways) ==
  [Map(<<>>, ways, <<SomeArea>>, FullSheet, 1, 0)
     EXCEPT !.limits = {[nodes |-> 50, ways |-> 50, areas |-> 50]},
            !.coastlines = coastlines, !.land = land]

\* An island from any of its points on, and one of ways that come in any order.
IslandMaps ==
  UNION {{CoastMap(<<AreaCoast(From(i, start))>>, {i}, <<>>) : start \in DOMAIN i} : i \in Range(Islands)}
  \union
  UNION {{CoastMap(lines, {i}, <<>>) : lines \in Orders(CutRing(From(i, start), cuts))} :
           i \in {Islands[1], Islands[3], Islands[5]}, start \in {1, 2}, cuts \in {{}, {3}, {2, 4}}}

\* A coast of ways, with the land on one side or on the other.
CoastMaps ==
  UNION {{CoastMap(lines, {North(c)}, <<>>) : lines \in Orders(CutLine(c, cuts))}
         \union {CoastMap(lines, {South(Reverse(c))}, <<>>) : lines \in Orders(CutLine(Reverse(c), cuts))} :
           c \in {Coasts[2], Coasts[3]}, cuts \in {{}, {3}, {4, 6}}}

Islet == << <<11, 17>>, <<19, 17>>, <<19, 19>>, <<11, 19>> >>

\* Several coasts: an island off a coast, also one with a node that was not found, a strait,
\* two islands in the same cells, an inner sea, one with an island, and a coast whose land has
\* ways on it.
OtherCoastMaps ==
  {CoastMap(<<AreaCoast(Islands[i])>> \o CutLine(Coasts[c], {}), {Islands[i], North(Coasts[c])}, <<>>) :
     i \in 1..2, c \in 1..2}
  \union {[CoastMap(<<AreaCoast(i)>> \o CutLine(Coasts[1], {}), {North(Coasts[1])}, <<>>)
             EXCEPT !.lost = {i[1]}] : i \in {Islands[1], Islands[3]}}
  \union UNION {{CoastMap(lines, {i, Islet}, <<>>) : lines \in Orders(<<AreaCoast(i), AreaCoast(Islet)>>)} :
                  i \in {Islands[3], Islands[4]}}
  \union {CoastMap(CutLine(Coasts[1], {}) \o CutLine(<< <<69, y>>, <<-5, y>> >>, {}),
                   {North(Coasts[1]), South(<< <<69, y>>, <<-5, y>> >>)}, <<>>) : y \in {9, 21, 27}}
  \union {CoastMap(<<AreaCoast(From(Reverse(Islands[6]), start))>>, {World, Islands[6]}, <<>>) :
            start \in DOMAIN Islands[6]}
  \union {CoastMap(<<AreaCoast(Reverse(Islands[6])), AreaCoast(Islands[i])>>, {World, Islands[6], Islands[i]}, <<>>) :
            i \in {1, 3, 5}}
  \union {CoastMap(CutLine(Coasts[1], {}), {North(Coasts[1])}, <<Way(1, 2, 1, <<1, 2>>, <<P(x, 6), P(4, 6)>>)>>) :
            x \in 1..3}

MCContents ==
  UNION {CASE f = "nodes"   -> NodeMaps
           [] f = "ways"    -> WayMaps \union CrowdedMaps
           [] f = "areas"   -> AreaMaps
           [] f = "sheets"  -> {StyledMap(sheet, 1, 0) : sheet \in Sheets}
           [] f = "failing" -> FailingMaps
           [] f = "islands" -> IslandMaps
           [] f = "coasts"  -> CoastMaps \union OtherCoastMaps : f \in Families}

MCBoxes == {Box(0, 7, 0, 7), Box(2, 3, 1, 3), Box(4, 6, 2, 5)}

==============================================================================
