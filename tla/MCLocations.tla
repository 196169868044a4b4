----------------------------- MODULE MCLocations -----------------------------
(* Small maps for LocationSearch.  Regions have even coordinates, what is in *)
(* them has odd ones.                                                        *)
EXTENDS LocationSearch

LOCAL INSTANCE FiniteSetsExt
LOCAL INSTANCE SequencesExt

\* Words: land, west, east, old, town, field, core; elm, oak, street (short), square,
\* bad (short); inn; the house numbers.
Land == <<1>>  West == <<2>>  East == <<3>>  OldTown == <<4, 5>>  Field == <<6>>  Core == <<7>>
ElmStreet == <<10, 12>>  OakStreet == <<11, 12>>  Oak == <<11>>  Square == <<13>>
Inn == <<20>>  ElmInn == <<10, 20>>

MCRegionTypes == {"place"}
MCLocationTypes == {"street", "square"}
MCPOITypes == {"inn"}

Rect(x1, y1, x2, y2) == <<<<x1, y1>>, <<x2, y1>>, <<x2, y2>>, <<x1, y2>>>>

Ring(n, type, name, nodes) == [ring |-> n, type |-> type, name |-> name, nodes |-> nodes]

Area(offset, type, level, name, nodes) ==
  [offset |-> offset, type |-> type, level |-> level, rings |-> <<Ring(1, type, name, nodes)>>]

\* More than one outer ring: the first ring is for all of them and has no nodes.
Areas(offset, type, level, name, nodes) ==
  [offset |-> offset, type |-> type, level |-> level,
   rings |-> <<Ring(0, type, name, <<>>)>> \o [i \in DOMAIN nodes |-> Ring(1, "", NoName, nodes[i])]]

Boundary(offset, level, name, nodes) == Area(offset, "boundary_administrative", level, name, nodes)

Country == Boundary(10, 2, Land, <<<<0, 0>>, <<8, 0>>, <<16, 0>>, <<16, 16>>, <<8, 16>>, <<0, 16>>>>)
WestNodes == <<<<0, 0>>, <<8, 0>>, <<8, 8>>, <<8, 16>>, <<0, 16>>>>
EastNodes == <<<<8, 0>>, <<16, 0>>, <<16, 16>>, <<8, 16>>, <<8, 8>>>>

Way(offset, type, name, nodes) == [offset |-> offset, type |-> type, name |-> name, nodes |-> nodes]
Node(offset, type, name, coord) == [offset |-> offset, type |-> type, name |-> name, coord |-> coord]

\* An object with an address, or that is a point of interest.
Record(offset, type, name, location, address, nodes) ==
  [offset |-> offset, type |-> type, name |-> name, location |-> location, address |-> address,
   nodes |-> nodes]

House(offset, location, address, nodes) == Record(offset, "house", NoName, location, address, nodes)
AreaOf(record) == Area(record.offset, record.type, 0, record.name, record.nodes)
WayOf(record)  == Way(record.offset, record.type, record.name, record.nodes)
NodeOf(record) == Node(record.offset, record.type, record.name, record.nodes[1])

\* A map of its regions, other areas, ways, and so on; every record has its object.
MapOf(areas, ways, places, areaAddresses, wayAddresses, nodeAddresses) ==
  [areas |-> areas \o [i \in DOMAIN areaAddresses |-> AreaOf(areaAddresses[i])],
   ways |-> ways \o [i \in DOMAIN wayAddresses |-> WayOf(wayAddresses[i])],
   nodes |-> places \o [i \in DOMAIN nodeAddresses |-> NodeOf(nodeAddresses[i])],
   areaAddresses |-> areaAddresses, wayAddresses |-> wayAddresses, nodeAddresses |-> nodeAddresses]

TownNodes == <<<<2, 2>>, <<4, 2>>, <<6, 2>>, <<6, 6>>, <<2, 6>>>>

\* A country with two counties and a part of a town; the same street in two of them,
\* one across the border of the part of town, and houses, one of them on the border.
Counties ==
  MapOf(<<Boundary(30, 6, East, EastNodes), Country, Boundary(20, 6, West, WestNodes),
          Area(40, "place", 0, OldTown, TownNodes),
          Area(45, "square", 0, Square, Rect(3, 11, 5, 13))>>,
        <<Way(110, "street", ElmStreet, <<<<3, 3>>, <<5, 3>>>>),
          Way(111, "street", ElmStreet, <<<<11, 3>>, <<13, 5>>>>),
          Way(112, "street", OakStreet, <<<<3, 5>>, <<7, 5>>>>),
          Way(113, "street", Oak, <<<<5, 9>>, <<3, 9>>>>)>>,
        <<Node(210, "place", Core, <<3, 3>>), Node(211, "place", Field, <<13, 13>>)>>,
        <<House(310, ElmStreet, <<50>>, Rect(3, 3, 5, 5)),
          House(311, OakStreet, <<51>>, Rect(5, 3, 7, 5)),
          House(312, ElmStreet, <<51>>, Rect(11, 3, 13, 5)),
          Record(313, "inn", Inn, Square, <<50>>, Rect(3, 11, 5, 13))>>,
        <<Record(114, "inn", ElmInn, NoName, NoName, <<<<11, 9>>, <<13, 9>>>>)>>,
        <<House(410, ElmStreet, <<51>>, <<<<5, 5>>>>), House(411, ElmStreet, <<50, 53>>, <<<<11, 5>>>>),
          Record(412, "inn", Inn, Oak, <<52>>, <<<<3, 9>>>>)>>)

\* A county with a part of it elsewhere, a town that is larger than a boundary in it,
\* and a street through both counties.
Exclave ==
  MapOf(<<Country, Boundary(20, 6, West, WestNodes),
          Areas(30, "boundary_administrative", 6, East, <<EastNodes, Rect(2, 10, 6, 14)>>),
          Boundary(41, 10, Core, Rect(10, 10, 14, 14)),
          Area(46, "place", 0, OldTown, <<<<10, 8>>, <<14, 8>>, <<14, 10>>, <<14, 14>>, <<10, 14>>, <<10, 10>>>>)>>,
        <<Way(110, "street", ElmStreet, <<<<3, 11>>, <<5, 13>>>>),
          Way(112, "street", OakStreet, <<<<7, 3>>, <<9, 3>>>>),
          Way(113, "street", Oak, <<<<11, 9>>, <<11, 11>>>>)>>,
        <<>>,
        <<House(310, ElmStreet, <<50>>, Rect(3, 11, 5, 13)),
          House(311, OakStreet, <<51>>, Rect(9, 3, 11, 5))>>,
        <<Record(114, "inn", Inn, NoName, NoName, <<<<7, 13>>, <<9, 13>>>>)>>,
        <<Record(410, "inn", Inn, OakStreet, <<50>>, <<<<7, 3>>>>)>>)

\* Streets outside of all regions, and words that are ignored: the towns, and the
\* streets, share one.
Islands ==
  MapOf(<<Boundary(20, 8, <<8, 30>>, Rect(0, 0, 4, 4)), Boundary(21, 8, <<8, 31>>, Rect(6, 0, 10, 4)),
          Boundary(22, 8, <<8, 32>>, Rect(0, 6, 4, 10)), Boundary(23, 8, <<32>>, Rect(6, 6, 10, 10))>>,
        <<Way(110, "street", ElmStreet, <<<<1, 1>>, <<3, 1>>>>),
          Way(111, "street", OakStreet, <<<<7, 1>>, <<9, 1>>>>),
          Way(112, "street", <<14, 12>>, <<<<1, 7>>, <<3, 7>>>>),
          Way(113, "street", Oak, <<<<5, 5>>, <<5, 11>>>>),
          Way(115, "street", Oak, <<<<5, 1>>, <<7, 3>>>>)>>,
        <<Node(210, "place", Core, <<5, 5>>)>>,
        <<House(310, ElmStreet, <<50>>, Rect(1, 1, 3, 3)), House(311, Oak, <<50>>, Rect(5, 5, 11, 11))>>,
        <<>>,
        <<House(410, OakStreet, <<51>>, <<<<7, 3>>>>), House(411, <<14, 12>>, <<51>>, <<<<3, 9>>>>)>>)

MCMaps == <<Counties, Exclave, Islands>>

NamesIn(m) == UNION {{a.rings[1].name : a \in {x \in Range(m.areas) : x.type \in MCRegionTypes \union {"boundary_administrative"}}},
                     {n.name : n \in {x \in Range(m.nodes) : x.type \in MCRegionTypes}}}
StreetsIn(m) == {w.name : w \in Range(m.ways)} \union {Square, Inn, ElmInn}
NumbersIn(m) == {NoName, <<50>>, <<51>>}

\* By a region, a street and a number, in either order, by a street's or an inn's name
\* in a region, by a part of one, and by what is nowhere.
PatternsOf(m) ==
  UNION {{r \o s \o n, s \o n \o r} : r \in NamesIn(m), s \in StreetsIn(m), n \in NumbersIn(m)}
    \union NamesIn(m) \union {<<8>>, <<12>>, <<5>>, <<2, 10>>, <<2, 12, 51>>, <<5, 11, 50>>, <<99>>, <<>>}

MCPatterns == [i \in DOMAIN MCMaps |-> PatternsOf(MCMaps[i])]

==============================================================================
