------------------------------- MODULE MCImport -------------------------------
(***************************************************************************)
(* Small maps for the import: a road network with turn restrictions,       *)
(* relations of nested squares, and objects spread over the sort cells.    *)
(* All coordinates of nodes are even.                                      *)
(***************************************************************************)
EXTENDS ImportedData

LOCAL INSTANCE TLC
LOCAL INSTANCE SequencesExt

MCTypes == <<"ignore", "road", "path", "track", "square", "forest", "building",
             "boundary_administrative", "shop", "secret">>

MCTypeInfo ==
  LET Info(t) == [ignore |-> t \in {"ignore", "secret"}, pinWay |-> t = "road",
                  multipolygon |-> t = "boundary_administrative",
                  canBeArea |-> t \notin {"road", "path", "track", "shop", "ignore"},
                  canRoute |-> t \in {"road", "path", "track", "square"},
                  vehicles |-> CASE t = "road" -> Vehicles
                                 [] t \in {"path", "track"} -> {"foot", "bicycle"}
                                 [] t = "square" -> {"foot"}
                                 [] OTHER -> {},
                  indexAsPOI |-> t \in {"road", "building", "shop"}]
  IN  [t \in Range(MCTypes) |-> Info(t)]

Node(id, x, y) == [kind |-> "node", id |-> id, point |-> <<x, y>>, type |-> "ignore",
                   features |-> NoFeatures]

Way(id, nodes, type) ==
  [kind |-> "way", id |-> id, nodes |-> nodes, area |-> "none", wayType |-> type,
   areaType |-> "ignore", coastline |-> FALSE, features |-> NoFeatures]

AreaWay(id, nodes, type) == [Way(id, nodes, "ignore") EXCEPT !.areaType = type]

Member(type, id, role) == [type |-> type, id |-> id, role |-> role]

Relation(id, members, type) ==
  [kind |-> "relation", id |-> id, members |-> members, type |-> type,
   restriction |-> "none", multipolygon |-> type # "boundary_administrative",
   features |-> NoFeatures]

NoTurn(id, from, via, to) ==
  [Relation(id, <<Member("way", from, "from"), Member("node", via, "via"),
                  Member("way", to, "to")>>, "ignore")
     EXCEPT !.restriction = "no_turn", !.multipolygon = FALSE]

Params == [rawWayBlockSize |-> 100, strictAreas |-> FALSE, sortObjects |-> TRUE, sortBlockSize |-> 100, tiles |-> 2,
           routeNodeBlockSize |-> 100]

------------------------------------------------------------------------------
(* Roads: a straight one from 5 to 7, one that goes on or turns off, a     *)
(* third that meets them somewhere, and a square to walk over.             *)

RoadNodes == <<Node(5, 2, 2), Node(6, 4, 2), Node(7, 6, 2), Node(8, 6, 6), Node(9, 10, 2),
               Node(10, 10, 6), Node(11, 14, 6), Node(12, 14, 10)>>

\* What the access feature says of a one-way street, and of a closed one.
OneWay(type, direction) ==
  <<((MCTypeInfo[type].vehicles \X Directions)
       \ ({"bicycle", "car"} \X (Directions \ {direction}))) \union {<<"oneway", direction>>}>>

AccessOf(type, kind) ==
  CASE kind = "oneway"  -> OneWay(type, "forward")
    [] kind = "against" -> OneWay(type, "backward")
    [] kind = "closed"  -> <<{}>>
    [] OTHER            -> <<>>

Roads ==
  {[elements |-> RoadNodes \o
      <<[Way(21, <<5, 6, 7>>, "road") EXCEPT !.features.access = AccessOf("road", kind)],
        [Way(22, second, type) EXCEPT !.features.access =
           IF kind = "closed" THEN <<>> ELSE AccessOf(type, kind)],
        [Way(23, third, "road") EXCEPT !.features.name = kind,
                                       !.features.restricted = kind = "Broadway"],
        Way(24, <<10, 11>>, "track"), Way(25, <<11, 12>>, "path"),
        AreaWay(26, <<8, 9, 10, 8>>, "square")>> \o turns,
    params |-> [Params EXCEPT !.rawWayBlockSize = block,
                              !.routeNodeBlockSize = IF block = 3 THEN 2 ELSE 100]] :
     second \in {<<7, 9>>, <<9, 7>>, <<7, 8>>},
     third \in {<<9, 11>>, <<7, 10>>, <<8, 5>>, <<6, 8, 10>>},
     type \in {"road", "path"},
     kind \in {"", "oneway", "against", "closed", "Broadway"},
     block \in {3, 100},
     turns \in {<<>>, <<NoTurn(41, 21, 7, 22)>>, <<NoTurn(41, 22, 7, 21), NoTurn(42, 23, 9, 22)>>,
                <<NoTurn(41, 22, 9, 23)>>}}

------------------------------------------------------------------------------
(* Relations: three squares within each other, and one beside the second.  *)

SquareNodes ==
  <<Node(5, 0, 0), Node(6, 14, 0), Node(7, 14, 14), Node(8, 0, 14),
    Node(9, 2, 2), Node(10, 8, 2), Node(11, 8, 8), Node(12, 2, 8),
    Node(13, 4, 4), Node(14, 6, 4), Node(15, 6, 6), Node(16, 4, 6),
    Node(17, 10, 10), Node(18, 12, 10), Node(19, 12, 12), Node(20, 10, 12)>>

\* A square in one piece, or in two: following each other, or head to head.
SquareWays(id, n, form, type) ==
  CASE form = "whole"  -> <<AreaWay(id, <<n, n + 1, n + 2, n + 3, n>>, type)>>
    [] form = "follow" -> <<Way(id, <<n, n + 1, n + 2>>, "ignore"),
                            Way(id + 1, <<n + 2, n + 3, n>>, "ignore")>>
    [] form = "meet"   -> <<Way(id, <<n, n + 1, n + 2>>, "ignore"),
                            Way(id + 1, <<n, n + 3, n + 2>>, "ignore")>>
    [] form = "none"   -> <<>>

MembersOf(ways, role) == [i \in DOMAIN ways |-> Member("way", ways[i].id, role)]

Multipolygons ==
  LET Multipolygon(f1, f2, f3, t1, t2, type) ==
        LET w == <<SquareWays(21, 5, f1, t1), SquareWays(23, 9, f2, t2),
                   SquareWays(25, 13, f3, t2), SquareWays(27, 17, "whole", "forest")>>
        IN  [elements |-> SquareNodes \o FlattenSeq(w) \o
               <<Relation(51, MembersOf(w[3], "outer") \o MembersOf(w[4], "inner")
                              \o MembersOf(w[1], "outer") \o MembersOf(w[2], "inner"), type)>>,
             params |-> Params]
  IN  {Multipolygon(f1, f2, f3, t1, t2, type) :
         f1 \in {"whole", "follow", "meet"}, f2 \in {"whole", "follow", "meet"},
         f3 \in {"none", "whole", "meet"}, t1 \in {"ignore", "forest"},
         t2 \in {"ignore", "forest", "building"}, type \in {"ignore", "forest"}}

\* A relation of a square or a bow tie in two pieces, beside a square or a bow tie
\* of its own; the relation before has no members.
BowTies ==
  LET Tie(cross, own, strict) ==
        LET nodes == IF cross THEN <<9, 11, 10, 12>> ELSE <<9, 10, 11, 12>>
            w     == <<Way(21, SubSeq(nodes, 1, 3), "ignore"),
                       Way(22, SubSeq(nodes, 3, 4) \o <<9>>, "ignore"),
                       AreaWay(23, own, "forest")>>
        IN  [elements |-> SquareNodes \o w \o
               <<Relation(60, <<>>, "ignore"),
                 Relation(51, MembersOf(SubSeq(w, 1, 2), "outer"), "forest")>>,
             params |-> [Params EXCEPT !.strictAreas = strict]]
  IN  {Tie(cross, own, strict) :
         cross \in BOOLEAN, strict \in BOOLEAN,
         own \in {<<17, 18, 19, 20, 17>>, <<17, 18, 20, 19, 17>>}}

\* A boundary that is composed of another boundary, which has an exclave.
Boundaries ==
  LET Boundary(f1, f2, f3, role) ==
        LET w == <<SquareWays(21, 5, f1, "ignore"), SquareWays(23, 9, f2, "ignore"),
                   SquareWays(25, 13, f3, "ignore")>>
        IN  [elements |-> SquareNodes \o FlattenSeq(w) \o
               <<Relation(51, MembersOf(w[1], "outer") \o <<Member("relation", 52, role)>>,
                          "boundary_administrative"),
                 Relation(52, MembersOf(w[2], "") \o MembersOf(w[3], "inner"),
                          "boundary_administrative")>>,
             params |-> Params]
  IN  {Boundary(f1, f2, f3, role) :
         f1 \in {"whole", "meet"}, f2 \in {"whole", "follow", "meet"},
         f3 \in {"none", "whole", "meet"}, role \in {"inner", "outer"}}

------------------------------------------------------------------------------
(* Objects to sort: shops with and without names, roads and buildings, in  *)
(* four cells; a block may hold less than all nodes, yet more than a cell. *)

Places == {<<2, 2>>, <<12, 2>>, <<2, 12>>, <<12, 12>>}

Shops ==
  LET Shop(id, point, type) == [Node(id, 0, 0) EXCEPT !.point = point, !.type = type]
      Town(p5, p6, p7, sort, block) ==
        [elements |->
           <<[Shop(5, p5, "shop") EXCEPT !.features.name = "Mill"],
             Shop(6, p6, "shop"),
             [Shop(7, p7, "shop") EXCEPT !.features.address = "12"],
             Shop(8, <<4, 2>>, "secret"),
             [Shop(9, <<2, 4>>, "shop") EXCEPT !.features.name = "Forge",
                                              !.features.location = "Lane"],
             Node(10, 4, 4), Node(11, 6, 4), Node(12, 6, 6), Node(13, 12, 4), Node(14, 14, 4),
             AreaWay(21, <<10, 11, 12, 10>>, "building"),
             [AreaWay(22, <<12, 13, 14, 12>>, "building") EXCEPT !.features.name = "Hall"],
             [Way(23, <<10, 11, 12>>, "road") EXCEPT !.features.name = "Broadway"],
             [Way(24, <<13, 14>>, "road") EXCEPT !.features.name = "Highway"],
             [Way(25, <<10, 11>>, "path") EXCEPT !.features.name = "Lane"],
             AreaWay(26, <<10, 12, 11, 10>>, "forest"), AreaWay(27, <<12, 14, 13, 12>>, "forest")>>,
         params |-> [Params EXCEPT !.rawWayBlockSize = IF sort THEN 100 ELSE 3,
                                   !.sortObjects = sort, !.sortBlockSize = block]]
      Stored(in) == SelectSeq(in.elements,
                              LAMBDA e : e.kind = "node" /\ KnownType(e.type) # "ignore")
      Sparse(in) ==
        LET limit == (in.params.sortBlockSize * 9) \div 10
            In(c) == SelectSeq(Stored(in), LAMBDA n : CellOf(n, in.params.tiles) = c)
        IN  \A c \in 0..3 : Len(In(c)) <= limit
  IN  {in \in {Town(p5, p6, p7, sort, block) :
                 p5 \in Places, p6 \in Places, p7 \in Places, sort \in BOOLEAN,
                 block \in {3, 100}} : Sparse(in)}

------------------------------------------------------------------------------
\* Elements that do not come by their ids.
Unsorted == [elements |-> <<Node(6, 2, 2), Node(5, 4, 4)>>, params |-> Params]

\* The maps with which the import is called again.
Again == {CHOOSE in \in Roads : in.params.rawWayBlockSize = 3, Unsorted}

MCInputs == Roads \union Multipolygons \union BowTies \union Boundaries \union Shops \union Again
MCCallLimit(in) == IF in \in Again THEN 3 ELSE 1
MCEndSteps(in) == IF in \in Again THEN {2, 7, 11, 16} ELSE {16}

==============================================================================
