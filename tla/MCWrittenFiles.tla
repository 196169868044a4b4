---------------------------- MODULE MCWrittenFiles -----------------------------
(***************************************************************************)
(* Things of every kind, at the places where their encodings get another   *)
(* byte, and objects as the import makes them of their tags.               *)
(***************************************************************************)
EXTENDS WrittenFiles

Words == <<"yes", "no", "1", "-1", "5", "85", "127", "-3", "12", "2", "grade2", "gravel", "private",
           "50", "rural", "30 mph", "1,5", "-7.5", "roundabout", "Elm", "Oak", "name", "alt_name",
           "highway", "road", "path", "place", "village", "wood", "building", "square", "shops">>

MCTexts ==
  Words \o FeatureNames \o SelectSeq(InternalTags, LAMBDA t : t # "") \o FeatureTags
    \o <<"_route", "_tile_land", "_tile_sea", "_tile_coast", "_tile_unknown", "_tile_coastline">>

MCNumberIn == ("1" :> 1) @@ ("-1" :> -1) @@ ("5" :> 5) @@ ("85" :> 85) @@ ("127" :> 127)
                @@ ("-3" :> -3) @@ ("12" :> 12) @@ ("2" :> 2) @@ ("50" :> 50)
MCMeterIn == ("5" :> 50) @@ ("1,5" :> 15) @@ ("-7.5" :> -75) @@ ("12" :> 120)
MCSpeedIn == ("50" :> [number |-> 50, mph |-> FALSE]) @@ ("30 mph" :> [number |-> 30, mph |-> TRUE])

------------------------------------------------------------------------------
(* The type definitions.                                                    *)

Is(tag, value) == [op |-> "=", tag |-> tag, value |-> value]
Both(a, b) == [op |-> "and", of |-> {a, b}]
Exists(tag) == [op |-> "exists", tag |-> tag]

Type(name, flags, features, kinds, condition) ==
  [NewType(name, flags) EXCEPT
     !.features = features, !.conditions = <<[kinds |-> kinds, condition |-> condition]>>]

Types ==
  <<Type("place", {"node", "indexAsPOI"}, <<"Name", "NameAlt", "Ele">>, {"node"}, Exists("highway")),
    Type("square", {"way", "area", "path", "foot"}, <<"Name">>, {"area"},
         Both(Is("area", "yes"), Exists("highway"))),
    Type("road", {"way", "path", "foot", "bicycle", "car"}, <<"Name", "Ref">>, {"way"},
         Is("highway", "road")),
    Type("path", {"way", "path", "foot"}, <<"Name">>, {"way"}, Is("highway", "path")),
    Type("wood", {"area"},
         <<"Name", "NameAlt", "Ref", "Layer", "AdminLevel", "Ele", "Width", "Grade">>, {"area"},
         Is("natural", "wood")),
    [Type("building", {"area", "indexAsAddress"}, <<"Name">>, {"area"}, Exists("building"))
       EXCEPT !.groups = {"shops", "village"}]>>

MCConfig ==
  [FoldLeft(RegisterType,
            RegisterNameAltTag(RegisterNameTag(RegisterNameTag(NewConfig, "name", 2), "ref", 1),
                               "alt_name", 1),
            Types)
     EXCEPT !.surfaces = "gravel" :> 3, !.speeds = "rural" :> 100]

------------------------------------------------------------------------------
(* Numbers: runs of ones from the bottom, single bits and all but one bit, and for a
   signed type their complements.  A signed number of 64 bits has 34 that matter:
   DecodeNumber() loses the others.                                         *)

Positives(used) ==
  LET edges == {k \in 0..used : k % 7 \in {0, 6} \/ k \in 31..33 \/ k >= used - 1}
      bits  == 0..(used - 1)
  IN  {0..(k - 1) : k \in edges} \union {{k} \intersect bits : k \in edges}
        \union {bits \ {k} : k \in edges}

Of(kind, values) == {[kind |-> kind, value |-> v] : v \in values}

Signed(kind, used) ==
  Of(kind, Positives(used) \union {Complement(b, SignedKinds[kind]) : b \in Positives(used)})

Unsigned(kind) == Of(kind, Positives(UnsignedKinds[kind]))

Fixed(kind) == Of(kind, {{}, {0}, {7}, 0..(8 * FixedKinds[kind] - 1), {8 * FixedKinds[kind] - 1}})

NumberItems ==
  Signed("int16", 15) \union Signed("int32", 31) \union Signed("int64", 34)
    \union Unsigned("uint16") \union Unsigned("uint32") \union Unsigned("uint64")
    \union UNION {Fixed(kind) : kind \in DOMAIN FixedKinds}

OffsetItems ==
  {[kind |-> kind, value |-> v, count |-> n] :
     kind \in {"bytes64", "offset"}, n \in {3, 8}, v \in {{}, {8}, 0..23}}
    \union {[kind |-> "bytes32", value |-> v, count |-> 3] : v \in {{8}, 0..23}}
    \union {[kind |-> "bytes16", value |-> v, count |-> 1] : v \in {{}, 0..7}}

------------------------------------------------------------------------------
(* Places and references.                                                   *)

Most == 2 ^ 27 - 1

Point(lat, lon) == [lat |-> lat, lon |-> lon]
Points == {Point(0, 0), Point(Most, Most), Point(2 ^ 24, 5), Point(7, 2 ^ 26 + 2 ^ 23)}

Ref(type, offset) == [type |-> type, offset |-> offset]
Refs == {<<>>, <<Ref("node", 0)>>, <<Ref("area", 70)>>, <<Ref("way", 31), Ref("node", 31), Ref("area", 5000)>>}

\* As many types of nodes as there are.
Many(n) == [types |-> [i \in 1..n |-> NewType(i, {"node"})]]

TypeIdItems ==
  {[kind |-> "typeId", value |-> id, config |-> Many(255)] : id \in {0, 1, 127, 128, 255}}
    \union {[kind |-> "typeId", value |-> id, config |-> Many(256)] : id \in {1, 128, 256}}

SmallItems ==
  <<Of("bool", BOOLEAN), Of("text", {"", "Elm"}), Of("coord", Points),
    Of("conditionalCoord", {<<p>> : p \in Points} \union {NotSet}),
    Of("coords", {<<a, b>> : a, b \in Points} \union {<<Point(3, 4)>>}),
    Of("box", {[min |-> a, max |-> b] : a, b \in Points}),
    Of("ref", UNION {ToSet(refs) : refs \in Refs}), Of("refs", Refs)>>

------------------------------------------------------------------------------
(* Objects.                                                                 *)

With(tags, tag, values) ==
  {t @@ v : t \in tags, v \in {<<>>} \union {tag :> value : value \in values}}

RoadTags ==
  LET road     == {"highway" :> "road", "highway" :> "path"}
      general  == With(With(road, "access", {"no"}), "access:backward", {"yes"})
      oneway   == With(With(general, "oneway", {"yes", "-1"}), "junction", {"roundabout"})
      vehicles == With(With(oneway, "motor_vehicle", {"yes", "no"}), "bicycle:backward", {"yes"})
      forward  == With(With({"highway" :> "road"}, "access", {"no"}), "access:forward", {"yes", "no"})
      others   == With(With(With(forward, "motorcar", {"no", "yes"}), "motor_vehicle:forward", {"yes"}),
                       "foot", {"no", "yes"})
  IN  vehicles \union others

Line == <<Point(5, 9), Point(300, 8), Point(4, 70000)>>

Road(tags) == [kind |-> "way", tags |-> tags, value |-> [nodes |-> Line, ids |-> <<0, 0, 0>>]]

\* Every other feature a way may have, and nodes with and without ids.
Features ==
  With(With({"highway" :> "road" @@ "name" :> "Elm" @@ "ref" :> "5" @@ "width" :> "1,5" @@ "bridge" :> "yes"},
            "layer", {"-3", "1", "85"}), "maxspeed", {"50", "30 mph", "rural"})
    \union {"highway" :> "path" @@ "surface" :> "gravel" @@ "tunnel" :> "yes" @@ "access" :> "private",
            "highway" :> "road" @@ "tracktype" :> "grade2" @@ "maxspeed" :> "127"}

Ids ==
  LET nine(f(_)) == [i \in 1..9 |-> f(i)]
  IN  {nine(LAMBDA i : 0), nine(LAMBDA i : 70 + i), nine(LAMBDA i : IF i = 9 THEN 5 ELSE 0),
       nine(LAMBDA i : IF i % 3 = 0 THEN 300 * i ELSE 0)}

WayItems ==
  {Road(tags) : tags \in RoadTags}
    \union {[kind |-> "way", tags |-> tags, value |-> [nodes |-> Line, ids |-> <<7, 0, 9>>]] :
              tags \in Features}
    \union {[kind |-> "way", tags |-> "highway" :> "path",
             value |-> [nodes |-> [i \in 1..9 |-> Point(10 * i, i)], ids |-> ids]] : ids \in Ids}
    \union {[kind |-> "optimizedWay", tags |-> tags, value |-> [nodes |-> Line]] : tags \in Features}

NodeItems ==
  {[kind |-> "node", tags |-> tags, value |-> [coord |-> Point(7, 2 ^ 26)]] :
     tags \in With(With({"highway" :> "place", "highway" :> "place" @@ "name" :> "Oak" @@ "alt_name" :> "Elm"},
                        "ele", {"12", "-7.5"}), "addr:street", {"Elm"})
              \union {"highway" :> "place" @@ "addr:street" :> "Elm" @@ "addr:housenumber" :> "5"}}

Features0(type, tags) == ParseFeatures(MCConfig, TypeNamed(MCConfig, type), tags)

Ring(type, tags, number, ids) ==
  [type |-> type, features |-> IF type = "" THEN <<>> ELSE Features0(type, tags), ring |-> number,
   nodes |-> Line, ids |-> ids]

Known == <<7, 0, 9>>

AreaRings ==
  {<<Ring(type, tags, OuterRingId, Known)>> :
     type \in {"wood", "square", "building"},
     tags \in {<<>>, "name" :> "Oak" @@ "layer" :> "-3" @@ "admin_level" :> "2"
                       @@ "addr:street" :> "Elm" @@ "addr:housenumber" :> "12"}}
    \union {<<[Ring(type, "ele" :> "12" @@ "name" :> "Elm", MasterRingId, Known) EXCEPT !.nodes = <<>>, !.ids = <<>>],
              Ring("", <<>>, OuterRingId, <<>>), Ring("square", <<>>, 2, Known)>> :
              type \in {"wood", "building"}}

WithoutIds(rings) == [i \in DOMAIN rings |-> [rings[i] EXCEPT !.ids = <<>>]]

Junction ==
  [id |-> 5000, coord |-> Point(2 ^ 24, 5),
   objects |-> <<[kind |-> "way", offset |-> 40, type |-> 2, maxSpeed |-> 255, grade |-> 3],
                 [kind |-> "area", offset |-> 40, type |-> 0, maxSpeed |-> 0, grade |-> 1],
                 [kind |-> "way", offset |-> 9000, type |-> 1, maxSpeed |-> 30, grade |-> 5]>>,
   paths |-> <<[offset |-> 77, objectIndex |-> 2, flags |-> 129, distance |-> 130],
               [offset |-> 1000000, objectIndex |-> 0, flags |-> 0, distance |-> 0]>>,
   excludes |-> <<[source |-> Ref("way", 40), targetIndex |-> 1]>>]

Junctions ==
  {Junction, [Junction EXCEPT !.excludes = <<>>],
   [Junction EXCEPT !.objects = <<@[1]>>, !.paths = <<@[2]>>, !.id = 127]}

ObjectItems ==
  <<WayItems, NodeItems, Of("area", AreaRings),
    Of("optimizedArea", {WithoutIds(rings) : rings \in AreaRings}),
    Of("routeNode", Junctions), Of("intersection", {[id |-> 128, objects |-> refs] : refs \in Refs}),
    Of("types", {MCConfig}), Of("types", {NewConfig})>>

\* No two sets hold what TLC could not compare.
MCItems ==
  <<NumberItems, OffsetItems, TypeIdItems>> \o SmallItems \o ObjectItems

MCFollowers ==
  <<{[kind |-> "int64", value |-> {0, 6}]}, {[kind |-> "text", value |-> "Oak"]}>>

==============================================================================
