------------------------------ MODULE TypeConfig ------------------------------
(***************************************************************************)
(* The types of objects and their features: how the import finds the type  *)
(* of an object by its tags and the values of its features, and how the    *)
(* type definitions get into types.dat and out of it again.                *)
(*                                                                         *)
(* A type is a record of its name, its flags, its features in order, its   *)
(* groups and its conditions.  The id of a tag is its place in the tags of *)
(* the configuration, less one.                                            *)
(***************************************************************************)
EXTENDS Bytes

CONSTANTS NumberIn,  (* the texts that are an integer, and which               *)
          MeterIn,   (* the texts that are a length, and how many tenths of a  *)
                     (* meter: with a comma or a point, with a unit or without *)
          SpeedIn    (* the texts that are a speed: a number, and is it mph?   *)

FeatureNames ==
  <<"Name", "NameAlt", "Ref", "Location", "Address", "Access", "AccessRestricted", "Layer",
    "Width", "MaxSpeed", "Grade", "AdminLevel", "Bridge", "Tunnel", "Roundabout", "Ele">>

\* In the order in which they are stored.
FlagNames ==
  <<"node", "way", "area", "relation", "path", "foot", "bicycle", "car", "indexAsAddress",
    "indexAsLocation", "indexAsRegion", "indexAsPOI", "optimizeLowZoom", "multipolygon",
    "pinWay", "mergeAreas", "ignoreSeaLand", "ignore">>

InternalTags == <<"", "area", "natural", "type", "restriction">>

FeatureTags ==
  <<"ref", "addr:housenumber", "addr:street", "oneway", "junction", "access",
    "access:forward", "access:backward", "foot", "foot:forward", "foot:backward", "bicycle",
    "bicycle:forward", "bicycle:backward", "motor_vehicle", "motor_vehicle:forward",
    "motor_vehicle:backward", "motorcar", "motorcar:forward", "motorcar:backward", "layer",
    "width", "maxspeed", "surface", "tracktype", "admin_level", "bridge", "tunnel", "ele">>

------------------------------------------------------------------------------
(* Registering tags and types.                                              *)

RegisterTag(config, tag) ==
  IF Contains(config.tags, tag) THEN config ELSE [config EXCEPT !.tags = Append(@, tag)]

\* The first priority that is registered for a tag stays.
RegisterNameTag(config, tag, priority) ==
  LET c == RegisterTag(config, tag) IN [c EXCEPT !.nameTags = @ @@ (tag :> priority)]

RegisterNameAltTag(config, tag, priority) ==
  LET c == RegisterTag(config, tag) IN [c EXCEPT !.nameAltTags = @ @@ (tag :> priority)]

TagId(config, tag) ==
  IF Contains(config.tags, tag) THEN SelectInSeq(config.tags, LAMBDA t : t = tag) - 1 ELSE 0

HasFeature(type, feature) == Contains(type.features, feature)

\* TypeInfo::AddFeature(), where the type does not have the feature.
AddFeatures(type, features) ==
  [type EXCEPT !.features = @ \o SelectSeq(features, LAMBDA f : ~HasFeature(type, f))]

\* The features a type gets on account of what it is.
ImpliedFeatures(type) ==
  LET address(t) == IF {"area", "node"} \intersect t.flags # {} /\ "indexAsAddress" \in t.flags
                    THEN AddFeatures(t, <<"Location", "Address">>) ELSE t
      layer(t)   == IF "way" \in t.flags THEN AddFeatures(t, <<"Layer">>) ELSE t
      path(t)    == IF "path" \in t.flags
                    THEN AddFeatures(t, <<"Width", "Grade", "Bridge", "Tunnel", "Roundabout">>) ELSE t
      route(t)   == IF {"foot", "bicycle", "car"} \intersect t.flags # {}
                    THEN AddFeatures(t, <<"Access", "AccessRestricted", "MaxSpeed">>) ELSE t
      poi(t)     == IF HasFeature(t, "Name") /\ "indexAsPOI" \in t.flags
                    THEN AddFeatures(t, <<"Location", "Address">>) ELSE t
  IN  poi(route(path(layer(address(type)))))

RegisterType(config, type) ==
  IF \E i \in DOMAIN config.types : config.types[i].name = type.name THEN config
  ELSE [config EXCEPT !.types = Append(@, ImpliedFeatures(type))]

NewType(name, flags) ==
  [name |-> name, flags |-> flags, features |-> <<>>, groups |-> {}, conditions |-> <<>>]

InternalTypes ==
  <<NewType("", {"ignore"}), NewType("_route", {"way"}), NewType("_tile_land", {"area"}),
    NewType("_tile_sea", {"area"}), NewType("_tile_coast", {"area"}),
    NewType("_tile_unknown", {"area"}), NewType("_tile_coastline", {"way"})>>

\* What the constructor makes.
NewConfig ==
  FoldLeft(RegisterType,
           [tags |-> InternalTags \o FeatureTags, nameTags |-> <<>>, nameAltTags |-> <<>>,
            types |-> <<>>, surfaces |-> <<>>, speeds |-> <<>>],
           InternalTypes)

\* The types of a kind, and their ids from 1 on; 0 is the type that is ignored.
TypesOf(config, kind) ==
  SelectSeq(config.types, LAMBDA t : kind \in t.flags /\ "ignore" \notin t.flags)

IdOf(config, kind, type) ==
  LET ids == {i \in DOMAIN TypesOf(config, kind) : TypesOf(config, kind)[i].name = type.name}
  IN  IF ids = {} THEN 0 ELSE Min(ids)

TypeInfoIgnore(config) == config.types[1]

GetNodeTypeInfo(config, id) ==
  IF id = 0 THEN TypeInfoIgnore(config) ELSE TypesOf(config, "node")[id]
GetWayTypeInfo(config, id) ==
  IF id = 0 THEN TypeInfoIgnore(config) ELSE TypesOf(config, "way")[id]
GetAreaTypeInfo(config, id) ==
  IF id = 0 THEN TypeInfoIgnore(config) ELSE TypesOf(config, "area")[id]

MaxTypeIdBytes(config, kind) == IF Len(TypesOf(config, kind)) < 256 THEN 1 ELSE 2

------------------------------------------------------------------------------
(* The type of an object.                                                   *)

RECURSIVE Evaluate(_, _)
Evaluate(condition, tags) ==
  LET has == condition.tag \in DOMAIN tags
      is  == tags[condition.tag]
  IN  CASE condition.op = "not"    -> ~Evaluate(condition.of, tags)
        [] condition.op = "and"    -> \A c \in condition.of : Evaluate(c, tags)
        [] condition.op = "or"     -> \E c \in condition.of : Evaluate(c, tags)
        [] condition.op = "exists" -> has
        [] condition.op = "="      -> has /\ is = condition.value
        [] condition.op = "#"      -> has /\ is # condition.value
        [] condition.op = "<"      -> has /\ is \in DOMAIN NumberIn /\ NumberIn[is] < condition.value
        [] condition.op = "in"     -> has /\ is \in condition.values

\* The places of the types one of whose conditions for a kind holds.
Matches(config, kinds, tags) ==
  {i \in DOMAIN config.types :
     \E k \in DOMAIN config.types[i].conditions :
       LET c == config.types[i].conditions[k]
       IN  c.kinds \intersect kinds # {} /\ Evaluate(c.condition, tags)}

FirstMatch(config, kinds, tags) ==
  LET found == Matches(config, kinds, tags)
  IN  IF DOMAIN tags = {} \/ found = {} THEN TypeInfoIgnore(config) ELSE config.types[Min(found)]

GetNodeType(config, tags) == FirstMatch(config, {"node"}, tags)

\* The first type that is one or the other, as what its first condition that holds says.
GetWayAreaType(config, tags) ==
  LET type == FirstMatch(config, {"way", "area"}, tags)
      holds == {k \in DOMAIN type.conditions :
                  /\ type.conditions[k].kinds \intersect {"way", "area"} # {}
                  /\ Evaluate(type.conditions[k].condition, tags)}
      as(kind) == IF holds # {} /\ kind \in type.conditions[Min(holds)].kinds
                  THEN type ELSE TypeInfoIgnore(config)
  IN  [way |-> as("way"), area |-> as("area")]

GetRelationType(config, tags) ==
  IF "type" \in DOMAIN tags /\ tags["type"] = "multipolygon"
  THEN FirstMatch(config, {"area"}, tags) ELSE FirstMatch(config, {"relation"}, tags)

------------------------------------------------------------------------------
(* The values of the features, as the tags say.                             *)

\* The value of a feature in a sequence, or an empty one.
NoValue == <<>>

NoTag == "no tag"

TagOf(tags, tag) == IF tag \in DOMAIN tags THEN tags[tag] ELSE NoTag

Nonempty(text) == IF text \in {"", NoTag} THEN NoValue ELSE <<text>>

\* The tag with the highest priority; the tags come in an order of their own.
NameOf(priorities, tags) ==
  LET better(best, tag) ==
        IF best.name = "" \/ priorities[tag] > best.priority
        THEN [name |-> tags[tag], priority |-> priorities[tag]] ELSE best
      best == FoldLeft(better, [name |-> "", priority |-> 0],
                       SetToSeq(DOMAIN tags \intersect DOMAIN priorities))
  IN  Nonempty(best.name)

NameFeature(config, tags) == NameOf(config.nameTags, tags)
NameAltFeature(config, tags) == NameOf(config.nameAltTags, tags)
RefFeature(tags) == Nonempty(TagOf(tags, "ref"))

\* Both or none.
IfAddress(tags, tag) ==
  IF \E t \in {"addr:street", "addr:housenumber"} : TagOf(tags, t) \in {"", NoTag}
  THEN NoValue ELSE <<tags[tag]>>

LocationFeature(tags) == IfAddress(tags, "addr:street")
AddressFeature(tags) == IfAddress(tags, "addr:housenumber")

AccessFlags ==
  <<"footForward", "footBackward", "bicycleForward", "bicycleBackward", "carForward",
    "carBackward", "onewayForward", "onewayBackward">>

Forward  == {"footForward", "bicycleForward", "carForward"}
Backward == {"footBackward", "bicycleBackward", "carBackward"}
Foot     == {"footForward", "footBackward"}
Bicycle  == {"bicycleForward", "bicycleBackward"}
Car      == {"carForward", "carBackward"}

DefaultAccess(type) ==
  (IF "foot" \in type.flags THEN Foot ELSE {})
    \union (IF "bicycle" \in type.flags THEN Bicycle ELSE {})
    \union (IF "car" \in type.flags THEN Car ELSE {})

\* ParseAccessFlag(), and what the code does in its place.
ParseAccess(access, tags, tag, flags) ==
  IF tag \notin DOMAIN tags THEN access
  ELSE (access \ flags) \union (IF tags[tag] = "no" THEN {} ELSE flags)

\* StringToNumber(): the check for an overflow also rejects numbers that would fit.
Accepted(n, max) ==
  LET accepted[i \in 0..n] ==
        i < 10 \/ (accepted[i \div 10] /\ max \div 10 - (i % 10) >= i \div 10)
  IN  accepted[n]

StringToNumber(text, signed, max) ==
  LET n == NumberIn[text]
  IN  IF text \in DOMAIN NumberIn /\ (n >= 0 \/ signed) /\ Accepted(IF n < 0 THEN -n ELSE n, max)
      THEN <<n>> ELSE NoValue

\* Mutant: a way that is closed is not closed before what is allowed is added again.
GeneralAccessForgotten(access, tags) ==
  IF "access:forward" \in DOMAIN tags THEN ParseAccess(access, tags, "access:forward", Forward)
  ELSE ParseAccess(access, tags, "access:backward", Backward)

GeneralAccess(access, tags) ==
  LET allowed == IF TagOf(tags, "access") = "no" THEN {} ELSE access
  IN  IF "access:forward" \in DOMAIN tags
      THEN ParseAccess(allowed, tags, "access:forward", Forward)
      ELSE ParseAccess(allowed, tags, "access:backward", Backward)

Oneway(access, tags) ==
  LET vehicles == {"bicycleForward", "carForward"}
      against  == {"bicycleBackward", "carBackward"}
  IN  IF TagOf(tags, "oneway") = "-1"
      THEN (access \ (vehicles \union {"onewayForward"})) \union {"onewayBackward"}
      ELSE IF "oneway" \in DOMAIN tags /\ tags["oneway"] \notin {"no", "false", "0"}
      THEN (access \ (against \union {"onewayBackward"})) \union {"onewayForward"}
      ELSE IF "oneway" \notin DOMAIN tags /\ TagOf(tags, "junction") = "roundabout"
      THEN (access \ (against \union {"onewayBackward"})) \union vehicles \union {"onewayForward"}
      ELSE access

\* A vehicle is allowed in the directions the way has.
ParseVehicle(access, tags, tag, flags) ==
  LET directions == {f \in flags : /\ f \in Forward  => "onewayBackward" \notin access
                                   /\ f \in Backward => "onewayForward" \notin access}
  IN  IF tag \notin DOMAIN tags THEN access
      ELSE (access \ flags) \union (IF tags[tag] = "no" THEN {} ELSE directions)

Vehicles(access, tags) ==
  LET foot    == ParseAccess(access, tags, "foot", Foot)
      bicycle == ParseVehicle(foot, tags, "bicycle", Bicycle)
      vehicle == ParseVehicle(bicycle, tags, "motor_vehicle", Car)
  IN  ParseVehicle(vehicle, tags, "motorcar", Car)

Directions(access, tags) ==
  LET parse(a, tag) == ParseAccess(a, tags, tag[1], {tag[2]})
  IN  FoldLeft(parse, access,
               <<<<"foot:forward", "footForward">>, <<"foot:backward", "footBackward">>,
                 <<"bicycle:forward", "bicycleForward">>, <<"bicycle:backward", "bicycleBackward">>,
                 <<"motor_vehicle:forward", "carForward">>, <<"motor_vehicle:backward", "carBackward">>,
                 <<"motorcar:forward", "carForward">>, <<"motorcar:backward", "carBackward">>>>)

\* Only what is not usual for the type is stored.
AccessFeature(type, tags) ==
  LET access == Directions(Vehicles(Oneway(GeneralAccess(DefaultAccess(type), tags), tags), tags), tags)
  IN  IF access = DefaultAccess(type) THEN NoValue ELSE <<access>>

Flag(holds) == IF holds THEN <<TRUE>> ELSE NoValue

AccessRestrictedFeature(tags) ==
  Flag(TagOf(tags, "access") \notin
         {NoTag, "no", "yes", "use_sidepath", "permissive", "designated"})

LayerFeature(tags) ==
  LET layer == StringToNumber(TagOf(tags, "layer"), TRUE, 127)
  IN  IF layer = <<0>> THEN NoValue ELSE layer

Rounded(tenths) == (tenths + 5) \div 10

\* In meters; the check of the range rejects nothing, and the conversion of what does
\* not fit in the type leaves its lowest bits.
WidthFeature(tags) ==
  LET width == TagOf(tags, "width")
  IN  IF width \in DOMAIN MeterIn THEN <<Rounded(MeterIn[width]) % 256>> ELSE NoValue

\* A number of 32 bits, as the set of them.
EleFeature(tags) ==
  LET ele == TagOf(tags, "ele")
      e   == Rounded(MeterIn[ele])
  IN  IF ele \notin DOMAIN MeterIn THEN NoValue
      ELSE <<IF e >= 0 THEN Bits(e) ELSE Complement(Bits(-e - 1), 32)>>

\* Kilometers per hour, at most 255.
MaxSpeedFeature(config, tags) ==
  LET speed == TagOf(tags, "maxspeed")
      kmh   == IF SpeedIn[speed].mph THEN (SpeedIn[speed].number * 1609 + 500) \div 1000
               ELSE SpeedIn[speed].number
  IN  IF speed \in {NoTag, "signals", "none", "no"} THEN NoValue
      ELSE IF speed = "walk" THEN <<10>>
      ELSE IF speed \in DOMAIN SpeedIn THEN <<Min({kmh, 255})>>
      ELSE IF speed \in DOMAIN config.speeds THEN <<config.speeds[speed]>>
      ELSE NoValue

Grades == [grade1 |-> 1, grade2 |-> 2, grade3 |-> 3, grade4 |-> 4, grade5 |-> 5]

GradeFeature(config, tags) ==
  LET track == TagOf(tags, "tracktype")
      surface == TagOf(tags, "surface")
  IN  IF track \in DOMAIN Grades THEN <<Grades[track]>>
      ELSE IF surface \in DOMAIN config.surfaces THEN <<config.surfaces[surface]>> ELSE NoValue

AdminLevelFeature(tags) == StringToNumber(TagOf(tags, "admin_level"), FALSE, 255)

BridgeFeature(tags) == Flag(TagOf(tags, "bridge") \notin {NoTag, "no", "false", "0"})
TunnelFeature(tags) == Flag(TagOf(tags, "tunnel") \notin {NoTag, "no", "false", "0"})
RoundaboutFeature(tags) == Flag(TagOf(tags, "junction") = "roundabout")

ParseFeature(config, type, feature, tags) ==
  CASE feature = "Name" -> NameFeature(config, tags)
    [] feature = "NameAlt" -> NameAltFeature(config, tags)
    [] feature = "Ref" -> RefFeature(tags)
    [] feature = "Location" -> LocationFeature(tags)
    [] feature = "Address" -> AddressFeature(tags)
    [] feature = "Access" -> AccessFeature(type, tags)
    [] feature = "AccessRestricted" -> AccessRestrictedFeature(tags)
    [] feature = "Layer" -> LayerFeature(tags)
    [] feature = "Width" -> WidthFeature(tags)
    [] feature = "MaxSpeed" -> MaxSpeedFeature(config, tags)
    [] feature = "Grade" -> GradeFeature(config, tags)
    [] feature = "AdminLevel" -> AdminLevelFeature(tags)
    [] feature = "Bridge" -> BridgeFeature(tags)
    [] feature = "Tunnel" -> TunnelFeature(tags)
    [] feature = "Roundabout" -> RoundaboutFeature(tags)
    [] feature = "Ele" -> EleFeature(tags)

\* FeatureValueBuffer::Parse(): the values of those features that the object has.
ParseFeatures(config, type, tags) ==
  LET has == {f \in ToSet(type.features) : ParseFeature(config, type, f, tags) # NoValue}
  IN  [f \in has |-> ParseFeature(config, type, f, tags)[1]]

------------------------------------------------------------------------------
(* types.dat                                                                *)

TagListBytes(config, tags, priorities) ==
  NumberBytes(Len(tags))
    \o FlattenSeq([i \in DOMAIN tags |->
         NumberBytes(TagId(config, tags[i])) \o TextBytes(tags[i]) \o NumberBytes(priorities[tags[i]])])

TypeBytes(type) ==
  TextBytes(type.name)
    \o FlattenSeq([i \in DOMAIN FlagNames |-> BoolBytes(FlagNames[i] \in type.flags)])
    \o NumberBytes(Len(type.features))
    \o FlattenSeq([i \in DOMAIN type.features |-> TextBytes(type.features[i])])
    \o NumberBytes(Cardinality(type.groups))
    \o FlattenSeq([i \in DOMAIN SetToSeq(type.groups) |-> TextBytes(SetToSeq(type.groups)[i])])

StoreToDataFile(config) ==
  LET named(priorities) == SelectSeq(config.tags, LAMBDA t : t \in DOMAIN priorities)
  IN  NumberBytes(Len(config.tags))
        \o FlattenSeq([i \in DOMAIN config.tags |-> NumberBytes(i - 1) \o TextBytes(config.tags[i])])
        \o TagListBytes(config, named(config.nameTags), config.nameTags)
        \o TagListBytes(config, named(config.nameAltTags), config.nameAltTags)
        \o NumberBytes(Len(config.types))
        \o FlattenSeq([i \in DOMAIN config.types |-> TypeBytes(config.types[i])])

ReadList(s, read(_)) == Then(ReadNumber(s), LAMBDA count : Times(count, count.value, read))

ReadTag(s) ==
  Then(ReadNumber(s), LAMBDA id :
    Then(ReadText(id), LAMBDA name : Got(name, [id |-> id.value, name |-> name.value])))

ReadNamedTag(s) ==
  Then(ReadTag(s), LAMBDA tag :
    Then(ReadNumber(tag), LAMBDA priority : Got(priority, tag.value @@ [priority |-> priority.value])))

ReadType(s) ==
  LET type(name, flags, features, groups) ==
        [NewType(name, {FlagNames[i] : i \in {j \in DOMAIN FlagNames : flags[j]}})
           EXCEPT !.features = features, !.groups = ToSet(groups)]
  IN  Then(ReadText(s), LAMBDA name :
        Then(Times(name, Len(FlagNames), ReadBool), LAMBDA flags :
          Then(ReadList(flags, ReadText), LAMBDA features :
            Then(ReadList(features, ReadText), LAMBDA groups :
              Got(groups, type(name.value, flags.value, features.value, groups.value))))))

\* On a fresh configuration.  The ids of tags must be the ones that are assigned.
LoadFromDataFile(s) ==
  LET withTag(c, tag) == RegisterTag(c, tag.name)
      withName(c, tag) == RegisterNameTag(c, tag.name, tag.priority)
      withAlt(c, tag) == RegisterNameAltTag(c, tag.name, tag.priority)
      tagged(tags, names, alts) ==
        FoldLeft(withAlt, FoldLeft(withName, FoldLeft(withTag, NewConfig, tags), names), alts)
      config(t, c, tags, types) ==
        IF \A tag \in tags : TagId(c, tag.name) = tag.id
        THEN Got(t, FoldLeft(RegisterType, c, types)) ELSE Failed(t)
  IN  Then(ReadList(s, ReadTag), LAMBDA tags :
        Then(ReadList(tags, ReadNamedTag), LAMBDA names :
          Then(ReadList(names, ReadNamedTag), LAMBDA alts :
            Then(ReadList(alts, ReadType), LAMBDA types :
              config(types, tagged(tags.value, names.value, alts.value),
                     UNION {ToSet(tags.value), ToSet(names.value), ToSet(alts.value)},
                     types.value)))))

==============================================================================
