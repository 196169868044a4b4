------------------------------- MODULE Records --------------------------------
(***************************************************************************)
(* The objects of the map and of the routing graph as they are stored: for *)
(* each what is written of it, and how it is read back.                    *)
(*                                                                         *)
(* An object has its type, by name, and a function from its features to    *)
(* their values; the ids of its nodes are 0 where no other object has the  *)
(* node.  An object that was not read completely is not there.             *)
(***************************************************************************)
EXTENDS TypeConfig

------------------------------------------------------------------------------
(* The features of an object: a bit for each, and the values of those that  *)
(* have one.                                                                *)

NameFeatureValue       == "text"
NameAltFeatureValue    == "text"
RefFeatureValue        == "text"
LocationFeatureValue   == "text"
AddressFeatureValue    == "text"
AccessFeatureValue     == "access"
LayerFeatureValue      == "signed byte"
WidthFeatureValue      == "byte"
MaxSpeedFeatureValue   == "byte"
GradeFeatureValue      == "byte"
AdminLevelFeatureValue == "byte"
EleFeatureValue        == "number"

\* The features that have no value are not in it.
Format ==
  [Name |-> NameFeatureValue, NameAlt |-> NameAltFeatureValue, Ref |-> RefFeatureValue,
   Location |-> LocationFeatureValue, Address |-> AddressFeatureValue,
   Access |-> AccessFeatureValue, Layer |-> LayerFeatureValue, Width |-> WidthFeatureValue,
   MaxSpeed |-> MaxSpeedFeatureValue, Grade |-> GradeFeatureValue,
   AdminLevel |-> AdminLevelFeatureValue, Ele |-> EleFeatureValue]

FeatureValueBytes(feature, value) ==
  CASE Format[feature] = "text"        -> TextBytes(value)
    [] Format[feature] = "byte"        -> FixedBytes(Bits(value), 1)
    [] Format[feature] = "signed byte" -> FixedBytes(Bits(value % 256), 1)
    [] Format[feature] = "number"      -> EncodeNumberUnsigned(value)
    [] Format[feature] = "access"      ->
         <<{i - 1 : i \in {k \in DOMAIN AccessFlags : AccessFlags[k] \in value}}>>

SignedByte(n) == IF n > 127 THEN n - 256 ELSE n

ReadFeatureValue(s, feature) ==
  CASE Format[feature] = "text"        -> ReadText(s)
    [] Format[feature] = "byte"        -> ReadByte(s)
    [] Format[feature] = "signed byte" ->
         Then(ReadByte(s), LAMBDA byte : Got(byte, SignedByte(byte.value)))
    [] Format[feature] = "number"      -> ReadNumberUInt32(s)
    [] Format[feature] = "access"      ->
         Then(ReadByte(s), LAMBDA byte : Got(byte, {AccessFlags[b + 1] : b \in Bits(byte.value)}))

MaskBytes(type) == (Len(type.features) + 7) \div 8

\* Mutant: the flag is in the first byte of the mask, on top of the eighth feature.
SpecialInMask(type) == Len(type.features) # 0

\* The flag is the last bit of the mask, or in a byte of its own where that is taken.
SpecialFits(type) == Len(type.features) % 8 # 0

FeatureBytes(type, features, special) ==
  LET set  == {i - 1 : i \in {k \in DOMAIN type.features : type.features[k] \in DOMAIN features}}
      flag == IF special = <<TRUE>> THEN {8 * MaskBytes(type) - 1} ELSE {}
      mask == FixedBytes(set \union (IF SpecialFits(type) THEN flag ELSE {}), MaskBytes(type))
      add  == IF special # <<>> /\ ~SpecialFits(type)
              THEN <<IF special = <<TRUE>> THEN {7} ELSE {}>> ELSE <<>>
      with == SelectSeq(type.features, LAMBDA f : f \in DOMAIN features /\ f \in DOMAIN Format)
  IN  mask \o add \o FlattenSeq([i \in DOMAIN with |-> FeatureValueBytes(with[i], features[with[i]])])

ReadFeatureValues(s, type, set) ==
  LET read(t, i) ==
        Then(ReadFeatureValue(t, type.features[i]), LAMBDA r :
          Got(r, [t.value EXCEPT ![type.features[i]] = r.value]))
      valued(i) == i - 1 \in set /\ type.features[i] \in DOMAIN Format
  IN  FoldLeft(read, Got(s, [f \in {type.features[b + 1] : b \in set} |-> TRUE]),
               SelectSeq([i \in DOMAIN type.features |-> i], valued))

ReadFeatures(s, type) ==
  Then(Take(s, MaskBytes(type)), LAMBDA mask :
    ReadFeatureValues(mask, type, BitsOf(mask.value) \intersect 0..(Len(type.features) - 1)))

\* The value is a pair of the features and the flag.
ReadFlaggedFeatures(s, type) ==
  LET flag(bytes) == (IF SpecialFits(type) THEN 8 * MaskBytes(type) - 1
                      ELSE 8 * MaskBytes(type) + 7) \in BitsOf(bytes)
      set(bytes)  == BitsOf(bytes) \intersect 0..(Len(type.features) - 1)
  IN  Then(Take(s, MaskBytes(type) + (IF SpecialFits(type) THEN 0 ELSE 1)), LAMBDA mask :
        Then(ReadFeatureValues(mask, type, set(mask.value)), LAMBDA features :
          Got(features, <<features.value, flag(mask.value)>>)))

\* FeatureValueReader and the routing profile: without a value, what is usual for the type.
AccessOf(type, features) ==
  IF "Access" \in DOMAIN features THEN features["Access"] ELSE DefaultAccess(type)

------------------------------------------------------------------------------
(* Nodes and ways.                                                          *)

TypeNamed(config, name) ==
  config.types[CHOOSE i \in DOMAIN config.types : config.types[i].name = name]

ObjectTypeBytes(config, kind, name) ==
  TypeIdBytes(IdOf(config, kind, TypeNamed(config, name)), MaxTypeIdBytes(config, kind))

NodeBytes(config, node) ==
  ObjectTypeBytes(config, "node", node.type)
    \o FeatureBytes(TypeNamed(config, node.type), node.features, <<>>)
    \o CoordBytes(node.coord)

ReadNode(s, config) ==
  Then(ReadTypeId(s, MaxTypeIdBytes(config, "node")), LAMBDA id :
    Then(ReadFeatures(id, GetNodeTypeInfo(config, id.value)), LAMBDA features :
      Then(ReadCoord(features), LAMBDA coord :
        Got(coord, [type |-> GetNodeTypeInfo(config, id.value).name,
                    features |-> features.value, coord |-> coord.value]))))

MinId(ids) ==
  LET known == {ids[i] : i \in DOMAIN ids} \ {0} IN IF known = {} THEN 0 ELSE Min(known)

\* The smallest id, and for eight nodes a byte that says which have ids, and these ids.
IdsBytes(ids) ==
  LET group(g) ==
        LET at == {i \in DOMAIN ids : (i - 1) \div 8 = g}
            known == SelectSeq([k \in 1..Cardinality(at) |-> ids[8 * g + k]], LAMBDA id : id # 0)
        IN  <<{(i - 1) % 8 : i \in {k \in at : ids[k] # 0}}>>
              \o FlattenSeq([k \in DOMAIN known |-> NumberBytes(known[k] - MinId(ids))])
  IN  NumberBytes(MinId(ids))
        \o (IF MinId(ids) = 0 THEN <<>>
            ELSE FlattenSeq([g \in 1..((Len(ids) + 7) \div 8) |-> group(g - 1)]))

\* One id, and before the first of eight the byte that says which of them have ids.
ReadId(s, i, min) ==
  LET ids == s.value.ids
      add(t, set, id) == Got(t, [set |-> set, ids |-> Append(ids, id)])
      one(t, set) == IF (i - 1) % 8 \notin set THEN add(t, set, 0)
                     ELSE Then(ReadNumber(t), LAMBDA id : add(id, set, id.value + min))
  IN  IF s.error THEN s
      ELSE IF (i - 1) % 8 = 0 THEN Then(Take(s, 1), LAMBDA byte : one(byte, byte.value[1]))
      ELSE one(s, s.value.set)

ReadIds(s, count) ==
  LET from(min) ==
        Then(FoldLeft(LAMBDA t, i : ReadId(t, i, min.value),
                      Got(min, [set |-> {}, ids |-> <<>>]), [i \in 1..count |-> i]),
             LAMBDA all : Got(all, all.value.ids))
  IN  Then(ReadNumber(s), LAMBDA min :
        IF min.value = 0 THEN Got(min, [i \in 1..count |-> 0]) ELSE from(min))

OptimizedWayBytes(config, way) ==
  ObjectTypeBytes(config, "way", way.type)
    \o FeatureBytes(TypeNamed(config, way.type), way.features, <<>>)
    \o CountedCoordsBytes(way.nodes)

WayBytes(config, way) == OptimizedWayBytes(config, way) \o IdsBytes(way.ids)

ReadOptimizedWay(s, config) ==
  Then(ReadTypeId(s, MaxTypeIdBytes(config, "way")), LAMBDA id :
    Then(ReadFeatures(id, GetWayTypeInfo(config, id.value)), LAMBDA features :
      Then(ReadCountedCoords(features), LAMBDA nodes :
        Got(nodes, [type |-> GetWayTypeInfo(config, id.value).name,
                    features |-> features.value, nodes |-> nodes.value]))))

ReadWay(s, config) ==
  Then(ReadOptimizedWay(s, config), LAMBDA way :
    Then(ReadIds(way, Len(way.value.nodes)), LAMBDA ids :
      Got(ids, way.value @@ [ids |-> ids.value])))

------------------------------------------------------------------------------
(* Areas: rings, of which the first is the outer ring or, where there are   *)
(* more, holds what the others have in common.                              *)

MasterRingId == 0
OuterRingId  == 1

RingCoordsBytes(ring) == IF ring.nodes = <<>> THEN <<>> ELSE CoordsBytes(ring.nodes)

RingIdsBytes(ring, optimized) ==
  IF optimized \/ ring.nodes = <<>> THEN <<>> ELSE IdsBytes(ring.ids)

FirstRingBytes(config, rings, optimized) ==
  ObjectTypeBytes(config, "area", rings[1].type)
    \o FeatureBytes(TypeNamed(config, rings[1].type), rings[1].features, <<Len(rings) > 1>>)
    \o (IF Len(rings) > 1 THEN NumberBytes(Len(rings) - 1) ELSE <<>>)
    \o NumberBytes(Len(rings[1].nodes)) \o RingIdsBytes(rings[1], optimized) \o RingCoordsBytes(rings[1])

Ignored(config, type) == IdOf(config, "area", type) = 0

\* A ring without a type of its own has neither features nor ids.
OtherRingBytes(config, ring, optimized) ==
  LET type == TypeNamed(config, ring.type)
  IN  ObjectTypeBytes(config, "area", ring.type)
        \o (IF Ignored(config, type) THEN <<>> ELSE FeatureBytes(type, ring.features, <<>>))
        \o FixedBytes(Bits(ring.ring), 1) \o NumberBytes(Len(ring.nodes))
        \o (IF Ignored(config, type) THEN <<>> ELSE RingIdsBytes(ring, optimized))
        \o RingCoordsBytes(ring)

RingsBytes(config, rings, optimized) ==
  FirstRingBytes(config, rings, optimized)
    \o FlattenSeq([i \in 1..(Len(rings) - 1) |-> OtherRingBytes(config, rings[i + 1], optimized)])

AreaBytes(config, rings) == RingsBytes(config, rings, FALSE)
OptimizedAreaBytes(config, rings) == RingsBytes(config, rings, TRUE)

\* The ids and the coordinates of a ring.
ReadRingNodes(s, withIds) ==
  LET ids(t, count) == IF withIds /\ count > 0 THEN ReadIds(t, count) ELSE Got(t, <<>>)
      coords(t, count) == IF count = 0 THEN Got(t, <<>>) ELSE ReadCoords(t, count)
  IN  Then(ReadNumber(s), LAMBDA count :
        Then(ids(count, count.value), LAMBDA i :
          Then(coords(i, count.value), LAMBDA c :
            Got(c, [ids |-> i.value, nodes |-> c.value]))))

ReadOtherRing(s, config, optimized) ==
  LET features(t, type) == IF Ignored(config, type) THEN Got(t, <<>>) ELSE ReadFeatures(t, type)
      rest(t, type) ==
        Then(features(t, type), LAMBDA f :
          Then(ReadByte(f), LAMBDA ring :
            Then(ReadRingNodes(ring, ~optimized /\ ~Ignored(config, type)), LAMBDA nodes :
              Got(nodes, [type |-> type.name, features |-> f.value, ring |-> ring.value]
                           @@ nodes.value))))
  IN  Then(ReadTypeId(s, MaxTypeIdBytes(config, "area")), LAMBDA id :
        rest(id, GetAreaTypeInfo(config, id.value)))

ReadRings(s, config, optimized) ==
  LET count(t, more) == IF more THEN ReadNumber(t) ELSE Got(t, 0)
      others(t, n) == Times(t, n, LAMBDA u : ReadOtherRing(u, config, optimized))
      first(type, features, n, nodes) ==
        [type |-> type.name, features |-> features,
         ring |-> IF n > 0 THEN MasterRingId ELSE OuterRingId] @@ nodes
      rings(t, type, features, n) ==
        Then(ReadRingNodes(t, ~optimized), LAMBDA nodes :
          Then(others(nodes, n), LAMBDA all :
            Got(all, <<first(type, features, n, nodes.value)>> \o all.value)))
      rest(t, type) ==
        Then(ReadFlaggedFeatures(t, type), LAMBDA features :
          Then(count(features, features.value[2]), LAMBDA n :
            rings(n, type, features.value[1], n.value)))
  IN  Then(ReadTypeId(s, MaxTypeIdBytes(config, "area")), LAMBDA id :
        rest(id, GetAreaTypeInfo(config, id.value)))

ReadArea(s, config) == ReadRings(s, config, FALSE)
ReadOptimizedArea(s, config) == ReadRings(s, config, TRUE)

------------------------------------------------------------------------------
(* The routing graph.                                                       *)

RouteObjectBytes(object, previous) ==
  NumberBytes(2 * (object.offset - previous) + (IF object.kind = "way" THEN 0 ELSE 1))
    \o NumberBytes(object.type) \o FixedBytes(Bits(object.maxSpeed), 1)
    \o FixedBytes(Bits(object.grade), 1)

PathBytes(path) ==
  FileOffsetBytes(Bits(path.offset), 8) \o NumberBytes(path.objectIndex)
    \o FixedBytes(Bits(path.flags), 1) \o NumberBytes(path.distance)

ExcludeBytes(exclude) == RefBytes(exclude.source) \o NumberBytes(exclude.targetIndex)

\* The objects are sorted by their offsets.
RouteNodeBytes(node) ==
  NumberBytes(node.id) \o CoordBytes(node.coord) \o NumberBytes(Len(node.objects))
    \o NumberBytes(Len(node.paths)) \o NumberBytes(Len(node.excludes))
    \o FlattenSeq([i \in DOMAIN node.objects |->
         RouteObjectBytes(node.objects[i], IF i = 1 THEN 0 ELSE node.objects[i - 1].offset)])
    \o FlattenSeq([i \in DOMAIN node.paths |-> PathBytes(node.paths[i])])
    \o FlattenSeq([i \in DOMAIN node.excludes |-> ExcludeBytes(node.excludes[i])])

ReadRouteObject(s, previous) ==
  Then(ReadNumber(s), LAMBDA offset :
    Then(ReadNumber(offset), LAMBDA type :
      Then(ReadByte(type), LAMBDA speed :
        Then(ReadByte(speed), LAMBDA grade :
          Got(grade, [kind |-> IF offset.value % 2 = 0 THEN "way" ELSE "area",
                      offset |-> offset.value \div 2 + previous, type |-> type.value,
                      maxSpeed |-> speed.value, grade |-> grade.value])))))

ReadPath(s) ==
  Then(ReadFileOffset(s), LAMBDA offset :
    Then(ReadNumber(offset), LAMBDA index :
      Then(ReadByte(index), LAMBDA flags :
        Then(ReadNumber(flags), LAMBDA distance :
          Got(distance, [offset |-> Value(offset.value), objectIndex |-> index.value,
                         flags |-> flags.value, distance |-> distance.value])))))

ReadExclude(s) ==
  Then(ReadRef(s), LAMBDA source :
    Then(ReadNumber(source), LAMBDA target :
      Got(target, [source |-> source.value, targetIndex |-> target.value])))

ReadRouteObjects(s, count) ==
  LET offset(objects) == IF objects = <<>> THEN 0 ELSE Last(objects).offset
      read(t, i) == Then(ReadRouteObject(t, offset(t.value)), LAMBDA r : Got(r, Append(t.value, r.value)))
  IN  FoldLeft(read, Got(s, <<>>), [i \in 1..count |-> i])

ReadRouteNode(s) ==
  LET counts(t) ==
        Then(ReadNumber(t), LAMBDA objects :
          Then(ReadNumber(objects), LAMBDA paths :
            Then(ReadNumber(paths), LAMBDA excludes :
              Got(excludes, [objects |-> objects.value, paths |-> paths.value,
                             excludes |-> excludes.value]))))
      lists(t, count) ==
        Then(ReadRouteObjects(t, count.objects), LAMBDA objects :
          Then(Times(objects, count.paths, ReadPath), LAMBDA paths :
            Then(Times(paths, count.excludes, ReadExclude), LAMBDA excludes :
              Got(excludes, [objects |-> objects.value, paths |-> paths.value,
                             excludes |-> excludes.value]))))
  IN  Then(ReadNumber(s), LAMBDA id :
        Then(ReadCoord(id), LAMBDA coord :
          Then(counts(coord), LAMBDA count :
            Then(lists(count, count.value), LAMBDA all :
              Got(all, [id |-> id.value, coord |-> coord.value] @@ all.value)))))

IntersectionBytes(junction) ==
  NumberBytes(junction.id) \o NumberBytes(Len(junction.objects)) \o RefStreamBytes(junction.objects)

ReadIntersection(s) ==
  Then(ReadNumber(s), LAMBDA id :
    Then(ReadNumber(id), LAMBDA count :
      Then(ReadRefStream(count, count.value), LAMBDA objects :
        Got(objects, [id |-> id.value, objects |-> objects.value]))))

==============================================================================
