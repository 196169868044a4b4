----------------------------- MODULE WrittenFiles ------------------------------
(***************************************************************************)
(* A file of the map database: a FileWriter writes one thing after the     *)
(* other, the disk may refuse some of it or lose the end of the file, and  *)
(* a FileScanner reads it back, from a stream or from the memory the file  *)
(* is mapped to, and may go back to what it has read.                      *)
(*                                                                         *)
(* What is written is a record of its kind and its value; a kind stands    *)
(* for a write function and the read function that belongs to it.          *)
(***************************************************************************)
EXTENDS Records

CONSTANTS Config,     (* the type definitions                                *)
          Items,      (* what is written first: sets of what is alike        *)
          Followers,  (* what is written then                                *)
          MaxItems,   (* bound: the things written                           *)
          MaxLost,    (* bound: the bytes the disk loses                     *)
          MaxSeeks    (* bound: how often the reader goes elsewhere          *)

ASSUME WrittenFilesAssumption == MaxItems \in Nat /\ MaxLost \in Nat /\ MaxSeeks \in Nat

VARIABLES file,     (* the bytes                                             *)
          hasError, (* the writer's error flag                               *)
          refused,  (* history: was anything not written?                    *)
          written,  (* history: what was written, and where it starts, ends  *)
          reading,  (* is the file open for reading?                         *)
          scanner,
          next,     (* the place of what is to be read                       *)
          seeks,
          read      (* history: what the scanner returned, and for what      *)

vars == <<file, hasError, refused, written, reading, scanner, next, seeks, read>>

SignedKinds == [int16 |-> 16, int32 |-> 32, int64 |-> 64]
UnsignedKinds == [uint16 |-> 16, uint32 |-> 32, uint64 |-> 64]
FixedKinds == [fixed8 |-> 1, fixed16 |-> 2, fixed32 |-> 4, fixed64 |-> 8,
               ufixed8 |-> 1, ufixed16 |-> 2, ufixed32 |-> 4, ufixed64 |-> 8]

\* What is read of a configuration: its conditions and tables are not stored.
Stored(config) ==
  [config EXCEPT !.types = [i \in DOMAIN @ |-> [@[i] EXCEPT !.conditions = <<>>]],
                 !.surfaces = <<>>, !.speeds = <<>>]

\* The object with some tags and what else it has.
Tagged(type, item) ==
  [type |-> type.name, features |-> ParseFeatures(Config, type, item.tags)] @@ item.value

WrittenValue(item) ==
  CASE item.kind = "node" -> Tagged(GetNodeType(Config, item.tags), item)
    [] item.kind \in {"way", "optimizedWay"} -> Tagged(GetWayAreaType(Config, item.tags).way, item)
    [] item.kind = "types" -> Stored(item.value)
    [] OTHER -> item.value

BytesOfItem(item, value) ==
  CASE item.kind \in DOMAIN SignedKinds -> EncodeNumberSigned(value, SignedKinds[item.kind])
    [] item.kind \in DOMAIN UnsignedKinds -> EncodeNumberUnsigned(value)
    [] item.kind \in DOMAIN FixedKinds -> FixedBytes(value, FixedKinds[item.kind])
    [] item.kind \in {"bytes16", "bytes32", "bytes64"} -> FixedBytes(value, item.count)
    [] item.kind = "bool"   -> BoolBytes(value)
    [] item.kind = "text"   -> TextBytes(value)
    [] item.kind = "typeId" -> TypeIdBytes(value, MaxTypeIdBytes(item.config, "node"))
    [] item.kind = "coord"  -> CoordBytes(value)
    [] item.kind = "conditionalCoord" ->
         IF value = NotSet THEN InvalidCoordBytes ELSE CoordBytes(value[1])
    [] item.kind = "coords" -> CountedCoordsBytes(value)
    [] item.kind = "box"    -> CoordBytes(value.min) \o CoordBytes(value.max)
    [] item.kind = "ref"    -> RefBytes(value)
    [] item.kind = "refs"   -> NumberBytes(Len(value)) \o RefStreamBytes(value)
    [] item.kind = "offset" -> FileOffsetBytes(value, item.count)
    [] item.kind = "types"  -> StoreToDataFile(item.value)
    [] item.kind = "node"   -> NodeBytes(Config, value)
    [] item.kind = "way"    -> WayBytes(Config, value)
    [] item.kind = "optimizedWay"  -> OptimizedWayBytes(Config, value)
    [] item.kind = "area"          -> AreaBytes(Config, value)
    [] item.kind = "optimizedArea" -> OptimizedAreaBytes(Config, value)
    [] item.kind = "routeNode"     -> RouteNodeBytes(value)
    [] item.kind = "intersection"  -> IntersectionBytes(value)

ReadItem(s, item) ==
  CASE item.kind = "int16"   -> ReadNumberInt16(s)
    [] item.kind = "int32"   -> ReadNumberInt32(s)
    [] item.kind = "int64"   -> ReadNumberInt64(s)
    [] item.kind = "uint16"  -> ReadNumberUInt16(s)
    [] item.kind = "uint32"  -> ReadNumberUInt32(s)
    [] item.kind = "uint64"  -> ReadNumberUInt64(s)
    [] item.kind = "fixed8"  -> ReadInt8(s)
    [] item.kind = "fixed16" -> ReadInt16(s)
    [] item.kind = "fixed32" -> ReadInt32(s)
    [] item.kind = "fixed64" -> ReadInt64(s)
    [] item.kind = "ufixed8"  -> ReadUInt8(s)
    [] item.kind = "ufixed16" -> ReadUInt16(s)
    [] item.kind = "ufixed32" -> ReadUInt32(s)
    [] item.kind = "ufixed64" -> ReadUInt64(s)
    [] item.kind = "bytes16" -> ReadUInt16Bytes(s, item.count)
    [] item.kind = "bytes32" -> ReadUInt32Bytes(s, item.count)
    [] item.kind = "bytes64" -> ReadUInt64Bytes(s, item.count)
    [] item.kind = "bool"    -> ReadBool(s)
    [] item.kind = "text"    -> ReadText(s)
    [] item.kind = "typeId"  -> ReadTypeId(s, MaxTypeIdBytes(item.config, "node"))
    [] item.kind = "coord"   -> ReadCoord(s)
    [] item.kind = "conditionalCoord" -> ReadConditionalCoord(s)
    [] item.kind = "coords"  -> ReadCountedCoords(s)
    [] item.kind = "box"     -> ReadBox(s)
    [] item.kind = "ref"     -> ReadRef(s)
    [] item.kind = "refs"    ->
         Then(ReadNumber(s), LAMBDA count : ReadRefStream(count, count.value))
    [] item.kind = "offset"  -> ReadFileOffsetBytes(s, item.count)
    [] item.kind = "types"   -> LoadFromDataFile(s)
    [] item.kind = "node"    -> ReadNode(s, Config)
    [] item.kind = "way"     -> ReadWay(s, Config)
    [] item.kind = "optimizedWay"  -> ReadOptimizedWay(s, Config)
    [] item.kind = "area"          -> ReadArea(s, Config)
    [] item.kind = "optimizedArea" -> ReadOptimizedArea(s, Config)
    [] item.kind = "routeNode"     -> ReadRouteNode(s)
    [] item.kind = "intersection"  -> ReadIntersection(s)

------------------------------------------------------------------------------
Init ==
  /\ file = <<>> /\ hasError = FALSE /\ refused = FALSE /\ written = <<>>
  /\ reading = FALSE /\ scanner = <<>> /\ next = 1 /\ seeks = 0 /\ read = <<>>

Writing == ~reading /\ Len(written) < MaxItems

\* Every write but that of a text does nothing once there was an error.
Write(item) ==
  /\ Writing /\ (hasError => item.kind = "text")
  /\ \E value \in {WrittenValue(item)} :
       /\ file' = file \o BytesOfItem(item, value)
       /\ written' = Append(written, [item |-> item, value |-> value,
                                     start |-> Len(file), end |-> Len(file')])
  /\ hasError' = FALSE
  /\ UNCHANGED <<refused, reading, scanner, next, seeks, read>>

\* The disk takes nothing of it.
WriteFails ==
  /\ Writing /\ ~hasError
  /\ hasError' = TRUE /\ refused' = TRUE
  /\ UNCHANGED <<file, written, reading, scanner, next, seeks, read>>

\* The writer has no error and is closed, and the file is opened for reading; some
\* bytes at its end may be gone.
Open(length, useMmap, modulo) ==
  /\ ~reading /\ ~hasError /\ Len(written) = MaxItems
  /\ modulo => useMmap /\ \E i \in DOMAIN written : written[i].item.kind \in DOMAIN SignedKinds
  /\ file' = SubSeq(file, 1, length)
  /\ scanner' = OpenScanner(file', useMmap, modulo)
  /\ reading' = TRUE
  /\ UNCHANGED <<hasError, refused, written, next, seeks, read>>

ReadNext ==
  /\ reading /\ ~scanner.error /\ next <= Len(written)
  /\ scanner' = ReadItem(scanner, written[next].item)
  /\ next' = next + 1
  /\ read' = IF scanner'.error THEN read ELSE Append(read, [at |-> next, value |-> scanner'.value])
  /\ UNCHANGED <<file, hasError, refused, written, reading, seeks>>

\* To what was written as number i; the caller goes on reading if that succeeded.
Seek(i) ==
  /\ reading /\ ~scanner.error /\ seeks < MaxSeeks
  /\ scanner' = SetPos(scanner, written[i].start)
  /\ next' = IF scanner'.value THEN i ELSE Len(written) + 1
  /\ seeks' = seeks + 1
  /\ UNCHANGED <<file, hasError, refused, written, reading, read>>

Next ==
  \/ \E sort \in DOMAIN Items : written = <<>> /\ \E item \in Items[sort] : Write(item)
  \/ \E sort \in DOMAIN Followers : written # <<>> /\ \E item \in Followers[sort] : Write(item)
  \/ WriteFails
  \/ \E lost \in 0..MaxLost, useMmap, modulo \in BOOLEAN :
       lost <= Len(file) /\ Open(Len(file) - lost, useMmap, modulo)
  \/ ReadNext
  \/ \E i \in 1..Len(written) : Seek(i)

Spec == Init /\ [][Next]_vars

------------------------------------------------------------------------------
(* Properties                                                              *)

Whole(i) == written[i].end <= Len(scanner.file)

\* What is read is what was written, also behind something else, after going back,
\* and where the file is cut, and nothing that is there completely is refused: so
\* that nothing that is read moves the reader to a wrong place, or leaves the reader
\* of another object with its error.  An encoded number starts with a byte 0 only
\* if it is 0: the pages of a NumericIndex end at the first such byte.
\* What has lost its end is not read, except that a signed number in mapped memory is:
\* it is decoded with whatever follows the file.  And where something is missing
\* because the disk refused it, a text was written afterwards: the other writes
\* would have kept the error.
ReadBack ==
  /\ \A k \in DOMAIN read :
       Whole(read[k].at) => read[k].value = written[read[k].at].value
  /\ reading /\ scanner.error => ~Whole(next - 1)
  /\ ~reading =>
       \A i \in DOMAIN written :
         written[i].item.kind \in DOMAIN SignedKinds \union DOMAIN UnsignedKinds
           => (file[written[i].start + 1] = {} <=> written[i].item.value = {})
  /\ \A k \in DOMAIN read :
       \/ Whole(read[k].at)
       \/ scanner.mapped /\ written[read[k].at].item.kind \in DOMAIN SignedKinds
  /\ reading /\ refused => \E i \in DOMAIN written : written[i].item.kind = "text"

\* Who may use a way in a direction: what the most particular of the tags says, where
\* a direction is more particular than a vehicle and a vehicle than all of them; then
\* whether it is against a oneway or, in the other direction, on a roundabout; then
\* what the tags say about everyone, and then what is usual for the type.
VehicleTags(vehicle) ==
  CASE vehicle = "foot"    -> <<"foot">>
    [] vehicle = "bicycle" -> <<"bicycle">>
    [] vehicle = "car"     -> <<"motorcar", "motor_vehicle">>

Directed ==
  [foot |-> (TRUE :> "foot:forward" @@ FALSE :> "foot:backward"),
   bicycle |-> (TRUE :> "bicycle:forward" @@ FALSE :> "bicycle:backward"),
   motorcar |-> (TRUE :> "motorcar:forward" @@ FALSE :> "motorcar:backward"),
   motor_vehicle |-> (TRUE :> "motor_vehicle:forward" @@ FALSE :> "motor_vehicle:backward")]

AccessFlag ==
  [foot |-> (TRUE :> "footForward" @@ FALSE :> "footBackward"),
   bicycle |-> (TRUE :> "bicycleForward" @@ FALSE :> "bicycleBackward"),
   car |-> (TRUE :> "carForward" @@ FALSE :> "carBackward")]

MayGo(type, tags, vehicle, forward) ==
  LET has(tag) == tag \in DOMAIN tags
      names    == VehicleTags(vehicle)
      directed == SelectSeq([i \in DOMAIN names |-> Directed[names[i]][forward]], has)
      plain    == SelectSeq(names, has)
      reversed == TagOf(tags, "oneway") = "-1"
      circle   == ~has("oneway") /\ TagOf(tags, "junction") = "roundabout"
      oneway   == (has("oneway") /\ tags["oneway"] \notin {"no", "false", "0"}) \/ circle
      against  == vehicle # "foot" /\ oneway /\ (forward <=> reversed)
      general  == IF forward THEN "access:forward" ELSE "access:backward"
  IN  IF directed # <<>> THEN tags[directed[1]] # "no"
      ELSE IF plain # <<>> THEN tags[plain[1]] # "no" /\ ~against
      ELSE IF against THEN FALSE
      ELSE IF circle /\ vehicle # "foot" THEN TRUE
      ELSE IF has(general) /\ (forward \/ ~has("access:forward")) THEN tags[general] # "no"
      ELSE TagOf(tags, "access") # "no" /\ vehicle \in type.flags

\* The access of a way that is read is what its tags say, for everyone and in both
\* directions, whether it is stored or left out because it is usual for the type.
AccessFollowsTags ==
  \A k \in DOMAIN read :
    LET item == written[read[k].at].item
        way  == read[k].value
        type == TypeNamed(Config, way.type)
    IN  item.kind = "way" /\ Whole(read[k].at) /\ way.type # "" =>
          \A vehicle \in {"foot", "bicycle", "car"}, forward \in BOOLEAN :
            AccessFlag[vehicle][forward] \in AccessOf(type, way.features)
              <=> MayGo(type, item.tags, vehicle, forward)

==============================================================================
