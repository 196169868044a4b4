-------------------------------- MODULE Bytes ---------------------------------
(***************************************************************************)
(* What a FileWriter writes of the values of every kind but the compressed *)
(* numbers, which are in Numbers, and how a FileScanner reads them back.   *)
(*                                                                         *)
(* A file is a sequence of bytes.  A scanner is a record of the file, the  *)
(* offset in it, whether the file is mapped to memory, its error flag and  *)
(* the value that the last read returned, and of what the processor does   *)
(* with a shift by too much (see Numbers).  Once it has its error, a read  *)
(* does nothing and leaves the variable it should fill as it was.          *)
(***************************************************************************)
EXTENDS Numbers, SequencesExt

CONSTANT Texts  (* the strings in use, in a sequence; not the empty one *)

ASSUME BytesAssumption == "" \notin ToSet(Texts)

Bits(n) == {b \in 0..30 : (n \div 2 ^ b) % 2 = 1}

Value(bits) == FoldSet(LAMBDA b, sum : 2 ^ b + sum, 0, bits)

Unknown == "?"

------------------------------------------------------------------------------
(* The writer: the bytes of a value.                                        *)

\* The n lowest bytes, the lowest first.
FixedBytes(bits, n) == [i \in 1..n |-> Group(bits, 8 * (i - 1), 8)]

BoolBytes(value) == FixedBytes(IF value THEN {0} ELSE {}, 1)

FileOffsetBytes(bits, n) == FixedBytes(bits, n)

\* WriteNumber() of a number that is not negative.
NumberBytes(n) == EncodeNumberUnsigned(Bits(n))

\* A text is two characters, and these are the place of the text among the texts.
Characters ==
  [text \in ToSet(Texts) |->
     LET at == Bits(CHOOSE i \in DOMAIN Texts : Texts[i] = text) IN <<at, at>>] @@ ("" :> <<>>)

TextBytes(text) == Characters[text] \o <<{}>>

CoordByteSize == 7

\* The lower three bytes of both, and a byte of the upper three bits of both.
CoordBytes(coord) ==
  FixedBytes(Bits(coord.lat), 3) \o FixedBytes(Bits(coord.lon), 3)
    \o <<Group(Bits(coord.lat), 24, 3) \union ShiftLeft(Group(Bits(coord.lon), 24, 3), 4)>>

InvalidCoordBytes == [i \in 1..CoordByteSize |-> 0..7]

\* A place in a sequence, or an empty one.
NotSet == <<>>

MinCoord(coords) ==
  [lat |-> Min({coords[i].lat : i \in DOMAIN coords}),
   lon |-> Min({coords[i].lon : i \in DOMAIN coords})]

\* The lower left corner, and where every point is as seen from there.
CoordsBytes(coords) ==
  LET min == MinCoord(coords)
  IN  CoordBytes(min)
        \o FlattenSeq([i \in DOMAIN coords |->
                         NumberBytes(coords[i].lat - min.lat) \o NumberBytes(coords[i].lon - min.lon)])

CountedCoordsBytes(coords) == NumberBytes(Len(coords)) \o CoordsBytes(coords)

TypeIdBytes(id, maxBytes) == IF maxBytes = 1 THEN FixedBytes(Bits(id), 1) ELSE NumberBytes(id)

RefTypes == [node |-> 1, area |-> 2, way |-> 3]

RefBytes(ref) == FixedBytes(Bits(RefTypes[ref.type]), 1) \o FileOffsetBytes(Bits(ref.offset), 8)

\* ObjectFileRefStreamWriter: the differences of the offsets, which ascend, and the
\* type in their two lowest bits.
RefStreamBytes(refs) ==
  FlattenSeq([i \in DOMAIN refs |->
    LET last == IF i = 1 THEN 0 ELSE refs[i - 1].offset
    IN  NumberBytes(4 * (refs[i].offset - last) + RefTypes[refs[i].type])])

------------------------------------------------------------------------------
(* The scanner.                                                             *)

\* FileScanner::Open(): an empty file is not mapped.
OpenScanner(bytes, useMmap, modulo) ==
  [file |-> bytes, at |-> 0, mapped |-> useMmap /\ bytes # <<>>, error |-> FALSE,
   value |-> Unknown, modulo |-> modulo]

\* SetPos(): in mapped memory a position behind the end is refused, in a stream it is
\* the next read that fails.  Both leave the error flag as it is.
SetPos(s, position) ==
  IF s.error \/ (s.mapped /\ position >= Len(s.file))
  THEN [s EXCEPT !.value = FALSE]
  ELSE [s EXCEPT !.at = position, !.value = TRUE]

Failed(s) == [s EXCEPT !.error = TRUE]

Got(s, value) == IF s.error THEN s ELSE [s EXCEPT !.value = value]

\* What is read after it, unless there was an error.
Then(s, Read(_)) == IF s.error THEN s ELSE Read(s)

\* The same read some times, for the values in a sequence.
Times(s, count, Read(_)) ==
  LET next(t, r) == Got(r, Append(t.value, r.value))
      read(t, i) == Then(t, LAMBDA u : Then(Read(u), LAMBDA r : next(u, r)))
  IN  FoldLeft(read, Got(s, <<>>), [i \in 1..count |-> i])

\* The next n bytes.
Take(s, n) ==
  IF s.error THEN s
  ELSE IF s.at + n > Len(s.file) THEN Failed(s)
  ELSE [s EXCEPT !.value = SubSeq(s.file, s.at + 1, s.at + n), !.at = s.at + n]

BitsOf(bytes) == UNION {ShiftLeft(bytes[i], 8 * (i - 1)) : i \in DOMAIN bytes}

ReadFixed(s, n) == Then(Take(s, n), LAMBDA bytes : Got(bytes, BitsOf(bytes.value)))

ReadInt8(s)   == ReadFixed(s, 1)
ReadInt16(s)  == ReadFixed(s, 2)
ReadInt32(s)  == ReadFixed(s, 4)
ReadInt64(s)  == ReadFixed(s, 8)
ReadUInt8(s)  == ReadFixed(s, 1)
ReadUInt16(s) == ReadFixed(s, 2)
ReadUInt32(s) == ReadFixed(s, 4)
ReadUInt64(s) == ReadFixed(s, 8)

\* Read(number, bytes): as many of the lower bytes as were written.
ReadUInt16Bytes(s, n) == ReadFixed(s, n)
ReadUInt32Bytes(s, n) == ReadFixed(s, n)
ReadUInt64Bytes(s, n) == ReadFixed(s, n)

ReadFileOffset(s) == ReadFixed(s, 8)
ReadFileOffsetBytes(s, n) == ReadFixed(s, n)

ReadBool(s) == Then(Take(s, 1), LAMBDA byte : Got(byte, byte.value # <<{}>>))

ReadByte(s) == Then(ReadUInt8(s), LAMBDA byte : Got(byte, Value(byte.value)))

TextOf(bytes) ==
  IF \E text \in DOMAIN Characters : Characters[text] = bytes
  THEN CHOOSE text \in DOMAIN Characters : Characters[text] = bytes ELSE Unknown

\* What is left of a text whose end is missing is read, and the scanner has its error.
ReadText(s) ==
  LET ends == {i \in (s.at + 1)..Len(s.file) : s.file[i] = {}}
  IN  IF s.error THEN s
      ELSE IF ends = {} THEN Failed(s)
      ELSE [s EXCEPT !.value = TextOf(SubSeq(s.file, s.at + 1, Min(ends) - 1)),
                     !.at = Min(ends)]

------------------------------------------------------------------------------
(* Compressed numbers.                                                      *)

\* Mutant: whatever follows the file is read, too.
AheadOfAny(s, signed) == SubSeq(s.file, s.at + 1, Len(s.file)) \o <<{}>>

\* The bytes from the offset on.  A mapped file is followed by zeros up to the
\* end of the page, and only DecodeNumber(), of a signed number in mapped memory,
\* does not stop at the end of the file.
Ahead(s, signed) ==
  SubSeq(s.file, s.at + 1, Len(s.file)) \o (IF s.mapped /\ signed THEN <<{}>> ELSE <<>>)

\* The places of the bytes that end a number.
Ends(ahead) == {n \in DOMAIN ahead : ahead[n] \intersect Continued = {}}

DecodeNumber(bytes, signed, width, modulo) ==
  IF signed THEN DecodeNumberSigned(bytes, width, modulo) ELSE DecodeNumberUnsigned(bytes, width)

ReadCompressed(s, signed, width) ==
  IF s.error THEN s
  ELSE LET ahead == Ahead(s, signed)
           ends  == Ends(ahead)
       IN  IF s.at >= Len(s.file) \/ ends = {} THEN Failed(s)
           ELSE [s EXCEPT !.value = DecodeNumber(SubSeq(ahead, 1, Min(ends)), signed, width,
                                                  s.modulo),
                          !.at = s.at + Min(ends)]

ReadNumberInt16(s)  == ReadCompressed(s, TRUE, 16)
ReadNumberInt32(s)  == ReadCompressed(s, TRUE, 32)
ReadNumberInt64(s)  == ReadCompressed(s, TRUE, 64)
ReadNumberUInt16(s) == ReadCompressed(s, FALSE, 16)
ReadNumberUInt32(s) == ReadCompressed(s, FALSE, 32)
ReadNumberUInt64(s) == ReadCompressed(s, FALSE, 64)

\* A number as a number.
ReadNumber(s) == Then(ReadNumberUInt64(s), LAMBDA bits : Got(bits, Value(bits.value)))

------------------------------------------------------------------------------
(* Coordinates and references.                                              *)

LatBits(bytes) == BitsOf(SubSeq(bytes, 1, 3)) \union ShiftLeft(Group(bytes[7], 0, 4), 24)
LonBits(bytes) == BitsOf(SubSeq(bytes, 4, 6)) \union ShiftLeft(Group(bytes[7], 4, 4), 24)

CoordOf(bytes) == [lat |-> Value(LatBits(bytes)), lon |-> Value(LonBits(bytes))]

ReadCoord(s) == Then(Take(s, CoordByteSize), LAMBDA bytes : Got(bytes, CoordOf(bytes.value)))

ReadConditionalCoord(s) ==
  LET set(bytes) == ~(LatBits(bytes) = 0..27 /\ LonBits(bytes) = 0..27)
  IN  Then(Take(s, CoordByteSize),
           LAMBDA bytes : Got(bytes, IF set(bytes.value) THEN <<CoordOf(bytes.value)>> ELSE NotSet))

ReadPoint(s, min) ==
  Then(ReadNumberUInt32(s), LAMBDA lat :
    Then(ReadNumberUInt32(lat), LAMBDA lon :
      Got(lon, [lat |-> min.lat + Value(lat.value), lon |-> min.lon + Value(lon.value)])))

ReadCoords(s, count) ==
  Then(ReadCoord(s), LAMBDA min : Times(min, count, LAMBDA t : ReadPoint(t, min.value)))

ReadCountedCoords(s) == Then(ReadNumber(s), LAMBDA count : ReadCoords(count, count.value))

ReadBox(s) ==
  Then(ReadCoord(s), LAMBDA min :
    Then(ReadCoord(min), LAMBDA max : Got(max, [min |-> min.value, max |-> max.value])))

ReadTypeId(s, maxBytes) == IF maxBytes = 1 THEN ReadByte(s) ELSE ReadNumber(s)

RefTypeOf(n) ==
  IF \E type \in DOMAIN RefTypes : RefTypes[type] = n
  THEN CHOOSE type \in DOMAIN RefTypes : RefTypes[type] = n ELSE Unknown

ReadRef(s) ==
  Then(ReadByte(s), LAMBDA type :
    Then(ReadFileOffset(type), LAMBDA offset :
      Got(offset, [type |-> RefTypeOf(type.value), offset |-> Value(offset.value)])))

\* ObjectFileRefStreamReader
ReadRefStream(s, count) ==
  LET last(refs) == IF refs = <<>> THEN 0 ELSE Last(refs).offset
      next(refs, number) == [type |-> RefTypeOf(number % 4), offset |-> number \div 4 + last(refs)]
      read(t, i) ==
        Then(ReadNumber(t), LAMBDA number :
          Got(number, Append(t.value, next(t.value, number.value))))
  IN  FoldLeft(read, Got(s, <<>>), [i \in 1..count |-> i])

==============================================================================
