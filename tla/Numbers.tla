------------------------------- MODULE Numbers --------------------------------
(***************************************************************************)
(* The variable length encoding of numbers in the files of the map         *)
(* database.                                                               *)
(*                                                                         *)
(* A number of width w is the set of its bits, a subset of 0..(w - 1), in  *)
(* two's complement if it is signed; a byte is a subset of 0..7.  So every *)
(* width is the one of the code: no arithmetic has to be scaled down.      *)
(***************************************************************************)
EXTENDS Integers, Sequences, FiniteSets

IntBits == 0..31

Complement(bits, width) == (0..(width - 1)) \ bits

Negative(bits, width) == width - 1 \in bits

\* `count' bits of a number, from bit `first' on.
Group(bits, first, count) == {b - first : b \in bits \intersect (first..(first + count - 1))}

ShiftLeft(bits, by) == {b + by : b \in bits}

Continued == {7}

------------------------------------------------------------------------------
(* Unsigned numbers: seven bits to a byte.                                  *)

UnsignedBytes(bits) ==
  CHOOSE n \in 1..10 : /\ \A b \in bits : b < 7 * n
                       /\ n > 1 => \E b \in bits : b >= 7 * (n - 1)

EncodeNumberUnsigned(bits) ==
  [i \in 1..UnsignedBytes(bits) |->
     Group(bits, 7 * (i - 1), 7)
       \union (IF i < UnsignedBytes(bits) THEN Continued ELSE {})]

\* The number in the bytes, whose last one is not continued.
DecodeNumberUnsigned(bytes, width) ==
  (UNION {ShiftLeft(bytes[i] \ Continued, 7 * (i - 1)) : i \in 1..Len(bytes)})
    \intersect (0..(width - 1))

------------------------------------------------------------------------------
(* Signed numbers: the first byte has the sign and six bits.                *)

Magnitude(bits, width) == IF Negative(bits, width) THEN Complement(bits, width) ELSE bits

SignedBytes(magnitude) ==
  CHOOSE n \in 1..10 : /\ \A b \in magnitude : b < 7 * n - 1
                       /\ n > 1 => \E b \in magnitude : b >= 7 * (n - 1) - 1

EncodeNumberSigned(bits, width) ==
  LET magnitude == Magnitude(bits, width)
      n == SignedBytes(magnitude)
  IN  [i \in 1..n |->
         (IF i = 1
          THEN ShiftLeft(Group(magnitude, 0, 6), 1)
                 \union (IF Negative(bits, width) THEN {0} ELSE {})
          ELSE Group(magnitude, 7 * (i - 1) - 1, 7))
         \union (IF i < n THEN Continued ELSE {})]

\* The bits a byte contributes, and the place of the lowest of them.
Payload(bytes, i) == IF i = 1 THEN Group(bytes[1], 1, 6) ELSE bytes[i] \ Continued

Shift(i) == IF i = 1 THEN 0 ELSE 7 * (i - 1) - 1

\* val << shift of a char, which is a shift of an int: the result is that of 32
\* bits, and it is sign extended when it meets a wider number.  A shift by 32 or
\* more is undefined: the processor takes it modulo 32, or shifts everything out.
IntShift(val, shift, width, modulo) ==
  LET by == IF shift < 32 THEN shift ELSE IF modulo THEN shift % 32 ELSE 32
      int == ShiftLeft(val, by) \intersect IntBits
  IN  IF 31 \in int THEN int \union (32..(width - 1)) ELSE int

\* Every byte but the last is shifted before it is converted to the number's type.
Part(bytes, i, width, modulo) ==
  (IF i = Len(bytes) THEN ShiftLeft(Payload(bytes, i), Shift(i))
   ELSE IntShift(Payload(bytes, i), Shift(i), width, modulo))
  \intersect (0..(width - 1))

\* A negative number starts as -1 and the parts are combined by exclusive or,
\* any other starts as 0 and they are combined by or.
DecodeNumberSigned(bytes, width, modulo) ==
  LET part == [i \in 1..Len(bytes) |-> Part(bytes, i, width, modulo)]
  IN  IF 0 \in bytes[1]
      THEN {b \in 0..(width - 1) :
              Cardinality({i \in 1..Len(bytes) : b \in part[i]}) % 2 = 0}
      ELSE UNION {part[i] : i \in 1..Len(bytes)}

==============================================================================
