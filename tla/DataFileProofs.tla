---------------------------- MODULE DataFileProofs -----------------------------
(***************************************************************************)
(* What is written to a file of the map database and read from it again,   *)
(* for every file: a number of any width the code allows                   *)
(* (SignedRoundTrip, UnsignedRoundTrip, the first part), and the records   *)
(* of a data file through its index (RecordsAreFound, the others).         *)
(*                                                                         *)
(* The second rests on four facts.  The generator's index is one: on every *)
(* level the pages cut the entries without a gap, each fits a block, and   *)
(* the entries of the level above name their first ids and their blocks    *)
(* (GeneratedIndexIsRight).  The binary search of a page finds the last    *)
(* entry that is not above the id (SearchFinds).  A cache of pages holds   *)
(* pages of its level under their own ids, whatever its size               *)
(* (GetEntryKeeps, SetEntryKeeps).  And IInv, the invariant of the reader: *)
(* on every level the descent is at the last entry that is not above the   *)
(* id, and what a call has found so far belongs to the ids it has done.    *)
(***************************************************************************)
EXTENDS IndexedFile, Numbers, Induction

------------------------------------------------------------------------------
(* Numbers                                                                 *)

\* Ten bytes are enough: the buffers of the code have that many.
LEMMA UnsignedBytesFit ==
  ASSUME NEW bits \in SUBSET (0..69)
  PROVE  /\ UnsignedBytes(bits) \in 1..10
         /\ \A b \in bits : b < 7 * UnsignedBytes(bits)
<1> DEFINE Fits(n) == \A b \in bits : b < 7 * n
           Least(n) == Fits(n) /\ (n > 1 => \E b \in bits : b >= 7 * (n - 1))
<1>1. Fits(10)
  OBVIOUS
<1>2. \A n \in 1..9 : ~Fits(n) => \E b \in bits : b >= 7 * ((n + 1) - 1)
  <2> SUFFICES ASSUME NEW n \in 1..9, ~Fits(n)
               PROVE  \E b \in bits : b >= 7 * ((n + 1) - 1)
    OBVIOUS
  <2>1. PICK b \in bits : ~(b < 7 * n)
    OBVIOUS
  <2>2. b >= 7 * ((n + 1) - 1)
    BY <2>1
  <2>3. QED
    BY <2>2
<1> HIDE DEF Fits
<1>3. \E n \in 1..10 : Least(n)
  <2>1. \A n \in 1..9 : Fits(n + 1) /\ ~Fits(n) => Least(n + 1)
    BY <1>2
  <2>2. Fits(1) => Least(1)
    OBVIOUS
  <2> HIDE DEF Least
  <2>3. /\ Fits(2) /\ ~Fits(1) => Least(2)
        /\ Fits(3) /\ ~Fits(2) => Least(3)
        /\ Fits(4) /\ ~Fits(3) => Least(4)
        /\ Fits(5) /\ ~Fits(4) => Least(5)
        /\ Fits(6) /\ ~Fits(5) => Least(6)
        /\ Fits(7) /\ ~Fits(6) => Least(7)
        /\ Fits(8) /\ ~Fits(7) => Least(8)
        /\ Fits(9) /\ ~Fits(8) => Least(9)
        /\ Fits(10) /\ ~Fits(9) => Least(10)
    <3>1. \A n \in 1..9 : n \in Nat
      OBVIOUS
    <3>2. 1 + 1 = 2 /\ 2 + 1 = 3 /\ 3 + 1 = 4 /\ 4 + 1 = 5 /\ 5 + 1 = 6
          /\ 6 + 1 = 7 /\ 7 + 1 = 8 /\ 8 + 1 = 9 /\ 9 + 1 = 10
      OBVIOUS
    <3>3. /\ 1 \in 1..9 /\ 2 \in 1..9 /\ 3 \in 1..9 /\ 4 \in 1..9 /\ 5 \in 1..9
          /\ 6 \in 1..9 /\ 7 \in 1..9 /\ 8 \in 1..9 /\ 9 \in 1..9
      OBVIOUS
    <3>4. QED
      BY <2>1, <3>2, <3>3
  <2>4. \/ Least(1) \/ Least(2) \/ Least(3) \/ Least(4) \/ Least(5)
        \/ Least(6) \/ Least(7) \/ Least(8) \/ Least(9) \/ Least(10)
    BY <1>1, <2>2, <2>3
  <2>5. \A n \in {1, 2, 3, 4, 5, 6, 7, 8, 9, 10} : n \in 1..10
    OBVIOUS
  <2>6. QED
    BY <2>4, <2>5
<1>4. UnsignedBytes(bits) = CHOOSE n \in 1..10 : Least(n)
  BY DEF UnsignedBytes, Fits
<1>5. UnsignedBytes(bits) \in 1..10 /\ Least(UnsignedBytes(bits))
  BY <1>3, <1>4
<1>6. QED
  BY <1>5 DEF Fits

\* A group of bits fits its place, and shifting it back gives the bits it was made of.
LEMMA GroupShifted ==
  ASSUME NEW bits \in SUBSET Nat, NEW first \in Nat, NEW count \in Nat
  PROVE  /\ Group(bits, first, count) \subseteq 0..(count - 1)
         /\ ShiftLeft(Group(bits, first, count), first)
              = {b \in bits : first <= b /\ b < first + count}
<1>1. \A c \in Group(bits, first, count) :
        c \in 0..(count - 1) /\ c + first \in bits
          /\ first <= c + first /\ c + first < first + count
  BY DEF Group
<1>2. \A b \in bits : first <= b /\ b < first + count =>
        b - first \in Group(bits, first, count) /\ (b - first) + first = b
  BY DEF Group
<1>3. \A c \in ShiftLeft(Group(bits, first, count), first) :
        c \in {b \in bits : first <= b /\ b < first + count}
  BY <1>1 DEF ShiftLeft
<1>4. \A b \in {x \in bits : first <= x /\ x < first + count} :
        b \in ShiftLeft(Group(bits, first, count), first)
  BY <1>2 DEF ShiftLeft
<1>5. QED
  BY <1>1, <1>3, <1>4

\* The shape of an encoding.
LEMMA UnsignedShape ==
  ASSUME NEW bits \in SUBSET (0..69)
  PROVE  LET bytes == EncodeNumberUnsigned(bits)
         IN  /\ Len(bytes) = UnsignedBytes(bits)
             /\ \A i \in 1..Len(bytes) :
                  /\ 7 \in bytes[i] <=> i < Len(bytes)
                  /\ bytes[i] \ Continued = Group(bits, 7 * (i - 1), 7)
<1> DEFINE n == UnsignedBytes(bits)
           bytes == EncodeNumberUnsigned(bits)
<1>1. n \in 1..10
  BY UnsignedBytesFit
<1>2. bytes = [i \in 1..n |-> Group(bits, 7 * (i - 1), 7)
                                \union (IF i < n THEN Continued ELSE {})]
  BY DEF EncodeNumberUnsigned
<1> HIDE DEF n, bytes
<1>3. Len(bytes) = n
  BY <1>1, <1>2
<1>4. ASSUME NEW i \in 1..n
      PROVE  (7 \in bytes[i] <=> i < n) /\ bytes[i] \ Continued = Group(bits, 7 * (i - 1), 7)
  <2>1. Group(bits, 7 * (i - 1), 7) \subseteq 0..6
    <3>1. 7 * (i - 1) \in Nat /\ bits \in SUBSET Nat /\ 7 \in Nat
      BY <1>1
    <3>2. Group(bits, 7 * (i - 1), 7) \subseteq 0..(7 - 1)
      BY <3>1, GroupShifted, Zenon
    <3>3. QED
      BY <3>2
  <2>2. 7 \notin Group(bits, 7 * (i - 1), 7)
    BY <2>1
  <2>3. bytes[i] = Group(bits, 7 * (i - 1), 7) \union (IF i < n THEN Continued ELSE {})
    BY <1>2
  <2>4. QED
    BY <2>2, <2>3 DEF Continued
<1>5. QED
  BY <1>3, <1>4 DEF n, bytes

\* The last byte of an encoding is the first without the flag, so a scanner stops
\* exactly where the writer did.
THEOREM UnsignedIsDelimited ==
  ASSUME NEW bits \in SUBSET (0..69)
  PROVE  LET bytes == EncodeNumberUnsigned(bits)
         IN  /\ Len(bytes) \in 1..10
             /\ \A i \in 1..Len(bytes) : 7 \in bytes[i] <=> i < Len(bytes)
BY UnsignedShape, UnsignedBytesFit

\* Every unsigned number of up to 70 bits is decoded to itself.
THEOREM UnsignedRoundTrip ==
  ASSUME NEW width \in 0..70, NEW bits \in SUBSET (0..(width - 1))
  PROVE  DecodeNumberUnsigned(EncodeNumberUnsigned(bits), width) = bits
<1> DEFINE bytes == EncodeNumberUnsigned(bits)
           n == UnsignedBytes(bits)
           part(i) == ShiftLeft(bytes[i] \ Continued, 7 * (i - 1))
<1>1. bits \in SUBSET (0..69) /\ bits \in SUBSET Nat
  OBVIOUS
<1>2. n \in 1..10 /\ \A b \in bits : b < 7 * n
  BY <1>1, UnsignedBytesFit
<1>3. Len(bytes) = n
  BY <1>1, UnsignedShape
<1>4. ASSUME NEW i \in 1..n
      PROVE  part(i) = {b \in bits : 7 * (i - 1) <= b /\ b < 7 * (i - 1) + 7}
  <2>1. bytes[i] \ Continued = Group(bits, 7 * (i - 1), 7)
    BY <1>1, <1>3, UnsignedShape
  <2>2. 7 * (i - 1) \in Nat
    BY <1>2
  <2>3. QED
    BY <1>1, <2>1, <2>2, GroupShifted
<1> HIDE DEF bytes, n
<1>5. \A b : b \in DecodeNumberUnsigned(bytes, width)
              <=> b \in 0..(width - 1) /\ \E i \in 1..n : b \in part(i)
  BY <1>3 DEF DecodeNumberUnsigned
<1> HIDE DEF part
<1>6. ASSUME NEW b \in bits PROVE \E i \in 1..n : b \in part(i)
  <2> DEFINE i == (b \div 7) + 1
  <2>1. b \in Nat /\ b < 7 * n
    BY <1>1, <1>2
  <2>2. i \in 1..n /\ 7 * (i - 1) <= b /\ b < 7 * (i - 1) + 7
    BY <1>2, <2>1
  <2>3. b \in part(i)
    BY <1>4, <2>2
  <2>4. QED
    BY <2>2, <2>3
<1>7. \A b : b \in DecodeNumberUnsigned(bytes, width) <=> b \in bits
  BY <1>4, <1>5, <1>6
<1>8. DecodeNumberUnsigned(bytes, width) = bits
  BY <1>7
<1>9. QED
  BY <1>8 DEF bytes

------------------------------------------------------------------------------
(* Signed numbers.                                                          *)

\* Ten bytes are enough for a magnitude of up to 69 bits, and an encoding has no
\* byte that it does not need.
LEMMA SignedBytesFit ==
  ASSUME NEW magnitude \in SUBSET (0..68)
  PROVE  /\ SignedBytes(magnitude) \in 1..10
         /\ \A b \in magnitude : b < 7 * SignedBytes(magnitude) - 1
         /\ SignedBytes(magnitude) > 1 =>
              \E b \in magnitude : b >= 7 * (SignedBytes(magnitude) - 1) - 1
<1> DEFINE Fits(n) == \A b \in magnitude : b < 7 * n - 1
           Least(n) == Fits(n) /\ (n > 1 => \E b \in magnitude : b >= 7 * (n - 1) - 1)
<1>1. Fits(10)
  OBVIOUS
<1>2. \A n \in 1..9 : Fits(n + 1) /\ ~Fits(n) => Least(n + 1)
  <2> SUFFICES ASSUME NEW n \in 1..9, Fits(n + 1), ~Fits(n)
               PROVE  \E b \in magnitude : b >= 7 * ((n + 1) - 1) - 1
    OBVIOUS
  <2>1. PICK b \in magnitude : ~(b < 7 * n - 1)
    OBVIOUS
  <2>2. b >= 7 * ((n + 1) - 1) - 1
    BY <2>1
  <2>3. QED
    BY <2>2
<1>3. Fits(1) => Least(1)
  OBVIOUS
<1> HIDE DEF Fits, Least
<1>4. \E n \in 1..10 : Least(n)
  <2>1. /\ Fits(2) /\ ~Fits(1) => Least(2)
        /\ Fits(3) /\ ~Fits(2) => Least(3)
        /\ Fits(4) /\ ~Fits(3) => Least(4)
        /\ Fits(5) /\ ~Fits(4) => Least(5)
        /\ Fits(6) /\ ~Fits(5) => Least(6)
        /\ Fits(7) /\ ~Fits(6) => Least(7)
        /\ Fits(8) /\ ~Fits(7) => Least(8)
        /\ Fits(9) /\ ~Fits(8) => Least(9)
        /\ Fits(10) /\ ~Fits(9) => Least(10)
    <3>1. 1 + 1 = 2 /\ 2 + 1 = 3 /\ 3 + 1 = 4 /\ 4 + 1 = 5 /\ 5 + 1 = 6
          /\ 6 + 1 = 7 /\ 7 + 1 = 8 /\ 8 + 1 = 9 /\ 9 + 1 = 10
      OBVIOUS
    <3>2. /\ 1 \in 1..9 /\ 2 \in 1..9 /\ 3 \in 1..9 /\ 4 \in 1..9 /\ 5 \in 1..9
          /\ 6 \in 1..9 /\ 7 \in 1..9 /\ 8 \in 1..9 /\ 9 \in 1..9
      OBVIOUS
    <3>3. QED
      BY <1>2, <3>1, <3>2
  <2>2. \/ Least(1) \/ Least(2) \/ Least(3) \/ Least(4) \/ Least(5)
        \/ Least(6) \/ Least(7) \/ Least(8) \/ Least(9) \/ Least(10)
    BY <1>1, <1>3, <2>1
  <2>3. \A n \in {1, 2, 3, 4, 5, 6, 7, 8, 9, 10} : n \in 1..10
    OBVIOUS
  <2>4. QED
    BY <2>2, <2>3
<1>5. SignedBytes(magnitude) = CHOOSE n \in 1..10 : Least(n)
  BY DEF SignedBytes, Least, Fits
<1>6. SignedBytes(magnitude) \in 1..10 /\ Least(SignedBytes(magnitude))
  BY <1>4, <1>5
<1>7. QED
  BY <1>6 DEF Least, Fits

\* The bits of the magnitude that byte `i' holds.
Held(magnitude, i) == {b \in magnitude : Shift(i) <= b /\ b < 7 * i - 1}

LEMMA MagnitudeBits ==
  ASSUME NEW width \in Nat, NEW bits \in SUBSET (0..(width - 1))
  PROVE  Magnitude(bits, width) \in SUBSET (0..(width - 1))
BY DEF Magnitude, Complement

\* The shape of an encoding: where it ends, its sign, and what a byte holds.
LEMMA SignedShape ==
  ASSUME NEW width \in Nat, NEW bits \in SUBSET (0..(width - 1)),
         Magnitude(bits, width) \in SUBSET (0..68)
  PROVE  LET magnitude == Magnitude(bits, width)
             bytes == EncodeNumberSigned(bits, width)
         IN  /\ Len(bytes) = SignedBytes(magnitude)
             /\ 0 \in bytes[1] <=> Negative(bits, width)
             /\ \A i \in 1..Len(bytes) :
                  /\ 7 \in bytes[i] <=> i < Len(bytes)
                  /\ Payload(bytes, i) \subseteq 0..6
                  /\ i = 1 => Payload(bytes, i) \subseteq 0..5
                  /\ ShiftLeft(Payload(bytes, i), Shift(i)) = Held(magnitude, i)
<1> DEFINE magnitude == Magnitude(bits, width)
           bytes == EncodeNumberSigned(bits, width)
           n == SignedBytes(magnitude)
           sign == IF Negative(bits, width) THEN {0} ELSE {}
           more(i) == IF i < n THEN Continued ELSE {}
           first == ShiftLeft(Group(magnitude, 0, 6), 1)
<1>1. n \in 1..10
  BY SignedBytesFit
<1>2. bytes = [i \in 1..n |-> (IF i = 1 THEN first \union sign
                               ELSE Group(magnitude, 7 * (i - 1) - 1, 7)) \union more(i)]
  BY DEF EncodeNumberSigned
<1>3. magnitude \in SUBSET Nat
  OBVIOUS
<1> HIDE DEF magnitude, bytes, n
<1>4. Len(bytes) = n
  BY <1>1, <1>2
<1>5. /\ Group(magnitude, 0, 6) \subseteq 0..5
      /\ Group(magnitude, 0, 6) = {b \in magnitude : 0 <= b /\ b < 6}
  <2>1. Group(magnitude, 0, 6) \subseteq 0..(6 - 1)
    BY <1>3, GroupShifted
  <2>2. \A b \in magnitude : b - 0 = b
    BY <1>3
  <2>3. ShiftLeft(Group(magnitude, 0, 6), 0) = {b \in magnitude : 0 <= b /\ b < 0 + 6}
    <3>1. 0 \in Nat /\ 6 \in Nat
      OBVIOUS
    <3>2. QED
      BY <1>3, <3>1, GroupShifted, Zenon
  <2>4. \A b \in 0..5 : b + 0 = b
    OBVIOUS
  <2>5. ShiftLeft(Group(magnitude, 0, 6), 0) = Group(magnitude, 0, 6)
    BY <2>1, <2>4 DEF ShiftLeft
  <2>6. QED
    BY <2>1, <2>3, <2>5
<1>6. \A c : c \in first <=> c \in 1..6 /\ c - 1 \in Group(magnitude, 0, 6)
  BY <1>5 DEF ShiftLeft
<1>7. /\ bytes[1] = first \union sign \union more(1)
      /\ sign \subseteq {0} /\ more(1) \subseteq {7}
  BY <1>1, <1>2 DEF Continued
<1> HIDE DEF first
<1>8. 0 \in bytes[1] <=> Negative(bits, width)
  <2>1. 0 \notin first /\ 0 \notin more(1)
    BY <1>6, <1>7
  <2>2. QED
    BY <1>7, <2>1
<1>9. Payload(bytes, 1) = Group(magnitude, 0, 6)
  <2>1. Payload(bytes, 1) = {c - 1 : c \in bytes[1] \intersect (1..(1 + 6 - 1))}
    BY DEF Payload, Group
  <2>2. \A c \in 1..6 : c \in bytes[1] <=> c \in first
    BY <1>7
  <2>3. \A d \in Payload(bytes, 1) : d \in Group(magnitude, 0, 6)
    BY <1>6, <2>1, <2>2
  <2>4. \A d \in Group(magnitude, 0, 6) : d + 1 \in 1..6 /\ (d + 1) - 1 = d
    BY <1>5
  <2>5. \A d \in Group(magnitude, 0, 6) : d \in Payload(bytes, 1)
    BY <1>6, <2>1, <2>2, <2>4
  <2>6. QED
    BY <2>3, <2>5
<1>10. ASSUME NEW i \in 1..n
       PROVE  /\ 7 \in bytes[i] <=> i < n
              /\ Payload(bytes, i) \subseteq 0..6
              /\ i = 1 => Payload(bytes, i) \subseteq 0..5
              /\ ShiftLeft(Payload(bytes, i), Shift(i)) = Held(magnitude, i)
  <2>1. CASE i = 1
    <3>1. 7 \in bytes[1] <=> 1 < n
      <4>1. 7 \notin first /\ 7 \notin sign
        BY <1>6, <1>7
      <4>2. 7 \in more(1) <=> 1 < n
        BY DEF Continued
      <4>3. QED
        BY <1>7, <4>1, <4>2
    <3>2. Payload(bytes, 1) \subseteq 0..5
      BY <1>5, <1>9
    <3>3. ShiftLeft(Payload(bytes, 1), 0) = Payload(bytes, 1)
      <4>1. \A b \in 0..5 : b + 0 = b
        OBVIOUS
      <4>2. QED
        BY <3>2, <4>1 DEF ShiftLeft
    <3>4. Payload(bytes, 1) = Held(magnitude, 1)
      BY <1>5, <1>9 DEF Held, Shift
    <3>5. Shift(1) = 0
      BY DEF Shift
    <3>6. QED
      BY <2>1, <3>1, <3>2, <3>3, <3>4, <3>5
  <2>2. CASE i # 1
    <3> DEFINE place == 7 * (i - 1) - 1
    <3>1. place \in Nat /\ Shift(i) = place /\ place + 7 = 7 * i - 1
      BY <1>1, <2>2 DEF Shift
    <3>2. bytes[i] = Group(magnitude, place, 7) \union more(i)
      BY <1>2, <2>2
    <3> HIDE DEF place
    <3>3. /\ Group(magnitude, place, 7) \subseteq 0..(7 - 1)
          /\ ShiftLeft(Group(magnitude, place, 7), place)
               = {b \in magnitude : place <= b /\ b < place + 7}
      BY <1>3, <3>1, GroupShifted
    <3>4. 7 \notin Group(magnitude, place, 7)
      BY <3>3
    <3>5. (7 \in bytes[i] <=> i < n) /\ bytes[i] \ Continued = Group(magnitude, place, 7)
      BY <3>2, <3>4 DEF Continued
    <3>6. Payload(bytes, i) = Group(magnitude, place, 7)
      BY <2>2, <3>5 DEF Payload
    <3>7. QED
      BY <2>2, <3>1, <3>3, <3>5, <3>6 DEF Held
  <2>3. QED
    BY <2>1, <2>2
<1>11. QED
  BY <1>4, <1>8, <1>10 DEF n, bytes, magnitude

\* The parts of a magnitude are its bits, each of them in one byte.
LEMMA HeldOnce ==
  ASSUME NEW magnitude \in SUBSET (0..68)
  PROVE  /\ \A b \in magnitude : \E i \in 1..SignedBytes(magnitude) : b \in Held(magnitude, i)
         /\ \A i, j \in 1..SignedBytes(magnitude) : \A b \in magnitude :
              b \in Held(magnitude, i) /\ b \in Held(magnitude, j) => i = j
<1>1. /\ SignedBytes(magnitude) \in 1..10
      /\ \A b \in magnitude : b < 7 * SignedBytes(magnitude) - 1
  BY SignedBytesFit
<1> DEFINE n == SignedBytes(magnitude)
<1> HIDE DEF n
<1>2. ASSUME NEW b \in magnitude PROVE \E i \in 1..n : b \in Held(magnitude, i)
  <2> DEFINE i == ((b + 1) \div 7) + 1
  <2>1. b \in Nat /\ n \in 1..10 /\ b < 7 * n - 1
    BY <1>1 DEF n
  <2>2. i \in 1..n /\ 7 * (i - 1) <= b + 1 /\ b + 1 < 7 * i
    BY <2>1
  <2> HIDE DEF i
  <2>3. Shift(i) <= b /\ b < 7 * i - 1
    BY <2>1, <2>2 DEF Shift
  <2>4. b \in Held(magnitude, i)
    BY <2>3 DEF Held
  <2>5. QED
    BY <2>2, <2>4
<1>3. ASSUME NEW i \in 1..n, NEW j \in 1..n, NEW b \in magnitude,
             b \in Held(magnitude, i), b \in Held(magnitude, j)
      PROVE  i = j
  <2>1. b \in Nat /\ n \in 1..10
    BY <1>1 DEF n
  <2>2. 7 * (i - 1) - 1 <= b /\ b < 7 * i - 1 /\ 7 * (j - 1) - 1 <= b /\ b < 7 * j - 1
    BY <1>3, <2>1 DEF Held, Shift
  <2>3. QED
    BY <2>1, <2>2
<1>4. QED
  BY <1>2, <1>3 DEF n

\* A signed number, too, ends with its first byte without the flag.
THEOREM SignedIsDelimited ==
  ASSUME NEW width \in 0..69, NEW bits \in SUBSET (0..(width - 1))
  PROVE  LET bytes == EncodeNumberSigned(bits, width)
         IN  /\ Len(bytes) \in 1..10
             /\ \A i \in 1..Len(bytes) : 7 \in bytes[i] <=> i < Len(bytes)
<1>1. width \in Nat /\ 0..(width - 1) \subseteq 0..68
  OBVIOUS
<1>2. Magnitude(bits, width) \in SUBSET (0..68)
  BY <1>1, MagnitudeBits
<1>3. QED
  BY <1>1, <1>2, SignedShape, SignedBytesFit

\* A byte that is not the last is shifted as an int.  Nothing is lost as long as
\* the int has room for it.
LEMMA PartOfShortNumber ==
  ASSUME NEW width \in Nat, NEW bits \in SUBSET (0..(width - 1)), NEW modulo \in BOOLEAN,
         Magnitude(bits, width) \in SUBSET (0..33),
         NEW i \in 1..Len(EncodeNumberSigned(bits, width))
  PROVE  Part(EncodeNumberSigned(bits, width), i, width, modulo)
           = Held(Magnitude(bits, width), i)
<1> DEFINE magnitude == Magnitude(bits, width)
           bytes == EncodeNumberSigned(bits, width)
           n == SignedBytes(magnitude)
           shifted == ShiftLeft(Payload(bytes, i), Shift(i))
<1>1. magnitude \in SUBSET (0..68) /\ magnitude \in SUBSET (0..(width - 1))
  BY MagnitudeBits
<1>2. Len(bytes) = n
  BY <1>1, SignedShape
<1>3. Payload(bytes, i) \subseteq 0..6 /\ shifted = Held(magnitude, i)
  BY <1>1, <1>2, SignedShape
<1>4. n \in 1..5
  <2>1. n \in 1..10 /\ (n > 1 => \E b \in magnitude : b >= 7 * (n - 1) - 1)
    BY <1>1, SignedBytesFit
  <2>2. CASE n = 1
    BY <2>2
  <2>3. CASE n > 1
    <3>1. PICK b \in magnitude : b >= 7 * (n - 1) - 1
      BY <2>1, <2>3
    <3>2. b \in 0..33
      OBVIOUS
    <3> HIDE DEF n
    <3>3. QED
      BY <2>1, <3>1, <3>2
  <2>4. QED
    BY <2>1, <2>2, <2>3
<1>5. Held(magnitude, i) \subseteq 0..(width - 1)
  BY <1>1 DEF Held
<1> HIDE DEF magnitude, bytes, n
<1>6. CASE i = n
  <2>1. Part(bytes, i, width, modulo) = shifted \intersect (0..(width - 1))
    BY <1>2, <1>6 DEF Part
  <2>2. QED
    BY <1>3, <1>5, <2>1 DEF bytes, magnitude
<1>7. CASE i # n
  <2>1. i \in 1..4
    BY <1>2, <1>4, <1>7 DEF bytes
  <2>2. Shift(i) \in 0..20
    BY <2>1 DEF Shift
  <2>3. shifted \subseteq 0..30
    <3>1. \A b \in Payload(bytes, i) : b \in 0..6
      BY <1>3
    <3> DEFINE place == Shift(i)
    <3>2. shifted = {b + place : b \in Payload(bytes, i)}
      BY DEF ShiftLeft
    <3>3. place \in 0..20
      BY <2>2
    <3> HIDE DEF place, shifted
    <3>4. \A b \in Payload(bytes, i) : b + place \in 0..30
      <4>1. \A b \in 0..6, p \in 0..20 : b + p \in 0..30
        OBVIOUS
      <4>2. QED
        BY <3>1, <3>3, <4>1, Zenon
    <3>5. QED
      BY <3>2, <3>4, Zenon
  <2>4. shifted \intersect IntBits = shifted /\ 31 \notin shifted
    <3>1. 0..30 \subseteq IntBits /\ 31 \notin 0..30
      BY DEF IntBits
    <3> HIDE DEF shifted
    <3>2. QED
      BY <2>3, <3>1
  <2>5. IntShift(Payload(bytes, i), Shift(i), width, modulo) = shifted
    <3>1. Shift(i) < 32
      BY <2>2
    <3>2. QED
      BY <2>4, <3>1 DEF IntShift
  <2>6. Part(bytes, i, width, modulo) = shifted \intersect (0..(width - 1))
    BY <1>2, <1>7, <2>5 DEF Part
  <2>7. QED
    BY <1>3, <1>5, <2>6 DEF bytes, magnitude
<1>8. QED
  BY <1>6, <1>7

\* Every signed number whose magnitude has at most 34 bits is decoded to itself,
\* whatever its width, and whatever a shift by too much would give.
THEOREM SignedRoundTrip ==
  ASSUME NEW width \in Nat \ {0}, NEW bits \in SUBSET (0..(width - 1)), NEW modulo \in BOOLEAN,
         Magnitude(bits, width) \in SUBSET (0..33)
  PROVE  DecodeNumberSigned(EncodeNumberSigned(bits, width), width, modulo) = bits
<1> DEFINE magnitude == Magnitude(bits, width)
           bytes == EncodeNumberSigned(bits, width)
           n == SignedBytes(magnitude)
           part == [i \in 1..Len(bytes) |-> Part(bytes, i, width, modulo)]
           holding(b) == {i \in 1..n : b \in Held(magnitude, i)}
<1>1. magnitude \in SUBSET (0..68) /\ magnitude \in SUBSET (0..(width - 1))
  BY MagnitudeBits
<1>2. Len(bytes) = n /\ (0 \in bytes[1] <=> Negative(bits, width))
  BY <1>1, SignedShape
<1>3. \A i \in 1..n : part[i] = Held(magnitude, i)
  BY <1>2, PartOfShortNumber
<1>4. /\ \A b \in magnitude : \E i \in 1..n : b \in Held(magnitude, i)
      /\ \A i, j \in 1..n : \A b \in magnitude :
           b \in Held(magnitude, i) /\ b \in Held(magnitude, j) => i = j
  BY <1>1, HeldOnce
<1>5. \A i \in 1..n : Held(magnitude, i) \subseteq magnitude
  BY DEF Held
<1>6. Negative(bits, width) => magnitude = (0..(width - 1)) \ bits
  BY DEF Magnitude, Complement
<1>7. ~Negative(bits, width) => magnitude = bits
  BY DEF Magnitude
<1> HIDE DEF magnitude, bytes, n
<1>8. DecodeNumberSigned(bytes, width, modulo)
        = IF 0 \in bytes[1]
          THEN {b \in 0..(width - 1) : Cardinality({i \in 1..Len(bytes) : b \in part[i]}) % 2 = 0}
          ELSE UNION {part[i] : i \in 1..Len(bytes)}
  BY DEF DecodeNumberSigned
<1> HIDE DEF part
<1>9. CASE ~Negative(bits, width)
  <2>1. DecodeNumberSigned(bytes, width, modulo) = UNION {part[i] : i \in 1..n}
    BY <1>2, <1>8, <1>9
  <2>2. UNION {part[i] : i \in 1..n} = magnitude
    BY <1>3, <1>4, <1>5
  <2>3. QED
    BY <1>7, <1>9, <2>1, <2>2 DEF bytes
<1>10. CASE Negative(bits, width)
  <2>1. \A b : {i \in 1..Len(bytes) : b \in part[i]} = holding(b)
    BY <1>2, <1>3
  <2>2. DecodeNumberSigned(bytes, width, modulo)
          = {b \in 0..(width - 1) : Cardinality(holding(b)) % 2 = 0}
    BY <1>2, <1>8, <1>10, <2>1
  <2>3. \A b \in magnitude : Cardinality(holding(b)) = 1
    <3>1. TAKE b \in magnitude
    <3>2. PICK i \in 1..n : b \in Held(magnitude, i)
      BY <1>4
    <3>3. holding(b) = {i}
      BY <1>4, <3>2
    <3>4. QED
      BY <3>3, FS_Singleton
  <2>4. \A b \in (0..(width - 1)) \ magnitude : Cardinality(holding(b)) = 0
    <3>1. TAKE b \in (0..(width - 1)) \ magnitude
    <3>2. holding(b) = {}
      BY <1>5
    <3>3. QED
      BY <3>2, FS_EmptySet
  <2> HIDE DEF holding
  <2>5. \A b \in 0..(width - 1) : Cardinality(holding(b)) % 2 = 0 <=> b \notin magnitude
    BY <2>3, <2>4
  <2>6. DecodeNumberSigned(bytes, width, modulo) = (0..(width - 1)) \ magnitude
    BY <2>2, <2>5
  <2>7. QED
    BY <1>6, <1>10, <2>6 DEF bytes
<1>11. QED
  BY <1>9, <1>10

\* Thirty four bits are the limit, and not only of the proof: bit 32 of a number of
\* 35 bits is lost in the shift of its fifth byte.
THEOREM SignedLosesBits ==
  ASSUME NEW width \in Nat, width >= 36, NEW modulo \in BOOLEAN
  PROVE  32 \notin DecodeNumberSigned(EncodeNumberSigned({32, 34}, width), width, modulo)
<1> DEFINE bits == {32, 34}
           bytes == EncodeNumberSigned(bits, width)
           part(i) == Part(bytes, i, width, modulo)
<1>1. bits \in SUBSET (0..(width - 1)) /\ bits \in SUBSET (0..68)
  OBVIOUS
<1>2. ~Negative(bits, width) /\ Magnitude(bits, width) = bits
  BY DEF Negative, Magnitude
<1>3. Len(bytes) = SignedBytes(bits) /\ 0 \notin bytes[1]
  BY <1>1, <1>2, SignedShape
<1>4. SignedBytes(bits) = 6
  <2> DEFINE n == SignedBytes(bits)
  <2>1. n \in 1..10 /\ (\A b \in bits : b < 7 * n - 1)
        /\ (n > 1 => \E b \in bits : b >= 7 * (n - 1) - 1)
    BY <1>1, SignedBytesFit
  <2> HIDE DEF n
  <2>2. 34 < 7 * n - 1
    BY <2>1
  <2>3. 34 >= 7 * (n - 1) - 1
    BY <2>1, <2>2
  <2>4. n = 6
    BY <2>1, <2>2, <2>3
  <2>5. QED
    BY <2>4 DEF n
<1>5. \A i \in 1..6 : ShiftLeft(Payload(bytes, i), Shift(i)) = Held(bits, i)
  BY <1>1, <1>2, <1>3, <1>4, SignedShape
<1> HIDE DEF bytes
<1>6. ASSUME NEW i \in 1..6 PROVE 32 \notin part(i)
  <2>1. CASE i = 6
    <3>1. Shift(6) = 34
      BY DEF Shift
    <3>2. 32 \notin Held(bits, 6)
      BY <3>1 DEF Held
    <3>3. part(6) = Held(bits, 6) \intersect (0..(width - 1))
      BY <1>3, <1>4, <1>5 DEF Part
    <3>4. QED
      BY <2>1, <3>2, <3>3
  <2>2. CASE i # 6
    <3>1. Shift(i) < 32
      BY <2>2 DEF Shift
    <3>2. Held(bits, i) \intersect IntBits = {}
      BY DEF Held, IntBits
    <3>3. ShiftLeft(Payload(bytes, i), Shift(i)) = Held(bits, i)
      BY <1>5
    <3>4. IntShift(Payload(bytes, i), Shift(i), width, modulo) = {}
      BY <3>1, <3>2, <3>3 DEF IntShift
    <3>5. part(i) = {}
      BY <1>3, <1>4, <2>2, <3>4 DEF Part
    <3>6. QED
      BY <3>5
  <2>3. QED
    BY <2>1, <2>2
<1> DEFINE parts == [i \in 1..Len(bytes) |-> part(i)]
<1>7. DecodeNumberSigned(bytes, width, modulo) = UNION {parts[i] : i \in 1..Len(bytes)}
  BY <1>3 DEF DecodeNumberSigned
<1>8. Len(bytes) = 6 /\ \A i \in 1..6 : parts[i] = part(i)
  BY <1>3, <1>4
<1> HIDE DEF part, parts
<1>9. 32 \notin DecodeNumberSigned(bytes, width, modulo)
  BY <1>6, <1>7, <1>8
<1>10. QED
  BY <1>9 DEF bytes

------------------------------------------------------------------------------
(* Pages                                                                   *)

EntrySet == [startId : Nat, fileOffset : Nat]

Pages == Seq(Seq(EntrySet))

\* The bytes of a number are at least one and at most MaxBytes.
LEMMA EncodedBytesFit ==
  ASSUME NEW number
  PROVE  EncodedBytes(number) \in 1..MaxBytes
<1> DEFINE Enough == {n \in 1..MaxBytes : n = MaxBytes \/ number < ByteValues ^ n}
<1>1. MaxBytes \in Nat \ {0}
  BY NumericIndexAssumption
<1>2. Enough \in SUBSET Nat /\ Enough # {}
  <2>1. MaxBytes \in Enough
    BY <1>1
  <2>2. QED
    BY <1>1, <2>1
<1>3. PICK n \in Enough : \A m \in Enough : n <= m
  <2> HIDE DEF Enough
  <2>1. QED
    BY <1>2, LeastNat
<1>4. n \in 1..MaxBytes /\ (n = MaxBytes \/ number < ByteValues ^ n)
  BY <1>3
<1>5. ASSUME NEW m \in 1..n - 1 PROVE ~(number < ByteValues ^ m)
  <2>1. m \in 1..MaxBytes /\ ~(n <= m)
    BY <1>1, <1>4
  <2>2. m \notin Enough
    BY <1>3, <2>1
  <2>3. QED
    BY <2>1, <2>2
<1>6. QED
  BY <1>4, <1>5 DEF EncodedBytes

\* So an entry takes at most a page.
LEMMA BytesFit ==
  ASSUME NEW id, NEW offset
  PROVE  BytesOf(id, offset) \in 1..PageSize
  BY EncodedBytesFit, NumericIndexAssumption DEF BytesOf

\* And one that follows another takes some number of them.
LEMMA BytesAfterFit ==
  ASSUME NEW entry, NEW previous
  PROVE  BytesAfter(entry, previous) \in Nat
  BY BytesFit, NumericIndexAssumption DEF BytesAfter

\* Footprint is what its definition says.
LEMMA FootprintSteps ==
  ASSUME NEW page \in Seq(EntrySet), page # <<>>
  PROVE  \E bytes :
           /\ Footprint(page) = bytes[Len(page)]
           /\ \A i \in 1..Len(page) :
                /\ bytes[i] \in Nat
                /\ bytes[i] = IF i = 1 THEN BytesOf(page[1].startId, page[1].fileOffset)
                              ELSE bytes[i - 1] + BytesAfter(page[i], page[i - 1])
<1> DEFINE z == BytesOf(page[1].startId, page[1].fileOffset)
           g == [i \in 2..Len(page) |-> [v \in Nat |-> v + BytesAfter(page[i], page[i - 1])]]
           W == [i \in 1..Len(page) |-> Nat]
           R(h) == h = [i \in 1..Len(page) |->
                          IF i = 1 THEN z ELSE h[i - 1] + BytesAfter(page[i], page[i - 1])]
<1>1. Len(page) \in Nat \ {0}
  OBVIOUS
<1>2. StaysIn(W, 1, Len(page), z, g)
  <2>1. z \in Nat
    BY BytesFit, NumericIndexAssumption
  <2>2. \A i \in 2..Len(page) : BytesAfter(page[i], page[i - 1]) \in Nat
    BY BytesAfterFit
  <2> HIDE DEF z
  <2>3. QED
    BY <1>1, <2>1, <2>2 DEF StaysIn
<1>3. PICK h : /\ h = [i \in 1..Len(page) |-> IF i = 1 THEN z ELSE g[i][h[i - 1]]]
               /\ \A i \in 1..Len(page) : h[i] \in W[i]
  <2> HIDE DEF z, g, W
  <2>1. QED
    BY <1>1, <1>2, Recursion
<1>4. R(h)
  <2>1. \A i \in 1..Len(page) : h[i] \in Nat
    BY <1>3
  <2>2. \A i \in 1..Len(page) :
          (IF i = 1 THEN z ELSE g[i][h[i - 1]])
            = IF i = 1 THEN z ELSE h[i - 1] + BytesAfter(page[i], page[i - 1])
    <3> SUFFICES ASSUME NEW i \in 1..Len(page), i # 1
                 PROVE  g[i][h[i - 1]] = h[i - 1] + BytesAfter(page[i], page[i - 1])
      OBVIOUS
    <3>1. i \in 2..Len(page) /\ h[i - 1] \in Nat
      BY <1>1, <2>1
    <3>2. QED
      BY <3>1
  <2> HIDE DEF z, g
  <2>3. QED
    BY <1>3, <2>2
<1> DEFINE bytes == CHOOSE k : R(k)
<1>5. R(bytes)
  <2> HIDE DEF R
  <2>1. QED
    BY <1>4
<1>6. \A i \in 1..Len(page) : bytes[i] \in Nat
  <2> DEFINE S == {i \in 1..Len(page) : bytes[i] \in Nat}
  <2> HIDE DEF bytes
  <2>1. 1 \in S
    BY <1>1, <1>5, BytesFit, NumericIndexAssumption
  <2>2. ASSUME NEW i \in 2..Len(page), i - 1 \in S PROVE i \in S
    <3>1. bytes[i] = bytes[i - 1] + BytesAfter(page[i], page[i - 1])
      BY <1>5, <2>2
    <3>2. QED
      BY <2>2, <3>1, BytesAfterFit
  <2>3. Reaches(S, 1, Len(page))
    BY <2>1, <2>2 DEF Reaches
  <2> HIDE DEF S
  <2>4. \A i \in 1..Len(page) : i \in S
    BY <1>1, <2>3, IntervalInduction
  <2>5. QED
    BY <2>4 DEF S
<1>7. Footprint(page) = bytes[Len(page)]
  BY DEF Footprint
<1>8. QED
  <2> HIDE DEF bytes
  <2>1. \A i \in 1..Len(page) :
          bytes[i] = IF i = 1 THEN BytesOf(page[1].startId, page[1].fileOffset)
                     ELSE bytes[i - 1] + BytesAfter(page[i], page[i - 1])
    BY <1>5
  <2>2. QED
    BY <1>6, <1>7, <2>1

\* The entries of a page take what the first takes, and every other after the one before.
LEMMA FootprintOfOne ==
  ASSUME NEW e \in EntrySet
  PROVE  Footprint(<<e>>) = BytesOf(e.startId, e.fileOffset)
<1>1. <<e>> \in Seq(EntrySet) /\ <<e>> # <<>> /\ Len(<<e>>) = 1 /\ <<e>>[1] = e
  OBVIOUS
<1>2. QED
  BY <1>1, FootprintSteps

\* An entry that is added to a page adds its bytes.
LEMMA FootprintOfMore ==
  ASSUME NEW page \in Seq(EntrySet), page # <<>>, NEW e \in EntrySet
  PROVE  Footprint(Append(page, e)) = Footprint(page) + BytesAfter(e, page[Len(page)])
<1> DEFINE more == Append(page, e)
           n == Len(page)
<1>1. /\ more \in Seq(EntrySet) /\ more # <<>> /\ Len(more) = n + 1 /\ n \in Nat \ {0}
      /\ \A i \in 1..n : more[i] = page[i]
      /\ more[n + 1] = e
  OBVIOUS
<1> HIDE DEF more
<1>2. PICK b :
        /\ Footprint(page) = b[n]
        /\ \A i \in 1..n :
             /\ b[i] \in Nat
             /\ b[i] = IF i = 1 THEN BytesOf(page[1].startId, page[1].fileOffset)
                       ELSE b[i - 1] + BytesAfter(page[i], page[i - 1])
  BY FootprintSteps
<1>3. PICK c :
        /\ Footprint(more) = c[n + 1]
        /\ \A i \in 1..n + 1 :
             /\ c[i] \in Nat
             /\ c[i] = IF i = 1 THEN BytesOf(more[1].startId, more[1].fileOffset)
                       ELSE c[i - 1] + BytesAfter(more[i], more[i - 1])
  <2> HIDE DEF n
  <2>1. \E c :
          /\ Footprint(more) = c[Len(more)]
          /\ \A i \in 1..Len(more) :
               /\ c[i] \in Nat
               /\ c[i] = IF i = 1 THEN BytesOf(more[1].startId, more[1].fileOffset)
                         ELSE c[i - 1] + BytesAfter(more[i], more[i - 1])
    BY <1>1, FootprintSteps
  <2>2. Len(more) = n + 1
    BY <1>1
  <2>3. QED
    BY <2>1, <2>2
<1> DEFINE S == {i \in 1..n : b[i] = c[i]}
<1>4. 1 \in S
  <2>1. 1 \in 1..n /\ 1 \in 1..n + 1 /\ more[1] = page[1]
    BY <1>1
  <2>2. QED
    BY <1>2, <1>3, <2>1
<1>5. ASSUME NEW i \in 2..n, i - 1 \in S PROVE i \in S
  <2>1. /\ i \in 1..n /\ i \in 1..n + 1 /\ i # 1 /\ i - 1 \in 1..n
        /\ more[i] = page[i] /\ more[i - 1] = page[i - 1]
    BY <1>1
  <2>2. b[i] = b[i - 1] + BytesAfter(page[i], page[i - 1])
    BY <1>2, <2>1
  <2>3. c[i] = c[i - 1] + BytesAfter(more[i], more[i - 1])
    BY <1>3, <2>1
  <2>4. QED
    BY <1>5, <2>1, <2>2, <2>3
<1>6. n \in S
  <2>1. Reaches(S, 1, n)
    BY <1>4, <1>5 DEF Reaches
  <2> HIDE DEF S
  <2>2. QED
    BY <1>1, <2>1, IntervalInduction
<1>7. c[n + 1] = c[n] + BytesAfter(more[n + 1], more[n])
  <2>1. n + 1 \in 1..n + 1 /\ n + 1 # 1 /\ (n + 1) - 1 = n
    BY <1>1
  <2>2. QED
    BY <1>3, <2>1
<1>8. QED
  BY <1>1, <1>2, <1>3, <1>6, <1>7 DEF more

\* first[k] is where page k begins: the pages are the first n entries, cut there.
IsCutAt(pages, entries, n, first) ==
  /\ first \in [1..Len(pages) + 1 -> Nat]
  /\ first[1] = 1 /\ first[Len(pages) + 1] = n + 1
  /\ \A k \in 1..Len(pages) :
       /\ first[k] < first[k + 1]
       /\ Len(pages[k]) = first[k + 1] - first[k]
       /\ \A j \in 1..Len(pages[k]) : pages[k][j] = entries[first[k] + j - 1]

IsCut(pages, entries, n) == \E first : IsCutAt(pages, entries, n, first)

\* What the generator has after n entries: used are the bytes of the last page, or 0 if
\* that is full.
IsWritten(written, entries, n) ==
  /\ written \in [pages : Pages, used : Nat]
  /\ IsCut(written.pages, entries, n)
  /\ \A k \in 1..Len(written.pages) :
       Footprint(written.pages[k]) <= PageSize
  /\ written.used > 0 =>
       /\ written.pages # <<>>
       /\ Footprint(written.pages[Len(written.pages)]) = written.used

\* An entry that begins a page leaves the entries cut into pages.
LEMMA AppendedPage ==
  ASSUME NEW n \in Nat, NEW entries \in Seq(EntrySet), n + 1 <= Len(entries),
         NEW pages \in Pages, IsCut(pages, entries, n)
  PROVE  IsCut(Append(pages, <<entries[n + 1]>>), entries, n + 1)
<1> DEFINE more == Append(pages, <<entries[n + 1]>>)
           l == Len(pages)
<1>1. /\ l \in Nat /\ Len(more) = l + 1
      /\ \A k \in 1..l : more[k] = pages[k]
      /\ more[l + 1] = <<entries[n + 1]>>
  BY DEF Pages
<1>2. PICK first : IsCutAt(pages, entries, n, first)
  BY DEF IsCut
<1> DEFINE next == [k \in 1..l + 2 |-> IF k <= l + 1 THEN first[k] ELSE n + 2]
<1> HIDE DEF more, l
<1>3. /\ first \in [1..l + 1 -> Nat] /\ first[1] = 1 /\ first[l + 1] = n + 1
      /\ \A k \in 1..l :
           /\ first[k] < first[k + 1]
           /\ Len(pages[k]) = first[k + 1] - first[k]
           /\ \A j \in 1..Len(pages[k]) : pages[k][j] = entries[first[k] + j - 1]
  BY <1>2 DEF IsCutAt, l
<1>4. /\ next \in [1..l + 2 -> Nat]
      /\ \A k \in 1..l + 1 : next[k] = first[k]
      /\ next[l + 2] = n + 2
  BY <1>1, <1>3
<1> HIDE DEF next
<1>5. ASSUME NEW k \in 1..l + 1
      PROVE  /\ next[k] < next[k + 1]
             /\ Len(more[k]) = next[k + 1] - next[k]
             /\ \A j \in 1..Len(more[k]) : more[k][j] = entries[next[k] + j - 1]
  <2>1. CASE k \in 1..l
    <3>1. k + 1 \in 1..l + 1 /\ k \in 1..l + 1 /\ more[k] = pages[k]
      BY <1>1, <2>1
    <3>2. next[k] = first[k] /\ next[k + 1] = first[k + 1]
      BY <1>4, <3>1
    <3>3. QED
      BY <1>3, <2>1, <3>1, <3>2
  <2>2. CASE k = l + 1
    <3>1. next[k] = n + 1 /\ next[k + 1] = n + 2
      BY <1>1, <1>3, <1>4, <2>2
    <3>2. more[k] = <<entries[n + 1]>>
      BY <1>1, <2>2
    <3>3. QED
      BY <3>1, <3>2
  <2>3. QED
    BY <1>1, <2>1, <2>2
<1>6. next[1] = 1
  BY <1>1, <1>3, <1>4
<1>7. IsCutAt(more, entries, n + 1, next)
  <2>1. Len(more) + 1 = l + 2 /\ (n + 1) + 1 = n + 2
    BY <1>1
  <2>2. QED
    BY <1>1, <1>4, <1>5, <1>6, <2>1 DEF IsCutAt
<1>8. QED
  BY <1>7 DEF IsCut, more

\* The last page with an entry more.
Extended(pages, entry) == Append(Front(pages), Append(Last(pages), entry))

\* What Append makes of a sequence.
LEMMA AppendFacts ==
  ASSUME NEW S, NEW s \in Seq(S), NEW e \in S
  PROVE  /\ Append(s, e) \in Seq(S) /\ Append(s, e) # <<>> /\ Len(Append(s, e)) = Len(s) + 1
         /\ \A k \in 1..Len(s) : Append(s, e)[k] = s[k]
         /\ Append(s, e)[Len(s) + 1] = e
  OBVIOUS

\* What becomes of the pages when an entry is added to the last of them.
LEMMA ExtendedPages ==
  ASSUME NEW pages \in Pages, pages # <<>>, NEW entry \in EntrySet
  PROVE  /\ Extended(pages, entry) \in Pages
         /\ Len(Extended(pages, entry)) = Len(pages)
         /\ \A k \in 1..Len(pages) - 1 : Extended(pages, entry)[k] = pages[k]
         /\ Extended(pages, entry)[Len(pages)] = Append(pages[Len(pages)], entry)
<1> DEFINE l == Len(pages)
<1>1. l \in Nat \ {0} /\ pages \in [1..l -> Seq(EntrySet)]
  BY DEF Pages
<1>2. Last(pages) = pages[l] /\ pages[l] \in Seq(EntrySet)
  BY <1>1 DEF Last
<1>3. Append(Last(pages), entry) \in Seq(EntrySet)
  BY <1>2
<1>4. /\ Front(pages) \in Seq(Seq(EntrySet)) /\ Len(Front(pages)) = l - 1
      /\ \A k \in 1..l - 1 : Front(pages)[k] = pages[k]
  <2>1. Front(pages) = SubSeq(pages, 1, l - 1)
    BY DEF Front
  <2>2. pages \in Seq(Seq(EntrySet))
    BY DEF Pages
  <2>3. QED
    BY <1>1, <2>1, <2>2
<1> DEFINE front == Front(pages)
           last == Append(Last(pages), entry)
<1>5. last = Append(pages[l], entry) /\ last \in Seq(EntrySet)
  BY <1>2, <1>3
<1>6. Extended(pages, entry) = Append(front, last) /\ (l - 1) + 1 = l
  BY <1>1 DEF Extended
<1> HIDE DEF front, last
<1>7. /\ front \in Seq(Seq(EntrySet)) /\ Len(front) = l - 1
      /\ \A k \in 1..l - 1 : front[k] = pages[k]
  BY <1>4 DEF front
<1>8. /\ Append(front, last) \in Seq(Seq(EntrySet))
      /\ Len(Append(front, last)) = Len(front) + 1
      /\ \A k \in 1..Len(front) : Append(front, last)[k] = front[k]
      /\ Append(front, last)[Len(front) + 1] = last
  BY <1>5, <1>7, AppendFacts
<1> HIDE DEF l
<1>9. QED
  BY <1>5, <1>6, <1>7, <1>8 DEF Pages, l

\* It leaves the entries cut into pages as well.
LEMMA ExtendedPage ==
  ASSUME NEW n \in Nat, NEW entries \in Seq(EntrySet), n + 1 <= Len(entries),
         NEW pages \in Pages, pages # <<>>, IsCut(pages, entries, n)
  PROVE  IsCut(Extended(pages, entries[n + 1]), entries, n + 1)
<1> DEFINE more == Extended(pages, entries[n + 1])
           l == Len(pages)
<1>1. /\ l \in Nat \ {0} /\ Len(more) = l
      /\ \A k \in 1..l - 1 : more[k] = pages[k]
      /\ more[l] = Append(pages[l], entries[n + 1])
      /\ pages[l] \in Seq(EntrySet)
  <2>1. entries[n + 1] \in EntrySet
    OBVIOUS
  <2>2. l \in Nat \ {0} /\ pages[l] \in Seq(EntrySet)
    BY DEF Pages
  <2>3. QED
    BY <2>1, <2>2, ExtendedPages
<1>2. PICK first : IsCutAt(pages, entries, n, first)
  BY DEF IsCut
<1> DEFINE next == [first EXCEPT ![l + 1] = n + 2]
<1> HIDE DEF more, l
<1>3. /\ first \in [1..l + 1 -> Nat] /\ first[1] = 1 /\ first[l + 1] = n + 1
      /\ \A k \in 1..l :
           /\ first[k] < first[k + 1]
           /\ Len(pages[k]) = first[k + 1] - first[k]
           /\ \A j \in 1..Len(pages[k]) : pages[k][j] = entries[first[k] + j - 1]
  BY <1>2 DEF IsCutAt, l
<1>4. /\ next \in [1..l + 1 -> Nat]
      /\ \A k \in 1..l : next[k] = first[k]
      /\ next[l + 1] = n + 2
  BY <1>1, <1>3
<1> HIDE DEF next
<1>5. ASSUME NEW k \in 1..l
      PROVE  /\ next[k] < next[k + 1]
             /\ Len(more[k]) = next[k + 1] - next[k]
             /\ \A j \in 1..Len(more[k]) : more[k][j] = entries[next[k] + j - 1]
  <2>1. CASE k \in 1..l - 1
    <3>1. k + 1 \in 1..l /\ more[k] = pages[k]
      BY <1>1, <2>1
    <3>2. next[k] = first[k] /\ next[k + 1] = first[k + 1]
      BY <1>4, <3>1
    <3>3. QED
      BY <1>3, <3>1, <3>2
  <2>2. CASE k = l
    <3>1. next[k] = first[l] /\ next[k + 1] = n + 2 /\ first[l] \in Nat
      BY <1>1, <1>3, <1>4, <2>2
    <3>2. first[l] < n + 1 /\ Len(pages[l]) = (n + 1) - first[l]
      BY <1>1, <1>3
    <3>3. /\ Len(more[l]) = Len(pages[l]) + 1
          /\ \A j \in 1..Len(pages[l]) : more[l][j] = pages[l][j]
          /\ more[l][Len(pages[l]) + 1] = entries[n + 1]
      BY <1>1
    <3>4. ASSUME NEW j \in 1..Len(more[l]) PROVE more[l][j] = entries[first[l] + j - 1]
      <4>1. CASE j \in 1..Len(pages[l])
        BY <1>1, <1>3, <3>3, <4>1
      <4>2. CASE j = Len(pages[l]) + 1
        <5>1. first[l] + j - 1 = n + 1
          BY <3>1, <3>2, <4>2
        <5>2. QED
          BY <3>3, <4>2, <5>1
      <4>3. QED
        BY <1>1, <3>3, <4>1, <4>2
    <3>5. QED
      BY <2>2, <3>1, <3>2, <3>3, <3>4
  <2>3. QED
    BY <1>1, <2>1, <2>2
<1>6. next[1] = 1
  BY <1>1, <1>3, <1>4
<1>7. IsCutAt(more, entries, n + 1, next)
  <2>1. (n + 1) + 1 = n + 2
    OBVIOUS
  <2>2. QED
    BY <1>1, <1>4, <1>5, <1>6, <2>1 DEF IsCutAt
<1>8. QED
  BY <1>7 DEF IsCut, more

\* The pages that entries are cut into are not empty.
LEMMA PagesHaveEntries ==
  ASSUME NEW pages \in Pages, NEW entries, NEW n, IsCut(pages, entries, n),
         NEW k \in 1..Len(pages)
  PROVE  pages[k] \in Seq(EntrySet) /\ pages[k] # <<>> /\ Len(pages[k]) \in Nat \ {0}
<1>1. pages[k] \in Seq(EntrySet)
  BY DEF Pages
<1>2. PICK first : IsCutAt(pages, entries, n, first)
  BY DEF IsCut
<1>3. first[k] \in Nat /\ first[k + 1] \in Nat
  <2>1. k \in 1..Len(pages) + 1 /\ k + 1 \in 1..Len(pages) + 1
    BY DEF Pages
  <2>2. QED
    BY <1>2, <2>1 DEF IsCutAt
<1>4. Len(pages[k]) > 0
  BY <1>2, <1>3 DEF IsCutAt
<1>5. QED
  BY <1>1, <1>4

\* The generator begins a page with an entry, and its pages fit their blocks.
LEMMA StartPageStep ==
  ASSUME NEW n \in Nat, NEW entries \in Seq(EntrySet), n + 1 <= Len(entries),
         NEW written, IsWritten(written, entries, n)
  PROVE  IsWritten(StartPage(written, entries[n + 1]), entries, n + 1)
<1> DEFINE pages == written.pages
           entry == entries[n + 1]
           bytes == BytesOf(entry.startId, entry.fileOffset)
           more == Append(pages, <<entry>>)
<1>1. entry \in EntrySet /\ <<entry>> \in Seq(EntrySet)
  OBVIOUS
<1>2. pages \in Seq(Seq(EntrySet)) /\ Len(pages) \in Nat
  BY DEF IsWritten, Pages
<1>3. /\ more \in Seq(Seq(EntrySet)) /\ more # <<>> /\ Len(more) = Len(pages) + 1
      /\ \A k \in 1..Len(pages) : more[k] = pages[k]
      /\ more[Len(pages) + 1] = <<entry>>
  <2> HIDE DEF pages, entry
  <2>1. QED
    BY <1>1, <1>2, AppendFacts
<1>4. IsCut(more, entries, n + 1)
  <2>1. pages \in Pages
    BY <1>2 DEF Pages
  <2>2. QED
    BY <2>1, AppendedPage DEF IsWritten
<1>5. bytes \in 1..PageSize /\ Footprint(<<entry>>) = bytes
  <2> HIDE DEF entry
  <2>1. QED
    BY <1>1, BytesFit, FootprintOfOne
<1>6. StartPage(written, entry) = [pages |-> more, used |-> bytes % PageSize]
  BY DEF StartPage, Written
<1>7. ASSUME NEW k \in 1..Len(more) PROVE Footprint(more[k]) <= PageSize
  <2>1. \A m \in 1..Len(pages) : Footprint(pages[m]) <= PageSize
    BY DEF IsWritten
  <2>2. CASE k \in 1..Len(pages)
    <3> HIDE DEF more, pages
    <3>1. QED
      BY <1>3, <2>1, <2>2
  <2>3. CASE k = Len(pages) + 1
    <3>1. more[k] = <<entry>>
      <4> HIDE DEF more, pages, entry
      <4>1. QED
        BY <1>3, <2>3
    <3> HIDE DEF more, pages, entry, bytes
    <3>2. QED
      BY <1>5, <3>1, NumericIndexAssumption
  <2> HIDE DEF more, pages
  <2>4. QED
    BY <1>2, <1>3, <2>2, <2>3
<1>8. bytes % PageSize \in Nat /\ (bytes % PageSize > 0 => bytes % PageSize = bytes)
  <2> HIDE DEF bytes
  <2>1. bytes < PageSize => bytes % PageSize = bytes
    BY <1>5, NumericIndexAssumption
  <2>2. PageSize % PageSize = 0
    BY NumericIndexAssumption
  <2>3. QED
    BY <1>5, <2>1, <2>2, NumericIndexAssumption
<1> HIDE DEF more, pages, entry, bytes
<1>9. IsWritten([pages |-> more, used |-> bytes % PageSize], entries, n + 1)
  BY <1>2, <1>3, <1>4, <1>5, <1>7, <1>8 DEF IsWritten, Pages
<1>10. QED
  BY <1>6, <1>9 DEF entry

\* It adds an entry to a page that has room for its bytes.
LEMMA ContinuePageStep ==
  ASSUME NEW n \in Nat, NEW entries \in Seq(EntrySet), n + 1 <= Len(entries),
         NEW written, IsWritten(written, entries, n), written.used > 0,
         NEW bytes \in Nat, written.used + bytes <= PageSize,
         bytes = BytesAfter(entries[n + 1], Last(Last(written.pages)))
  PROVE  IsWritten(ContinuePage(written, entries[n + 1], bytes), entries, n + 1)
<1> DEFINE pages == written.pages
           used == written.used
           entry == entries[n + 1]
           more == Extended(pages, entry)
           l == Len(pages)
<1>1. /\ entry \in EntrySet /\ pages \in Pages /\ used \in Nat /\ pages # <<>>
      /\ Footprint(pages[l]) = used
      /\ IsCut(pages, entries, n)
      /\ \A k \in 1..l : Footprint(pages[k]) <= PageSize
  BY DEF IsWritten
<1>2. IsCut(more, entries, n + 1)
  BY <1>1, ExtendedPage
<1>3. ContinuePage(written, entry, bytes) = [pages |-> more, used |-> used + bytes]
  BY DEF ContinuePage, Written, Extended
<1>4. bytes = BytesAfter(entry, Last(Last(pages)))
  OBVIOUS
<1>5. used + bytes <= PageSize /\ used > 0
  OBVIOUS
<1> HIDE DEF pages, used, entry
<1>6. /\ more \in Pages /\ Len(more) = l
      /\ \A k \in 1..l - 1 : more[k] = pages[k]
      /\ more[l] = Append(pages[l], entry)
  BY <1>1, ExtendedPages
<1>7. l \in Nat \ {0}
  BY <1>1 DEF Pages
<1>8. pages[l] \in Seq(EntrySet) /\ pages[l] # <<>>
  <2>1. l \in 1..Len(pages)
    BY <1>7
  <2>2. QED
    BY <1>1, <2>1, PagesHaveEntries
<1>9. Last(Last(pages)) = pages[l][Len(pages[l])]
  BY DEF Last
<1>10. Footprint(more[l]) = used + bytes
  BY <1>1, <1>4, <1>6, <1>8, <1>9, FootprintOfMore
<1> HIDE DEF more, l
<1>11. ASSUME NEW k \in 1..Len(more) PROVE Footprint(more[k]) <= PageSize
  <2>1. CASE k \in 1..l - 1
    <3>1. k \in 1..l
      BY <1>7, <2>1
    <3>2. QED
      BY <1>1, <1>6, <2>1, <3>1
  <2>2. CASE k = l
    BY <1>5, <1>10, <2>2
  <2>3. QED
    BY <1>6, <1>7, <2>1, <2>2
<1>12. more # <<>>
  BY <1>6, <1>7
<1> DEFINE w == [pages |-> more, used |-> used + bytes]
<1>13. IsWritten(w, entries, n + 1)
  <2>1. w.pages = more /\ w.used = used + bytes
    OBVIOUS
  <2>2. w \in [pages : Pages, used : Nat]
    BY <1>1, <1>6
  <2>3. Footprint(more[Len(more)]) = used + bytes
    BY <1>6, <1>10
  <2> HIDE DEF w
  <2>4. QED
    BY <1>2, <1>11, <1>12, <2>1, <2>2, <2>3 DEF IsWritten
<1>14. QED
  BY <1>3, <1>13 DEF entry

\* One entry more: either of the two.
LEMMA AddEntryStep ==
  ASSUME NEW n \in Nat, NEW entries \in Seq(EntrySet), n + 1 <= Len(entries),
         NEW written, IsWritten(written, entries, n)
  PROVE  IsWritten(AddEntry(written, entries[n + 1]), entries, n + 1)
<1> DEFINE entry == entries[n + 1]
           bytes == BytesAfter(entry, Last(Last(written.pages)))
<1>1. bytes \in Nat
  BY BytesAfterFit
<1>2. CASE written.used > 0 /\ written.used + bytes <= PageSize
  <2>1. AddEntry(written, entry) = ContinuePage(written, entry, bytes)
    BY <1>2 DEF AddEntry
  <2>2. QED
    BY <1>1, <1>2, <2>1, ContinuePageStep
<1>3. CASE ~(written.used > 0 /\ written.used + bytes <= PageSize)
  <2>1. AddEntry(written, entry) = StartPage(written, entry)
    BY <1>3 DEF AddEntry
  <2>2. QED
    BY <2>1, StartPageStep
<1>4. QED
  BY <1>2, <1>3

\* The generator cuts the entries into pages that fit the blocks, and leaves out none.
LEMMA PagesAreCut ==
  ASSUME NEW entries \in Seq(EntrySet)
  PROVE  /\ PagesOf(entries) \in Pages
         /\ IsCut(PagesOf(entries), entries, Len(entries))
         /\ \A k \in 1..Len(PagesOf(entries)) : Footprint(PagesOf(entries)[k]) <= PageSize
<1> DEFINE len == Len(entries)
           All == [pages : Pages, used : Nat]
           z == Written(<<>>, 0)
           g == [n \in 1..len |-> [w \in All |-> AddEntry(w, entries[n])]]
           W == [n \in 0..len |-> {w \in All : IsWritten(w, entries, n)}]
           R(h) == h = [n \in 0..len |-> IF n = 0 THEN z ELSE AddEntry(h[n - 1], entries[n])]
<1>1. len \in Nat
  OBVIOUS
<1>2. z \in All /\ IsWritten(z, entries, 0)
  <2>1. z \in All
    BY DEF Written, Pages
  <2>2. IsCut(<<>>, entries, 0)
    <3>1. IsCutAt(<<>>, entries, 0, [k \in 1..1 |-> 1])
      BY DEF IsCutAt
    <3>2. QED
      BY <3>1 DEF IsCut
  <2>3. QED
    BY <2>1, <2>2 DEF IsWritten, Written
<1>3. \A n \in 1..len : \A w \in All : IsWritten(w, entries, n - 1) =>
        AddEntry(w, entries[n]) \in All /\ IsWritten(AddEntry(w, entries[n]), entries, n)
  <2> SUFFICES ASSUME NEW n \in 1..len, NEW w \in All, IsWritten(w, entries, n - 1)
               PROVE  IsWritten(AddEntry(w, entries[n]), entries, n)
    BY DEF IsWritten
  <2>1. n - 1 \in Nat /\ (n - 1) + 1 = n /\ n <= Len(entries)
    BY <1>1
  <2>2. QED
    BY <2>1, AddEntryStep
<1>4. StaysIn(W, 0, len, z, g)
  <2> HIDE DEF z, All
  <2>1. ASSUME NEW n \in 1..len, NEW w \in W[n - 1] PROVE g[n][w] \in W[n]
    <3>1. n - 1 \in 0..len /\ n \in 0..len
      BY <1>1
    <3>2. w \in All /\ IsWritten(w, entries, n - 1)
      BY <3>1
    <3>3. g[n][w] = AddEntry(w, entries[n])
      BY <3>2
    <3>4. QED
      BY <1>3, <3>1, <3>2, <3>3
  <2>2. z \in W[0]
    BY <1>1, <1>2
  <2> HIDE DEF g, W
  <2>3. QED
    BY <2>1, <2>2 DEF StaysIn
<1>5. PICK h : /\ h = [n \in 0..len |-> IF n = 0 THEN z ELSE g[n][h[n - 1]]]
               /\ \A n \in 0..len : h[n] \in W[n]
  <2> HIDE DEF z, g, W
  <2>1. QED
    BY <1>1, <1>4, Recursion
<1>6. R(h)
  <2>1. \A n \in 1..len : h[n - 1] \in All
    <3> SUFFICES ASSUME NEW n \in 1..len PROVE h[n - 1] \in All
      OBVIOUS
    <3>1. n - 1 \in 0..len
      BY <1>1
    <3>2. QED
      BY <1>5, <3>1
  <2>2. \A n \in 0..len :
          (IF n = 0 THEN z ELSE g[n][h[n - 1]])
            = IF n = 0 THEN z ELSE AddEntry(h[n - 1], entries[n])
    <3> HIDE DEF z, All
    <3>1. QED
      BY <2>1
  <2> HIDE DEF z, g
  <2>3. QED
    BY <1>5, <2>2
<1> DEFINE written == CHOOSE k : R(k)
<1>7. R(written)
  <2> HIDE DEF R
  <2>1. QED
    BY <1>6
<1>8. IsWritten(written[len], entries, len)
  <2> DEFINE S == {n \in 0..len : IsWritten(written[n], entries, n)}
  <2> HIDE DEF written
  <2>1. 0 \in S
    <3>1. written[0] = z
      BY <1>1, <1>7
    <3> HIDE DEF z
    <3>2. QED
      BY <1>1, <1>2, <3>1
  <2>2. ASSUME NEW n \in 0 + 1..len, n - 1 \in S PROVE n \in S
    <3>1. written[n] = AddEntry(written[n - 1], entries[n])
      BY <1>1, <1>7
    <3>2. written[n - 1] \in All
      BY <2>2 DEF IsWritten
    <3> HIDE DEF All
    <3>3. QED
      BY <1>1, <1>3, <2>2, <3>1, <3>2
  <2>3. Reaches(S, 0, len)
    BY <2>1, <2>2 DEF Reaches
  <2> HIDE DEF S
  <2>4. len \in S
    BY <1>1, <2>3, IntervalInduction
  <2>5. QED
    BY <2>4 DEF S
<1>9. PagesOf(entries) = written[len].pages
  BY DEF PagesOf
<1>10. QED
  <2> HIDE DEF written
  <2>1. QED
    BY <1>8, <1>9 DEF IsWritten

------------------------------------------------------------------------------
(* Levels                                                                  *)

Ascending(entries) ==
  \A i, j \in 1..Len(entries) : i < j => entries[i].startId < entries[j].startId

\* The pages begin one behind the other.
LEMMA FirstAscends ==
  ASSUME NEW pages \in Pages, NEW entries, NEW n, NEW first, IsCutAt(pages, entries, n, first),
         NEW a \in 1..Len(pages), NEW b \in a + 1..Len(pages) + 1
  PROVE  first[a] < first[b]
<1> DEFINE l == Len(pages)
           S == {m \in a + 1..b : first[a] < first[m]}
<1>1. l \in Nat
  BY DEF Pages
<1>2. /\ \A k \in 1..l + 1 : first[k] \in Nat
      /\ \A k \in 1..l : first[k] < first[k + 1]
  BY DEF IsCutAt
<1> HIDE DEF l
<1>3. a \in 1..l /\ b \in a + 1..l + 1
  BY DEF l
<1>4. a + 1 \in S
  BY <1>1, <1>2, <1>3
<1>5. ASSUME NEW m \in a + 1 + 1..b, m - 1 \in S PROVE m \in S
  <2>1. m - 1 \in 1..l /\ m \in 1..l + 1 /\ (m - 1) + 1 = m
    BY <1>1, <1>3
  <2>2. first[m - 1] < first[m]
    BY <1>2, <2>1
  <2>3. first[a] \in Nat /\ first[m - 1] \in Nat /\ first[m] \in Nat
    BY <1>1, <1>2, <1>3, <2>1
  <2>4. QED
    BY <1>1, <1>3, <1>5, <2>2, <2>3
<1>6. Reaches(S, a + 1, b)
  BY <1>4, <1>5 DEF Reaches
<1> HIDE DEF S
<1>7. b \in S
  BY <1>1, <1>3, <1>6, IntervalInduction
<1>8. QED
  BY <1>7 DEF S

\* A page that begins, and ends, within the entries.
LEMMA FirstInRange ==
  ASSUME NEW pages \in Pages, NEW entries, NEW n \in Nat, NEW first,
         IsCutAt(pages, entries, n, first), NEW k \in 1..Len(pages)
  PROVE  first[k] \in 1..n /\ first[k + 1] \in 2..n + 1
<1> DEFINE l == Len(pages)
<1>1. l \in Nat /\ k \in 1..l
  BY DEF Pages
<1>2. /\ \A m \in 1..l + 1 : first[m] \in Nat
      /\ first[1] = 1 /\ first[l + 1] = n + 1
      /\ first[k] < first[k + 1]
  BY DEF IsCutAt
<1>3. first[k] >= 1
  <2>1. CASE k = 1
    BY <1>2, <2>1
  <2>2. CASE k # 1
    <3>1. first[1] < first[k]
      <4>1. 1 \in 1..Len(pages) /\ k \in 1 + 1..Len(pages) + 1
        BY <1>1, <2>2
      <4>2. QED
        BY <4>1, FirstAscends
    <3>2. QED
      BY <1>1, <1>2, <3>1
  <2>3. QED
    BY <2>1, <2>2
<1>4. first[k] < n + 1
  <2>1. l + 1 \in k + 1..Len(pages) + 1
    BY <1>1
  <2>2. first[k] < first[l + 1]
    BY <2>1, FirstAscends
  <2>3. QED
    BY <1>2, <2>2
<1>5. first[k + 1] <= n + 1
  <2>1. CASE k = l
    BY <1>1, <1>2, <2>1
  <2>2. CASE k # l
    <3>1. k + 1 \in 1..Len(pages) /\ l + 1 \in k + 1 + 1..Len(pages) + 1
      BY <1>1, <2>2
    <3>2. first[k + 1] < first[l + 1]
      BY <3>1, FirstAscends
    <3>3. QED
      BY <1>1, <1>2, <3>1, <3>2
  <2>3. QED
    BY <2>1, <2>2
<1> HIDE DEF l
<1>6. first[k] \in Nat /\ first[k + 1] \in Nat
  BY <1>1, <1>2
<1>7. QED
  BY <1>2, <1>3, <1>4, <1>5, <1>6

\* Something is cut into something.
LEMMA CutOfSome ==
  ASSUME NEW pages \in Pages, NEW entries, NEW n \in Nat \ {0}, IsCut(pages, entries, n)
  PROVE  pages # <<>>
<1>1. PICK first : IsCutAt(pages, entries, n, first)
  BY DEF IsCut
<1>2. pages = <<>> => Len(pages) = 0
  OBVIOUS
<1>3. QED
  BY <1>1, <1>2 DEF IsCutAt

\* The entries of the level above name the first ids of the pages and their blocks.
LEMMA ParentsOf ==
  ASSUME NEW pages \in Pages, NEW entries \in Seq(EntrySet),
         IsCut(pages, entries, Len(entries)), Ascending(entries),
         NEW first \in Nat
  PROVE  LET parents == Parents(pages, first) IN
         /\ parents \in Seq(EntrySet) /\ Len(parents) = Len(pages)
         /\ \A k \in 1..Len(pages) :
              /\ parents[k].startId = pages[k][1].startId
              /\ parents[k].fileOffset = (first + k - 1) * PageSize
         /\ Ascending(parents)
<1> DEFINE parents == Parents(pages, first)
           l == Len(pages)
<1>1. l \in Nat /\ PageSize \in Nat
  BY NumericIndexAssumption DEF Pages
<1>2. \A k \in 1..l : pages[k][1] \in EntrySet
  <2> SUFFICES ASSUME NEW k \in 1..l PROVE pages[k][1] \in EntrySet
    OBVIOUS
  <2>1. pages[k] \in Seq(EntrySet) /\ Len(pages[k]) \in Nat \ {0}
    BY PagesHaveEntries
  <2>2. QED
    BY <2>1
<1>3. parents = [k \in 1..l |-> [startId |-> pages[k][1].startId,
                                 fileOffset |-> (first + k - 1) * PageSize]]
  BY DEF Parents, Entry
<1>4. \A k \in 1..l : (first + k - 1) * PageSize \in Nat
  <2>1. \A k \in 1..l : first + k - 1 \in Nat
    BY <1>1
  <2>2. \A x, y \in Nat : x * y \in Nat
    OBVIOUS
  <2>3. QED
    BY <1>1, <2>1, <2>2
<1>5. \A k \in 1..l : pages[k][1].startId \in Nat
  BY <1>2 DEF EntrySet
<1> HIDE DEF parents, l
<1>6. parents \in [1..l -> EntrySet]
  BY <1>3, <1>4, <1>5 DEF EntrySet
<1>7. parents \in Seq(EntrySet) /\ Len(parents) = l
  BY <1>1, <1>6
<1>8. \A k \in 1..l : /\ parents[k].startId = pages[k][1].startId
                      /\ parents[k].fileOffset = (first + k - 1) * PageSize
  BY <1>3
<1>9. ASSUME NEW a \in 1..l, NEW b \in 1..l, a < b
      PROVE  parents[a].startId < parents[b].startId
  <2>1. PICK at : IsCutAt(pages, entries, Len(entries), at)
    BY DEF IsCut
  <2>2. at[a] < at[b]
    <3>1. a \in 1..Len(pages) /\ b \in a + 1..Len(pages) + 1
      BY <1>1, <1>9 DEF l
    <3>2. QED
      BY <2>1, <3>1, FirstAscends
  <2>3. at[a] \in 1..Len(entries) /\ at[b] \in 1..Len(entries)
    <3>1. Len(entries) \in Nat
      OBVIOUS
    <3>2. QED
      BY <2>1, <3>1, FirstInRange DEF l
  <2>4. pages[a][1] = entries[at[a]] /\ pages[b][1] = entries[at[b]]
    <3>1. /\ 1 \in 1..Len(pages[a]) /\ 1 \in 1..Len(pages[b])
      <4>1. Len(pages[a]) \in Nat \ {0} /\ Len(pages[b]) \in Nat \ {0}
        BY PagesHaveEntries DEF l
      <4>2. QED
        BY <4>1
    <3>2. pages[a][1] = entries[at[a] + 1 - 1] /\ pages[b][1] = entries[at[b] + 1 - 1]
      BY <2>1, <3>1 DEF IsCutAt, l
    <3>3. at[a] + 1 - 1 = at[a] /\ at[b] + 1 - 1 = at[b]
      BY <2>3
    <3>4. QED
      BY <3>2, <3>3
  <2>5. QED
    BY <1>8, <2>2, <2>3, <2>4 DEF Ascending
<1>10. QED
  BY <1>7, <1>8, <1>9 DEF Ascending, l, parents

\* The level above another.
Above(l) ==
  Level(l.blocks, IF Len(l.pages) <= 1 THEN <<>> ELSE PagesOf(Parents(l.pages, l.first)))

LevelSet == [pages : Pages, first : Nat, blocks : Pages]

\* The pages of a level are the blocks from its first one on, and every block fits.
LevelFits(l) ==
  /\ l \in LevelSet
  /\ l.first > 0
  /\ Len(l.blocks) = l.first - 1 + Len(l.pages)
  /\ \A k \in 1..Len(l.pages) :
       l.blocks[l.first - 1 + k] = l.pages[k] /\ l.pages[k] # <<>>
  /\ \A k \in 1..Len(l.blocks) : Footprint(l.blocks[k]) <= PageSize

\* What concatenation makes of two sequences.
LEMMA ConcatenationFacts ==
  ASSUME NEW S, NEW s \in Seq(S), NEW t \in Seq(S)
  PROVE  /\ s \o t \in Seq(S) /\ Len(s \o t) = Len(s) + Len(t)
         /\ \A k \in 1..Len(s) : (s \o t)[k] = s[k]
         /\ \A k \in 1..Len(t) : (s \o t)[Len(s) + k] = t[k]
  OBVIOUS

\* A level's pages lie behind the blocks below it, and no block has too many bytes.
LEMMA LevelStep ==
  ASSUME NEW below \in Pages, \A k \in 1..Len(below) : Footprint(below[k]) <= PageSize,
         NEW pages \in Pages,
         \A k \in 1..Len(pages) : pages[k] # <<>> /\ Footprint(pages[k]) <= PageSize
  PROVE  /\ LevelFits(Level(below, pages))
         /\ \A k \in 1..Len(below) : Level(below, pages).blocks[k] = below[k]
<1> DEFINE blocks == below \o pages
           l == [pages |-> pages, first |-> Len(below) + 1, blocks |-> blocks]
<1>1. Len(below) \in Nat /\ Len(pages) \in Nat
  BY DEF Pages
<1>2. /\ blocks \in Pages /\ Len(blocks) = Len(below) + Len(pages)
      /\ \A k \in 1..Len(below) : blocks[k] = below[k]
      /\ \A k \in 1..Len(pages) : blocks[Len(below) + k] = pages[k]
  BY ConcatenationFacts DEF Pages
<1> HIDE DEF blocks
<1>3. l.pages = pages /\ l.first = Len(below) + 1 /\ l.blocks = blocks /\ l \in LevelSet
  BY <1>1, <1>2 DEF LevelSet
<1>4. Level(below, pages) = l
  BY DEF Level, blocks
<1> HIDE DEF l
<1>5. ASSUME NEW k \in 1..Len(blocks) PROVE Footprint(blocks[k]) <= PageSize
  <2>1. CASE k \in 1..Len(below)
    BY <1>2, <2>1
  <2>2. CASE k \notin 1..Len(below)
    <3>1. k - Len(below) \in 1..Len(pages) /\ Len(below) + (k - Len(below)) = k
      BY <1>1, <1>2, <2>2
    <3>2. blocks[k] = pages[k - Len(below)]
      BY <1>2, <3>1
    <3>3. QED
      BY <3>1, <3>2
  <2>3. QED
    BY <2>1, <2>2
<1>6. l.first - 1 = Len(below)
  BY <1>1, <1>3
<1>7. LevelFits(l)
  BY <1>1, <1>2, <1>3, <1>5, <1>6 DEF LevelFits
<1>8. QED
  BY <1>2, <1>3, <1>4, <1>7

\* The empty sequence has no page that could be wrong.
LEMMA NoPages ==
  /\ <<>> \in Pages /\ Len(<<>>) = 0
  /\ \A k \in 1..Len(<<>>) : <<>>[k] # <<>> /\ Footprint(<<>>[k]) <= PageSize
  BY DEF Pages

\* The pages of a level are not empty, and each has room in its block.
LEMMA PagesOfFit ==
  ASSUME NEW entries \in Seq(EntrySet)
  PROVE  /\ PagesOf(entries) \in Pages
         /\ \A k \in 1..Len(PagesOf(entries)) :
              PagesOf(entries)[k] # <<>> /\ Footprint(PagesOf(entries)[k]) <= PageSize
<1>1. /\ PagesOf(entries) \in Pages
      /\ IsCut(PagesOf(entries), entries, Len(entries))
      /\ \A k \in 1..Len(PagesOf(entries)) : Footprint(PagesOf(entries)[k]) <= PageSize
  BY PagesAreCut
<1>2. \A k \in 1..Len(PagesOf(entries)) : PagesOf(entries)[k] # <<>>
  BY <1>1, PagesHaveEntries
<1>3. QED
  BY <1>1, <1>2

\* So it is for the level at the bottom,
LEMMA BottomFits ==
  ASSUME NEW entries \in Seq(EntrySet)
  PROVE  LevelFits(Level(<<>>, PagesOf(entries)))
<1>1. /\ PagesOf(entries) \in Pages
      /\ \A k \in 1..Len(PagesOf(entries)) :
           PagesOf(entries)[k] # <<>> /\ Footprint(PagesOf(entries)[k]) <= PageSize
  BY PagesOfFit
<1>2. QED
  BY <1>1, NoPages, LevelStep

\* and for the level above one where it is so.
LEMMA AboveFits ==
  ASSUME NEW l, LevelFits(l)
  PROVE  /\ LevelFits(Above(l))
         /\ \A k \in 1..Len(l.blocks) : Above(l).blocks[k] = l.blocks[k]
<1> DEFINE pages == IF Len(l.pages) <= 1 THEN <<>> ELSE PagesOf(Parents(l.pages, l.first))
<1>1. /\ l.pages \in Pages /\ l.first \in Nat /\ l.blocks \in Pages
      /\ \A k \in 1..Len(l.blocks) : Footprint(l.blocks[k]) <= PageSize
  BY DEF LevelFits, LevelSet
<1>2. Parents(l.pages, l.first) \in Seq(EntrySet)
  <2>1. Len(l.pages) \in Nat /\ PageSize \in Nat
    BY <1>1, NumericIndexAssumption DEF Pages
  <2>2. ASSUME NEW k \in 1..Len(l.pages)
        PROVE  Entry(l.pages[k][1].startId, (l.first + k - 1) * PageSize) \in EntrySet
    <3>1. l.pages[k] \in Seq(EntrySet) /\ l.pages[k] # <<>>
      BY <1>1 DEF LevelFits, Pages
    <3>2. l.pages[k][1] \in EntrySet
      BY <3>1
    <3>3. l.first + k - 1 \in Nat
      BY <1>1, <2>1
    <3>4. (l.first + k - 1) * PageSize \in Nat
      <4>1. \A x, y \in Nat : x * y \in Nat
        OBVIOUS
      <4>2. QED
        BY <2>1, <3>3, <4>1
    <3>5. QED
      BY <3>2, <3>4 DEF EntrySet, Entry
  <2>3. QED
    BY <2>1, <2>2 DEF Parents
<1>3. /\ pages \in Pages
      /\ \A k \in 1..Len(pages) : pages[k] # <<>> /\ Footprint(pages[k]) <= PageSize
  BY <1>2, NoPages, PagesOfFit
<1>4. Above(l) = Level(l.blocks, pages)
  BY DEF Above
<1> HIDE DEF pages
<1>5. QED
  BY <1>1, <1>3, <1>4, LevelStep

\* The levels are what their definition says.
LEMMA LevelsExist ==
  ASSUME NEW entries \in Seq(EntrySet)
  PROVE  LET level == Levels(entries) IN
         \A i \in 1..MaxLevels :
           /\ LevelFits(level[i])
           /\ level[i] = IF i = 1 THEN Level(<<>>, PagesOf(entries)) ELSE Above(level[i - 1])
<1> DEFINE z == Level(<<>>, PagesOf(entries))
           g == [i \in 2..MaxLevels |-> [l \in LevelSet |-> Above(l)]]
           W == [i \in 1..MaxLevels |-> {l \in LevelSet : LevelFits(l)}]
           R(h) == h = [i \in 1..MaxLevels |-> IF i = 1 THEN z ELSE Above(h[i - 1])]
<1>1. MaxLevels \in Nat \ {0}
  BY NumericIndexAssumption
<1>2. LevelFits(z) /\ z \in LevelSet
  BY BottomFits DEF LevelFits
<1>3. StaysIn(W, 1, MaxLevels, z, g)
  <2> HIDE DEF z
  <2>1. ASSUME NEW i \in 1 + 1..MaxLevels, NEW l \in W[i - 1] PROVE g[i][l] \in W[i]
    <3>1. i \in 2..MaxLevels /\ i - 1 \in 1..MaxLevels /\ i \in 1..MaxLevels
      BY <1>1
    <3>2. l \in LevelSet /\ LevelFits(l)
      BY <3>1
    <3>3. g[i][l] = Above(l)
      BY <3>1, <3>2
    <3>4. LevelFits(Above(l)) /\ Above(l) \in LevelSet
      <4>1. LevelFits(Above(l))
        BY <3>2, AboveFits
      <4>2. QED
        BY <4>1 DEF LevelFits
    <3>5. QED
      BY <3>1, <3>3, <3>4
  <2>2. z \in W[1]
    BY <1>1, <1>2
  <2> HIDE DEF g, W
  <2>3. QED
    BY <2>1, <2>2 DEF StaysIn
<1>4. PICK h : /\ h = [i \in 1..MaxLevels |-> IF i = 1 THEN z ELSE g[i][h[i - 1]]]
               /\ \A i \in 1..MaxLevels : h[i] \in W[i]
  <2> HIDE DEF z, g, W
  <2>1. QED
    BY <1>1, <1>3, Recursion
<1>5. R(h)
  <2>1. ASSUME NEW i \in 2..MaxLevels PROVE g[i][h[i - 1]] = Above(h[i - 1])
    <3>1. i - 1 \in 1..MaxLevels
      BY <1>1
    <3>2. h[i - 1] \in LevelSet
      BY <1>4, <3>1
    <3>3. QED
      BY <3>2
  <2>2. \A i \in 1..MaxLevels :
          (IF i = 1 THEN z ELSE g[i][h[i - 1]]) = IF i = 1 THEN z ELSE Above(h[i - 1])
    <3> HIDE DEF z, g
    <3>1. QED
      BY <2>1
  <2> HIDE DEF z, g
  <2>3. QED
    BY <1>4, <2>2
<1> DEFINE level == CHOOSE k : R(k)
<1>6. R(level)
  <2> HIDE DEF R
  <2>1. QED
    BY <1>5
<1>7. Levels(entries) = level
  BY DEF Levels, Above
<1> HIDE DEF level
<1>8. \A i \in 1..MaxLevels : level[i] = IF i = 1 THEN z ELSE Above(level[i - 1])
  BY <1>6
<1>9. \A i \in 1..MaxLevels : LevelFits(level[i])
  <2> DEFINE S == {i \in 1..MaxLevels : LevelFits(level[i])}
  <2> HIDE DEF z
  <2>1. 1 \in S
    BY <1>1, <1>2, <1>8
  <2>2. ASSUME NEW i \in 1 + 1..MaxLevels, i - 1 \in S PROVE i \in S
    <3>1. i \in 1..MaxLevels /\ i # 1
      BY <1>1
    <3>2. level[i] = Above(level[i - 1])
      BY <1>8, <3>1
    <3>3. QED
      BY <2>2, <3>1, <3>2, AboveFits
  <2>3. Reaches(S, 1, MaxLevels)
    BY <2>1, <2>2 DEF Reaches
  <2> HIDE DEF S
  <2>4. \A i \in 1..MaxLevels : i \in S
    BY <1>1, <2>3, IntervalInduction
  <2>5. QED
    BY <2>4 DEF S
<1>10. QED
  BY <1>7, <1>8, <1>9

------------------------------------------------------------------------------
(* The index                                                               *)

\* Height is a level with pages, and there are none above it.
LEMMA HeightFits ==
  ASSUME NEW level
  PROVE  /\ Height(level) \in 0..MaxLevels
         /\ Height(level) > 0 => level[Height(level)].pages # <<>>
         /\ Height(level) < MaxLevels => level[Height(level) + 1].pages = <<>>
<1> DEFINE Empty == {i \in 1..MaxLevels : level[i].pages = <<>>}
           Is(h) == /\ h > 0 => level[h].pages # <<>>
                    /\ h < MaxLevels => level[h + 1].pages = <<>>
<1>1. MaxLevels \in Nat \ {0}
  BY NumericIndexAssumption
<1>2. CASE Empty = {}
  <2>1. MaxLevels \in 1..MaxLevels /\ MaxLevels \notin Empty
    BY <1>1, <1>2
  <2>2. Is(MaxLevels)
    BY <1>1, <2>1
  <2>3. \E h \in 0..MaxLevels : Is(h)
    BY <1>1, <2>2
  <2>4. QED
    BY <2>3 DEF Height
<1>3. CASE Empty # {}
  <2>1. PICK m \in Empty : \A i \in Empty : m <= i
    <3>1. Empty \in SUBSET Nat
      OBVIOUS
    <3> HIDE DEF Empty
    <3>2. QED
      BY <1>3, <3>1, LeastNat
  <2>2. m \in 1..MaxLevels /\ level[m].pages = <<>>
    BY <2>1
  <2>3. m - 1 > 0 => level[m - 1].pages # <<>>
    <3>1. m - 1 \notin Empty
      BY <2>1, <2>2
    <3>2. m - 1 > 0 => m - 1 \in 1..MaxLevels
      BY <1>1, <2>2
    <3>3. QED
      BY <3>1, <3>2
  <2>4. (m - 1) + 1 = m /\ m - 1 \in 0..MaxLevels
    BY <1>1, <2>2
  <2>5. Is(m - 1)
    BY <2>2, <2>3, <2>4
  <2>6. \E h \in 0..MaxLevels : Is(h)
    BY <2>4, <2>5
  <2>7. QED
    BY <2>6 DEF Height
<1>4. QED
  BY <1>2, <1>3

\* What the level i of an index is made from, and its pages.
LevelOf(entries, i) == Levels(entries)[i]

PagesAt(entries, i) == LevelOf(entries, i).pages

EntriesAt(entries, i) ==
  IF i = 1 THEN entries
  ELSE Parents(PagesAt(entries, i - 1), LevelOf(entries, i - 1).first)

\* Every level with pages is cut from its entries, which have the pages below.
IsLevel(entries, i) ==
  /\ EntriesAt(entries, i) \in Seq(EntrySet) /\ EntriesAt(entries, i) # <<>>
  /\ Ascending(EntriesAt(entries, i))
  /\ PagesAt(entries, i) = PagesOf(EntriesAt(entries, i))

\* Below a level with pages all levels have pages, and more than one.
LEMMA BelowTheTop ==
  ASSUME NEW entries \in Seq(EntrySet), NEW h \in 1..MaxLevels, PagesAt(entries, h) # <<>>
  PROVE  \A i \in 1..h : /\ PagesAt(entries, i) # <<>>
                         /\ i < h => Len(PagesAt(entries, i)) > 1
<1> DEFINE P(i) == PagesAt(entries, i)
           S == {n \in 0..h - 1 : P(h - n) # <<>>}
<1>1. MaxLevels \in Nat \ {0} /\ h \in Nat \ {0}
  BY NumericIndexAssumption
<1>2. ASSUME NEW i \in 1..h, i < h, P(i + 1) # <<>> PROVE P(i) # <<>> /\ Len(P(i)) > 1
  <2>1. i + 1 \in 1..MaxLevels /\ i + 1 # 1 /\ (i + 1) - 1 = i /\ i \in 1..MaxLevels
    BY <1>1, <1>2
  <2>2. Levels(entries)[i + 1] = Above(Levels(entries)[i])
    BY <2>1, LevelsExist
  <2>3. Above(Levels(entries)[i]).pages =
          IF Len(P(i)) <= 1 THEN <<>>
          ELSE PagesOf(Parents(P(i), Levels(entries)[i].first))
    BY DEF Above, Level, PagesAt, LevelOf
  <2>4. ~(Len(P(i)) <= 1)
    BY <1>2, <2>2, <2>3 DEF PagesAt, LevelOf
  <2>5. P(i) \in Pages
    <3>1. LevelFits(Levels(entries)[i])
      BY <2>1, LevelsExist
    <3>2. QED
      BY <3>1 DEF LevelFits, LevelSet, PagesAt, LevelOf
  <2> HIDE DEF P
  <2>6. QED
    BY <2>4, <2>5 DEF Pages
<1> HIDE DEF P
<1>3. 0 \in S
  BY <1>1 DEF P
<1>4. ASSUME NEW n \in 0 + 1..h - 1, n - 1 \in S PROVE n \in S
  <2>1. h - n \in 1..h /\ h - n < h /\ (h - n) + 1 = h - (n - 1)
    BY <1>1
  <2>2. P(h - n) # <<>>
    BY <1>2, <1>4, <2>1
  <2>3. QED
    BY <1>1, <2>2
<1>5. Reaches(S, 0, h - 1)
  BY <1>3, <1>4 DEF Reaches
<1> HIDE DEF S
<1>6. \A n \in 0..h - 1 : n \in S
  BY <1>1, <1>5, IntervalInduction
<1>7. ASSUME NEW i \in 1..h PROVE P(i) # <<>>
  <2>1. h - i \in 0..h - 1 /\ h - (h - i) = i
    BY <1>1
  <2>2. QED
    BY <1>6, <2>1 DEF S
<1>8. ASSUME NEW i \in 1..h, i < h PROVE Len(P(i)) > 1
  <2>1. i + 1 \in 1..h
    BY <1>1, <1>8
  <2>2. QED
    BY <1>2, <1>7, <1>8, <2>1
<1>9. QED
  BY <1>7, <1>8 DEF P

\* All levels below one with pages are levels of the index.
LEMMA LevelsAreLevels ==
  ASSUME NEW entries \in Seq(EntrySet), Ascending(entries), NEW h \in 1..MaxLevels,
         PagesAt(entries, h) # <<>>
  PROVE  \A i \in 1..h : IsLevel(entries, i)
<1> DEFINE S == {i \in 1..h : IsLevel(entries, i)}
<1>1. MaxLevels \in Nat \ {0} /\ h \in Nat \ {0}
  BY NumericIndexAssumption
<1>2. \A i \in 1..h : PagesAt(entries, i) # <<>> /\ (i < h => Len(PagesAt(entries, i)) > 1)
  BY BelowTheTop
<1>3. 1 \in S
  <2>1. 1 \in 1..MaxLevels /\ 1 \in 1..h
    BY <1>1
  <2>2. Levels(entries)[1] = Level(<<>>, PagesOf(entries))
    BY <2>1, LevelsExist
  <2>3. PagesAt(entries, 1) = PagesOf(entries) /\ EntriesAt(entries, 1) = entries
    BY <2>2 DEF PagesAt, LevelOf, EntriesAt, Level
  <2>4. entries # <<>>
    <3>1. PagesOf(entries) # <<>>
      BY <1>2, <2>1, <2>3
    <3>2. SUFFICES ASSUME entries = <<>> PROVE FALSE
      OBVIOUS
    <3>3. /\ PagesOf(entries) \in Pages /\ IsCut(PagesOf(entries), entries, 0)
      <4>1. Len(entries) = 0
        BY <3>2
      <4>2. QED
        BY <4>1, PagesAreCut
    <3>4. Len(PagesOf(entries)) \in Nat \ {0}
      BY <3>1, <3>3 DEF Pages
    <3>5. PICK first : IsCutAt(PagesOf(entries), entries, 0, first)
      BY <3>3 DEF IsCut
    <3>6. first[1] \in 1..0
      <4>1. 1 \in 1..Len(PagesOf(entries)) /\ 0 \in Nat
        BY <3>4
      <4>2. QED
        BY <3>3, <3>5, <4>1, FirstInRange
    <3>7. QED
      BY <3>6
  <2>5. IsLevel(entries, 1)
    BY <2>3, <2>4 DEF IsLevel
  <2>6. QED
    BY <2>1, <2>5
<1>4. ASSUME NEW i \in 1 + 1..h, i - 1 \in S PROVE i \in S
  <2> DEFINE b == i - 1
             below == EntriesAt(entries, b)
             pages == PagesAt(entries, b)
             first == LevelOf(entries, b).first
             parents == Parents(pages, first)
  <2>1. /\ i \in 1..MaxLevels /\ i # 1 /\ i \in 1..h /\ b \in 1..h /\ b < h /\ b \in 1..MaxLevels
    BY <1>1
  <2>2. IsLevel(entries, b)
    BY <1>4
  <2>3. /\ pages \in Pages /\ IsCut(pages, below, Len(below))
        /\ below \in Seq(EntrySet) /\ Ascending(below)
    BY <2>2, PagesAreCut DEF IsLevel
  <2>4. first \in Nat
    <3>1. LevelFits(Levels(entries)[b])
      BY <2>1, LevelsExist
    <3>2. QED
      BY <3>1 DEF LevelFits, LevelSet, LevelOf
  <2>5. /\ parents \in Seq(EntrySet) /\ Len(parents) = Len(pages) /\ Ascending(parents)
    BY <2>3, <2>4, ParentsOf
  <2>6. Len(pages) > 1
    BY <1>2, <2>1
  <2>7. Levels(entries)[i] = Above(Levels(entries)[b])
    BY <2>1, LevelsExist
  <2>8. PagesAt(entries, i) = PagesOf(parents)
    BY <2>6, <2>7 DEF PagesAt, LevelOf, Above, Level
  <2>9. EntriesAt(entries, i) = parents
    BY <2>1 DEF EntriesAt
  <2> HIDE DEF parents, pages, first, below
  <2>10. parents # <<>>
    BY <2>5, <2>6
  <2>11. QED
    BY <2>1, <2>5, <2>8, <2>9, <2>10 DEF IsLevel
<1>5. Reaches(S, 1, h)
  BY <1>3, <1>4 DEF Reaches
<1> HIDE DEF S
<1>6. \A i \in 1..h : i \in S
  BY <1>1, <1>5, IntervalInduction
<1>7. QED
  BY <1>6 DEF S

\* What is in a block stays there, whatever levels follow.
LEMMA BlocksStay ==
  ASSUME NEW entries \in Seq(EntrySet), NEW i \in 1..MaxLevels, NEW h \in i..MaxLevels,
         NEW k \in 1..Len(LevelOf(entries, i).blocks)
  PROVE  /\ LevelOf(entries, h).blocks[k] = LevelOf(entries, i).blocks[k]
         /\ k \in 1..Len(LevelOf(entries, h).blocks)
<1> DEFINE B(m) == LevelOf(entries, m).blocks
           S == {m \in i..h : B(m)[k] = B(i)[k] /\ k \in 1..Len(B(m))}
<1>1. MaxLevels \in Nat \ {0} /\ i \in Nat \ {0} /\ h \in Nat \ {0} /\ i <= h
  BY NumericIndexAssumption
<1>2. \A m \in 1..MaxLevels : LevelFits(LevelOf(entries, m)) /\ Len(B(m)) \in Nat
  <2> SUFFICES ASSUME NEW m \in 1..MaxLevels
               PROVE  LevelFits(LevelOf(entries, m)) /\ Len(B(m)) \in Nat
    OBVIOUS
  <2>1. LevelFits(LevelOf(entries, m))
    BY LevelsExist DEF LevelOf
  <2>2. QED
    BY <2>1 DEF LevelFits, LevelSet, Pages
<1>3. i \in S
  BY <1>1
<1>4. ASSUME NEW m \in i + 1..h, m - 1 \in S PROVE m \in S
  <2>1. m \in 1..MaxLevels /\ m # 1 /\ m - 1 \in 1..MaxLevels /\ m \in i..h
    BY <1>1
  <2>2. LevelOf(entries, m) = Above(LevelOf(entries, m - 1))
    BY <2>1, LevelsExist DEF LevelOf
  <2>3. \A j \in 1..Len(B(m - 1)) : B(m)[j] = B(m - 1)[j]
    BY <1>2, <2>1, <2>2, AboveFits
  <2>4. Len(B(m - 1)) <= Len(B(m))
    <3>1. Above(LevelOf(entries, m - 1)).first = Len(B(m - 1)) + 1
      BY DEF Above, Level
    <3>2. LevelFits(LevelOf(entries, m)) /\ Len(LevelOf(entries, m).pages) \in Nat
      <4>1. LevelFits(LevelOf(entries, m))
        BY <1>2, <2>1
      <4>2. LevelOf(entries, m).pages \in Pages
        BY <4>1 DEF LevelFits, LevelSet
      <4>3. QED
        BY <4>1, <4>2 DEF Pages
    <3>3. QED
      BY <1>2, <2>1, <2>2, <3>1, <3>2 DEF LevelFits
  <2>5. QED
    BY <1>2, <1>4, <2>1, <2>3, <2>4
<1>5. Reaches(S, i, h)
  BY <1>3, <1>4 DEF Reaches
<1> HIDE DEF S
<1>6. h \in S
  BY <1>1, <1>5, IntervalInduction
<1>7. QED
  BY <1>6 DEF S

\* A cut into a single page leaves the entries as they are.
LEMMA SinglePage ==
  ASSUME NEW pages \in Pages, NEW entries \in Seq(EntrySet),
         IsCut(pages, entries, Len(entries)), Len(pages) = 1
  PROVE  pages[1] = entries
<1> DEFINE n == Len(entries)
<1>1. n \in Nat
  OBVIOUS
<1>2. PICK first : IsCutAt(pages, entries, n, first)
  BY DEF IsCut
<1>3. /\ first[1] = 1 /\ first[2] = n + 1
      /\ Len(pages[1]) = first[2] - first[1]
      /\ \A j \in 1..Len(pages[1]) : pages[1][j] = entries[first[1] + j - 1]
  BY <1>2 DEF IsCutAt
<1>4. pages[1] \in Seq(EntrySet)
  <2>1. 1 \in 1..Len(pages)
    OBVIOUS
  <2>2. QED
    BY <2>1, PagesHaveEntries
<1>5. Len(pages[1]) = n
  BY <1>1, <1>3
<1>6. \A j \in 1..n : pages[1][j] = entries[j]
  <2>1. \A j \in 1..n : first[1] + j - 1 = j
    BY <1>1, <1>3
  <2>2. QED
    BY <1>3, <1>5, <2>1
<1>7. QED
  BY <1>4, <1>5, <1>6

\* The index has the pages of its levels where the levels above say.
IsIndexOf(index, entries) ==
  LET h == index.levels IN
  /\ h \in 0..MaxLevels - 1 /\ (h = 0 <=> entries = <<>>)
  /\ \A i \in 1..h :
       /\ IsLevel(entries, i)
       /\ i < h => \A k \in 1..Len(PagesAt(entries, i)) :
                     LET above == EntriesAt(entries, i + 1)
                     IN  /\ Len(above) = Len(PagesAt(entries, i))
                         /\ above[k].startId = PagesAt(entries, i)[k][1].startId
                         /\ PageAt(index, above[k].fileOffset) = PagesAt(entries, i)[k]
  /\ h > 0 => /\ PageAt(index, index.root) = EntriesAt(entries, h)
              /\ index.root = Len(index.blocks) * PageSize
  /\ h = 0 => index.root = 0
  /\ \A k \in 1..Len(index.blocks) : Footprint(index.blocks[k]) <= PageSize

\* The block at an offset is found again.
LEMMA BlockPosition ==
  ASSUME NEW b \in Nat \ {0}
  PROVE  b * PageSize # 0 /\ (b * PageSize) \div PageSize = b
<1>1. PageSize \in Nat \ {0}
  BY NumericIndexAssumption
<1>2. \A r \in Nat \ {0}, i \in Nat \ {0} : (i * r) \div r = i /\ i * r # 0
  OBVIOUS
<1>3. QED
  BY <1>1, <1>2

\* What is read at the offset of a page of a level is that page.
LEMMA PageOfLevel ==
  ASSUME NEW entries \in Seq(EntrySet), NEW index,
         index = GeneratedIndex(entries), NEW i \in 1..MaxLevels,
         index.levels \in i..MaxLevels, NEW k \in 1..Len(PagesAt(entries, i))
  PROVE  PageAt(index, (LevelOf(entries, i).first + k - 1) * PageSize) = PagesAt(entries, i)[k]
<1> DEFINE h == index.levels
           l == LevelOf(entries, i)
           b == l.first + k - 1
<1>1. MaxLevels \in Nat \ {0} /\ h \in 1..MaxLevels /\ i \in 1..MaxLevels
  BY NumericIndexAssumption
<1>2. LevelFits(l)
  BY LevelsExist DEF LevelOf
<1>3. /\ Len(l.pages) \in Nat /\ Len(l.blocks) \in Nat /\ l.first \in Nat \ {0}
      /\ Len(l.blocks) = l.first - 1 + Len(l.pages)
      /\ \A m \in 1..Len(l.pages) : l.blocks[l.first - 1 + m] = l.pages[m]
  BY <1>2 DEF LevelFits, LevelSet, Pages
<1>4. k \in 1..Len(l.pages) /\ l.pages = PagesAt(entries, i)
  BY DEF PagesAt
<1> HIDE DEF l, h
<1>5. b \in Nat \ {0} /\ b \in 1..Len(l.blocks) /\ b = l.first - 1 + k
  <2> DEFINE first == l.first
             lp == Len(l.pages)
             lb == Len(l.blocks)
  <2>1. first \in Nat \ {0} /\ lp \in Nat /\ lb = first - 1 + lp
    BY <1>3
  <2>2. k \in 1..lp /\ b = first + k - 1
    BY <1>4
  <2> HIDE DEF first, lp, lb, b
  <2>3. b \in Nat \ {0} /\ b \in 1..lb /\ b = first - 1 + k
    BY <2>1, <2>2
  <2>4. QED
    BY <2>3 DEF first, lb
<1>6. l.blocks[b] = l.pages[k]
  BY <1>3, <1>4, <1>5
<1>7. index.blocks = LevelOf(entries, h).blocks
  <2>1. h = Height(Levels(entries)) /\ h # 0
    BY <1>1 DEF GeneratedIndex, h
  <2>2. QED
    BY <2>1 DEF GeneratedIndex, LevelOf
<1>8. index.blocks[b] = l.blocks[b]
  <2>1. h \in i..MaxLevels
    BY DEF h
  <2> HIDE DEF b
  <2>2. QED
    BY <1>5, <1>7, <2>1, BlocksStay DEF l
<1>9. PageAt(index, b * PageSize) = index.blocks[b]
  <2> HIDE DEF b
  <2>1. b * PageSize # 0 /\ (b * PageSize) \div PageSize = b
    BY <1>5, BlockPosition
  <2>2. QED
    BY <2>1 DEF PageAt
<1>10. QED
  BY <1>4, <1>6, <1>8, <1>9 DEF l

\* The index of any ascending entries is one, unless it would take too many levels.
LEMMA GeneratedIndexIsRight ==
  ASSUME NEW entries \in Seq(EntrySet), Ascending(entries),
         GeneratedIndex(entries).levels < MaxLevels
  PROVE  IsIndexOf(GeneratedIndex(entries), entries)
<1> DEFINE index == GeneratedIndex(entries)
           h == index.levels
<1>1. MaxLevels \in Nat \ {0} /\ PageSize \in Nat \ {0}
  BY NumericIndexAssumption
<1>2. h = Height(Levels(entries))
  BY DEF GeneratedIndex
<1>3. /\ h \in 0..MaxLevels - 1
      /\ h > 0 => PagesAt(entries, h) # <<>>
      /\ PagesAt(entries, h + 1) = <<>>
  BY <1>1, <1>2, HeightFits DEF PagesAt, LevelOf
<1>4. /\ h > 0 => index.blocks = LevelOf(entries, h).blocks
      /\ h > 0 => index.root = LevelOf(entries, h).first * PageSize
      /\ h = 0 => index.root = 0 /\ index.blocks = <<>>
  BY <1>2 DEF GeneratedIndex, LevelOf
<1> DEFINE idx == GeneratedIndex(entries)
<1> HIDE DEF h
<1>5. \A i \in 1..h : IsLevel(entries, i) /\ (i < h => Len(PagesAt(entries, i)) > 1)
  <2>1. CASE h = 0
    BY <2>1
  <2>2. CASE h # 0
    <3>1. h \in 1..MaxLevels /\ PagesAt(entries, h) # <<>>
      BY <1>1, <1>3, <2>2
    <3>2. QED
      BY <3>1, LevelsAreLevels, BelowTheTop
  <2>3. QED
    BY <2>1, <2>2
<1>6. h = 0 <=> entries = <<>>
  <2>1. CASE h = 0
    <3>1. 1 \in 1..MaxLevels
      BY <1>1
    <3>2. Levels(entries)[1] = Level(<<>>, PagesOf(entries))
      BY <3>1, LevelsExist
    <3>3. PagesAt(entries, 1) = PagesOf(entries)
      BY <3>2 DEF PagesAt, LevelOf, Level
    <3>4. PagesOf(entries) = <<>>
      BY <1>3, <2>1, <3>3
    <3>5. /\ PagesOf(entries) \in Pages /\ IsCut(PagesOf(entries), entries, Len(entries))
          /\ Len(entries) \in Nat
      BY PagesAreCut
    <3>6. Len(entries) = 0
      BY <3>4, <3>5, CutOfSome
    <3>7. QED
      BY <2>1, <3>6
  <2>2. CASE h # 0
    <3>1. 1 \in 1..h
      BY <1>3, <2>2
    <3>2. IsLevel(entries, 1)
      BY <1>5, <3>1
    <3>3. QED
      BY <2>2, <3>2 DEF IsLevel, EntriesAt
  <2>3. QED
    BY <2>1, <2>2
<1>7. ASSUME NEW i \in 1..h, i < h, NEW k \in 1..Len(PagesAt(entries, i))
      PROVE  LET above == EntriesAt(entries, i + 1)
             IN  /\ Len(above) = Len(PagesAt(entries, i))
                 /\ above[k].startId = PagesAt(entries, i)[k][1].startId
                 /\ PageAt(index, above[k].fileOffset) = PagesAt(entries, i)[k]
  <2> DEFINE pages == PagesAt(entries, i)
             first == LevelOf(entries, i).first
             below == EntriesAt(entries, i)
             parents == Parents(pages, first)
  <2>1. i \in 1..MaxLevels /\ i + 1 # 1 /\ (i + 1) - 1 = i /\ h \in i..MaxLevels
    BY <1>1, <1>3, <1>7
  <2>2. EntriesAt(entries, i + 1) = parents
    BY <2>1 DEF EntriesAt
  <2>3. /\ pages \in Pages /\ IsCut(pages, below, Len(below))
        /\ below \in Seq(EntrySet) /\ Ascending(below)
    BY <1>5, PagesAreCut DEF IsLevel
  <2>4. first \in Nat
    <3>1. LevelFits(Levels(entries)[i])
      BY <2>1, LevelsExist
    <3>2. QED
      BY <3>1 DEF LevelFits, LevelSet, LevelOf
  <2>5. /\ Len(parents) = Len(pages)
        /\ parents[k].startId = pages[k][1].startId
        /\ parents[k].fileOffset = (first + k - 1) * PageSize
    BY <2>3, <2>4, ParentsOf
  <2>6. PageAt(index, (first + k - 1) * PageSize) = pages[k]
    <3> HIDE DEF index
    <3>1. index = GeneratedIndex(entries) /\ index.levels \in i..MaxLevels
      BY <2>1 DEF index, h
    <3>2. QED
      BY <2>1, <3>1, PageOfLevel
  <2> HIDE DEF index, pages, first, below, parents
  <2>7. QED
    BY <2>2, <2>5, <2>6 DEF pages
<1>8. ASSUME h > 0
      PROVE  /\ PageAt(index, index.root) = EntriesAt(entries, h)
             /\ index.root = Len(index.blocks) * PageSize
  <2> DEFINE pages == PagesAt(entries, h)
             l == LevelOf(entries, h)
             top == EntriesAt(entries, h)
             parents == Parents(pages, l.first)
  <2>1. h \in 1..h /\ h \in 1..MaxLevels /\ h + 1 \in 1..MaxLevels /\ h \in h..MaxLevels
    BY <1>1, <1>3, <1>8
  <2>2. LevelFits(l)
    BY <2>1, LevelsExist DEF LevelOf
  <2>3. /\ top \in Seq(EntrySet) /\ Ascending(top) /\ pages = PagesOf(top)
        /\ pages \in Pages /\ IsCut(pages, top, Len(top))
    BY <1>5, <2>1, PagesAreCut DEF IsLevel
  <2>4. l.first \in Nat \ {0} /\ Len(pages) \in Nat \ {0}
    BY <1>3, <1>8, <2>2, <2>3 DEF LevelFits, LevelSet, Pages
  <2>5. Len(pages) = 1
    <3>1. SUFFICES ASSUME Len(pages) # 1 PROVE FALSE
      OBVIOUS
    <3>2. ~(Len(pages) <= 1)
      <4> DEFINE len == Len(pages)
      <4>1. len \in Nat \ {0} /\ len # 1
        BY <2>4, <3>1
      <4> HIDE DEF len
      <4>2. ~(len <= 1)
        BY <4>1
      <4>3. QED
        BY <4>2 DEF len
    <3>3. Levels(entries)[h + 1] = Above(Levels(entries)[h])
      <4>1. h + 1 # 1 /\ (h + 1) - 1 = h
        BY <2>1
      <4>2. QED
        BY <2>1, <4>1, LevelsExist
    <3>4. PagesAt(entries, h + 1) = PagesOf(parents)
      BY <3>2, <3>3 DEF PagesAt, LevelOf, Above, Level
    <3>5. parents \in Seq(EntrySet) /\ Len(parents) = Len(pages)
      BY <2>3, <2>4, ParentsOf
    <3>6. PagesOf(parents) \in Pages /\ IsCut(PagesOf(parents), parents, Len(parents))
      BY <3>5, PagesAreCut
    <3> HIDE DEF parents, pages
    <3>7. PagesOf(parents) # <<>>
      BY <2>4, <3>5, <3>6, CutOfSome
    <3>8. QED
      BY <1>3, <3>4, <3>7
  <2>6. pages[1] = top
    BY <2>3, <2>5, SinglePage
  <2>7. (l.first + 1 - 1) * PageSize = l.first * PageSize
    BY <2>4
  <2>8. PageAt(index, (l.first + 1 - 1) * PageSize) = pages[1]
    <3> HIDE DEF index
    <3>1. index = GeneratedIndex(entries) /\ index.levels \in h..MaxLevels
      BY <2>1 DEF index, h
    <3>2. 1 \in 1..Len(pages)
      BY <2>5
    <3>3. QED
      BY <2>1, <3>1, <3>2, PageOfLevel
  <2>9. Len(l.blocks) = l.first
    BY <2>2, <2>4, <2>5 DEF LevelFits, PagesAt
  <2> HIDE DEF index, pages, l, top
  <2>10. QED
    BY <1>4, <1>8, <2>6, <2>7, <2>8, <2>9 DEF top, l
<1>9. \A k \in 1..Len(index.blocks) : Footprint(index.blocks[k]) <= PageSize
  <2>1. CASE h = 0
    BY <1>4, <2>1
  <2>2. CASE h # 0
    <3>1. h \in 1..MaxLevels /\ h > 0
      BY <1>1, <1>3, <2>2
    <3>2. LevelFits(LevelOf(entries, h))
      BY <3>1, LevelsExist DEF LevelOf
    <3>3. QED
      BY <1>4, <3>1, <3>2 DEF LevelFits
  <2>3. QED
    BY <2>1, <2>2
<1> HIDE DEF index
<1>10. QED
  BY <1>3, <1>4, <1>5, <1>6, <1>7, <1>8, <1>9 DEF IsIndexOf, h, index

------------------------------------------------------------------------------
(* The search on a page                                                    *)

\* Entry q is the last one that is not above an id.
IsLast(entries, id, q) ==
  /\ q \in 1..Len(entries) /\ entries[q].startId <= id
  /\ q < Len(entries) => entries[q + 1].startId > id

Spans == [left : Int, right : Int, at : Int]

\* A round of the search leads from a span to a span.
LEMMA NarrowSpan ==
  ASSUME NEW page \in Seq(EntrySet), NEW id, NEW span \in Spans
  PROVE  Narrow(page, id, span) \in Spans
<1> DEFINE mid == (span.left + span.right) \div 2
           len == Len(page)
<1>1. span.left \in Int /\ span.right \in Int /\ span.at \in Int /\ len \in Nat
  BY DEF Spans
<1>2. mid \in Int
  BY <1>1
<1> HIDE DEF mid, len
<1>3. /\ Span(span.left, span.right, mid) \in Spans
      /\ Span(mid + 1, span.right, 0) \in Spans
      /\ Span(span.left, span.right, len + 1) \in Spans
      /\ Span(span.left, mid - 1, 0) \in Spans
  BY <1>1, <1>2 DEF Span, Spans
<1>4. QED
  BY <1>3 DEF Narrow, mid, len

\* What GetPageIndex() computes, round by round.
LEMMA SearchRounds ==
  ASSUME NEW page \in Seq(EntrySet), NEW id
  PROVE  \E span :
           /\ GetPageIndex(page, id) = IF span[Len(page)].at # 0 THEN span[Len(page)].at
                                       ELSE Len(page) + 1
           /\ \A n \in 0..Len(page) :
                span[n] = IF n = 0 THEN Span(1, Len(page), 0)
                          ELSE Narrow(page, id, span[n - 1])
<1> DEFINE size == Len(page)
           z == Span(1, size, 0)
           g == [n \in 1..size |-> [s \in Spans |-> Narrow(page, id, s)]]
           W == [n \in 0..size |-> Spans]
           R(h) == h = [n \in 0..size |-> IF n = 0 THEN z ELSE Narrow(page, id, h[n - 1])]
<1>1. size \in Nat
  OBVIOUS
<1>2. StaysIn(W, 0, size, z, g)
  <2>1. z \in Spans
    BY <1>1 DEF Span, Spans
  <2> HIDE DEF z, size
  <2>2. ASSUME NEW n \in 1..size, NEW s \in W[n - 1] PROVE g[n][s] \in W[n]
    <3>1. n - 1 \in 0..size /\ n \in 0..size
      BY <1>1
    <3>2. s \in Spans
      BY <3>1
    <3>3. g[n][s] = Narrow(page, id, s)
      BY <3>2
    <3>4. QED
      BY <3>1, <3>2, <3>3, NarrowSpan
  <2>3. z \in W[0]
    BY <1>1, <2>1
  <2> HIDE DEF g, W
  <2>4. QED
    BY <2>2, <2>3 DEF StaysIn
<1>3. PICK h : /\ h = [n \in 0..size |-> IF n = 0 THEN z ELSE g[n][h[n - 1]]]
               /\ \A n \in 0..size : h[n] \in W[n]
  <2> HIDE DEF z, g, W, size
  <2>1. QED
    BY <1>1, <1>2, Recursion
<1>4. R(h)
  <2> HIDE DEF size
  <2>1. \A n \in 1..size : h[n - 1] \in Spans
    <3> SUFFICES ASSUME NEW n \in 1..size PROVE h[n - 1] \in Spans
      OBVIOUS
    <3>1. n - 1 \in 0..size
      BY <1>1
    <3>2. QED
      BY <1>3, <3>1
  <2>2. \A n \in 0..size : (IF n = 0 THEN z ELSE g[n][h[n - 1]])
                            = IF n = 0 THEN z ELSE Narrow(page, id, h[n - 1])
    <3> HIDE DEF z
    <3>1. QED
      BY <2>1
  <2> HIDE DEF z, g
  <2>3. QED
    BY <1>3, <2>2
<1> DEFINE span == CHOOSE k : R(k)
<1>5. R(span)
  <2> HIDE DEF R
  <2>1. QED
    BY <1>4
<1>6. GetPageIndex(page, id) = IF span[size].at # 0 THEN span[size].at ELSE size + 1
  BY DEF GetPageIndex
<1>7. \A n \in 0..size : span[n] = IF n = 0 THEN z ELSE Narrow(page, id, span[n - 1])
  <2> HIDE DEF span, z
  <2>1. QED
    BY <1>5
<1>8. QED
  <2> HIDE DEF span
  <2>1. QED
    BY <1>6, <1>7

\* After n rounds the last entry that is not above the id is found, or in question
\* still among so many others.
IsNarrowed(page, q, n, span) ==
  /\ span \in Spans
  /\ IF span.at = 0
     THEN /\ 1 <= span.left /\ span.left <= q /\ q <= span.right /\ span.right <= Len(page)
          /\ span.right - span.left <= Len(page) - 1 - n
     ELSE span.at = q

\* A round of the search keeps the entry that is searched for among those in question.
LEMMA NarrowStep ==
  ASSUME NEW page \in Seq(EntrySet), Ascending(page), NEW id \in Nat, NEW q,
         IsLast(page, id, q), NEW n \in Nat, NEW span, IsNarrowed(page, q, n, span)
  PROVE  IsNarrowed(page, q, n + 1, Narrow(page, id, span))
<1> DEFINE len == Len(page)
           l == span.left
           r == span.right
           mid == (l + r) \div 2
<1>1. CASE span.at # 0
  <2>1. Narrow(page, id, span) = span
    BY <1>1 DEF Narrow
  <2>2. QED
    BY <1>1, <2>1 DEF IsNarrowed
<1>2. CASE span.at = 0
  <2>1. len \in Nat /\ q \in 1..len /\ l \in Int /\ r \in Int
    BY DEF IsNarrowed, IsLast, Spans
  <2>2. 1 <= l /\ l <= q /\ q <= r /\ r <= len /\ r - l <= len - 1 - n
    BY <1>2 DEF IsNarrowed
  <2> HIDE DEF len, l, r
  <2>3. mid \in Int /\ l <= mid /\ mid <= r
    BY <2>1, <2>2
  <2> HIDE DEF mid
  <2>4. mid \in 1..len /\ (mid + 1 <= len => mid + 1 \in 1..len)
    BY <2>1, <2>2, <2>3
  <2>5. \A i \in 1..len : page[i].startId \in Nat
    <3>1. \A i \in 1..len : page[i] \in EntrySet
      BY DEF len
    <3>2. QED
      BY <3>1 DEF EntrySet
  <2>6. \A i, j \in 1..len : i < j => page[i].startId < page[j].startId
    BY DEF Ascending, len
  <2>7. page[q].startId <= id /\ (q < len => page[q + 1].startId > id)
    BY DEF IsLast, len
  <2>8. \A i \in 1..len : i <= q => page[i].startId <= id
    <3> SUFFICES ASSUME NEW i \in 1..len, i <= q PROVE page[i].startId <= id
      OBVIOUS
    <3>1. i = q \/ page[i].startId < page[q].startId
      BY <2>1, <2>6
    <3>2. page[i].startId \in Nat /\ page[q].startId \in Nat
      BY <2>1, <2>5
    <3>3. QED
      BY <2>7, <3>1, <3>2
  <2>9. \A i \in 1..len : i > q => page[i].startId > id
    <3> SUFFICES ASSUME NEW i \in 1..len, i > q PROVE page[i].startId > id
      OBVIOUS
    <3>1. q < len /\ q + 1 \in 1..len /\ (i = q + 1 \/ q + 1 < i)
      BY <2>1
    <3>2. i = q + 1 \/ page[q + 1].startId < page[i].startId
      BY <2>6, <3>1
    <3>3. page[i].startId \in Nat /\ page[q + 1].startId \in Nat
      BY <2>5, <3>1
    <3>4. QED
      BY <2>7, <3>1, <3>2, <3>3
  <2>10. Narrow(page, id, span) =
           IF span.at # 0 \/ l > r THEN span
           ELSE IF page[mid].startId <= id /\ (mid + 1 > len \/ page[mid + 1].startId > id)
           THEN Span(l, r, mid)
           ELSE IF page[mid].startId < id THEN Span(mid + 1, r, 0)
           ELSE IF mid = 1 THEN Span(l, r, len + 1)
           ELSE Span(l, mid - 1, 0)
    BY DEF Narrow, mid, l, r, len
  <2>11. CASE mid = q
    <3>1. page[mid].startId <= id /\ (mid + 1 > len \/ page[mid + 1].startId > id)
      BY <2>1, <2>7, <2>11
    <3>2. Narrow(page, id, span) = Span(l, r, mid)
      BY <1>2, <2>1, <2>2, <2>10, <3>1
    <3>3. Span(l, r, mid) \in Spans /\ Span(l, r, mid).at = q /\ q # 0
      BY <2>1, <2>3, <2>11 DEF Span, Spans
    <3>4. QED
      BY <3>2, <3>3 DEF IsNarrowed
  <2>12. CASE mid < q
    <3>1. mid + 1 <= len /\ mid + 1 \in 1..len /\ mid + 1 <= q
      BY <2>1, <2>4, <2>12
    <3>2. page[mid + 1].startId <= id /\ page[mid + 1].startId \in Nat
          /\ page[mid].startId \in Nat
      BY <2>4, <2>5, <2>8, <3>1
    <3>3. page[mid].startId < id
      <4>1. page[mid].startId < page[mid + 1].startId
        BY <2>4, <2>6, <3>1
      <4>2. QED
        BY <3>2, <4>1
    <3>4. ~(mid + 1 > len \/ page[mid + 1].startId > id)
      BY <2>1, <2>3, <3>1, <3>2
    <3>5. l <= r
      BY <2>1, <2>2
    <3>6. Narrow(page, id, span) = Span(mid + 1, r, 0)
      BY <1>2, <2>1, <2>10, <3>3, <3>4, <3>5
    <3>7. /\ Span(mid + 1, r, 0) \in Spans /\ Span(mid + 1, r, 0).at = 0
          /\ Span(mid + 1, r, 0).left = mid + 1 /\ Span(mid + 1, r, 0).right = r
      BY <2>1, <2>3 DEF Span, Spans
    <3>8. 1 <= mid + 1 /\ r - (mid + 1) <= len - 1 - (n + 1)
      BY <2>1, <2>2, <2>3
    <3>9. QED
      BY <2>2, <3>1, <3>6, <3>7, <3>8 DEF IsNarrowed, len
  <2>13. CASE mid > q
    <3>1. page[mid].startId > id /\ page[mid].startId \in Nat
      BY <2>4, <2>5, <2>9, <2>13
    <3>2. ~(page[mid].startId <= id) /\ ~(page[mid].startId < id) /\ mid # 1
      BY <2>1, <2>13, <3>1
    <3>3. l <= r
      BY <2>1, <2>2
    <3>4. Narrow(page, id, span) = Span(l, mid - 1, 0)
      BY <1>2, <2>1, <2>10, <3>2, <3>3
    <3>5. /\ Span(l, mid - 1, 0) \in Spans /\ Span(l, mid - 1, 0).at = 0
          /\ Span(l, mid - 1, 0).left = l /\ Span(l, mid - 1, 0).right = mid - 1
      BY <2>1, <2>3 DEF Span, Spans
    <3>6. q <= mid - 1 /\ mid - 1 <= len /\ (mid - 1) - l <= len - 1 - (n + 1)
      BY <2>1, <2>2, <2>3, <2>13
    <3>7. QED
      BY <2>2, <3>4, <3>5, <3>6 DEF IsNarrowed, len
  <2>14. QED
    BY <2>1, <2>3, <2>11, <2>12, <2>13
<1>3. QED
  BY <1>1, <1>2

\* The binary search finds the last entry that is not above an id.
LEMMA SearchFinds ==
  ASSUME NEW page \in Seq(EntrySet), Ascending(page), NEW id \in Nat, NEW q,
         IsLast(page, id, q)
  PROVE  GetPageIndex(page, id) = q
<1> DEFINE len == Len(page)
<1>1. PICK span :
        /\ GetPageIndex(page, id) = IF span[len].at # 0 THEN span[len].at ELSE len + 1
        /\ \A n \in 0..len : span[n] = IF n = 0 THEN Span(1, len, 0)
                                       ELSE Narrow(page, id, span[n - 1])
  BY SearchRounds
<1>2. len \in Nat /\ q \in 1..len
  BY DEF IsLast
<1> DEFINE S == {n \in 0..len : IsNarrowed(page, q, n, span[n])}
<1>3. 0 \in S
  <2>1. 0 \in 0..len /\ span[0] = Span(1, len, 0)
    BY <1>1, <1>2
  <2>2. /\ Span(1, len, 0) \in Spans /\ Span(1, len, 0).at = 0
        /\ Span(1, len, 0).left = 1 /\ Span(1, len, 0).right = len
    BY <1>2 DEF Span, Spans
  <2>3. 1 <= 1 /\ 1 <= q /\ q <= len /\ len <= len /\ len - 1 <= len - 1 - 0
    BY <1>2
  <2>4. QED
    BY <2>1, <2>2, <2>3 DEF IsNarrowed
<1>4. ASSUME NEW n \in 0 + 1..len, n - 1 \in S PROVE n \in S
  <2>1. n - 1 \in Nat /\ (n - 1) + 1 = n /\ n \in 0..len /\ n # 0
    BY <1>2
  <2>2. span[n] = Narrow(page, id, span[n - 1])
    BY <1>1, <2>1
  <2>3. IsNarrowed(page, q, (n - 1) + 1, Narrow(page, id, span[n - 1]))
    BY <1>4, <2>1, NarrowStep
  <2>4. QED
    BY <2>1, <2>2, <2>3
<1>5. IsNarrowed(page, q, len, span[len])
  <2> HIDE DEF S
  <2>1. Reaches(S, 0, len)
    BY <1>3, <1>4 DEF Reaches
  <2>2. len \in 0..len
    BY <1>2
  <2>3. len \in S
    BY <1>2, <2>1, <2>2, IntervalInduction
  <2>4. QED
    BY <2>3 DEF S
<1>6. span[len].at = q
  <2>1. SUFFICES ASSUME span[len].at = 0 PROVE FALSE
    BY <1>5 DEF IsNarrowed
  <2> DEFINE l == span[len].left
             r == span[len].right
  <2>2. l \in Int /\ r \in Int /\ l <= q /\ q <= r /\ r - l <= len - 1 - len
    BY <1>5, <2>1 DEF IsNarrowed, Spans
  <2> HIDE DEF l, r, len
  <2>3. QED
    BY <1>2, <2>2
<1>7. QED
  BY <1>1, <1>2, <1>6

\* It is behind the last entry if all are above the id.
LEMMA SearchMisses ==
  ASSUME NEW page \in Seq(EntrySet), NEW id \in Nat,
         \A i \in 1..Len(page) : page[i].startId > id
  PROVE  GetPageIndex(page, id) = Len(page) + 1
<1> DEFINE len == Len(page)
           AllAbove(s) == \/ s.at = len + 1
                          \/ s.at = 0 /\ s.left = 1 /\ s.right \in 0..len
<1>1. PICK span :
        /\ GetPageIndex(page, id) = IF span[len].at # 0 THEN span[len].at ELSE len + 1
        /\ \A n \in 0..len : span[n] = IF n = 0 THEN Span(1, len, 0)
                                       ELSE Narrow(page, id, span[n - 1])
  BY SearchRounds
<1>2. len \in Nat
  OBVIOUS
<1>3. \A i \in 1..len : page[i].startId > id /\ page[i].startId \in Nat
  <2>1. \A i \in 1..len : page[i] \in EntrySet
    OBVIOUS
  <2>2. QED
    BY <2>1 DEF EntrySet
<1>4. ASSUME NEW s, AllAbove(s) PROVE AllAbove(Narrow(page, id, s))
  <2> DEFINE mid == (s.left + s.right) \div 2
  <2>1. CASE s.at # 0 \/ s.left > s.right
    <3>1. Narrow(page, id, s) = s
      BY <2>1 DEF Narrow
    <3>2. QED
      BY <1>4, <3>1
  <2>2. CASE ~(s.at # 0 \/ s.left > s.right)
    <3>1. s.left = 1 /\ s.right \in 0..len /\ s.at = 0
      BY <1>4, <2>2
    <3>2. mid \in 1..len
      BY <1>2, <2>2, <3>1
    <3> HIDE DEF mid
    <3>3. ~(page[mid].startId <= id) /\ ~(page[mid].startId < id)
      BY <1>3, <3>2
    <3>4. Narrow(page, id, s) = IF mid = 1 THEN Span(s.left, s.right, Len(page) + 1)
                                ELSE Span(s.left, mid - 1, 0)
      BY <2>2, <3>3 DEF Narrow, mid
    <3>5. mid - 1 \in 0..len
      BY <1>2, <3>2
    <3>6. QED
      BY <3>1, <3>4, <3>5 DEF Span
  <2>3. QED
    BY <2>1, <2>2
<1> DEFINE S == {n \in 0..len : AllAbove(span[n])}
<1>5. 0 \in S
  <2>1. 0 \in 0..len /\ span[0] = Span(1, len, 0) /\ len \in 0..len
    BY <1>1, <1>2
  <2>2. QED
    BY <2>1 DEF Span
<1>6. ASSUME NEW n \in 0 + 1..len, n - 1 \in S PROVE n \in S
  <2>1. n \in 0..len /\ n # 0
    BY <1>2
  <2>2. span[n] = Narrow(page, id, span[n - 1])
    BY <1>1, <2>1
  <2> HIDE DEF AllAbove
  <2>3. QED
    BY <1>4, <1>6, <2>1, <2>2
<1>7. AllAbove(span[len])
  <2> HIDE DEF S, AllAbove
  <2>1. Reaches(S, 0, len)
    BY <1>5, <1>6 DEF Reaches
  <2>2. len \in 0..len
    BY <1>2
  <2>3. len \in S
    BY <1>2, <2>1, <2>2, IntervalInduction
  <2>4. QED
    BY <2>3 DEF S
<1>8. QED
  BY <1>1, <1>2, <1>7

\* There is a last entry that is not above an id if the first one is not.
LEMMA LastExists ==
  ASSUME NEW page \in Seq(EntrySet), page # <<>>, NEW id \in Nat, page[1].startId <= id
  PROVE  \E q : IsLast(page, id, q)
<1> DEFINE len == Len(page)
           S == {n \in 1..len : n = len \/ ~(page[n + 1].startId <= id)}
<1>1. len \in Nat \ {0}
  OBVIOUS
<1>2. len \in S
  BY <1>1
<1>3. PICK q \in S : \A n \in S : q <= n
  <2>1. S \in SUBSET Nat /\ S # {}
    BY <1>1, <1>2
  <2> HIDE DEF S
  <2>2. QED
    BY <2>1, LeastNat
<1>4. page[q].startId <= id
  <2>1. CASE q = 1
    BY <2>1
  <2>2. CASE q # 1
    <3>1. q - 1 \in 1..len /\ q - 1 # len /\ (q - 1) + 1 = q /\ ~(q <= q - 1)
      BY <1>1, <1>3, <2>2
    <3>2. q - 1 \notin S
      BY <1>3, <3>1
    <3>3. QED
      BY <3>1, <3>2
  <2>3. QED
    BY <2>1, <2>2
<1>5. q < len => page[q + 1].startId > id
  <2> SUFFICES ASSUME q < len PROVE page[q + 1].startId > id
    OBVIOUS
  <2>1. q + 1 \in 1..len /\ q # len
    BY <1>1, <1>3
  <2>2. ~(page[q + 1].startId <= id)
    BY <1>3, <2>1
  <2>3. page[q + 1].startId \in Nat
    <3>1. page[q + 1] \in EntrySet
      BY <2>1
    <3>2. QED
      BY <3>1 DEF EntrySet
  <2>4. QED
    BY <2>2, <2>3
<1>6. QED
  BY <1>1, <1>3, <1>4, <1>5 DEF IsLast

\* What the search finds on the right page is found among all entries of the level.
LEMMA SearchOnPage ==
  ASSUME NEW entries \in Seq(EntrySet), Ascending(entries), NEW pages \in Pages,
         IsCut(pages, entries, Len(entries)), NEW id \in Nat, NEW k \in 1..Len(pages),
         pages[k][1].startId <= id, k < Len(pages) => pages[k + 1][1].startId > id
  PROVE  LET i == GetPageIndex(pages[k], id)
         IN  /\ IndexIsValid(pages[k], i)
             /\ \E q : IsLast(entries, id, q) /\ pages[k][i] = entries[q]
<1> DEFINE page == pages[k]
           len == Len(page)
           n == Len(entries)
           l == Len(pages)
<1>1. PICK first : IsCutAt(pages, entries, n, first)
  BY DEF IsCut
<1>2. page \in Seq(EntrySet) /\ page # <<>> /\ len \in Nat \ {0} /\ n \in Nat /\ l \in Nat
  BY PagesHaveEntries DEF Pages
<1>3. first[k] \in 1..n /\ first[k + 1] \in 2..n + 1
  BY <1>1, <1>2, FirstInRange
<1>4. /\ len = first[k + 1] - first[k] /\ first[l + 1] = n + 1
      /\ \A j \in 1..len : page[j] = entries[first[k] + j - 1]
  BY <1>1 DEF IsCutAt
<1> DEFINE a == first[k]
           b == first[k + 1]
<1>5. a \in 1..n /\ b \in 2..n + 1 /\ len = b - a
  BY <1>3, <1>4
<1>6. Ascending(page)
  <2> SUFFICES ASSUME NEW i \in 1..len, NEW j \in 1..len, i < j
               PROVE  page[i].startId < page[j].startId
    BY DEF Ascending
  <2>1. /\ a + i - 1 \in 1..n /\ a + j - 1 \in 1..n /\ a + i - 1 < a + j - 1
    <3> HIDE DEF a, b, n, len
    <3>1. QED
      BY <1>2, <1>5
  <2>2. page[i] = entries[a + i - 1] /\ page[j] = entries[a + j - 1]
    BY <1>4
  <2>3. QED
    BY <2>1, <2>2 DEF Ascending
<1>7. PICK j : IsLast(page, id, j)
  BY <1>2, LastExists
<1>8. GetPageIndex(page, id) = j /\ j \in 1..len
  BY <1>2, <1>6, <1>7, SearchFinds DEF IsLast
<1> DEFINE q == a + j - 1
<1>9. q \in 1..n /\ (q < n /\ j < len => q + 1 = a + (j + 1) - 1)
      /\ (j = len => q + 1 = b)
  <2> HIDE DEF a, b, n, len
  <2>1. QED
    BY <1>2, <1>5, <1>8
<1>10. page[j] = entries[q]
  BY <1>4, <1>8
<1>11. ASSUME q < n PROVE entries[q + 1].startId > id
  <2>1. CASE j < len
    <3>1. j + 1 \in 1..len
      BY <1>2, <1>8, <2>1
    <3>2. page[j + 1] = entries[a + (j + 1) - 1]
      BY <1>4, <3>1
    <3>3. page[j + 1].startId > id
      BY <1>7, <2>1 DEF IsLast
    <3>4. q + 1 = a + (j + 1) - 1
      BY <1>9, <1>11, <2>1
    <3> HIDE DEF q, page, len
    <3>5. QED
      BY <3>2, <3>3, <3>4
  <2>2. CASE ~(j < len)
    <3>1. j = len
      BY <1>2, <1>8, <2>2
    <3>2. q + 1 = b
      BY <1>9, <3>1
    <3>3. k < l
      <4>1. SUFFICES ASSUME ~(k < l) PROVE FALSE
        OBVIOUS
      <4>2. k = l
        BY <1>2, <4>1
      <4>3. b = n + 1
        BY <1>4, <4>2
      <4> HIDE DEF b, q, n
      <4>4. QED
        BY <1>2, <1>9, <1>11, <3>2, <4>3
    <3>4. k + 1 \in 1..l /\ pages[k + 1][1].startId > id
      BY <1>2, <3>3
    <3>5. pages[k + 1][1] = entries[b]
      <4>1. Len(pages[k + 1]) \in Nat \ {0}
        BY <3>4, PagesHaveEntries
      <4>2. 1 \in 1..Len(pages[k + 1])
        BY <4>1
      <4>3. pages[k + 1][1] = entries[first[k + 1] + 1 - 1]
        BY <1>1, <3>4, <4>2 DEF IsCutAt
      <4>4. first[k + 1] + 1 - 1 = b
        BY <1>5
      <4>5. QED
        BY <4>3, <4>4
    <3> HIDE DEF b, q
    <3>6. QED
      BY <3>2, <3>4, <3>5
  <2>3. QED
    BY <2>1, <2>2
<1>12. IsLast(entries, id, q)
  <2>1. entries[q].startId <= id
    BY <1>7, <1>10 DEF IsLast
  <2> HIDE DEF q
  <2>2. QED
    BY <1>9, <1>11, <2>1 DEF IsLast
<1>13. IndexIsValid(page, j)
  BY <1>2, <1>8 DEF IndexIsValid
<1> HIDE DEF q
<1>14. QED
  BY <1>8, <1>10, <1>12, <1>13

------------------------------------------------------------------------------
(* Caches                                                                  *)

CachesOf(cells) == [order : Seq(cells), map : SUBSET Nat, size : Nat, maxSize : Nat]

\* A cache has only such cells, and one for every key that it knows.
IsCacheOf(c, cells) ==
  /\ c \in CachesOf(cells)
  /\ IsActive(c) =>
       /\ c.size = Len(c.order) /\ c.size <= c.maxSize
       /\ \A key \in c.map : \E i \in 1..Len(c.order) : c.order[i].key = key

\* The parts of a cache.
LEMMA CacheParts ==
  ASSUME NEW cells, NEW c, IsCacheOf(c, cells)
  PROVE  /\ c.order \in Seq(cells) /\ Len(c.order) \in Nat
         /\ c.map \in SUBSET Nat /\ c.size \in Nat /\ c.maxSize \in Nat
         /\ \A i \in 1..Len(c.order) : c.order[i] \in cells
<1>1. c.order \in Seq(cells) /\ c.map \in SUBSET Nat /\ c.size \in Nat /\ c.maxSize \in Nat
  BY DEF IsCacheOf, CachesOf
<1> DEFINE order == c.order
<1>2. order \in Seq(cells)
  BY <1>1
<1> HIDE DEF order
<1>3. Len(order) \in Nat /\ \A i \in 1..Len(order) : order[i] \in cells
  BY <1>2
<1>4. QED
  BY <1>1, <1>3 DEF order

\* Find() is the position of a cell with the key if there is one.
LEMMA KeyIsFound ==
  ASSUME NEW c, Len(c.order) \in Nat, NEW key, \E i \in 1..Len(c.order) : c.order[i].key = key
  PROVE  Find(c, key) \in 1..Len(c.order) /\ c.order[Find(c, key)].key = key
<1> DEFINE S == {i \in 1..Len(c.order) : c.order[i].key = key}
           Youngest(i) == /\ c.order[i].key = key
                          /\ \A j \in 1..(i - 1) : c.order[j].key # key
<1>1. PICK p \in S : \A i \in S : p <= i
  <2>1. S \in SUBSET Nat /\ S # {}
    OBVIOUS
  <2> HIDE DEF S
  <2>2. QED
    BY <2>1, LeastNat
<1>2. Youngest(p)
  <2> SUFFICES ASSUME NEW j \in 1..(p - 1), c.order[j].key = key PROVE FALSE
    BY <1>1
  <2>1. j \in 1..Len(c.order) /\ ~(p <= j)
    BY <1>1
  <2>2. QED
    BY <1>1, <2>1
<1>3. Find(c, key) = CHOOSE i \in 1..Len(c.order) : Youngest(i)
  BY DEF Find
<1>4. \E i \in 1..Len(c.order) : Youngest(i)
  BY <1>1, <1>2
<1>5. Find(c, key) \in 1..Len(c.order) /\ Youngest(Find(c, key))
  <2> HIDE DEF Youngest
  <2>1. QED
    BY <1>3, <1>4
<1>6. QED
  BY <1>5

\* What a hit returns is the value of a cell with the key.
LEMMA HitValue ==
  ASSUME NEW cells, NEW c, IsCacheOf(c, cells), NEW key, Hit(c, key)
  PROVE  \E cell \in cells : cell.key = key /\ Value(c, key) = cell.value
<1>1. IsActive(c) /\ key \in c.map
  BY DEF Hit
<1>2. Len(c.order) \in Nat /\ \A i \in 1..Len(c.order) : c.order[i] \in cells
  BY CacheParts
<1>3. \E i \in 1..Len(c.order) : c.order[i].key = key
  BY <1>1 DEF IsCacheOf
<1>4. Find(c, key) \in 1..Len(c.order) /\ c.order[Find(c, key)].key = key
  BY <1>2, <1>3, KeyIsFound
<1>5. QED
  BY <1>2, <1>4 DEF Value

\* A hit moves a cell to the front of the order,
LEMMA TouchKeeps ==
  ASSUME NEW cells, NEW c, IsCacheOf(c, cells), NEW key, Hit(c, key)
  PROVE  IsCacheOf(Touch(c, key), cells) /\ Touch(c, key).maxSize = c.maxSize
<1> DEFINE t == Touch(c, key)
           p == Find(c, key)
           old == c.order
           n == Len(old)
           new == Splice(old, p)
<1>1. /\ old \in Seq(cells) /\ n \in Nat /\ c.map \in SUBSET Nat /\ c.size \in Nat
      /\ c.maxSize \in Nat /\ \A i \in 1..n : old[i] \in cells
  BY CacheParts
<1>2. IsActive(c) /\ key \in c.map
  BY DEF Hit
<1>3. c.size = n /\ c.size <= c.maxSize /\ \A k \in c.map : \E i \in 1..n : old[i].key = k
  BY <1>2 DEF IsCacheOf
<1>4. p \in 1..n
  <2>1. \E i \in 1..n : old[i].key = key
    BY <1>2, <1>3
  <2>2. QED
    BY <1>1, <2>1, KeyIsFound
<1>5. t.order = new /\ t.map = c.map /\ t.size = c.size /\ t.maxSize = c.maxSize
      /\ t = [order |-> new, map |-> c.map, size |-> c.size, maxSize |-> c.maxSize]
  BY DEF Touch
<1>6. new = [j \in 1..n |-> IF j = 1 THEN old[p] ELSE IF j <= p THEN old[j - 1] ELSE old[j]]
  BY DEF Splice
<1> HIDE DEF t, p, old, n, new
<1>7. \A j \in 1..n : new[j] \in cells
  <2> SUFFICES ASSUME NEW j \in 1..n PROVE new[j] \in cells
    OBVIOUS
  <2>1. j = 1 \/ j - 1 \in 1..n
    BY <1>1
  <2>2. QED
    BY <1>1, <1>4, <1>6, <2>1
<1>8. new \in Seq(cells) /\ Len(new) = n
  <2>1. new \in [1..n -> cells]
    BY <1>6, <1>7
  <2>2. QED
    BY <1>1, <2>1
<1>9. ASSUME NEW k \in c.map PROVE \E i \in 1..n : new[i].key = k
  <2>1. PICK i \in 1..n : old[i].key = k
    BY <1>3
  <2>2. CASE i = p
    <3>1. 1 \in 1..n
      BY <1>1, <1>4
    <3>2. new[1] = old[p]
      BY <1>6, <3>1
    <3>3. QED
      BY <2>1, <2>2, <3>1, <3>2
  <2>3. CASE i < p
    <3>1. i + 1 \in 1..n /\ i + 1 # 1 /\ i + 1 <= p /\ (i + 1) - 1 = i
      BY <1>1, <1>4, <2>3
    <3>2. new[i + 1] = old[i]
      BY <1>6, <3>1
    <3>3. QED
      BY <2>1, <3>1, <3>2
  <2>4. CASE i > p
    <3>1. i # 1 /\ ~(i <= p)
      BY <1>1, <1>4, <2>4
    <3>2. new[i] = old[i]
      BY <1>6, <3>1
    <3>3. QED
      BY <2>1, <3>2
  <2>5. QED
    BY <1>1, <1>4, <2>2, <2>3, <2>4
<1>10. t \in CachesOf(cells)
  BY <1>1, <1>5, <1>8 DEF CachesOf
<1>11. QED
  BY <1>3, <1>5, <1>8, <1>9, <1>10 DEF IsCacheOf, t

\* a cache without room keeps the last value only,
LEMMA HoldKeeps ==
  ASSUME NEW cells, NEW c, IsCacheOf(c, cells), ~IsActive(c), NEW key, NEW value,
         Cell(key, value) \in cells
  PROVE  IsCacheOf(Hold(c, key, value), cells) /\ Hold(c, key, value).maxSize = c.maxSize
<1> DEFINE t == Hold(c, key, value)
           new == <<Cell(key, value)>>
<1>1. c.map \in SUBSET Nat /\ c.size \in Nat /\ c.maxSize \in Nat
  BY CacheParts
<1>2. new \in Seq(cells)
  OBVIOUS
<1>3. t.maxSize = c.maxSize
      /\ t = [order |-> new, map |-> c.map, size |-> c.size, maxSize |-> c.maxSize]
  BY DEF Hold
<1> HIDE DEF t, new
<1>4. t \in CachesOf(cells)
  BY <1>1, <1>2, <1>3 DEF CachesOf
<1>5. QED
  BY <1>3, <1>4 DEF IsCacheOf, IsActive, t

\* and a new cell goes to the front of the order of one with room.
LEMMA InsertKeeps ==
  ASSUME NEW cells, NEW c, IsCacheOf(c, cells), IsActive(c), NEW key \in Nat, NEW value,
         Cell(key, value) \in cells
  PROVE  LET t == Insert(c, key, value)
         IN  /\ t.order \in Seq(cells) /\ Len(t.order) = c.size + 1
             /\ t.map \in SUBSET Nat /\ t.size = c.size + 1 /\ t.maxSize = c.maxSize
             /\ \A k \in t.map : \E i \in 1..Len(t.order) : t.order[i].key = k
<1> DEFINE t == Insert(c, key, value)
           old == c.order
           n == Len(old)
           cell == Cell(key, value)
           new == PushFront(old, cell)
<1>1. /\ old \in Seq(cells) /\ n \in Nat /\ c.map \in SUBSET Nat /\ c.size \in Nat
      /\ c.maxSize \in Nat /\ \A i \in 1..n : old[i] \in cells
  BY CacheParts
<1>2. c.size = n /\ \A k \in c.map : \E i \in 1..n : old[i].key = k
  BY DEF IsCacheOf
<1>3. /\ t.order = new /\ t.map = c.map \union {key} /\ t.size = c.size + 1
      /\ t.maxSize = c.maxSize
  BY DEF Insert
<1>4. new = [j \in 1..(n + 1) |-> IF j = 1 THEN cell ELSE old[j - 1]]
  BY DEF PushFront
<1>5. cell.key = key /\ cell \in cells
  BY DEF Cell
<1> HIDE DEF t, old, n, new, cell
<1>6. \A j \in 1..(n + 1) : new[j] \in cells
  <2> SUFFICES ASSUME NEW j \in 1..(n + 1) PROVE new[j] \in cells
    OBVIOUS
  <2>1. j = 1 \/ j - 1 \in 1..n
    BY <1>1
  <2>2. QED
    BY <1>1, <1>4, <1>5, <2>1
<1>7. new \in Seq(cells) /\ Len(new) = n + 1
  <2>1. new \in [1..(n + 1) -> cells]
    BY <1>4, <1>6
  <2>2. QED
    BY <1>1, <2>1
<1>8. ASSUME NEW k \in c.map \union {key} PROVE \E i \in 1..(n + 1) : new[i].key = k
  <2>1. CASE k = key
    <3>1. 1 \in 1..(n + 1)
      BY <1>1
    <3>2. new[1] = cell
      BY <1>4, <3>1
    <3>3. QED
      BY <1>5, <2>1, <3>1, <3>2
  <2>2. CASE k # key
    <3>1. PICK i \in 1..n : old[i].key = k
      BY <1>2, <2>2
    <3>2. i + 1 \in 1..(n + 1) /\ i + 1 # 1 /\ (i + 1) - 1 = i
      BY <1>1
    <3>3. new[i + 1] = old[i]
      BY <1>4, <3>2
    <3>4. QED
      BY <3>1, <3>2, <3>3
  <2>3. QED
    BY <2>1, <2>2
<1>9. QED
  BY <1>1, <1>2, <1>3, <1>7, <1>8 DEF t

\* Dropping the last cells takes their keys from the index and no others.
LEMMA StripKeeps ==
  ASSUME NEW cells, NEW c, c.order \in Seq(cells), c.map \in SUBSET Nat, c.size \in Nat,
         c.maxSize \in Nat \ {0}, c.size = Len(c.order),
         \A k \in c.map : \E i \in 1..Len(c.order) : c.order[i].key = k
  PROVE  IsCacheOf(StripCache(c), cells) /\ StripCache(c).maxSize = c.maxSize
<1> DEFINE t == StripCache(c)
           old == c.order
           n == Len(old)
           kept == Kept(c)
           new == [i \in 1..kept |-> old[i]]
           gone == {old[i].key : i \in (kept + 1)..n}
<1>1. old \in Seq(cells) /\ n \in Nat /\ \A i \in 1..n : old[i] \in cells
  OBVIOUS
<1>2. /\ Excess(c) \in Nat /\ Excess(c) <= n /\ n - Excess(c) <= c.maxSize
  <2> DEFINE size == c.size
             most == c.maxSize
  <2>1. size \in Nat /\ most \in Nat /\ size = n
    OBVIOUS
  <2>2. Excess(c) = IF size > most THEN size - most ELSE 0
    BY DEF Excess
  <2> HIDE DEF size, most, n
  <2>3. QED
    BY <2>1, <2>2 DEF most
<1>3. kept = n - Excess(c)
  BY DEF Kept
<1>4. /\ t.order = new /\ t.map = c.map \ gone /\ t.size = n - Excess(c)
      /\ t.maxSize = c.maxSize
      /\ t = [order |-> new, map |-> c.map \ gone, size |-> n - Excess(c),
              maxSize |-> c.maxSize]
  BY DEF StripCache, Dropped
<1> HIDE DEF t, kept, old, n
<1>5. kept \in 0..n /\ kept = t.size /\ t.size <= t.maxSize /\ t.size \in Nat
  BY <1>1, <1>2, <1>3, <1>4
<1>6. new \in Seq(cells) /\ Len(new) = kept
  <2>1. new \in [1..kept -> cells]
    BY <1>1, <1>5
  <2>2. kept \in Nat
    BY <1>5
  <2> HIDE DEF new
  <2>3. QED
    BY <2>1, <2>2
<1>7. ASSUME NEW k \in c.map \ gone PROVE \E i \in 1..kept : new[i].key = k
  <2>1. PICK i \in 1..n : old[i].key = k
    BY DEF old, n
  <2>2. i \notin (kept + 1)..n
    BY <1>7, <2>1
  <2>3. i \in 1..kept
    BY <1>1, <1>5, <2>2
  <2>4. QED
    BY <2>1, <2>3
<1>8. t \in CachesOf(cells)
  <2> HIDE DEF new, gone
  <2>1. c.map \ gone \in SUBSET Nat /\ n - Excess(c) \in Nat /\ c.maxSize \in Nat
    BY <1>4, <1>5
  <2>2. QED
    BY <1>4, <1>6, <2>1 DEF CachesOf
<1> HIDE DEF new, gone
<1>9. \A k \in t.map : \E i \in 1..Len(t.order) : t.order[i].key = k
  BY <1>4, <1>6, <1>7
<1>10. t.size = Len(t.order) /\ t.size <= t.maxSize
  BY <1>4, <1>5, <1>6
<1>11. QED
  BY <1>4, <1>8, <1>9, <1>10 DEF IsCacheOf, t

\* A cache goes on holding what it may hold, whether it finds an entry or is given one
\* that it has not found.
LEMMA GetEntryKeeps ==
  ASSUME NEW cells, NEW c, IsCacheOf(c, cells), NEW key
  PROVE  IsCacheOf(GetEntry(c, key), cells) /\ GetEntry(c, key).maxSize = c.maxSize
<1>1. CASE Hit(c, key)
  <2>1. GetEntry(c, key) = Touch(c, key)
    BY <1>1 DEF GetEntry
  <2>2. QED
    BY <1>1, <2>1, TouchKeeps
<1>2. CASE ~Hit(c, key)
  <2>1. GetEntry(c, key) = c
    BY <1>2 DEF GetEntry
  <2>2. QED
    BY <2>1
<1>3. QED
  BY <1>1, <1>2

\* SetEntry puts nothing into a cache but the cell it is given.
LEMMA SetEntryKeeps ==
  ASSUME NEW cells, NEW c, IsCacheOf(c, cells), NEW key \in Nat, ~Hit(c, key), NEW value,
         Cell(key, value) \in cells
  PROVE  /\ IsCacheOf(SetEntry(c, key, value), cells)
         /\ SetEntry(c, key, value).maxSize = c.maxSize
<1>1. CASE ~IsActive(c)
  <2>1. SetEntry(c, key, value) = Hold(c, key, value)
    BY <1>1 DEF SetEntry
  <2>2. QED
    BY <1>1, <2>1, HoldKeeps
<1>2. CASE IsActive(c)
  <2> DEFINE t == Insert(c, key, value)
  <2>1. SetEntry(c, key, value) = StripCache(t)
    BY <1>2 DEF SetEntry, Hit
  <2>2. /\ t.order \in Seq(cells) /\ Len(t.order) = c.size + 1
        /\ t.map \in SUBSET Nat /\ t.size = c.size + 1 /\ t.maxSize = c.maxSize
        /\ \A k \in t.map : \E i \in 1..Len(t.order) : t.order[i].key = k
    BY <1>2, InsertKeeps
  <2>3. t.maxSize \in Nat \ {0} /\ t.size \in Nat /\ t.size = Len(t.order)
    <3>1. c.maxSize \in Nat /\ c.size \in Nat /\ c.maxSize > 0
      BY <1>2, CacheParts DEF IsActive
    <3> HIDE DEF t
    <3>2. QED
      BY <2>2, <3>1
  <2> HIDE DEF t
  <2>4. QED
    BY <2>1, <2>2, <2>3, StripKeeps
<1>3. QED
  BY <1>1, <1>2

\* An empty cache may hold anything.
LEMMA NewCacheOf ==
  ASSUME NEW cells, NEW n \in Nat
  PROVE  IsCacheOf(NewCache(n), cells)
  BY DEF IsCacheOf, CachesOf, NewCache

\* Nothing is wrong in a cache that has been emptied.
LEMMA FlushKeeps ==
  ASSUME NEW cells, NEW c, IsCacheOf(c, cells)
  PROVE  IsCacheOf(Flush(c), cells) /\ Flush(c).maxSize = c.maxSize
<1>1. c.maxSize \in Nat
  BY CacheParts
<1>2. Flush(c) = NewCache(c.maxSize)
  BY DEF Flush, NewCache
<1>3. QED
  BY <1>1, <1>2, NewCacheOf DEF NewCache

\* What a cache may hold, it may hold if more is allowed.
LEMMA CacheOfMore ==
  ASSUME NEW cells, NEW more, cells \subseteq more, NEW c, IsCacheOf(c, cells)
  PROVE  IsCacheOf(c, more)
<1>1. /\ c.order \in Seq(cells) /\ Len(c.order) \in Nat
      /\ c.map \in SUBSET Nat /\ c.size \in Nat /\ c.maxSize \in Nat
  BY CacheParts
<1>2. c.order \in Seq(more)
  BY <1>1
<1>3. c \in CachesOf(more)
  BY <1>1, <1>2 DEF IsCacheOf, CachesOf
<1>4. QED
  BY <1>3 DEF IsCacheOf

\* There is a cache for every level below the root.
LEMMA SizesOfCaches ==
  ASSUME NEW index, index.levels \in Nat, NEW size \in Nat,
         \A i \in 1..index.levels : index.pageCounts[i] \in Nat
  PROVE  LET sizes == CacheSizes(index, size)
         IN  /\ sizes \in Seq(Nat)
             /\ Len(sizes) = IF index.levels = 0 THEN 0 ELSE index.levels - 1
<1> DEFINE sizes == CacheSizes(index, size)
           h == index.levels
<1>1. CASE h = 0
  <2>1. \A left : [i \in 1..(h - 1) |-> left[i] - left[i + 1]] = <<>>
    BY <1>1
  <2>2. sizes = <<>>
    BY <1>1, <2>1 DEF CacheSizes
  <2>3. QED
    BY <1>1, <2>2
<1>2. CASE h # 0
  <2> DEFINE count == index.pageCounts
             after == [i \in 1..h |-> [v \in Nat |-> IF count[i] > v THEN 0 ELSE v - count[i]]]
             W == [i \in 1..h |-> Nat]
             R(f) == f = [i \in 1..h |->
                            IF i = 1 THEN size
                            ELSE IF count[i] > f[i - 1] THEN 0 ELSE f[i - 1] - count[i]]
  <2>1. h \in Nat \ {0} /\ \A i \in 1..h : count[i] \in Nat
    BY <1>2
  <2>2. StaysIn(W, 1, h, size, after)
    <3>1. ASSUME NEW i \in 1 + 1..h, NEW v \in W[i - 1] PROVE after[i][v] \in W[i]
      <4>1. i - 1 \in 1..h /\ i \in 1..h
        BY <2>1
      <4>2. v \in Nat /\ count[i] \in Nat
        BY <2>1, <4>1
      <4> HIDE DEF count
      <4>3. QED
        BY <4>1, <4>2
    <3>2. size \in W[1]
      BY <2>1
    <3> HIDE DEF W, after
    <3>3. QED
      BY <3>1, <3>2 DEF StaysIn
  <2>3. PICK f : /\ f = [i \in 1..h |-> IF i = 1 THEN size ELSE after[i][f[i - 1]]]
                 /\ \A i \in 1..h : f[i] \in W[i]
    <3> HIDE DEF W, after, h
    <3>1. QED
      BY <2>1, <2>2, Recursion
  <2>4. R(f)
    <3> HIDE DEF count, h
    <3>1. \A i \in 1..h : i # 1 => f[i - 1] \in Nat
      BY <2>1, <2>3
    <3>2. \A i \in 1..h :
            (IF i = 1 THEN size ELSE after[i][f[i - 1]])
              = IF i = 1 THEN size
                ELSE IF count[i] > f[i - 1] THEN 0 ELSE f[i - 1] - count[i]
      BY <3>1
    <3> HIDE DEF after
    <3>3. QED
      BY <2>3, <3>2
  <2> DEFINE left == CHOOSE k : R(k)
  <2>5. R(left)
    <3> HIDE DEF R
    <3>1. QED
      BY <2>4
  <2>6. \A i \in 1..h : i # 1 =>
          left[i] = IF count[i] > left[i - 1] THEN 0 ELSE left[i - 1] - count[i]
    <3> HIDE DEF left, count, h
    <3>1. QED
      BY <2>5
  <2>7. left[1] = size
    <3> HIDE DEF left, count
    <3>1. 1 \in 1..h
      BY <2>1
    <3>2. QED
      BY <2>5, <3>1
  <2>8. sizes = [i \in 1..(h - 1) |-> left[i] - left[i + 1]]
    BY DEF CacheSizes
  <2> HIDE DEF left, count, h, sizes
  <2> DEFINE S == {i \in 1..h : left[i] \in Nat}
  <2>9. \A i \in 1..h : i \in S
    <3>1. 1 \in S
      BY <2>1, <2>7
    <3>2. ASSUME NEW i \in 1 + 1..h, i - 1 \in S PROVE i \in S
      <4>1. i \in 1..h /\ i # 1
        BY <2>1
      <4>2. left[i] = IF count[i] > left[i - 1] THEN 0 ELSE left[i - 1] - count[i]
        BY <2>6, <4>1
      <4>3. left[i - 1] \in Nat /\ count[i] \in Nat
        BY <2>1, <3>2, <4>1
      <4>4. QED
        BY <4>1, <4>2, <4>3
    <3> HIDE DEF S
    <3>3. Reaches(S, 1, h)
      BY <3>1, <3>2 DEF Reaches
    <3>4. QED
      BY <2>1, <3>3, IntervalInduction
  <2>10. \A i \in 1..(h - 1) : left[i] - left[i + 1] \in Nat
    <3> SUFFICES ASSUME NEW i \in 1..(h - 1) PROVE left[i] - left[i + 1] \in Nat
      OBVIOUS
    <3>1. i \in 1..h /\ i + 1 \in 1..h /\ i + 1 # 1 /\ (i + 1) - 1 = i
      BY <2>1
    <3>2. left[i + 1] = IF count[i + 1] > left[i] THEN 0 ELSE left[i] - count[i + 1]
      BY <2>6, <3>1
    <3>3. left[i] \in Nat /\ count[i + 1] \in Nat
      BY <2>1, <2>9, <3>1
    <3>4. QED
      BY <3>2, <3>3
  <2>11. sizes \in [1..(h - 1) -> Nat] /\ h - 1 \in Nat
    BY <2>1, <2>8, <2>10
  <2>12. sizes \in Seq(Nat) /\ Len(sizes) = h - 1
    BY <2>11
  <2>13. QED
    BY <1>2, <2>12 DEF sizes, h
<1>3. QED
  BY <1>1, <1>2

------------------------------------------------------------------------------
(* The invariant                                                           *)

IsListing(list) ==
  /\ list \in Seq(Nat \ {0})
  /\ \A i, j \in 1..Len(list) : i < j => list[i] < list[j]

\* The file, and the index that belongs to it.
FileIsIndexed == IsListing(ids) /\ IsIndexOf(Index, Entries(ids))

\* The entries of the level that a search has come to, counted from the root, and the
\* pages below them.
EntriesOn(level) ==
  IF Index.levels = 0 THEN <<Entry(PageSize, 0)>>
  ELSE EntriesAt(Entries(ids), Index.levels - level)

PagesOn(level) == PagesAt(Entries(ids), Index.levels - level)

\* What the caches of pages may hold: pages of their level, under their first ids.
PageCell(level, k) == Cell(PagesOn(level)[k][1].startId, PagesOn(level)[k])

PageCells(level) == {PageCell(level, k) : k \in 1..Len(PagesOn(level))}

\* And the cache of records: a record, or what is left of it after a failure.
RecordCells ==
  {cell \in [key : Nat, value : Nat] :
     \/ cell.value = RecordAt(cell.key)
     \/ cell.value = Broken /\ failures > 0}

AnyPageCells == [key : Nat, value : Seq(EntrySet)]

CachesAreRight ==
  /\ cacheSize \in Nat
  /\ leafs \in Seq(CachesOf(AnyPageCells))
  /\ \A n \in 1..Index.levels - 1 : n <= Len(leafs) => IsCacheOf(leafs[n], PageCells(n))
  /\ IsCacheOf(cache, RecordCells)

IsReady ==
  /\ pc \in {"idle", "lookup", "descend", "read"}
  /\ pc # "idle" => isOpen
  /\ isOpen => root = EntriesOn(0) /\ Index.levels - 1 <= Len(leafs)

\* The numbers of a call.
CallFits ==
  /\ asked \in Seq(Nat \ {0}) /\ todo \in Seq(Nat)
  /\ offsets \in Seq(Nat) /\ data \in Seq(Nat) /\ failures \in Nat

\* On every level the search has found the last entry that is not above the id.
SearchIsRight ==
  pc = "descend" =>
    /\ lookup.id \in Nat /\ lookup.level \in Nat
    /\ lookup.level = 0 \/ lookup.level < Index.levels
    /\ \E q : /\ IsLast(EntriesOn(lookup.level), lookup.id, q)
              /\ lookup.startId = EntriesOn(lookup.level)[q].startId
              /\ lookup.offset = EntriesOn(lookup.level)[q].fileOffset

\* The offsets are those of some ids.
AreOffsetsOf(offs, list) ==
  /\ Len(offs) = Len(list)
  /\ \A i \in 1..Len(list) :
       \E q \in 1..Len(ids) : ids[q] = list[i] /\ offs[i] = OffsetOf(q)

IsRest(rest, list) ==
  /\ Len(rest) <= Len(list)
  /\ \A i \in 1..Len(rest) : rest[i] = list[Len(list) - Len(rest) + i]

\* A record that is returned for one that is there.
IsRecordOf(record, id) ==
  \/ record = id
  \/ record = Broken /\ failures > 0 /\ IsActive(cache)

\* How far a call is: what it has done with the first ids, or the first offsets.
CallIsRight ==
  /\ pc = "lookup" =>
       /\ data = <<>>
       /\ IsRest(todo, asked)
       /\ AreOffsetsOf(offsets, Found(asked, Len(asked) - Len(todo)))
  /\ pc = "descend" =>
       /\ data = <<>>
       /\ IsRest(todo, asked) /\ Len(todo) < Len(asked)
       /\ lookup.id = asked[Len(asked) - Len(todo)]
       /\ AreOffsetsOf(offsets, Found(asked, Len(asked) - Len(todo) - 1))
  /\ pc = "read" =>
       /\ AreOffsetsOf(offsets, There(asked))
       /\ IsRest(todo, offsets)
       /\ Len(data) = Len(offsets) - Len(todo)
       /\ \A i \in 1..Len(data) : IsRecordOf(data[i], There(asked)[i])

ResultIsRight ==
  Succeeded =>
    /\ Len(result.data) = Len(There(asked))
    /\ \A i \in 1..Len(result.data) : IsRecordOf(result.data[i], There(asked)[i])

IInv ==
  /\ FileIsIndexed
  /\ CachesAreRight
  /\ IsReady
  /\ CallFits
  /\ SearchIsRight
  /\ ~HeaderIsFound(asked) => CallIsRight
  /\ ~HeaderIsFound(asked) => ResultIsRight

------------------------------------------------------------------------------
(* Ids, records and offsets                                                *)

\* The entries that the generator is given for a file.
LEMMA EntriesOfListing ==
  ASSUME NEW list, IsListing(list)
  PROVE  /\ Entries(list) \in Seq(EntrySet) /\ Len(Entries(list)) = Len(list)
         /\ Len(list) \in Nat
         /\ Ascending(Entries(list))
         /\ \A i \in 1..Len(list) : /\ list[i] \in Nat \ {0}
                                    /\ Entries(list)[i].startId = list[i]
                                    /\ Entries(list)[i].fileOffset = OffsetOf(i)
                                    /\ OffsetOf(i) \in Nat
<1> DEFINE n == Len(list)
           e == Entries(list)
<1>1. n \in Nat /\ \A i \in 1..n : list[i] \in Nat \ {0}
  BY DEF IsListing
<1>2. \A i \in 1..n : OffsetOf(i) \in Nat
  <2>1. RecordSize \in Nat
    BY IndexedFileAssumption
  <2>2. \A x, y \in Nat : x * y \in Nat
    OBVIOUS
  <2>3. QED
    BY <1>1, <2>1, <2>2 DEF OffsetOf
<1>3. e = [i \in 1..n |-> [startId |-> list[i], fileOffset |-> OffsetOf(i)]]
  BY DEF Entries, Entry
<1> HIDE DEF e
<1>4. e \in [1..n -> EntrySet]
  BY <1>1, <1>2, <1>3 DEF EntrySet
<1>5. e \in Seq(EntrySet) /\ Len(e) = n
  BY <1>1, <1>4
<1>6. \A i \in 1..n : e[i].startId = list[i] /\ e[i].fileOffset = OffsetOf(i)
  BY <1>3
<1>7. Ascending(e)
  BY <1>5, <1>6 DEF Ascending, IsListing
<1>8. QED
  BY <1>1, <1>2, <1>5, <1>6, <1>7 DEF e

\* The record at an offset is found again.
LEMMA Division ==
  ASSUME NEW i \in Nat
  PROVE  OffsetOf(i) \div RecordSize = i
<1>1. RecordSize \in Nat \ {0}
  BY IndexedFileAssumption
<1>2. \A r \in Nat \ {0}, k \in Nat : (r * k) \div r = k
  OBVIOUS
<1>3. QED
  BY <1>1, <1>2 DEF OffsetOf

\* At the offset of an id is the record with that id.
LEMMA RecordAtOffset ==
  ASSUME IsListing(ids)
  PROVE  /\ \A q \in 1..Len(ids) : RecordAt(OffsetOf(q)) = ids[q]
         /\ \A o : RecordAt(o) \in Nat
<1>1. Len(ids) \in Nat /\ \A q \in 1..Len(ids) : ids[q] \in Nat
  BY DEF IsListing
<1>2. \A q \in 1..Len(ids) : OffsetOf(q) \div RecordSize = q
  BY <1>1, Division
<1>3. ASSUME NEW o PROVE RecordAt(o) \in Nat
  <2>1. CASE \E i \in 1..Len(ids) : OffsetOf(i) = o
    <3>1. PICK i \in 1..Len(ids) : OffsetOf(i) = o
      BY <2>1
    <3>2. RecordAt(o) = ids[i]
      BY <1>2, <3>1 DEF RecordAt
    <3>3. QED
      BY <1>1, <3>2
  <2>2. CASE ~\E i \in 1..Len(ids) : OffsetOf(i) = o
    BY <2>2 DEF RecordAt, Broken
  <2>3. QED
    BY <2>1, <2>2
<1>4. QED
  BY <1>2, <1>3 DEF RecordAt

\* What is found among the first ids of a request.
LEMMA FoundSteps ==
  ASSUME NEW request \in Seq(Nat \ {0})
  PROVE  /\ Found(request, 0) = <<>>
         /\ \A n \in 0..Len(request) : Found(request, n) \in Seq(Nat \ {0})
         /\ \A n \in 1..Len(request) :
              Found(request, n) = IF IsInFile(request[n])
                                  THEN Append(Found(request, n - 1), request[n])
                                  ELSE Found(request, n - 1)
<1> DEFINE len == Len(request)
           All == Seq(Nat \ {0})
           step == [n \in 1..len |-> [v \in All |->
                      IF IsInFile(request[n]) THEN Append(v, request[n]) ELSE v]]
           W == [n \in 0..len |-> All]
           R(h) == h = [n \in 0..len |->
                          IF n = 0 THEN <<>>
                          ELSE IF IsInFile(request[n]) THEN Append(h[n - 1], request[n])
                          ELSE h[n - 1]]
<1>1. len \in Nat /\ \A n \in 1..len : request[n] \in Nat \ {0}
  OBVIOUS
<1>2. <<>> \in All /\ \A v \in All : \A e \in Nat \ {0} : Append(v, e) \in All
  OBVIOUS
<1> HIDE DEF len, All
<1>3. StaysIn(W, 0, len, <<>>, step)
  <2>1. ASSUME NEW n \in 0 + 1..len, NEW v \in W[n - 1] PROVE step[n][v] \in W[n]
    <3>1. n - 1 \in 0..len /\ n \in 0..len /\ n \in 1..len
      BY <1>1
    <3>2. v \in All
      BY <3>1
    <3>3. step[n][v] = IF IsInFile(request[n]) THEN Append(v, request[n]) ELSE v
      BY <3>1, <3>2
    <3>4. step[n][v] \in All
      BY <1>1, <1>2, <3>1, <3>2, <3>3
    <3> HIDE DEF step
    <3>5. QED
      BY <3>1, <3>4
  <2>2. <<>> \in W[0]
    BY <1>1, <1>2
  <2> HIDE DEF W, step
  <2>3. QED
    BY <2>1, <2>2 DEF StaysIn
<1>4. PICK h : /\ h = [n \in 0..len |-> IF n = 0 THEN <<>> ELSE step[n][h[n - 1]]]
               /\ \A n \in 0..len : h[n] \in W[n]
  <2> HIDE DEF W, step
  <2>1. QED
    BY <1>1, <1>3, Recursion
<1>5. R(h)
  <2>1. \A n \in 0..len : n # 0 => n - 1 \in 0..len /\ n \in 1..len
    BY <1>1
  <2>2. \A n \in 0..len : n # 0 => h[n - 1] \in All
    BY <1>4, <2>1
  <2>3. \A n \in 0..len :
          (IF n = 0 THEN <<>> ELSE step[n][h[n - 1]])
            = IF n = 0 THEN <<>>
              ELSE IF IsInFile(request[n]) THEN Append(h[n - 1], request[n]) ELSE h[n - 1]
    BY <2>1, <2>2
  <2> HIDE DEF step
  <2>4. QED
    BY <1>4, <2>3
<1> DEFINE found == CHOOSE k : R(k)
<1>6. R(found)
  <2> HIDE DEF R
  <2>1. QED
    BY <1>5
<1>7. \A n : Found(request, n) = found[n]
  BY DEF Found, len
<1> HIDE DEF found
<1>8. found[0] = <<>>
  <2>1. 0 \in 0..len
    BY <1>1
  <2>2. QED
    BY <1>6, <2>1
<1>9. ASSUME NEW n \in 1..len
      PROVE  found[n] = IF IsInFile(request[n]) THEN Append(found[n - 1], request[n])
                        ELSE found[n - 1]
  <2>1. n \in 0..len /\ n # 0
    BY <1>1
  <2>2. QED
    BY <1>6, <2>1
<1> DEFINE S == {n \in 0..len : found[n] \in All}
<1>10. \A n \in 0..len : n \in S
  <2>1. 0 \in S
    BY <1>1, <1>2, <1>8
  <2>2. ASSUME NEW n \in 0 + 1..len, n - 1 \in S PROVE n \in S
    <3>1. n \in 1..len /\ n \in 0..len
      BY <1>1
    <3>2. found[n - 1] \in All /\ request[n] \in Nat \ {0}
      BY <1>1, <2>2, <3>1
    <3>3. found[n] \in All
      BY <1>2, <1>9, <3>1, <3>2
    <3>4. QED
      BY <3>1, <3>3
  <2> HIDE DEF S
  <2>3. Reaches(S, 0, len)
    BY <2>1, <2>2 DEF Reaches
  <2>4. QED
    BY <1>1, <2>3, IntervalInduction
<1>11. QED
  BY <1>7, <1>8, <1>9, <1>10 DEF len, All

\* Reading the offsets of some ids gives the records with those ids.
LEMMA RecordsOfOffsets ==
  ASSUME IsListing(ids), NEW offs, NEW list, AreOffsetsOf(offs, list),
         NEW i \in 1..Len(list)
  PROVE  RecordAt(offs[i]) = list[i]
<1>1. PICK q \in 1..Len(ids) : ids[q] = list[i] /\ offs[i] = OffsetOf(q)
  BY DEF AreOffsetsOf
<1>2. QED
  BY <1>1, RecordAtOffset

\* One id more that was found, and its offset.
LEMMA MoreOffsets ==
  ASSUME NEW offs \in Seq(Nat), NEW list \in Seq(Nat \ {0}), AreOffsetsOf(offs, list),
         NEW q \in 1..Len(ids), ids[q] \in Nat \ {0}, OffsetOf(q) \in Nat
  PROVE  AreOffsetsOf(Append(offs, OffsetOf(q)), Append(list, ids[q]))
<1> DEFINE o == OffsetOf(q)
           id == ids[q]
           n == Len(list)
           offs1 == Append(offs, o)
           list1 == Append(list, id)
<1>1. n \in Nat /\ Len(offs) = n
  BY DEF AreOffsetsOf
<1>2. /\ Len(offs1) = Len(offs) + 1 /\ offs1[Len(offs) + 1] = o
      /\ \A k \in 1..Len(offs) : offs1[k] = offs[k]
  <2> HIDE DEF o
  <2>1. o \in Nat
    BY DEF o
  <2>2. QED
    BY <2>1, AppendFacts
<1>3. /\ Len(list1) = Len(list) + 1 /\ list1[Len(list) + 1] = id
      /\ \A k \in 1..Len(list) : list1[k] = list[k]
  <2> HIDE DEF id
  <2>1. id \in Nat \ {0}
    BY DEF id
  <2>2. QED
    BY <2>1, AppendFacts
<1> HIDE DEF offs1, list1, n
<1>4. ASSUME NEW i \in 1..(n + 1)
      PROVE  \E r \in 1..Len(ids) : ids[r] = list1[i] /\ offs1[i] = OffsetOf(r)
  <2>1. CASE i \in 1..n
    <3>1. offs1[i] = offs[i] /\ list1[i] = list[i]
      BY <1>1, <1>2, <1>3, <2>1 DEF n
    <3>2. QED
      BY <2>1, <3>1 DEF AreOffsetsOf, n
  <2>2. CASE i = n + 1
    BY <1>1, <1>2, <1>3, <2>2 DEF n
  <2>3. QED
    BY <1>1, <2>1, <2>2
<1>5. QED
  BY <1>1, <1>2, <1>3, <1>4 DEF AreOffsetsOf, n, offs1, list1, o, id

------------------------------------------------------------------------------
(* The levels that a search goes through                                   *)

\* The ids as entries, and what FileIsIndexed says about their index.
LEMMA IndexOfFile ==
  ASSUME FileIsIndexed
  PROVE  /\ Entries(ids) \in Seq(EntrySet) /\ Ascending(Entries(ids))
         /\ Index.levels \in Nat /\ Index.levels < MaxLevels /\ MaxLevels \in Nat
         /\ Index.levels = 0 <=> Entries(ids) = <<>>
         /\ Index.levels = 0 <=> ids = <<>>
         /\ Index.levels = 0 => Index.root = 0
<1> DEFINE e == Entries(ids)
           h == Index.levels
<1>1. e \in Seq(EntrySet) /\ Ascending(e) /\ Len(e) = Len(ids) /\ Len(ids) \in Nat
  BY EntriesOfListing DEF FileIsIndexed
<1>2. h \in 0..MaxLevels - 1 /\ (h = 0 <=> e = <<>>) /\ (h = 0 => Index.root = 0)
  BY DEF FileIsIndexed, IsIndexOf
<1>3. MaxLevels \in Nat
  BY NumericIndexAssumption
<1>4. e = <<>> <=> ids = <<>>
  <2>1. ids \in Seq(Nat \ {0})
    BY DEF FileIsIndexed, IsListing
  <2> HIDE DEF e
  <2>2. QED
    BY <1>1, <2>1
<1> HIDE DEF e, h
<1>5. h \in Nat /\ h < MaxLevels
  BY <1>2, <1>3
<1>6. QED
  BY <1>1, <1>2, <1>3, <1>4, <1>5 DEF e, h

\* The entries of a level are ascending, and there is one.
LEMMA EntriesOfLevel ==
  ASSUME FileIsIndexed, NEW n \in Nat, n = 0 \/ n < Index.levels
  PROVE  /\ EntriesOn(n) \in Seq(EntrySet) /\ EntriesOn(n) # <<>> /\ Ascending(EntriesOn(n))
         /\ Index.levels > 0 => EntriesOn(n) = EntriesAt(Entries(ids), Index.levels - n)
<1> DEFINE h == Index.levels
<1>1. h \in Nat
  BY IndexOfFile
<1>2. CASE h = 0
  <2> DEFINE head == Entry(PageSize, 0)
  <2>1. head \in EntrySet
    BY NumericIndexAssumption DEF Entry, EntrySet
  <2>2. EntriesOn(n) = <<head>>
    BY <1>2 DEF EntriesOn
  <2> HIDE DEF head
  <2>3. <<head>> \in Seq(EntrySet) /\ <<head>> # <<>> /\ Len(<<head>>) = 1
    BY <2>1
  <2>4. QED
    BY <1>2, <2>2, <2>3 DEF Ascending
<1>3. CASE h # 0
  <2>1. h - n \in 1..h /\ h > 0
    <3> HIDE DEF h
    <3>1. n = 0 \/ n < h
      BY DEF h
    <3>2. QED
      BY <1>1, <1>3, <3>1
  <2>2. IsLevel(Entries(ids), h - n)
    BY <2>1 DEF FileIsIndexed, IsIndexOf
  <2>3. EntriesOn(n) = EntriesAt(Entries(ids), h - n)
    BY <1>3 DEF EntriesOn
  <2>4. QED
    BY <2>2, <2>3 DEF IsLevel
<1>4. QED
  BY <1>2, <1>3

\* The entries of a level say where the pages of the next level are.
LEMMA PagesOfLevel ==
  ASSUME FileIsIndexed, NEW n \in Nat \ {0}, n < Index.levels
  PROVE  /\ PagesOn(n) \in Pages
         /\ EntriesOn(n) \in Seq(EntrySet) /\ Ascending(EntriesOn(n))
         /\ IsCut(PagesOn(n), EntriesOn(n), Len(EntriesOn(n)))
         /\ Len(EntriesOn(n - 1)) = Len(PagesOn(n))
         /\ \A k \in 1..Len(PagesOn(n)) :
              /\ EntriesOn(n - 1)[k].startId = PagesOn(n)[k][1].startId
              /\ PageAt(Index, EntriesOn(n - 1)[k].fileOffset) = PagesOn(n)[k]
<1> DEFINE h == Index.levels
           e == Entries(ids)
           i == h - n
<1>1. h \in Nat /\ h > 0
  <2>1. h \in Nat /\ n < h
    BY IndexOfFile
  <2> HIDE DEF h
  <2>2. QED
    BY <2>1
<1>2. i \in 1..h /\ i < h /\ i + 1 = h - (n - 1) /\ n - 1 \in Nat /\ n - 1 < h
  <2>1. n < h
    OBVIOUS
  <2> HIDE DEF h
  <2>2. QED
    BY <1>1, <2>1
<1>3. EntriesOn(n) = EntriesAt(e, i) /\ EntriesOn(n - 1) = EntriesAt(e, i + 1)
      /\ PagesOn(n) = PagesAt(e, i)
  <2>1. h # 0
    BY <1>1
  <2>2. QED
    BY <1>2, <2>1 DEF EntriesOn, PagesOn
<1>4. IsLevel(e, i)
  BY <1>2 DEF FileIsIndexed, IsIndexOf
<1>5. /\ EntriesAt(e, i) \in Seq(EntrySet) /\ Ascending(EntriesAt(e, i))
      /\ PagesAt(e, i) \in Pages
      /\ IsCut(PagesAt(e, i), EntriesAt(e, i), Len(EntriesAt(e, i)))
  BY <1>4, PagesAreCut DEF IsLevel
<1>6. \A k \in 1..Len(PagesAt(e, i)) :
        /\ Len(EntriesAt(e, i + 1)) = Len(PagesAt(e, i))
        /\ EntriesAt(e, i + 1)[k].startId = PagesAt(e, i)[k][1].startId
        /\ PageAt(Index, EntriesAt(e, i + 1)[k].fileOffset) = PagesAt(e, i)[k]
  BY <1>2 DEF FileIsIndexed, IsIndexOf
<1>7. 1 \in 1..Len(PagesAt(e, i))
  <2>1. EntriesAt(e, i) # <<>>
    BY <1>4 DEF IsLevel
  <2> DEFINE below == EntriesAt(e, i)
             pages == PagesAt(e, i)
  <2>2. below \in Seq(EntrySet) /\ below # <<>> /\ pages \in Pages /\ IsCut(pages, below, Len(below))
    BY <1>5, <2>1
  <2> HIDE DEF below, pages
  <2>3. Len(below) \in Nat \ {0}
    BY <2>2
  <2>4. pages # <<>>
    BY <2>2, <2>3, CutOfSome
  <2>5. Len(pages) \in Nat \ {0}
    BY <2>2, <2>4 DEF Pages
  <2>6. QED
    BY <2>5 DEF pages
<1> HIDE DEF h, e, i
<1>8. QED
  BY <1>3, <1>5, <1>6, <1>7

\* A search that is right on a level is right on the next.
LEMMA SearchGoesOn ==
  ASSUME FileIsIndexed, NEW n \in Nat \ {0}, n < Index.levels, NEW id \in Nat, NEW q,
         IsLast(EntriesOn(n - 1), id, q)
  PROVE  LET i == GetPageIndex(PagesOn(n)[q], id)
         IN  /\ q \in 1..Len(PagesOn(n))
             /\ IndexIsValid(PagesOn(n)[q], i)
             /\ \E r : IsLast(EntriesOn(n), id, r) /\ PagesOn(n)[q][i] = EntriesOn(n)[r]
<1> DEFINE pages == PagesOn(n)
           above == EntriesOn(n - 1)
           l == Len(pages)
<1>1. /\ pages \in Pages /\ EntriesOn(n) \in Seq(EntrySet) /\ Ascending(EntriesOn(n))
      /\ IsCut(pages, EntriesOn(n), Len(EntriesOn(n)))
      /\ Len(above) = l
      /\ \A k \in 1..l : above[k].startId = pages[k][1].startId
  BY PagesOfLevel
<1>2. l \in Nat
  BY <1>1 DEF Pages
<1>3. /\ q \in 1..l /\ above[q].startId <= id
      /\ q < l => above[q + 1].startId > id
  BY <1>1 DEF IsLast
<1> HIDE DEF pages, above, l
<1>4. pages[q][1].startId <= id
  BY <1>1, <1>3
<1>5. q < l => pages[q + 1][1].startId > id
  <2> SUFFICES ASSUME q < l PROVE pages[q + 1][1].startId > id
    OBVIOUS
  <2>1. q + 1 \in 1..l
    BY <1>2, <1>3
  <2>2. QED
    BY <1>1, <1>3, <2>1
<1>6. q \in 1..Len(pages) /\ (q < Len(pages) => pages[q + 1][1].startId > id)
  BY <1>3, <1>5 DEF l
<1>7. LET i == GetPageIndex(pages[q], id)
      IN  /\ IndexIsValid(pages[q], i)
          /\ \E r : IsLast(EntriesOn(n), id, r) /\ pages[q][i] = EntriesOn(n)[r]
  BY <1>1, <1>4, <1>6, SearchOnPage
<1>8. QED
  BY <1>6, <1>7 DEF pages

\* The last level has the ids.
LEMMA LastLevel ==
  ASSUME FileIsIndexed, Index.levels > 0
  PROVE  EntriesOn(Index.levels - 1) = Entries(ids)
<1> DEFINE h == Index.levels
<1>1. h \in Nat /\ h > 0
  BY IndexOfFile
<1>2. EntriesOn(h - 1) = EntriesAt(Entries(ids), h - (h - 1))
  <2>1. h # 0
    BY <1>1
  <2>2. QED
    BY <2>1 DEF EntriesOn
<1> HIDE DEF h
<1>3. h - (h - 1) = 1
  BY <1>1
<1>4. QED
  BY <1>2, <1>3 DEF EntriesAt, h

\* Every level begins with the first id.
LEMMA FirstOfLevel ==
  ASSUME FileIsIndexed, Index.levels > 0
  PROVE  EntriesOn(0)[1].startId = ids[1]
<1> DEFINE h == Index.levels
           S == {n \in 0..h - 1 : EntriesOn(n)[1].startId = EntriesOn(0)[1].startId}
<1>1. h \in Nat \ {0}
  BY IndexOfFile
<1>2. 0 \in S
  BY <1>1
<1>3. ASSUME NEW n \in 0 + 1..h - 1, n - 1 \in S PROVE n \in S
  <2>1. n \in Nat \ {0} /\ n < h /\ n \in 0..h - 1
    <3> HIDE DEF h
    <3>1. QED
      BY <1>1
  <2> DEFINE pages == PagesOn(n)
             entries == EntriesOn(n)
  <2>2. /\ pages \in Pages /\ entries \in Seq(EntrySet) /\ IsCut(pages, entries, Len(entries))
        /\ \A k \in 1..Len(pages) : EntriesOn(n - 1)[k].startId = pages[k][1].startId
    BY <2>1, PagesOfLevel
  <2>3. entries # <<>>
    BY <2>1, EntriesOfLevel
  <2> HIDE DEF pages, entries
  <2>4. Len(entries) \in Nat \ {0}
    BY <2>2, <2>3
  <2>5. pages # <<>>
    BY <2>2, <2>4, CutOfSome
  <2>6. 1 \in 1..Len(pages)
    BY <2>2, <2>5 DEF Pages
  <2>7. PICK first : IsCutAt(pages, entries, Len(entries), first)
    BY <2>2 DEF IsCut
  <2>8. Len(pages[1]) \in Nat \ {0}
    BY <2>2, <2>6, PagesHaveEntries
  <2>9. 1 \in 1..Len(pages[1])
    BY <2>8
  <2>10. pages[1][1] = entries[1 + 1 - 1]
    BY <2>6, <2>7, <2>9 DEF IsCutAt
  <2>11. pages[1][1] = entries[1]
    BY <2>10
  <2>12. EntriesOn(n)[1].startId = EntriesOn(n - 1)[1].startId
    BY <2>2, <2>6, <2>11 DEF entries
  <2>13. QED
    BY <1>3, <2>1, <2>12
<1>4. h - 1 \in S
  <2> HIDE DEF S
  <2>1. Reaches(S, 0, h - 1)
    BY <1>2, <1>3 DEF Reaches
  <2>2. h - 1 \in 0..h - 1 /\ h - 1 \in Int
    BY <1>1
  <2>3. QED
    BY <2>1, <2>2, IntervalInduction
<1>5. EntriesOn(h - 1) = Entries(ids)
  BY <1>1, LastLevel
<1>6. Entries(ids)[1].startId = ids[1]
  <2>1. Len(Entries(ids)) = Len(ids) /\ Len(ids) \in Nat
    BY EntriesOfListing DEF FileIsIndexed
  <2>2. ids # <<>> /\ ids \in Seq(Nat \ {0})
    BY <1>1, IndexOfFile DEF FileIsIndexed, IsListing
  <2>3. 1 \in 1..Len(ids)
    BY <2>2
  <2>4. QED
    BY <2>3, EntriesOfListing DEF FileIsIndexed
<1>7. QED
  BY <1>4, <1>5, <1>6

\* An id that the last entry of the last level does not have is not in the file.
LEMMA IdOfLast ==
  ASSUME FileIsIndexed, NEW id \in Nat, NEW q, IsLast(Entries(ids), id, q)
  PROVE  /\ q \in 1..Len(ids)
         /\ Entries(ids)[q].startId = ids[q] /\ Entries(ids)[q].fileOffset = OffsetOf(q)
         /\ IsInFile(id) <=> ids[q] = id
<1> DEFINE n == Len(ids)
           e == Entries(ids)
<1>1. /\ n \in Nat /\ Len(e) = n
      /\ \A i \in 1..n : ids[i] \in Nat \ {0} /\ e[i].startId = ids[i] /\ e[i].fileOffset = OffsetOf(i)
  BY EntriesOfListing DEF FileIsIndexed
<1>2. \A i, j \in 1..n : i < j => ids[i] < ids[j]
  BY DEF FileIsIndexed, IsListing
<1>3. q \in 1..n /\ e[q].startId <= id /\ (q < n => e[q + 1].startId > id)
  BY <1>1 DEF IsLast
<1> HIDE DEF n, e
<1>4. ids[q] <= id
  BY <1>1, <1>3
<1>5. ASSUME NEW i \in 1..n, ids[i] = id PROVE ids[q] = id
  <2>1. CASE i > q
    <3>1. q < n /\ q + 1 \in 1..n /\ (i = q + 1 \/ q + 1 < i)
      BY <1>1, <1>3, <2>1
    <3>2. ids[q + 1] > id
      BY <1>1, <1>3, <3>1
    <3>3. i = q + 1 \/ ids[q + 1] < ids[i]
      BY <1>2, <3>1
    <3>4. ids[q + 1] \in Nat /\ ids[i] \in Nat
      BY <1>1, <3>1
    <3>5. QED
      BY <1>5, <3>2, <3>3, <3>4
  <2>2. CASE ~(i > q)
    <3>1. i = q \/ i < q
      BY <1>1, <1>3, <2>2
    <3>2. i = q \/ ids[i] < ids[q]
      BY <1>2, <1>3, <3>1
    <3>3. ids[i] \in Nat /\ ids[q] \in Nat
      BY <1>1, <1>3
    <3>4. QED
      BY <1>4, <1>5, <3>2, <3>3
  <2>3. QED
    BY <2>1, <2>2
<1>6. IsInFile(id) <=> ids[q] = id
  BY <1>3, <1>5 DEF IsInFile, n
<1>7. QED
  BY <1>1, <1>3, <1>6 DEF n, e

\* Nor is an id that is below the first entry of the root.
LEMMA IdBelowAll ==
  ASSUME FileIsIndexed, NEW id \in Nat, EntriesOn(0)[1].startId > id
  PROVE  ~IsInFile(id)
<1> SUFFICES ASSUME NEW i \in 1..Len(ids), ids[i] = id PROVE FALSE
  BY DEF IsInFile
<1>1. ids \in Seq(Nat \ {0}) /\ \A a, b \in 1..Len(ids) : a < b => ids[a] < ids[b]
  BY DEF FileIsIndexed, IsListing
<1>2. Len(ids) \in Nat /\ \A a \in 1..Len(ids) : ids[a] \in Nat
  BY <1>1
<1>3. ids # <<>> /\ 1 \in 1..Len(ids)
  BY <1>2
<1>4. Index.levels > 0
  <2> DEFINE h == Index.levels
  <2>1. h \in Nat /\ h # 0
    BY <1>3, IndexOfFile
  <2> HIDE DEF h
  <2>2. h > 0
    BY <2>1
  <2>3. QED
    BY <2>2 DEF h
<1>5. ids[1] > id
  BY <1>4, FirstOfLevel
<1>6. i = 1 \/ ids[1] < ids[i]
  BY <1>1, <1>2, <1>3
<1>7. QED
  BY <1>2, <1>3, <1>5, <1>6

------------------------------------------------------------------------------
(* The steps                                                               *)

\* What depends on the file does not change.
LEMMA SameFile ==
  ASSUME ids' = ids
  PROVE  /\ Index' = Index
         /\ \A n : EntriesOn(n)' = EntriesOn(n) /\ PagesOn(n)' = PagesOn(n)
         /\ \A n : PageCells(n)' = PageCells(n)
         /\ \A o : RecordAt(o)' = RecordAt(o)
         /\ \A offs, list : AreOffsetsOf(offs, list)' <=> AreOffsetsOf(offs, list)
         /\ \A request : HeaderIsFound(request)' <=> HeaderIsFound(request)
         /\ \A request, n : Found(request, n)' = Found(request, n)
         /\ \A request : There(request)' = There(request)
         /\ FileIsIndexed => FileIsIndexed'
<1>1. Index' = Index
  BY DEF Index
<1>2. \A n : EntriesOn(n)' = EntriesOn(n) /\ PagesOn(n)' = PagesOn(n)
  BY <1>1 DEF EntriesOn, PagesOn
<1>3. \A n : PageCells(n)' = PageCells(n)
  BY <1>2 DEF PageCells, PageCell
<1>4. \A o : RecordAt(o)' = RecordAt(o)
  BY DEF RecordAt
<1>5. \A offs, list : AreOffsetsOf(offs, list)' <=> AreOffsetsOf(offs, list)
  BY DEF AreOffsetsOf
<1>6. \A request : HeaderIsFound(request)' <=> HeaderIsFound(request)
  BY DEF HeaderIsFound
<1>7. \A request, n : Found(request, n)' = Found(request, n)
  BY DEF Found, IsInFile
<1>8. \A request : There(request)' = There(request)
  BY <1>7 DEF There
<1>9. FileIsIndexed => FileIsIndexed'
  BY <1>1 DEF FileIsIndexed
<1>10. QED
  BY <1>1, <1>2, <1>3, <1>4, <1>5, <1>6, <1>7, <1>8, <1>9

\* What keeps the parts of the invariant.
LEMMA SearchStays ==
  ASSUME SearchIsRight, UNCHANGED <<ids, pc, lookup>>
  PROVE  SearchIsRight'
  BY SameFile DEF SearchIsRight

\* A step that leaves the call alone leaves it right.
LEMMA CallStays ==
  ASSUME ~HeaderIsFound(asked) => CallIsRight,
         UNCHANGED <<ids, pc, lookup, asked, todo, offsets, data, failures>>,
         cache'.maxSize = cache.maxSize
  PROVE  (~HeaderIsFound(asked) => CallIsRight)'
<1>1. HeaderIsFound(asked)' <=> HeaderIsFound(asked)
  BY SameFile DEF HeaderIsFound
<1>2. \A r, i : IsRecordOf(r, i)' <=> IsRecordOf(r, i)
  BY DEF IsRecordOf, IsActive
<1>3. CallIsRight => CallIsRight'
  BY <1>2, SameFile DEF CallIsRight
<1>4. QED
  BY <1>1, <1>3

\* So it is for the result of the last call,
LEMMA ResultStays ==
  ASSUME ~HeaderIsFound(asked) => ResultIsRight, UNCHANGED <<ids, asked, result>>,
         failures \in Nat, failures' = failures \/ failures' = failures + 1,
         cache'.maxSize = cache.maxSize
  PROVE  (~HeaderIsFound(asked) => ResultIsRight)'
<1>1. HeaderIsFound(asked)' <=> HeaderIsFound(asked)
  BY SameFile DEF HeaderIsFound
<1>2. \A r, i : IsRecordOf(r, i) => IsRecordOf(r, i)'
  <2>1. failures > 0 => failures' > 0
    OBVIOUS
  <2>2. QED
    BY <2>1 DEF IsRecordOf, IsActive
<1>3. There(asked)' = There(asked)
  BY SameFile DEF There
<1>4. ResultIsRight => ResultIsRight'
  BY <1>2, <1>3 DEF ResultIsRight, Succeeded
<1>5. QED
  BY <1>1, <1>4

\* and there is nothing to show for a call that has none.
LEMMA NoResult ==
  ASSUME result'.kind # "data"
  PROVE  (~HeaderIsFound(asked) => ResultIsRight)'
  BY DEF ResultIsRight, Succeeded

\* The caches of pages stay right when they are left alone,
LEMMA PagesStay ==
  ASSUME CachesAreRight, UNCHANGED <<ids, cacheSize, leafs>>, IsCacheOf(cache, RecordCells)'
  PROVE  CachesAreRight'
  BY SameFile DEF CachesAreRight

\* and the cache of records.
LEMMA RecordsStay ==
  ASSUME IsCacheOf(cache, RecordCells), UNCHANGED <<ids, cache, failures>>
  PROVE  IsCacheOf(cache, RecordCells)'
<1>1. RecordCells' = RecordCells
  BY SameFile DEF RecordCells
<1>2. QED
  BY <1>1

\* Opening: the root is the page that the levels begin with, and every level below has
\* a cache.
LEMMA PageCounts ==
  ASSUME FileIsIndexed
  PROVE  \A i \in 1..Index.levels : Index.pageCounts[i] \in Nat
<1> DEFINE e == Entries(ids)
           h == Index.levels
<1>1. h \in Nat /\ h < MaxLevels /\ MaxLevels \in Nat /\ e \in Seq(EntrySet)
  BY IndexOfFile
<1>2. Index.pageCounts = [i \in 1..h |-> Len(Levels(e)[h + 1 - i].pages)]
  BY DEF Index, GeneratedIndex
<1> SUFFICES ASSUME NEW i \in 1..h PROVE Index.pageCounts[i] \in Nat
  OBVIOUS
<1> HIDE DEF h
<1>3. h + 1 - i \in 1..MaxLevels
  BY <1>1
<1>4. LevelFits(Levels(e)[h + 1 - i])
  BY <1>1, <1>3, LevelsExist
<1>5. Len(Levels(e)[h + 1 - i].pages) \in Nat
  BY <1>4 DEF LevelFits, LevelSet, Pages
<1>6. QED
  BY <1>2, <1>5

\* The page that Open() reads as the root has the entries of the top level.
LEMMA RootOfIndex ==
  ASSUME FileIsIndexed
  PROVE  PageAt(Index, Index.root) = EntriesOn(0)
<1> DEFINE h == Index.levels
<1>1. h \in Nat
  BY IndexOfFile
<1>2. CASE h = 0
  BY <1>2, IndexOfFile DEF PageAt, EntriesOn
<1>3. CASE h # 0
  <2>1. h > 0
    BY <1>1, <1>3
  <2>2. PageAt(Index, Index.root) = EntriesAt(Entries(ids), h)
    BY <2>1 DEF FileIsIndexed, IsIndexOf
  <2>3. EntriesOn(0) = EntriesAt(Entries(ids), h - 0)
    BY <1>3 DEF EntriesOn
  <2> HIDE DEF h
  <2>4. h - 0 = h
    BY <1>1
  <2>5. QED
    BY <2>2, <2>3, <2>4
<1>4. QED
  BY <1>2, <1>3

\* Open() reads the root, and makes caches that are empty.
LEMMA OpenStep == IInv /\ Open => IInv'
<1> SUFFICES ASSUME IInv, Open PROVE IInv'
  OBVIOUS
<1> DEFINE h == Index.levels
           sizes == CacheSizes(Index, cacheSize)
           old == Len(leafs)
           new == [i \in 1..Len(sizes) |-> NewCache(sizes[i])]
           All == CachesOf(AnyPageCells)
<1>1. FileIsIndexed /\ CachesAreRight /\ IsReady /\ CallFits /\ SearchIsRight
  BY DEF IInv
<1>2. /\ UNCHANGED <<ids, cacheSize, pc, todo, offsets, lookup, data, result, asked, failures, cache>>
      /\ isOpen' = TRUE /\ root' = PageAt(Index, Index.root) /\ leafs' = leafs \o new
  BY DEF Open, fileVars, callVars
<1>3. h \in Nat /\ cacheSize \in Nat /\ \A i \in 1..h : Index.pageCounts[i] \in Nat
  BY <1>1, IndexOfFile, PageCounts DEF CachesAreRight
<1>4. sizes \in Seq(Nat) /\ Len(sizes) = IF h = 0 THEN 0 ELSE h - 1
  BY <1>3, SizesOfCaches
<1>5. \A i \in 1..Len(sizes) : \A cells : IsCacheOf(new[i], cells)
  <2> SUFFICES ASSUME NEW i \in 1..Len(sizes), NEW cells PROVE IsCacheOf(NewCache(sizes[i]), cells)
    OBVIOUS
  <2> HIDE DEF sizes
  <2>1. sizes[i] \in Nat
    BY <1>4
  <2>2. QED
    BY <2>1, NewCacheOf
<1>6. new \in Seq(All) /\ Len(new) = Len(sizes) /\ Len(sizes) \in Nat
  <2>1. \A i \in 1..Len(sizes) : new[i] \in All
    BY <1>5 DEF IsCacheOf
  <2> HIDE DEF sizes, All
  <2>2. Len(sizes) \in Nat
    BY <1>4
  <2>3. new \in [1..Len(sizes) -> All]
    BY <2>1
  <2> HIDE DEF new
  <2>4. QED
    BY <2>2, <2>3
<1> HIDE DEF new, sizes, All
<1>7. /\ leafs \in Seq(All) /\ leafs' \in Seq(All) /\ old \in Nat
      /\ Len(leafs') = old + Len(new)
      /\ \A k \in 1..old : leafs'[k] = leafs[k]
      /\ \A k \in 1..Len(new) : leafs'[old + k] = new[k]
  <2>1. leafs \in Seq(All)
    BY <1>1 DEF CachesAreRight, All
  <2>2. old \in Nat
    BY <2>1
  <2>3. /\ leafs \o new \in Seq(All) /\ Len(leafs \o new) = Len(leafs) + Len(new)
        /\ \A k \in 1..Len(leafs) : (leafs \o new)[k] = leafs[k]
        /\ \A k \in 1..Len(new) : (leafs \o new)[Len(leafs) + k] = new[k]
    BY <1>6, <2>1, ConcatenationFacts
  <2>4. QED
    BY <1>2, <2>1, <2>2, <2>3
<1>8. \A n \in 1..h - 1 : n <= Len(leafs') => IsCacheOf(leafs'[n], PageCells(n))
  <2> SUFFICES ASSUME NEW n \in 1..h - 1, n <= Len(leafs')
               PROVE  IsCacheOf(leafs'[n], PageCells(n))
    OBVIOUS
  <2>1. CASE n <= old
    <3>1. n \in 1..old
      BY <1>7, <2>1
    <3>2. IsCacheOf(leafs[n], PageCells(n))
      BY <1>1, <2>1 DEF CachesAreRight
    <3>3. QED
      BY <1>7, <3>1, <3>2
  <2>2. CASE ~(n <= old)
    <3> DEFINE k == n - old
    <3>1. k \in 1..Len(new) /\ old + k = n
      <4> HIDE DEF h, old
      <4>1. QED
        BY <1>3, <1>6, <1>7, <2>2
    <3> HIDE DEF k
    <3>2. leafs'[n] = new[k]
      BY <1>7, <3>1
    <3>3. QED
      BY <1>5, <1>6, <3>1, <3>2
  <2>3. QED
    BY <2>1, <2>2
<1>9. FileIsIndexed'
  BY <1>1, <1>2, SameFile
<1>10. CachesAreRight'
  <2>1. IsCacheOf(cache, RecordCells)'
    BY <1>1, <1>2, RecordsStay DEF CachesAreRight
  <2>2. Index' = Index /\ \A n : PageCells(n)' = PageCells(n)
    BY <1>2, SameFile
  <2>3. QED
    BY <1>2, <1>3, <1>7, <1>8, <2>1, <2>2 DEF CachesAreRight, All
<1>11. IsReady'
  <2>1. root' = EntriesOn(0)
    BY <1>1, <1>2, RootOfIndex
  <2>2. EntriesOn(0)' = EntriesOn(0) /\ Index' = Index
    BY <1>2, SameFile
  <2>3. h - 1 <= Len(leafs')
    <3> HIDE DEF h, old
    <3>1. QED
      BY <1>3, <1>4, <1>6, <1>7
  <2>4. pc \in {"idle", "lookup", "descend", "read"}
    BY <1>1 DEF IsReady
  <2>5. QED
    BY <1>2, <2>1, <2>2, <2>3, <2>4 DEF IsReady
<1>12. CallFits'
  BY <1>1, <1>2 DEF CallFits
<1>13. SearchIsRight'
  BY <1>1, <1>2, SearchStays
<1>14. (~HeaderIsFound(asked) => CallIsRight)'
  BY <1>2, CallStays DEF IInv
<1>15. (~HeaderIsFound(asked) => ResultIsRight)'
  BY <1>1, <1>2, ResultStays DEF IInv, CallFits
<1>16. QED
  BY <1>9, <1>10, <1>11, <1>12, <1>13, <1>14, <1>15 DEF IInv

\* Close() leaves what the caches hold.
LEMMA CloseStep == IInv /\ Close => IInv'
<1> SUFFICES ASSUME IInv, Close PROVE IInv'
  OBVIOUS
<1>1. FileIsIndexed /\ CachesAreRight /\ IsReady /\ CallFits /\ SearchIsRight
  BY DEF IInv
<1>2. /\ UNCHANGED <<ids, cacheSize, pc, todo, offsets, lookup, data, result, asked, failures, leafs>>
      /\ pc = "idle" /\ isOpen' = FALSE /\ cache' = Flush(cache)
  BY DEF Close, fileVars, callVars, boundVars
<1>3. IsCacheOf(cache', RecordCells) /\ cache'.maxSize = cache.maxSize
  BY <1>1, <1>2, FlushKeeps DEF CachesAreRight
<1>4. FileIsIndexed'
  BY <1>1, <1>2, SameFile
<1>5. CachesAreRight'
  <2>1. RecordCells' = RecordCells
    BY <1>2, SameFile DEF RecordCells
  <2>2. QED
    BY <1>1, <1>2, <1>3, <2>1, PagesStay
<1>6. IsReady'
  BY <1>2 DEF IsReady
<1>7. CallFits'
  BY <1>1, <1>2 DEF CallFits
<1>8. SearchIsRight'
  BY <1>1, <1>2, SearchStays
<1>9. (~HeaderIsFound(asked) => CallIsRight)'
  BY <1>2, <1>3, CallStays DEF IInv
<1>10. (~HeaderIsFound(asked) => ResultIsRight)'
  BY <1>1, <1>2, <1>3, ResultStays DEF IInv, CallFits
<1>11. QED
  BY <1>4, <1>5, <1>6, <1>7, <1>8, <1>9, <1>10 DEF IInv

\* A call begins with all of its ids.
LEMMA GetStep == IInv /\ (\E request \in Requests : Get(request)) => IInv'
<1> SUFFICES ASSUME IInv, NEW request \in Requests, Get(request) PROVE IInv'
  OBVIOUS
<1>1. FileIsIndexed /\ CachesAreRight /\ IsReady /\ CallFits /\ SearchIsRight
  BY DEF IInv
<1>2. /\ UNCHANGED <<ids, cacheSize, isOpen, root, leafs, cache, lookup, failures>>
      /\ isOpen /\ pc' = "lookup" /\ todo' = request /\ asked' = request
      /\ offsets' = <<>> /\ data' = <<>> /\ result' = [kind |-> "none"]
  BY DEF Get, fileVars, indexVars
<1>3. request \in Seq(Nat \ {0}) /\ Len(request) \in Nat
  <2>1. PICK n \in 1..MaxRequestSize : request \in [1..n -> Ids]
    BY DEF Requests
  <2>2. Ids \subseteq Nat \ {0} /\ MaxRequestSize \in Nat
    BY IndexedFileAssumption
  <2>3. n \in Nat
    BY <2>2
  <2>4. request \in [1..n -> Nat \ {0}]
    BY <2>1, <2>2
  <2>5. QED
    BY <2>3, <2>4
<1>4. FileIsIndexed'
  BY <1>1, <1>2, SameFile
<1>5. CachesAreRight'
  BY <1>1, <1>2, PagesStay, RecordsStay DEF CachesAreRight
<1>6. IsReady'
  <2>1. EntriesOn(0)' = EntriesOn(0) /\ Index' = Index
    BY <1>2, SameFile
  <2>2. QED
    BY <1>1, <1>2, <2>1 DEF IsReady
<1>7. CallFits'
  <2>1. request \in Seq(Nat) /\ <<>> \in Seq(Nat)
    BY <1>3
  <2>2. QED
    BY <1>1, <1>2, <1>3, <2>1 DEF CallFits
<1>8. SearchIsRight'
  BY <1>2 DEF SearchIsRight
<1>9. CallIsRight'
  <2>1. IsRest(request, request)
    BY <1>3 DEF IsRest
  <2>2. Len(request) - Len(request) = 0
    BY <1>3
  <2>3. AreOffsetsOf(<<>>, Found(request, 0))
    <3>1. Found(request, 0) = <<>>
      BY <1>3, FoundSteps
    <3>2. QED
      BY <3>1 DEF AreOffsetsOf
  <2>4. AreOffsetsOf(<<>>, Found(request, 0))'
    BY <1>2, <2>3, SameFile
  <2>5. QED
    BY <1>2, <2>1, <2>2, <2>4 DEF CallIsRight
<1>10. (~HeaderIsFound(asked) => ResultIsRight)'
  BY <1>2, NoResult
<1>11. QED
  BY <1>4, <1>5, <1>6, <1>7, <1>8, <1>9, <1>10 DEF IInv

\* What is left of a list after one more of its elements.
LEMMA RestOfTail ==
  ASSUME NEW list, Len(list) \in Nat, NEW rest \in Seq(Nat), rest # <<>>, IsRest(rest, list)
  PROVE  /\ Tail(rest) \in Seq(Nat) /\ Head(rest) \in Nat
         /\ Len(rest) \in Nat \ {0} /\ Len(Tail(rest)) = Len(rest) - 1
         /\ IsRest(Tail(rest), list) /\ Len(Tail(rest)) < Len(list)
         /\ Head(rest) = list[Len(list) - Len(Tail(rest))]
         /\ Len(list) - Len(rest) = Len(list) - Len(Tail(rest)) - 1
         /\ Len(list) - Len(Tail(rest)) \in 1..Len(list)
<1> DEFINE n == Len(list)
           m == Len(rest)
           tail == Tail(rest)
<1>1. m \in Nat \ {0} /\ tail \in Seq(Nat) /\ Len(tail) = m - 1 /\ Head(rest) = rest[1]
      /\ rest[1] \in Nat
      /\ \A i \in 1..m - 1 : tail[i] = rest[i + 1]
  OBVIOUS
<1>2. n \in Nat /\ m <= n /\ \A i \in 1..m : rest[i] = list[n - m + i]
  BY DEF IsRest
<1> HIDE DEF n, m, tail
<1>3. 1 \in 1..m /\ n - (m - 1) = n - m + 1 /\ n - m = n - (m - 1) - 1
      /\ n - (m - 1) \in 1..n /\ m - 1 < n
  BY <1>1, <1>2
<1>4. Head(rest) = list[n - Len(tail)]
  BY <1>1, <1>2, <1>3
<1>5. \A i \in 1..m - 1 : tail[i] = list[n - (m - 1) + i]
  <2> SUFFICES ASSUME NEW i \in 1..m - 1 PROVE tail[i] = list[n - (m - 1) + i]
    OBVIOUS
  <2>1. i + 1 \in 1..m /\ n - m + (i + 1) = n - (m - 1) + i
    BY <1>1, <1>2
  <2>2. QED
    BY <1>1, <1>2, <2>1
<1>6. IsRest(tail, list)
  <2>1. m - 1 <= n
    BY <1>1, <1>2
  <2>2. QED
    BY <1>1, <1>5, <2>1 DEF IsRest, n
<1>7. QED
  BY <1>1, <1>3, <1>4, <1>6 DEF n, m, tail

\* The id that is looked for next.
LEMMA NextId ==
  ASSUME CallFits, pc = "lookup", todo # <<>>, CallIsRight
  PROVE  LET n == Len(asked) - Len(todo) + 1
         IN  /\ n \in 1..Len(asked) /\ Head(todo) = asked[n] /\ n = Len(asked) - Len(Tail(todo))
             /\ IsRest(Tail(todo), asked) /\ Len(Tail(todo)) < Len(asked)
             /\ AreOffsetsOf(offsets, Found(asked, n - 1))
             /\ Len(asked) - Len(Tail(todo)) - 1 = n - 1
<1>1. asked \in Seq(Nat \ {0}) /\ todo \in Seq(Nat)
  BY DEF CallFits
<1>2. IsRest(todo, asked) /\ AreOffsetsOf(offsets, Found(asked, Len(asked) - Len(todo)))
  BY DEF CallIsRight
<1> DEFINE l == Len(asked)
           m == Len(todo)
           t == Len(Tail(todo))
<1>3. l \in Nat
  BY <1>1
<1>4. /\ m \in Nat \ {0} /\ t = m - 1 /\ IsRest(Tail(todo), asked) /\ t < l
      /\ Head(todo) = asked[l - t] /\ l - m = l - t - 1 /\ l - t \in 1..l
  BY <1>1, <1>2, <1>3, RestOfTail
<1> HIDE DEF l, m, t
<1>5. l - t = l - m + 1 /\ (l - m + 1) - 1 = l - m /\ l - t - 1 = (l - m + 1) - 1
  BY <1>3, <1>4
<1>6. QED
  BY <1>2, <1>4, <1>5 DEF l, m, t

\* An id that is not in the file is left out.
LEMMA NotFound ==
  ASSUME NEW request \in Seq(Nat \ {0}), NEW n \in 1..Len(request), ~IsInFile(request[n])
  PROVE  Found(request, n) = Found(request, n - 1)
  BY FoundSteps

\* GetOffset() begins in the root with the last entry that is not above the id.
LEMMA StartLookupStep == IInv /\ StartLookup => IInv'
<1> SUFFICES ASSUME IInv, StartLookup PROVE IInv'
  OBVIOUS
<1>1. FileIsIndexed /\ CachesAreRight /\ IsReady /\ CallFits
  BY DEF IInv
<1> DEFINE id == Head(todo)
           page == EntriesOn(0)
           i == GetPageIndex(page, id)
<1>2. /\ UNCHANGED <<ids, cacheSize, isOpen, root, leafs, cache, offsets, data, result, asked, failures>>
      /\ pc = "lookup" /\ todo # <<>> /\ todo' = Tail(todo)
      /\ FollowEntry(root, id, 0)
  BY DEF StartLookup, fileVars, indexVars, boundVars
<1>3. isOpen /\ root = page
  BY <1>1, <1>2 DEF IsReady
<1>4. todo \in Seq(Nat) /\ id \in Nat /\ Tail(todo) \in Seq(Nat)
  <2>1. todo \in Seq(Nat)
    BY <1>1 DEF CallFits
  <2>2. QED
    BY <1>2, <2>1
<1>5. page \in Seq(EntrySet) /\ page # <<>> /\ Ascending(page)
  BY <1>1, EntriesOfLevel
<1>6. IF IndexIsValid(page, i)
      THEN /\ pc' = "descend"
           /\ lookup' = [id |-> id, startId |-> page[i].startId,
                         offset |-> page[i].fileOffset, level |-> 0]
      ELSE pc' = "lookup"
  BY <1>2, <1>3 DEF FollowEntry
<1>7. IF page[1].startId <= id THEN IndexIsValid(page, i) /\ IsLast(page, id, i)
                               ELSE ~IndexIsValid(page, i) /\ ~IsInFile(id)
  <2> HIDE DEF id
  <2>1. CASE page[1].startId <= id
    <3>1. PICK q : IsLast(page, id, q)
      BY <1>4, <1>5, <2>1, LastExists
    <3>2. i = q
      BY <1>4, <1>5, <3>1, SearchFinds
    <3>3. q <= Len(page)
      BY <1>5, <3>1 DEF IsLast
    <3> HIDE DEF page
    <3>4. QED
      BY <2>1, <3>1, <3>2, <3>3 DEF IndexIsValid
  <2>2. CASE ~(page[1].startId <= id)
    <3> DEFINE len == Len(page)
    <3>1. len \in Nat \ {0} /\ \A k \in 1..len : page[k].startId \in Nat
      <4> HIDE DEF page
      <4>1. len \in Nat \ {0} /\ \A k \in 1..len : page[k] \in EntrySet
        BY <1>5
      <4>2. QED
        BY <4>1 DEF EntrySet
    <3>2. \A a, b \in 1..len : a < b => page[a].startId < page[b].startId
      BY <1>5 DEF Ascending
    <3> HIDE DEF page, len
    <3>3. 1 \in 1..len /\ page[1].startId > id
      BY <1>4, <2>2, <3>1
    <3>4. ASSUME NEW k \in 1..len PROVE page[k].startId > id
      <4>1. k = 1 \/ page[1].startId < page[k].startId
        BY <3>1, <3>2, <3>3
      <4>2. page[1].startId \in Nat /\ page[k].startId \in Nat
        BY <3>1, <3>3
      <4>3. QED
        BY <1>4, <3>3, <4>1, <4>2
    <3>5. i = len + 1
      BY <1>4, <1>5, <3>4, SearchMisses DEF len
    <3>6. ~IndexIsValid(page, i)
      BY <3>1, <3>5 DEF IndexIsValid, len
    <3>7. ~IsInFile(id)
      BY <1>1, <1>4, <3>3, IdBelowAll DEF page
    <3>8. QED
      BY <2>2, <3>6, <3>7
  <2>3. QED
    BY <2>1, <2>2
<1> HIDE DEF i, page, id
<1>8. FileIsIndexed'
  BY <1>1, <1>2, SameFile
<1>9. CachesAreRight'
  BY <1>1, <1>2, PagesStay, RecordsStay DEF CachesAreRight
<1>10. IsReady'
  <2>1. EntriesOn(0)' = EntriesOn(0) /\ Index' = Index
    BY <1>2, SameFile
  <2>2. pc' \in {"lookup", "descend"}
    BY <1>6
  <2>3. QED
    BY <1>1, <1>2, <1>3, <2>1, <2>2 DEF IsReady
<1>11. CallFits'
  BY <1>1, <1>2, <1>4 DEF CallFits
<1>12. SearchIsRight'
  <2> SUFFICES ASSUME pc' = "descend" PROVE SearchIsRight'
    BY DEF SearchIsRight
  <2>1. IsLast(page, id, i) /\ lookup' = [id |-> id, startId |-> page[i].startId,
                                          offset |-> page[i].fileOffset, level |-> 0]
    BY <1>6, <1>7
  <2>2. /\ lookup'.id = id /\ lookup'.level = 0 /\ lookup'.startId = page[i].startId
        /\ lookup'.offset = page[i].fileOffset
    BY <2>1
  <2>3. EntriesOn(0)' = page /\ \A n : EntriesOn(n)' = EntriesOn(n)
    BY <1>2, SameFile DEF page
  <2>4. QED
    BY <1>4, <2>1, <2>2, <2>3 DEF SearchIsRight, page
<1>13. (~HeaderIsFound(asked) => CallIsRight)'
  <2>1. HeaderIsFound(asked)' <=> HeaderIsFound(asked)
    BY <1>2, SameFile DEF HeaderIsFound
  <2> SUFFICES ASSUME ~HeaderIsFound(asked) PROVE CallIsRight'
    BY <2>1
  <2> DEFINE n == Len(asked) - Len(todo) + 1
             t == Tail(todo)
  <2>2. CallIsRight /\ data = <<>>
    BY <1>2 DEF IInv, CallIsRight
  <2>3. /\ n \in 1..Len(asked) /\ id = asked[n] /\ n = Len(asked) - Len(t)
        /\ IsRest(t, asked) /\ Len(t) < Len(asked)
        /\ AreOffsetsOf(offsets, Found(asked, n - 1))
        /\ Len(asked) - Len(t) - 1 = n - 1
    BY <1>1, <1>2, <2>2, NextId DEF id
  <2> HIDE DEF n, t
  <2>4. CASE pc' = "descend"
    <3>1. lookup'.id = id
      BY <1>6, <2>4
    <3>2. AreOffsetsOf(offsets, Found(asked, Len(asked) - Len(t) - 1))
      BY <2>3
    <3>3. QED
      BY <1>2, <2>2, <2>3, <2>4, <3>1, <3>2, SameFile DEF CallIsRight, t
  <2>5. CASE pc' # "descend"
    <3>1. pc' = "lookup" /\ ~IsInFile(id)
      BY <1>6, <1>7, <2>5
    <3>2. Found(asked, n) = Found(asked, n - 1)
      <4>1. asked \in Seq(Nat \ {0})
        BY <1>1 DEF CallFits
      <4>2. QED
        BY <2>3, <3>1, <4>1, NotFound
    <3>3. AreOffsetsOf(offsets, Found(asked, Len(asked) - Len(t)))
      BY <2>3, <3>2
    <3>4. QED
      BY <1>2, <2>2, <2>3, <3>1, <3>3, SameFile DEF CallIsRight, t
  <2>6. QED
    BY <2>4, <2>5
<1>14. (~HeaderIsFound(asked) => ResultIsRight)'
  BY <1>1, <1>2, ResultStays DEF IInv, CallFits
<1>15. QED
  BY <1>8, <1>9, <1>10, <1>11, <1>12, <1>13, <1>14 DEF IInv

\* The cells of a cache of pages are pages of the level.
LEMMA CellsArePages ==
  ASSUME FileIsIndexed, NEW n \in Nat \ {0}, n < Index.levels
  PROVE  /\ PageCells(n) \subseteq AnyPageCells
         /\ \A k \in 1..Len(PagesOn(n)) :
              /\ PagesOn(n)[k] \in Seq(EntrySet) /\ PagesOn(n)[k] # <<>>
              /\ PagesOn(n)[k][1].startId \in Nat
<1> DEFINE pages == PagesOn(n)
<1>1. pages \in Pages /\ IsCut(pages, EntriesOn(n), Len(EntriesOn(n)))
  BY PagesOfLevel
<1>2. \A k \in 1..Len(pages) : pages[k] \in Seq(EntrySet) /\ pages[k] # <<>>
  BY <1>1, PagesHaveEntries
<1> HIDE DEF pages
<1>3. \A k \in 1..Len(pages) : pages[k][1].startId \in Nat
  <2> SUFFICES ASSUME NEW k \in 1..Len(pages) PROVE pages[k][1].startId \in Nat
    OBVIOUS
  <2> DEFINE page == pages[k]
  <2>1. page \in Seq(EntrySet) /\ page # <<>>
    BY <1>2
  <2> HIDE DEF page
  <2>2. page[1] \in EntrySet
    BY <2>1
  <2>3. QED
    BY <2>2 DEF EntrySet, page
<1>4. ASSUME NEW cell \in PageCells(n) PROVE cell \in AnyPageCells
  <2>1. PICK k \in 1..Len(pages) : cell = Cell(pages[k][1].startId, pages[k])
    BY DEF PageCells, PageCell, pages
  <2>2. QED
    BY <1>2, <1>3, <2>1 DEF Cell, AnyPageCells
<1>5. QED
  BY <1>2, <1>3, <1>4 DEF pages

\* A page is found in a cache by its first id, as no other page begins with it.
LEMMA PageOfKey ==
  ASSUME FileIsIndexed, NEW n \in Nat \ {0}, n < Index.levels,
         NEW q \in 1..Len(PagesOn(n)), NEW cell \in PageCells(n),
         cell.key = PagesOn(n)[q][1].startId
  PROVE  cell.value = PagesOn(n)[q]
<1> DEFINE pages == PagesOn(n)
           above == EntriesOn(n - 1)
           l == Len(pages)
<1>1. /\ Len(above) = l /\ pages \in Pages
      /\ \A k \in 1..l : above[k].startId = pages[k][1].startId
  BY PagesOfLevel
<1>2. Ascending(above)
  <2>1. n - 1 \in Nat /\ n - 1 < Index.levels
    <3> DEFINE h == Index.levels
    <3>1. h \in Nat /\ n < h
      BY IndexOfFile
    <3> HIDE DEF h
    <3>2. n - 1 \in Nat /\ n - 1 < h
      BY <3>1
    <3>3. QED
      BY <3>2 DEF h
  <2>2. QED
    BY <2>1, EntriesOfLevel
<1>3. PICK k \in 1..l : cell = Cell(pages[k][1].startId, pages[k])
  BY DEF PageCells, PageCell
<1>4. cell.key = pages[k][1].startId /\ cell.value = pages[k]
  BY <1>3 DEF Cell
<1>5. \A a \in 1..l : pages[a][1].startId \in Nat
  BY CellsArePages
<1>6. \A a, b \in 1..l : a < b => pages[a][1].startId < pages[b][1].startId
  BY <1>1, <1>2 DEF Ascending
<1>7. l \in Nat
  BY <1>1 DEF Pages
<1> HIDE DEF pages, above, l
<1>8. q \in 1..l /\ cell.key = pages[q][1].startId
  BY DEF pages, l
<1>9. k = q
  <2>1. k < q \/ k = q \/ q < k
    BY <1>7, <1>8
  <2> DEFINE x == pages[k][1].startId
             y == pages[q][1].startId
  <2>2. x \in Nat /\ y \in Nat /\ x = y
    BY <1>4, <1>5, <1>8
  <2>3. (k < q => x < y) /\ (q < k => y < x)
    BY <1>6, <1>8
  <2> HIDE DEF x, y
  <2>4. QED
    BY <2>1, <2>2, <2>3
<1>10. QED
  BY <1>4, <1>9 DEF pages

\* The page that a search goes to next.
LEMMA NextPage ==
  ASSUME IInv, pc = "descend", ~AtLeaf, NEW n, n = lookup.level + 1
  PROVE  /\ n \in Nat \ {0} /\ n < Index.levels
         /\ n \in 1..Index.levels - 1 /\ n \in 1..Len(leafs) /\ lookup.id \in Nat
         /\ IsCacheOf(leafs[n], PageCells(n))
         /\ \E q \in 1..Len(PagesOn(n)) :
              /\ IsLast(EntriesOn(n - 1), lookup.id, q)
              /\ lookup.startId = PagesOn(n)[q][1].startId
              /\ PageAt(Index, lookup.offset) = PagesOn(n)[q]
<1> DEFINE h == Index.levels
           m == lookup.level
<1>1. FileIsIndexed /\ CachesAreRight /\ IsReady /\ SearchIsRight
  BY DEF IInv
<1>2. h \in Nat /\ m \in Nat /\ lookup.id \in Nat /\ ~(m + 2 > h)
  BY <1>1, IndexOfFile DEF SearchIsRight, AtLeaf
<1>3. PICK q : /\ IsLast(EntriesOn(m), lookup.id, q)
               /\ lookup.startId = EntriesOn(m)[q].startId
               /\ lookup.offset = EntriesOn(m)[q].fileOffset
  BY <1>1 DEF SearchIsRight
<1>4. leafs \in Seq(CachesOf(AnyPageCells)) /\ h - 1 <= Len(leafs) /\ Len(leafs) \in Nat
  <2>1. leafs \in Seq(CachesOf(AnyPageCells))
    BY <1>1 DEF CachesAreRight
  <2>2. isOpen
    BY <1>1 DEF IsReady
  <2>3. QED
    BY <1>1, <2>1, <2>2 DEF IsReady
<1> DEFINE len == Len(leafs)
<1>5. n = m + 1 /\ h - 1 <= len /\ len \in Nat
  BY <1>4
<1> HIDE DEF h, m, len
<1>6. /\ n \in Nat \ {0} /\ n < h /\ n \in 1..h - 1 /\ n \in 1..len /\ n - 1 = m
      /\ n <= len
  BY <1>2, <1>5
<1>7. IsCacheOf(leafs[n], PageCells(n))
  BY <1>1, <1>6 DEF CachesAreRight, h, len
<1>8. /\ Len(EntriesOn(n - 1)) = Len(PagesOn(n))
      /\ \A k \in 1..Len(PagesOn(n)) :
           /\ EntriesOn(n - 1)[k].startId = PagesOn(n)[k][1].startId
           /\ PageAt(Index, EntriesOn(n - 1)[k].fileOffset) = PagesOn(n)[k]
  BY <1>1, <1>6, PagesOfLevel DEF h
<1>9. q \in 1..Len(PagesOn(n))
  BY <1>3, <1>6, <1>8 DEF IsLast
<1>10. QED
  BY <1>2, <1>3, <1>6, <1>7, <1>8, <1>9 DEF h, len

\* Whatever the page comes from, the search goes on there, and the cache of its level
\* is as right as before.
LEMMA PageStep ==
  ASSUME IInv, pc = "descend", ~AtLeaf, NEW n, n = lookup.level + 1,
         NEW page, NEW c,
         \A q \in 1..Len(PagesOn(n)) :
           (/\ lookup.startId = PagesOn(n)[q][1].startId
            /\ PageAt(Index, lookup.offset) = PagesOn(n)[q]) => page = PagesOn(n)[q],
         IsCacheOf(c, PageCells(n)), leafs' = [leafs EXCEPT ![n] = c],
         FollowEntry(page, lookup.id, n),
         UNCHANGED <<fileVars, isOpen, root, cache, todo, offsets, data, result, asked, boundVars>>
  PROVE  IInv'
<1>1. FileIsIndexed /\ CachesAreRight /\ IsReady /\ CallFits
  BY DEF IInv
<1>2. /\ n \in Nat \ {0} /\ n < Index.levels
      /\ n \in 1..Index.levels - 1 /\ n \in 1..Len(leafs) /\ lookup.id \in Nat
  BY NextPage
<1>3. PICK q \in 1..Len(PagesOn(n)) :
        /\ IsLast(EntriesOn(n - 1), lookup.id, q)
        /\ lookup.startId = PagesOn(n)[q][1].startId
        /\ PageAt(Index, lookup.offset) = PagesOn(n)[q]
  BY NextPage
<1>4. page = PagesOn(n)[q]
  BY <1>3
<1> DEFINE i == GetPageIndex(page, lookup.id)
<1>5. /\ IndexIsValid(page, i)
      /\ \E r : IsLast(EntriesOn(n), lookup.id, r) /\ page[i] = EntriesOn(n)[r]
  BY <1>1, <1>2, <1>3, <1>4, SearchGoesOn
<1>6. /\ pc' = "descend"
      /\ lookup' = [id |-> lookup.id, startId |-> page[i].startId,
                    offset |-> page[i].fileOffset, level |-> n]
  BY <1>5 DEF FollowEntry
<1>7. UNCHANGED <<ids, cacheSize, isOpen, root, cache, todo, offsets, data, result, asked, failures>>
  BY DEF fileVars, boundVars
<1> HIDE DEF i
<1>8. FileIsIndexed'
  BY <1>1, <1>7, SameFile
<1>9. leafs \in Seq(CachesOf(AnyPageCells)) /\ c \in CachesOf(AnyPageCells)
  <2>1. leafs \in Seq(CachesOf(AnyPageCells))
    BY <1>1 DEF CachesAreRight
  <2>2. PageCells(n) \subseteq AnyPageCells
    BY <1>1, <1>2, CellsArePages
  <2>3. IsCacheOf(c, AnyPageCells)
    BY <2>2, CacheOfMore
  <2>4. QED
    BY <2>1, <2>3 DEF IsCacheOf
<1> DEFINE All == CachesOf(AnyPageCells)
<1>10. /\ leafs' \in Seq(All) /\ Len(leafs') = Len(leafs) /\ leafs'[n] = c
       /\ \A k \in 1..Len(leafs) : k # n => leafs'[k] = leafs[k]
  <2> HIDE DEF All
  <2>1. leafs \in Seq(All) /\ c \in All
    BY <1>9 DEF All
  <2>2. QED
    BY <1>2, <2>1
<1>11. CachesAreRight'
  <2>1. IsCacheOf(cache, RecordCells)'
    BY <1>1, <1>7, RecordsStay DEF CachesAreRight
  <2>2. \A k \in 1..Index.levels - 1 : k <= Len(leafs') => IsCacheOf(leafs'[k], PageCells(k))
    <3> SUFFICES ASSUME NEW k \in 1..Index.levels - 1, k <= Len(leafs')
                 PROVE  IsCacheOf(leafs'[k], PageCells(k))
      OBVIOUS
    <3>1. CASE k = n
      BY <1>10, <3>1
    <3>2. CASE k # n
      <4>1. k \in 1..Len(leafs)
        <5> DEFINE len == Len(leafs)
        <5>1. len \in Nat /\ k <= len
          BY <1>9, <1>10
        <5> HIDE DEF len
        <5>2. k \in 1..len
          BY <5>1
        <5>3. QED
          BY <5>2 DEF len
      <4>2. leafs'[k] = leafs[k] /\ k <= Len(leafs)
        BY <1>10, <3>2, <4>1
      <4>3. IsCacheOf(leafs[k], PageCells(k))
        BY <1>1, <4>2 DEF CachesAreRight
      <4>4. QED
        BY <4>2, <4>3
    <3>3. QED
      BY <3>1, <3>2
  <2>3. Index' = Index /\ \A k : PageCells(k)' = PageCells(k)
    BY <1>7, SameFile
  <2>4. cacheSize' \in Nat
    BY <1>1, <1>7 DEF CachesAreRight
  <2>5. QED
    BY <1>10, <2>1, <2>2, <2>3, <2>4 DEF CachesAreRight
<1>12. IsReady'
  <2>1. EntriesOn(0)' = EntriesOn(0) /\ Index' = Index
    BY <1>7, SameFile
  <2>2. QED
    BY <1>1, <1>6, <1>7, <1>10, <2>1 DEF IsReady
<1>13. CallFits'
  BY <1>1, <1>7 DEF CallFits
<1>14. SearchIsRight'
  <2>1. PICK r : IsLast(EntriesOn(n), lookup.id, r) /\ page[i] = EntriesOn(n)[r]
    BY <1>5
  <2>2. /\ lookup'.id = lookup.id /\ lookup'.level = n /\ lookup'.startId = page[i].startId
        /\ lookup'.offset = page[i].fileOffset
    BY <1>6
  <2>3. Index' = Index /\ \A k : EntriesOn(k)' = EntriesOn(k)
    BY <1>7, SameFile
  <2>4. QED
    BY <1>2, <2>1, <2>2, <2>3 DEF SearchIsRight
<1>15. (~HeaderIsFound(asked) => CallIsRight)'
  <2>1. HeaderIsFound(asked)' <=> HeaderIsFound(asked)
    BY <1>7, SameFile DEF HeaderIsFound
  <2> SUFFICES ASSUME ~HeaderIsFound(asked) PROVE CallIsRight'
    BY <2>1
  <2>2. CallIsRight
    BY DEF IInv
  <2>3. lookup'.id = lookup.id
    BY <1>6
  <2>4. QED
    BY <1>6, <1>7, <2>2, <2>3, SameFile DEF CallIsRight
<1>16. (~HeaderIsFound(asked) => ResultIsRight)'
  BY <1>1, <1>7, ResultStays DEF IInv, CallFits
<1>17. QED
  BY <1>8, <1>11, <1>12, <1>13, <1>14, <1>15, <1>16 DEF IInv

\* A page from the cache is the page of its level.
LEMMA PageHitStep == IInv /\ PageHit => IInv'
<1> SUFFICES ASSUME IInv, PageHit PROVE IInv'
  OBVIOUS
<1> DEFINE n == lookup.level + 1
           page == Value(leafs[n], lookup.startId)
           c == GetEntry(leafs[n], lookup.startId)
<1>1. /\ pc = "descend" /\ ~AtLeaf /\ Hit(leafs[n], lookup.startId)
      /\ leafs' = [leafs EXCEPT ![n] = c] /\ FollowEntry(page, lookup.id, n)
      /\ UNCHANGED <<fileVars, isOpen, root, cache, todo, offsets, data, result, asked, boundVars>>
  BY DEF PageHit
<1>2. n \in Nat \ {0} /\ n < Index.levels /\ IsCacheOf(leafs[n], PageCells(n)) /\ FileIsIndexed
  BY <1>1, NextPage DEF IInv
<1> HIDE DEF n
<1>3. IsCacheOf(c, PageCells(n))
  BY <1>2, GetEntryKeeps
<1>4. PICK cell \in PageCells(n) : cell.key = lookup.startId /\ page = cell.value
  BY <1>1, <1>2, HitValue
<1>5. \A q \in 1..Len(PagesOn(n)) :
        lookup.startId = PagesOn(n)[q][1].startId => page = PagesOn(n)[q]
  BY <1>2, <1>4, PageOfKey
<1> HIDE DEF page, c
<1>6. QED
  BY <1>1, <1>3, <1>5, PageStep DEF n

\* So is one that is read from the file, and it may be put into the cache.
LEMMA PageMissStep == IInv /\ PageMiss => IInv'
<1> SUFFICES ASSUME IInv, PageMiss PROVE IInv'
  OBVIOUS
<1> DEFINE n == lookup.level + 1
           page == PageAt(Index, lookup.offset)
           c == SetEntry(leafs[n], lookup.startId, page)
<1>1. /\ pc = "descend" /\ ~AtLeaf /\ ~Hit(leafs[n], lookup.startId)
      /\ leafs' = [leafs EXCEPT ![n] = c] /\ FollowEntry(page, lookup.id, n)
      /\ UNCHANGED <<fileVars, isOpen, root, cache, todo, offsets, data, result, asked, boundVars>>
  BY DEF PageMiss
<1>2. n \in Nat \ {0} /\ n < Index.levels /\ IsCacheOf(leafs[n], PageCells(n)) /\ FileIsIndexed
  BY <1>1, NextPage DEF IInv
<1>3. PICK q \in 1..Len(PagesOn(n)) :
        lookup.startId = PagesOn(n)[q][1].startId /\ page = PagesOn(n)[q]
  BY <1>1, NextPage
<1> HIDE DEF n
<1>4. lookup.startId \in Nat
  BY <1>2, <1>3, CellsArePages
<1>5. Cell(lookup.startId, page) \in PageCells(n)
  BY <1>3 DEF PageCells, PageCell
<1> HIDE DEF page
<1>6. IsCacheOf(c, PageCells(n))
  BY <1>1, <1>2, <1>4, <1>5, SetEntryKeeps
<1> HIDE DEF c
<1>7. QED
  BY <1>1, <1>6, PageStep DEF n, page

\* On the last level the entry is that of the id if the id is in the file.
LEMMA EndLookupStep == IInv /\ EndLookup => IInv'
<1> SUFFICES ASSUME IInv, EndLookup PROVE IInv'
  OBVIOUS
<1>1. FileIsIndexed /\ CachesAreRight /\ IsReady /\ CallFits /\ SearchIsRight
  BY DEF IInv
<1>2. /\ UNCHANGED <<ids, cacheSize, isOpen, root, leafs, cache, todo, data, result, asked, failures>>
      /\ pc = "descend" /\ AtLeaf /\ pc' = "lookup"
      /\ offsets' = IF lookup.startId = lookup.id THEN Append(offsets, lookup.offset) ELSE offsets
  BY DEF EndLookup, fileVars, indexVars, boundVars
<1> DEFINE h == Index.levels
           m == lookup.level
<1>3. h \in Nat /\ m \in Nat /\ lookup.id \in Nat /\ m + 2 > h /\ (m = 0 \/ m < h)
  BY <1>1, <1>2, IndexOfFile DEF SearchIsRight, AtLeaf
<1>4. PICK q : /\ IsLast(EntriesOn(m), lookup.id, q)
               /\ lookup.startId = EntriesOn(m)[q].startId
               /\ lookup.offset = EntriesOn(m)[q].fileOffset
  BY <1>1, <1>2 DEF SearchIsRight
<1>5. ASSUME h = 0 PROVE offsets' \in Seq(Nat) /\ (~HeaderIsFound(asked) => CallIsRight')
  <2>1. EntriesOn(m) = <<Entry(PageSize, 0)>>
    BY <1>5 DEF EntriesOn
  <2>2. Len(EntriesOn(m)) = 1 /\ EntriesOn(m)[1].startId = PageSize
        /\ EntriesOn(m)[1].fileOffset = 0
    BY <2>1 DEF Entry
  <2>3. q = 1
    BY <1>4, <2>2 DEF IsLast
  <2>4. lookup.startId = PageSize /\ lookup.offset = 0 /\ ids = <<>>
    BY <1>1, <1>4, <1>5, <2>2, <2>3, IndexOfFile
  <2>5. offsets' \in Seq(Nat)
    <3>1. offsets \in Seq(Nat)
      BY <1>1 DEF CallFits
    <3>2. Append(offsets, 0) \in Seq(Nat)
      BY <3>1
    <3>3. QED
      BY <1>2, <2>4, <3>1, <3>2
  <2>6. ~HeaderIsFound(asked) => CallIsRight'
    <3> SUFFICES ASSUME ~HeaderIsFound(asked) PROVE CallIsRight'
      OBVIOUS
    <3> DEFINE n == Len(asked) - Len(todo)
    <3>1. /\ IsRest(todo, asked) /\ Len(todo) < Len(asked) /\ lookup.id = asked[n]
          /\ AreOffsetsOf(offsets, Found(asked, n - 1)) /\ data = <<>>
      BY <1>2 DEF IInv, CallIsRight
    <3>2. asked \in Seq(Nat \ {0}) /\ todo \in Seq(Nat)
      BY <1>1 DEF CallFits
    <3>3. n \in 1..Len(asked)
      <4> DEFINE la == Len(asked)
                 lt == Len(todo)
      <4>1. la \in Nat /\ lt \in Nat /\ lt < la
        BY <3>1, <3>2
      <4> HIDE DEF la, lt
      <4>2. la - lt \in 1..la
        BY <4>1
      <4>3. QED
        BY <4>2 DEF la, lt
    <3> HIDE DEF n
    <3>4. lookup.id # PageSize
      BY <2>4, <3>1, <3>3 DEF HeaderIsFound
    <3>5. offsets' = offsets
      BY <1>2, <2>4, <3>4
    <3>6. ~IsInFile(asked[n])
      BY <2>4 DEF IsInFile
    <3>7. AreOffsetsOf(offsets, Found(asked, n))
      BY <3>1, <3>2, <3>3, <3>6, NotFound
    <3>8. QED
      BY <1>2, <3>1, <3>5, <3>7, SameFile DEF CallIsRight, n
  <2>7. QED
    BY <2>5, <2>6
<1>6. ASSUME h # 0 PROVE offsets' \in Seq(Nat) /\ (~HeaderIsFound(asked) => CallIsRight')
  <2>1. m = h - 1 /\ h > 0
    <3> HIDE DEF m, h
    <3>1. QED
      BY <1>3, <1>6
  <2>2. EntriesOn(m) = Entries(ids)
    BY <1>1, <2>1, LastLevel
  <2>3. /\ q \in 1..Len(ids) /\ lookup.startId = ids[q] /\ lookup.offset = OffsetOf(q)
        /\ (IsInFile(lookup.id) <=> ids[q] = lookup.id)
    BY <1>1, <1>3, <1>4, <2>2, IdOfLast
  <2>4. ids[q] \in Nat \ {0} /\ OffsetOf(q) \in Nat
    BY <1>1, <2>3, EntriesOfListing DEF FileIsIndexed
  <2>5. offsets' \in Seq(Nat)
    <3>1. offsets \in Seq(Nat)
      BY <1>1 DEF CallFits
    <3>2. Append(offsets, OffsetOf(q)) \in Seq(Nat)
      BY <2>4, <3>1, AppendFacts
    <3>3. QED
      BY <1>2, <2>3, <3>1, <3>2
  <2>6. ~HeaderIsFound(asked) => CallIsRight'
    <3> SUFFICES ASSUME ~HeaderIsFound(asked) PROVE CallIsRight'
      OBVIOUS
    <3> DEFINE n == Len(asked) - Len(todo)
    <3>1. /\ IsRest(todo, asked) /\ Len(todo) < Len(asked) /\ lookup.id = asked[n]
          /\ AreOffsetsOf(offsets, Found(asked, n - 1)) /\ data = <<>>
      BY <1>2 DEF IInv, CallIsRight
    <3>2. asked \in Seq(Nat \ {0}) /\ todo \in Seq(Nat) /\ offsets \in Seq(Nat)
      BY <1>1 DEF CallFits
    <3>3. n \in 1..Len(asked) /\ n - 1 \in 0..Len(asked)
      <4> DEFINE la == Len(asked)
                 lt == Len(todo)
      <4>1. la \in Nat /\ lt \in Nat /\ lt < la
        BY <3>1, <3>2
      <4> HIDE DEF la, lt
      <4>2. la - lt \in 1..la /\ (la - lt) - 1 \in 0..la
        BY <4>1
      <4>3. QED
        BY <4>2 DEF la, lt
    <3> HIDE DEF n
    <3>4. Found(asked, n - 1) \in Seq(Nat \ {0})
      BY <3>2, <3>3, FoundSteps
    <3>5. AreOffsetsOf(offsets', Found(asked, n))
      <4>1. CASE ids[q] = lookup.id
        <5>1. offsets' = Append(offsets, OffsetOf(q))
          BY <1>2, <2>3, <4>1
        <5>2. Found(asked, n) = Append(Found(asked, n - 1), ids[q])
          BY <2>3, <3>1, <3>2, <3>3, <4>1, FoundSteps
        <5>3. QED
          BY <2>3, <2>4, <3>1, <3>2, <3>4, <5>1, <5>2, MoreOffsets
      <4>2. CASE ids[q] # lookup.id
        <5>1. offsets' = offsets
          BY <1>2, <2>3, <4>2
        <5>2. Found(asked, n) = Found(asked, n - 1)
          BY <2>3, <3>1, <3>2, <3>3, <4>2, NotFound
        <5>3. QED
          BY <3>1, <5>1, <5>2
      <4>3. QED
        BY <4>1, <4>2
    <3>6. QED
      BY <1>2, <3>1, <3>5, SameFile DEF CallIsRight, n
  <2>7. QED
    BY <2>5, <2>6
<1>7. offsets' \in Seq(Nat) /\ (~HeaderIsFound(asked) => CallIsRight')
  BY <1>5, <1>6
<1> HIDE DEF h, m
<1>8. FileIsIndexed'
  BY <1>1, <1>2, SameFile
<1>9. CachesAreRight'
  BY <1>1, <1>2, PagesStay, RecordsStay DEF CachesAreRight
<1>10. IsReady'
  <2>1. EntriesOn(0)' = EntriesOn(0) /\ Index' = Index
    BY <1>2, SameFile
  <2>2. QED
    BY <1>1, <1>2, <2>1 DEF IsReady
<1>11. CallFits'
  BY <1>1, <1>2, <1>7 DEF CallFits
<1>12. SearchIsRight'
  BY <1>2 DEF SearchIsRight
<1>13. (~HeaderIsFound(asked) => CallIsRight)'
  <2>1. HeaderIsFound(asked)' <=> HeaderIsFound(asked)
    BY <1>2, SameFile DEF HeaderIsFound
  <2>2. QED
    BY <1>7, <2>1
<1>14. (~HeaderIsFound(asked) => ResultIsRight)'
  BY <1>1, <1>2, ResultStays DEF IInv, CallFits
<1>15. QED
  BY <1>8, <1>9, <1>10, <1>11, <1>12, <1>13, <1>14 DEF IInv

\* The offsets are all there before the first record is read.
LEMMA StartReadingStep == IInv /\ StartReading => IInv'
<1> SUFFICES ASSUME IInv, StartReading PROVE IInv'
  OBVIOUS
<1>1. FileIsIndexed /\ CachesAreRight /\ IsReady /\ CallFits
  BY DEF IInv
<1>2. /\ UNCHANGED <<ids, cacheSize, isOpen, root, leafs, cache, offsets, lookup, data, result,
                     asked, failures>>
      /\ pc = "lookup" /\ todo = <<>> /\ pc' = "read" /\ todo' = offsets
  BY DEF StartReading, fileVars, indexVars, boundVars
<1>3. asked \in Seq(Nat \ {0}) /\ offsets \in Seq(Nat) /\ data \in Seq(Nat)
  BY <1>1 DEF CallFits
<1>4. FileIsIndexed'
  BY <1>1, <1>2, SameFile
<1>5. CachesAreRight'
  BY <1>1, <1>2, PagesStay, RecordsStay DEF CachesAreRight
<1>6. IsReady'
  <2>1. EntriesOn(0)' = EntriesOn(0) /\ Index' = Index
    BY <1>2, SameFile
  <2>2. QED
    BY <1>1, <1>2, <2>1 DEF IsReady
<1>7. CallFits'
  BY <1>1, <1>2 DEF CallFits
<1>8. SearchIsRight'
  BY <1>2 DEF SearchIsRight
<1>9. (~HeaderIsFound(asked) => CallIsRight)'
  <2>1. HeaderIsFound(asked)' <=> HeaderIsFound(asked)
    BY <1>2, SameFile DEF HeaderIsFound
  <2> SUFFICES ASSUME ~HeaderIsFound(asked) PROVE CallIsRight'
    BY <2>1
  <2>2. data = <<>>
    BY <1>2 DEF IInv, CallIsRight
  <2>3. AreOffsetsOf(offsets, There(asked))
    <3>1. AreOffsetsOf(offsets, Found(asked, Len(asked) - Len(todo)))
      BY <1>2 DEF IInv, CallIsRight
    <3>2. Len(asked) - Len(todo) = Len(asked)
      BY <1>2, <1>3
    <3>3. QED
      BY <3>1, <3>2 DEF There
  <2>4. IsRest(offsets, offsets) /\ Len(data) = Len(offsets) - Len(offsets)
    BY <1>3, <2>2 DEF IsRest
  <2>5. QED
    BY <1>2, <2>2, <2>3, <2>4, SameFile DEF CallIsRight
<1>10. (~HeaderIsFound(asked) => ResultIsRight)'
  BY <1>1, <1>2, ResultStays DEF IInv, CallFits
<1>11. QED
  BY <1>4, <1>5, <1>6, <1>7, <1>8, <1>9, <1>10 DEF IInv

\* A record that is read is the one for the next id, or what a failure has left of it.
LEMMA ReadStep ==
  ASSUME IInv, pc = "read", todo # <<>>, NEW v \in Nat,
         \/ v = RecordAt(Head(todo))
         \/ v = Broken /\ failures > 0 /\ IsActive(cache),
         data' = Append(data, v), todo' = Tail(todo),
         IsCacheOf(cache', RecordCells), cache'.maxSize = cache.maxSize,
         UNCHANGED <<fileVars, isOpen, indexVars, pc, offsets, lookup, result, asked, boundVars>>
  PROVE  IInv'
<1>1. FileIsIndexed /\ CachesAreRight /\ IsReady /\ CallFits
  BY DEF IInv
<1>2. UNCHANGED <<ids, cacheSize, isOpen, root, leafs, pc, offsets, lookup, result, asked, failures>>
  BY DEF fileVars, indexVars, boundVars
<1>3. todo \in Seq(Nat) /\ offsets \in Seq(Nat) /\ data \in Seq(Nat) /\ asked \in Seq(Nat \ {0})
  BY <1>1 DEF CallFits
<1>4. Tail(todo) \in Seq(Nat) /\ Append(data, v) \in Seq(Nat)
  BY <1>3
<1>5. FileIsIndexed'
  BY <1>1, <1>2, SameFile
<1>6. CachesAreRight'
  <2>1. RecordCells' = RecordCells
    BY <1>2, SameFile DEF RecordCells
  <2>2. QED
    BY <1>1, <1>2, <2>1, PagesStay
<1>7. IsReady'
  <2>1. EntriesOn(0)' = EntriesOn(0) /\ Index' = Index
    BY <1>2, SameFile
  <2>2. QED
    BY <1>1, <1>2, <2>1 DEF IsReady
<1>8. CallFits'
  BY <1>1, <1>2, <1>4 DEF CallFits
<1>9. SearchIsRight'
  BY <1>2 DEF SearchIsRight
<1>10. (~HeaderIsFound(asked) => CallIsRight)'
  <2>1. HeaderIsFound(asked)' <=> HeaderIsFound(asked)
    BY <1>2, SameFile DEF HeaderIsFound
  <2> SUFFICES ASSUME ~HeaderIsFound(asked) PROVE CallIsRight'
    BY <2>1
  <2> DEFINE there == There(asked)
             t == Tail(todo)
             d == Append(data, v)
             n == Len(data)
  <2>2. /\ AreOffsetsOf(offsets, there) /\ IsRest(todo, offsets)
        /\ n = Len(offsets) - Len(todo)
        /\ \A i \in 1..n : IsRecordOf(data[i], there[i])
    BY DEF IInv, CallIsRight
  <2>3. Len(offsets) \in Nat /\ n \in Nat /\ Len(d) = n + 1 /\ d[n + 1] = v
        /\ \A i \in 1..n : d[i] = data[i]
    BY <1>3, AppendFacts
  <2>4. /\ IsRest(t, offsets) /\ Head(todo) = offsets[Len(offsets) - Len(t)]
        /\ Len(offsets) - Len(todo) = Len(offsets) - Len(t) - 1
        /\ Len(offsets) - Len(t) \in 1..Len(offsets)
    BY <1>3, <2>2, <2>3, RestOfTail
  <2> DEFINE lo == Len(offsets)
             lt == Len(t)
  <2>5. lo - lt = n + 1 /\ n + 1 \in 1..lo
    <3>1. n = lo - lt - 1 /\ lo - lt \in 1..lo /\ lo \in Nat
      BY <2>2, <2>3, <2>4
    <3> HIDE DEF n, lo, lt
    <3>2. QED
      BY <3>1
  <2>6. Len(offsets) = Len(there)
    BY <2>2 DEF AreOffsetsOf
  <2> HIDE DEF there, t, d, n, lo, lt
  <2>7. IsRecordOf(v, there[n + 1])
    <3>1. n + 1 \in 1..Len(there)
      BY <2>5, <2>6 DEF lo
    <3>2. RecordAt(offsets[n + 1]) = there[n + 1]
      BY <1>1, <2>2, <3>1, RecordsOfOffsets DEF FileIsIndexed
    <3>3. Head(todo) = offsets[n + 1]
      BY <2>4, <2>5 DEF lo, lt
    <3>4. QED
      BY <3>2, <3>3 DEF IsRecordOf
  <2>8. \A i \in 1..Len(d) : IsRecordOf(d[i], there[i])
    <3> SUFFICES ASSUME NEW i \in 1..Len(d) PROVE IsRecordOf(d[i], there[i])
      OBVIOUS
    <3>1. i \in 1..n \/ i = n + 1
      BY <2>3
    <3>2. CASE i \in 1..n
      BY <2>2, <2>3, <3>2
    <3>3. CASE i = n + 1
      BY <2>3, <2>7, <3>3
    <3>4. QED
      BY <3>1, <3>2, <3>3
  <2>9. \A r, i : IsRecordOf(r, i)' <=> IsRecordOf(r, i)
    BY <1>2 DEF IsRecordOf, IsActive
  <2>10. Len(d) = Len(offsets) - Len(t)
    BY <2>3, <2>5 DEF lo, lt
  <2>11. There(asked)' = there
    BY <1>2, SameFile DEF There, there
  <2>12. AreOffsetsOf(offsets, There(asked))'
    BY <1>2, <2>2, SameFile DEF there
  <2>13. data' = d /\ todo' = t
    BY DEF d, t
  <2>14. IsRest(todo, offsets)' /\ Len(data') = Len(offsets') - Len(todo')
    BY <1>2, <2>4, <2>10, <2>13
  <2>15. \A i \in 1..Len(data') : IsRecordOf(data[i], There(asked)[i])'
    BY <2>8, <2>9, <2>11, <2>13 DEF IsRecordOf
  <2>16. QED
    BY <1>2, <2>12, <2>14, <2>15 DEF CallIsRight
<1>11. (~HeaderIsFound(asked) => ResultIsRight)'
  BY <1>1, <1>2, ResultStays DEF IInv, CallFits
<1>12. QED
  BY <1>5, <1>6, <1>7, <1>8, <1>9, <1>10, <1>11 DEF IInv

\* The next offset, and what is stored under it.
LEMMA NextOffset ==
  ASSUME IInv, todo # <<>>
  PROVE  /\ Head(todo) \in Nat /\ RecordAt(Head(todo)) \in Nat
         /\ IsCacheOf(cache, RecordCells)
         /\ Cell(Head(todo), RecordAt(Head(todo))) \in RecordCells
<1>1. todo \in Seq(Nat)
  BY DEF IInv, CallFits
<1>2. Head(todo) \in Nat
  BY <1>1
<1>3. RecordAt(Head(todo)) \in Nat
  BY RecordAtOffset DEF IInv, FileIsIndexed
<1>4. Cell(Head(todo), RecordAt(Head(todo))) \in RecordCells
  BY <1>2, <1>3 DEF RecordCells, Cell
<1>5. QED
  BY <1>2, <1>3, <1>4 DEF IInv, CachesAreRight

\* The cache of records is given the record of an offset.
LEMMA StoreKeeps ==
  ASSUME NEW cells, IsCacheOf(cache, cells), NEW offset \in Nat, NEW record,
         ~Hit(cache, offset), Cell(offset, record) \in cells
  PROVE  IsCacheOf(Store(offset, record), cells) /\ Store(offset, record).maxSize = cache.maxSize
<1>1. CASE IsActive(cache)
  BY <1>1, SetEntryKeeps DEF Store
<1>2. CASE ~IsActive(cache)
  BY <1>2 DEF Store
<1>3. QED
  BY <1>1, <1>2

\* A record from the cache is the one of its offset, or one that could not be read.
LEMMA RecordHitStep == IInv /\ RecordHit => IInv'
<1> SUFFICES ASSUME IInv, RecordHit PROVE IInv'
  OBVIOUS
<1> DEFINE o == Head(todo)
           v == Value(cache, o)
<1>1. /\ UNCHANGED <<fileVars, isOpen, indexVars, pc, offsets, lookup, result, asked, boundVars>>
      /\ pc = "read" /\ todo # <<>> /\ Hit(cache, o) /\ cache' = GetEntry(cache, o)
      /\ data' = Append(data, v) /\ todo' = Tail(todo)
  BY DEF RecordHit
<1>2. IsCacheOf(cache, RecordCells)
  BY <1>1, NextOffset
<1>3. PICK cell \in RecordCells : cell.key = o /\ v = cell.value
  BY <1>1, <1>2, HitValue
<1>4. /\ v \in Nat
      /\ \/ v = RecordAt(o)
         \/ v = Broken /\ failures > 0
  BY <1>3 DEF RecordCells
<1>5. IsActive(cache)
  BY <1>1 DEF Hit
<1>6. IsCacheOf(cache', RecordCells) /\ cache'.maxSize = cache.maxSize
  BY <1>1, <1>2, GetEntryKeeps
<1> HIDE DEF v
<1>7. QED
  BY <1>1, <1>4, <1>5, <1>6, ReadStep

\* A record that is read is the one of its offset; one that cannot be ends the call.
LEMMA RecordMissStep == IInv /\ RecordMiss => IInv'
<1> SUFFICES ASSUME IInv, RecordMiss PROVE IInv'
  OBVIOUS
<1> DEFINE o == Head(todo)
           v == RecordAt(o)
<1>1. /\ UNCHANGED <<fileVars, isOpen, indexVars, pc, offsets, lookup, result, asked, boundVars>>
      /\ pc = "read" /\ todo # <<>> /\ ~Hit(cache, o) /\ cache' = Store(o, v)
      /\ data' = Append(data, v) /\ todo' = Tail(todo)
  BY DEF RecordMiss
<1>2. o \in Nat /\ v \in Nat /\ IsCacheOf(cache, RecordCells) /\ Cell(o, v) \in RecordCells
  BY <1>1, NextOffset
<1>3. v = RecordAt(Head(todo))
  OBVIOUS
<1> HIDE DEF v, o
<1>4. IsCacheOf(cache', RecordCells) /\ cache'.maxSize = cache.maxSize
  BY <1>1, <1>2, StoreKeeps
<1>5. QED
  BY <1>1, <1>2, <1>3, <1>4, ReadStep

\* A failure ends the call, and leaves a cell that is not the record.
LEMMA RecordFailsStep == IInv /\ RecordFails => IInv'
<1> SUFFICES ASSUME IInv, RecordFails PROVE IInv'
  OBVIOUS
<1>1. FileIsIndexed /\ CachesAreRight /\ IsReady /\ CallFits
  BY DEF IInv
<1> DEFINE o == Head(todo)
           cells == RecordCells \union {Cell(o, Broken)}
<1>2. /\ UNCHANGED <<ids, cacheSize, isOpen, root, leafs, lookup, asked>>
      /\ pc = "read" /\ todo # <<>> /\ ~Hit(cache, o) /\ failures' = failures + 1
      /\ cache' = Store(o, Broken) /\ pc' = "idle" /\ todo' = <<>> /\ offsets' = <<>>
      /\ data' = <<>> /\ result' = [kind |-> "failed"]
  BY DEF RecordFails, fileVars, indexVars
<1>3. failures \in Nat /\ failures' \in Nat /\ failures' > 0
  BY <1>1, <1>2 DEF CallFits
<1>4. o \in Nat /\ IsCacheOf(cache, RecordCells)
  BY <1>2, NextOffset
<1> HIDE DEF o
<1>5. cells \subseteq RecordCells'
  <2>1. Cell(o, Broken) \in RecordCells'
    BY <1>3, <1>4 DEF RecordCells, Cell, Broken
  <2>2. ASSUME NEW cell \in RecordCells PROVE cell \in RecordCells'
    <3>1. RecordAt(cell.key)' = RecordAt(cell.key)
      BY <1>2, SameFile
    <3>2. /\ cell \in [key : Nat, value : Nat]
          /\ cell.value = RecordAt(cell.key) \/ cell.value = Broken
      BY DEF RecordCells
    <3>3. \A k : RecordAt(k)' = RecordAt(k)
      BY <1>2, SameFile
    <3>4. QED
      BY <1>3, <3>2, <3>3 DEF RecordCells
  <2>3. QED
    BY <2>1, <2>2
<1>6. IsCacheOf(cache, RecordCells)'
  <2>1. IsCacheOf(cache, cells)
    <3>1. RecordCells \subseteq cells
      OBVIOUS
    <3> HIDE DEF cells
    <3>2. QED
      BY <1>4, <3>1, CacheOfMore
  <2>2. Cell(o, Broken) \in cells
    OBVIOUS
  <2> HIDE DEF cells
  <2>3. IsCacheOf(cache', cells)
    BY <1>2, <1>4, <2>1, <2>2, StoreKeeps
  <2>4. QED
    BY <1>5, <2>3, CacheOfMore
<1>7. FileIsIndexed'
  BY <1>1, <1>2, SameFile
<1>8. CachesAreRight'
  BY <1>1, <1>2, <1>6, PagesStay
<1>9. IsReady'
  <2>1. EntriesOn(0)' = EntriesOn(0) /\ Index' = Index
    BY <1>2, SameFile
  <2>2. QED
    BY <1>1, <1>2, <2>1 DEF IsReady
<1>10. CallFits'
  BY <1>1, <1>2, <1>3 DEF CallFits
<1>11. SearchIsRight'
  BY <1>2 DEF SearchIsRight
<1>12. (~HeaderIsFound(asked) => CallIsRight)'
  BY <1>2 DEF CallIsRight
<1>13. (~HeaderIsFound(asked) => ResultIsRight)'
  BY <1>2, NoResult
<1>14. QED
  BY <1>7, <1>8, <1>9, <1>10, <1>11, <1>12, <1>13 DEF IInv

\* A call returns when there is a record for every offset.
LEMMA ReturnStep == IInv /\ Return => IInv'
<1> SUFFICES ASSUME IInv, Return PROVE IInv'
  OBVIOUS
<1>1. FileIsIndexed /\ CachesAreRight /\ IsReady /\ CallFits
  BY DEF IInv
<1>2. /\ UNCHANGED <<ids, cacheSize, isOpen, root, leafs, cache, todo, lookup, asked, failures>>
      /\ pc = "read" /\ todo = <<>> /\ result' = [kind |-> "data", data |-> data]
      /\ pc' = "idle" /\ offsets' = <<>> /\ data' = <<>>
  BY DEF Return, fileVars, indexVars, boundVars
<1>3. FileIsIndexed'
  BY <1>1, <1>2, SameFile
<1>4. CachesAreRight'
  BY <1>1, <1>2, PagesStay, RecordsStay DEF CachesAreRight
<1>5. IsReady'
  <2>1. EntriesOn(0)' = EntriesOn(0) /\ Index' = Index
    BY <1>2, SameFile
  <2>2. QED
    BY <1>1, <1>2, <2>1 DEF IsReady
<1>6. CallFits'
  BY <1>1, <1>2 DEF CallFits
<1>7. SearchIsRight'
  BY <1>2 DEF SearchIsRight
<1>8. (~HeaderIsFound(asked) => CallIsRight)'
  BY <1>2 DEF CallIsRight
<1>9. (~HeaderIsFound(asked) => ResultIsRight)'
  <2>1. HeaderIsFound(asked)' <=> HeaderIsFound(asked)
    BY <1>2, SameFile DEF HeaderIsFound
  <2> SUFFICES ASSUME ~HeaderIsFound(asked) PROVE ResultIsRight'
    BY <2>1
  <2>2. /\ AreOffsetsOf(offsets, There(asked)) /\ Len(data) = Len(offsets) - Len(todo)
        /\ \A i \in 1..Len(data) : IsRecordOf(data[i], There(asked)[i])
    BY <1>2 DEF IInv, CallIsRight
  <2>3. Len(data) = Len(There(asked))
    <3>1. Len(offsets) = Len(There(asked)) /\ offsets \in Seq(Nat)
      BY <1>1, <2>2 DEF AreOffsetsOf, CallFits
    <3>2. Len(todo) = 0 /\ Len(offsets) \in Nat
      BY <1>2, <3>1
    <3>3. QED
      BY <2>2, <3>1, <3>2
  <2>4. There(asked)' = There(asked)
    BY <1>2, SameFile DEF There
  <2>5. \A r, i : IsRecordOf(r, i)' <=> IsRecordOf(r, i)
    BY <1>2 DEF IsRecordOf
  <2>6. result'.data = data
    BY <1>2
  <2>7. QED
    BY <2>2, <2>3, <2>4, <2>5, <2>6 DEF ResultIsRight, IsRecordOf
<1>10. QED
  BY <1>3, <1>4, <1>5, <1>6, <1>7, <1>8, <1>9 DEF IInv

\* The invariant holds in the beginning,
LEMMA InitRight == Init => IInv
<1> SUFFICES ASSUME Init PROVE IInv
  OBVIOUS
<1>1. PICK file \in Files : ids \in Listings(file)
  BY DEF Init
<1>2. /\ cacheSize \in IndexCaches /\ isOpen = FALSE /\ leafs = <<>>
      /\ pc = "idle" /\ todo = <<>> /\ offsets = <<>> /\ data = <<>>
      /\ result = [kind |-> "none"] /\ asked = <<>> /\ failures = 0
  BY DEF Init
<1>3. PICK size \in DataCaches : cache = NewCache(size)
  BY DEF Init
<1> DEFINE n == Cardinality(file)
<1>4. /\ file \subseteq Nat \ {0} /\ n \in Nat
      /\ GeneratedIndex(Entries(ids)).levels < MaxLevels
  <2>1. file \subseteq Ids /\ IsFiniteSet(file) /\ Ids \subseteq Nat \ {0}
    BY IndexedFileAssumption
  <2>2. n \in Nat
    BY <2>1, FS_CardinalityType
  <2>3. \A list \in Listings(file) : GeneratedIndex(Entries(list)).levels < MaxLevels
    BY IndexedFileAssumption
  <2>4. QED
    BY <1>1, <2>1, <2>2, <2>3
<1>5. ids \in [1..n -> file] /\ \A i, j \in 1..n : i < j => ids[i] < ids[j]
  BY <1>1 DEF Listings
<1> HIDE DEF n
<1>6. IsListing(ids)
  <2>1. \A i \in 1..n : ids[i] \in Nat \ {0}
    BY <1>4, <1>5
  <2>2. ids \in [1..n -> Nat \ {0}]
    BY <1>5, <2>1
  <2>3. ids \in Seq(Nat \ {0}) /\ Len(ids) = n
    BY <1>4, <2>2
  <2>4. QED
    BY <1>5, <2>3 DEF IsListing
<1>7. FileIsIndexed
  <2>1. Entries(ids) \in Seq(EntrySet) /\ Ascending(Entries(ids))
    BY <1>6, EntriesOfListing
  <2>2. IsIndexOf(GeneratedIndex(Entries(ids)), Entries(ids))
    BY <1>4, <2>1, GeneratedIndexIsRight
  <2>3. QED
    BY <1>6, <2>2 DEF FileIsIndexed, Index
<1>8. CachesAreRight
  <2>1. cacheSize \in Nat /\ size \in Nat
    BY <1>2, IndexedFileAssumption
  <2>2. leafs \in Seq(CachesOf(AnyPageCells)) /\ Len(leafs) = 0
    BY <1>2
  <2>3. IsCacheOf(cache, RecordCells)
    BY <1>3, <2>1, NewCacheOf
  <2>4. ASSUME NEW k \in 1..Index.levels - 1 PROVE ~(k <= Len(leafs))
    BY <2>2
  <2>5. QED
    BY <2>1, <2>2, <2>3, <2>4 DEF CachesAreRight
<1>9. IsReady
  BY <1>2 DEF IsReady
<1>10. CallFits
  BY <1>2 DEF CallFits
<1>11. SearchIsRight /\ CallIsRight
  BY <1>2 DEF SearchIsRight, CallIsRight
<1>12. ResultIsRight
  BY <1>2 DEF ResultIsRight, Succeeded
<1>13. QED
  BY <1>7, <1>8, <1>9, <1>10, <1>11, <1>12 DEF IInv

\* and every step keeps it.
LEMMA StepsRight == IInv /\ [Next]_vars => IInv'
<1> SUFFICES ASSUME IInv, [Next]_vars PROVE IInv'
  OBVIOUS
<1>1. CASE Open
  BY <1>1, OpenStep
<1>2. CASE Close
  BY <1>2, CloseStep
<1>3. CASE \E request \in Requests : Get(request)
  BY <1>3, GetStep
<1>4. CASE StartLookup
  BY <1>4, StartLookupStep
<1>5. CASE PageHit
  BY <1>5, PageHitStep
<1>6. CASE PageMiss
  BY <1>6, PageMissStep
<1>7. CASE EndLookup
  BY <1>7, EndLookupStep
<1>8. CASE StartReading
  BY <1>8, StartReadingStep
<1>9. CASE RecordHit
  BY <1>9, RecordHitStep
<1>10. CASE RecordMiss
  BY <1>10, RecordMissStep
<1>11. CASE RecordFails
  BY <1>11, RecordFailsStep
<1>12. CASE Return
  BY <1>12, ReturnStep
<1>13. CASE UNCHANGED vars
  <2>1. UNCHANGED <<ids, cacheSize, isOpen, root, leafs, cache, pc, todo, offsets, lookup, data,
                    result, asked, failures>>
    BY <1>13 DEF vars, fileVars, indexVars, callVars, boundVars
  <2>2. FileIsIndexed' /\ EntriesOn(0)' = EntriesOn(0) /\ Index' = Index
    BY <2>1, SameFile DEF IInv
  <2>3. CachesAreRight'
    BY <2>1, PagesStay, RecordsStay DEF IInv, CachesAreRight
  <2>4. IsReady'
    BY <2>1, <2>2 DEF IInv, IsReady
  <2>5. CallFits'
    BY <2>1 DEF IInv, CallFits
  <2>6. SearchIsRight' /\ (~HeaderIsFound(asked) => CallIsRight)'
    BY <2>1, SearchStays, CallStays DEF IInv
  <2>7. (~HeaderIsFound(asked) => ResultIsRight)'
    BY <2>1, ResultStays DEF IInv, CallFits
  <2>8. QED
    BY <2>2, <2>3, <2>4, <2>5, <2>6, <2>7 DEF IInv
<1>14. QED
  BY <1>1, <1>2, <1>3, <1>4, <1>5, <1>6, <1>7, <1>8, <1>9, <1>10, <1>11, <1>12, <1>13 DEF Next

\* With it, a call has returned what it should.
LEMMA WhatIsThere == IInv => GetsWhatIsThere
<1> SUFFICES ASSUME IInv PROVE GetsWhatIsThere
  OBVIOUS
<1>1. FitsItsBlocks(Index)
  <2> DEFINE h == Index.levels
  <2>1. FileIsIndexed /\ h \in Nat /\ (h = 0 <=> ids = <<>>)
    BY IndexOfFile DEF IInv
  <2>2. /\ h > 0 => Index.root = Len(Index.blocks) * PageSize
        /\ \A k \in 1..Len(Index.blocks) : Footprint(Index.blocks[k]) <= PageSize
    BY <2>1 DEF FileIsIndexed, IsIndexOf
  <2> HIDE DEF h
  <2>3. ids # <<>> => h > 0
    BY <2>1
  <2>4. QED
    BY <2>2, <2>3 DEF FitsItsBlocks
<1>2. ~HeaderIsFound(asked) => ResultIsRight
  BY DEF IInv
<1>3. QED
  BY <1>1, <1>2 DEF GetsWhatIsThere, ResultIsRight, IsRecordOf

\* For files of any size, pages and caches of any size and requests of any ids, however
\* often the file is reopened: what is returned are the records of the file that were
\* asked for, in the order of the request.
THEOREM RecordsAreFound == Spec => []GetsWhatIsThere
<1>1. Spec => []IInv
  BY InitRight, StepsRight, PTL DEF Spec
<1>2. QED
  BY <1>1, WhatIsThere, PTL

==============================================================================
