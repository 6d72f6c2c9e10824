------------------------------- MODULE Crc32 --------------------------------
(***************************************************************************)
(* src/src/crc32.c: the checksum of a message, in one call (crc32_getCrc)  *)
(* or byte by byte (crc32_initCrc, crc32_updataCrc, crc32_finalCrc).       *)
(*                                                                         *)
(* A word is the set of its bits that are 1: exclusive or is the symmetric *)
(* difference and a shift moves the elements.                              *)
(***************************************************************************)
EXTENDS Integers, Sequences, Crc32Table

Bit      == 0 .. 31
ByteBits == 0 .. 7
AllOnes  == Bit

CONSTANTS
  Inputs  \* Inputs[i]: the values byte i of a message may have

ASSUME InputAssumption == Inputs \in Seq(SUBSET SUBSET ByteBits)

-----------------------------------------------------------------------------
(* Words and bytes. *)

BitsOf(n, bits) == {i \in bits : (n \div 2^i) % 2 = 1}
Number(byte)    == CHOOSE n \in 0 .. 255 : BitsOf(n, ByteBits) = byte
Xor(v, w)       == (v \ w) \cup (w \ v)
Shl(w, n)       == {i \in Bit : i - n \in w /\ i >= n}
Upper(w)        == {i \in ByteBits : i + 24 \in w}
Complement(w)   == Bit \ w
Word(hi, lo)    == Shl(BitsOf(hi, 0 .. 15), 16) \cup BitsOf(lo, 0 .. 15)

(* crc32_table.h. *)
crc32Table ==
  [byte \in SUBSET ByteBits |->
     LET n == Number(byte) IN Word(Halves[2 * n + 1], Halves[2 * n + 2])]

-----------------------------------------------------------------------------
(* The definition of the checksum: a message, as a polynomial over its bits
   with the highest bit of a byte first, is divided by 0x04C11DB7 bit by bit. *)
Polynomial == Word(1217, 7607)

DivideBit(r, byte, i) ==
  IF i \in byte <=> 31 \in r THEN Shl(r, 1) ELSE Xor(Shl(r, 1), Polynomial)

Divide(start, msg) ==
  LET register[n \in 0 .. 8 * Len(msg)] ==
        IF n = 0 THEN start
        ELSE DivideBit(register[n - 1], msg[(n - 1) \div 8 + 1], 7 - ((n - 1) % 8))
  IN  register[8 * Len(msg)]

Remainder(msg) == Divide(AllOnes, msg)

(* Each of the 256 entries of the table is what the division leaves of its
   index.  It is a fact about numbers, which TLC evaluates completely. *)
ASSUME TableAssumption ==
  \A byte \in SUBSET ByteBits : crc32Table[byte] = Divide({}, <<byte>>)

-----------------------------------------------------------------------------
(* Fault: the byte is put in after the shift. *)
StepLate(crc, byte) == Xor(Xor(Shl(crc, 8), byte), crc32Table[Upper(crc)])

(* The body of the loop of crc32_getCrc. *)
Step(crc, byte) == Xor(Shl(crc, 8), crc32Table[Xor(Upper(crc), byte)])

(* crc32_getCrc. *)
GetCrc(pSrc) ==
  LET crcState[offset \in 0 .. Len(pSrc)] ==
        IF offset = 0 THEN AllOnes ELSE Step(crcState[offset - 1], pSrc[offset])
  IN  Complement(crcState[Len(pSrc)])

-----------------------------------------------------------------------------
VARIABLES
  crcVal,  \* the checksum so far
  sent,    \* history: the bytes it is of
  final    \* crc32_finalCrc has been called

vars == <<crcVal, sent, final>>

(* crc32_initCrc. *)
Init == crcVal = AllOnes /\ sent = <<>> /\ final = FALSE

(* Fault: the byte is put in after the shift. *)
UpdataCrcLate(byte) ==
  /\ ~ final
  /\ crcVal' = Xor(Xor(Shl(crcVal, 8), byte), crc32Table[Upper(crcVal)])
  /\ sent' = Append(sent, byte)
  /\ UNCHANGED final

(* crc32_updataCrc. *)
UpdataCrc(byte) ==
  /\ ~ final
  /\ crcVal' = Xor(Shl(crcVal, 8), crc32Table[Xor(Upper(crcVal), byte)])
  /\ sent' = Append(sent, byte)
  /\ UNCHANGED final

(* Fault: the checksum is not inverted. *)
FinalCrcPlain ==
  /\ ~ final
  /\ final' = TRUE
  /\ UNCHANGED <<crcVal, sent>>

(* crc32_finalCrc. *)
FinalCrc ==
  /\ ~ final
  /\ crcVal' = Complement(crcVal)
  /\ final' = TRUE
  /\ UNCHANGED sent

Update == \E byte \in Inputs[Len(sent) + 1] : UpdataCrc(byte)

Next == (Len(sent) < Len(Inputs) /\ Update) \/ FinalCrc
Spec == Init /\ [][Next]_vars

-----------------------------------------------------------------------------
(* Properties. *)

(* All 256 entries of the table and the way the code uses them compute the
   checksum that is defined by the division. *)
CrcIsRemainder == final => crcVal = Complement(Remainder(sent))

(* A message checked piece by piece and one checked at once give the same. *)
StreamIsOneShot == final => GetCrc(sent) = crcVal

(* A receiver that lets the four bytes of the checksum follow the message, the
   highest first, finds the same word for every message. *)
Trailer == [i \in 1 .. 4 |-> Upper(Shl(crcVal, 8 * (i - 1)))]
Residue == Complement(Word(50948, 56699))

(* It is the checksum of four bytes of 0; TLC evaluates this. *)
ASSUME ResidueAssumption == Complement(Remainder(<<{}, {}, {}, {}>>)) = Residue

ResidueIsFixed == final => GetCrc(sent \o Trailer) = Residue
=============================================================================
