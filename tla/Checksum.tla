----------------------------- MODULE Checksum ------------------------------
(***************************************************************************)
(* PureJavaCrc32C and the masking of SnappyFramed: the checksum of a frame *)
(* of the x-snappy-framed format, fed in pieces, byte by byte or eight     *)
(* bytes at a time, on an object that is used for one frame after another. *)
(*                                                                         *)
(* An int is the set of its bits that are 1: exclusive or is the symmetric *)
(* difference, and a shift moves the members.  A byte is a subset of 0..7. *)
(***************************************************************************)
EXTENDS Integers, Sequences, CrcTables

LOCAL INSTANCE SequencesExt

CONSTANTS Arrays,       \* the arrays of bytes that may be checksummed
          Pieces,       \* pairs <<off, len>> inside them
          MaxFed        \* bound: bytes given to an object between two resets

Bits == 0..31
Byte == 0..7
NoInt == {32}                            \* not an int

x ^^ y == (x \ y) \cup (y \ x)
ShiftRight(w, n) == {b - n : b \in {c \in w : c >= n}}
ShiftLeft(w, n) == {b + n : b \in {c \in w : c + n \in Bits}}

\* A byte of Java becomes an int with its sign.
Extended(b) == IF 7 \in b THEN b \cup 8..31 ELSE b

\* Addition of ints: bit i of the sum depends on the carry into it.
Carry(x, y, i) == \E j \in 0..(i - 1) : /\ j \in x \cap y
                                        /\ (j + 1)..(i - 1) \subseteq x \cup y
Plus(x, y) == {i \in Bits : ((i \in x) # (i \in y)) # Carry(x, y, i)}

\* The int with these halves of 16 bits, and the number of a half.
IntOf(hi, lo) == {b \in 0..15 : (lo \div 2^b) % 2 = 1}
                   \cup {b \in 16..31 : (hi \div 2^(b - 16)) % 2 = 1}
Number(w) == FoldLeft(LAMBDA n, b : 2 * n + (IF b \in w THEN 1 ELSE 0), 0,
                      [i \in 1..16 |-> 16 - i])
Lower(w) == Number(w)
Upper(w) == Number(ShiftRight(w, 16))
-----------------------------------------------------------------------------
Entries(table) ==
    [b \in SUBSET Byte |-> IntOf(table[2 * Number(b) + 1], table[2 * Number(b) + 2])]
T8 == [k \in 0..7 |->
         Entries(<<T8_0, T8_1, T8_2, T8_3, T8_4, T8_5, T8_6, T8_7>>[k + 1])]

\* T8_k[w & 0xff]
Look(k, w) == T8[k][w \cap Byte]

\* One byte: the second loop of update, and the body of update(int).
oneByte(c, b) == ShiftRight(c, 8) ^^ Look(0, c ^^ Extended(b))

\* Mutant: localCrc >>> 8 for localCrc >>>= 8, which shifts further each time.
eightBytes_ShiftOnce(c, b) ==
    LET old(i) == IF i = 1 THEN c ELSE IF i <= 4 THEN ShiftRight(c, 8) ELSE {}
    IN  FoldLeft(^^, {}, [i \in 1..8 |-> Look(8 - i, Extended(b[i]) ^^ old(i))])

\* Eight bytes: the body of the first loop.  The four bytes of the crc so far
\* meet the first four.
eightBytes(c, b) ==
    LET old(i) == IF i <= 4 THEN ShiftRight(c, 8 * (i - 1)) ELSE {}
    IN  FoldLeft(^^, {}, [i \in 1..8 |-> Look(8 - i, Extended(b[i]) ^^ old(i))])

\* update(byte[]): eight bytes at a time, then what is left.
Updated(c, b) ==
    LET n == Len(b) \div 8
        blocks == [i \in 1..n |-> SubSeq(b, 8 * i - 7, 8 * i)]
    IN  FoldLeft(oneByte, FoldLeft(eightBytes, c, blocks), SubSeq(b, 8 * n + 1, Len(b)))

InitialCrc == Bits                       \* 0xffffffff
getValue(c) == Bits \ c                  \* ~crc

MASK_DELTA == IntOf(\ha282, \head8)
mask(w) == Plus(ShiftRight(w, 15) \cup ShiftLeft(w, 17), MASK_DELTA)
-----------------------------------------------------------------------------
VARIABLES data,     \* the array that the caller works on
          crc,      \* the register of the object
          fed,      \* the bytes since the last reset
          result    \* what maskedCrc32c returned

crcVars == <<data, crc, fed, result>>

Piece(p) == SubSeq(data, p[1] + 1, p[1] + p[2])

CrcInit == /\ data \in Arrays
           /\ crc = InitialCrc /\ fed = << >>
           /\ result = NoInt

reset == /\ crc' = InitialCrc /\ fed' = << >>
         /\ result' = NoInt
         /\ UNCHANGED data

\* update(byte[] b, int off, int len)
update(p) ==
    /\ Len(fed) + p[2] <= MaxFed
    /\ crc' = Updated(crc, Piece(p)) /\ fed' = fed \o Piece(p)
    /\ result' = NoInt
    /\ UNCHANGED data

\* update(int b)
updateInt(b) ==
    /\ Len(fed) < MaxFed
    /\ crc' = oneByte(crc, b) /\ fed' = Append(fed, b)
    /\ result' = NoInt
    /\ UNCHANGED data

\* SnappyFramed.maskedCrc32c: the object served other frames before.
maskedCrc32c(p) ==
    /\ crc' = Updated(InitialCrc, Piece(p)) /\ fed' = Piece(p)
    /\ result' = mask(getValue(crc'))
    /\ UNCHANGED data

CrcNext == \/ reset
           \/ \E p \in Pieces : update(p) \/ maskedCrc32c(p)
           \/ updateInt(data[Len(data)])

CrcSpec == CrcInit /\ [][CrcNext]_crcVars
-----------------------------------------------------------------------------
(* The definition of CRC-32C: division by the polynomial of Castagnoli, one *)
(* bit after the other, the least significant bit of each byte first.       *)

Castagnoli == {31 - e : e \in {28, 27, 26, 25, 23, 22, 20, 19, 18, 14, 13, 11, 10, 9, 8, 6, 0}}

Divide(c, bit) == ShiftRight(c, 1) ^^ (IF (0 \in c) # bit THEN Castagnoli ELSE {})

DivideByte[c \in SUBSET Bits, b \in SUBSET Byte] ==
    FoldLeft(Divide, c, [i \in 1..8 |-> (i - 1) \in b])

CRC32C(bytes) == Bits \ FoldLeft(LAMBDA c, b : DivideByte[c, b], Bits, bytes)

\* What a reader gets back from a masked checksum: the constant is subtracted
\* and the rotation undone.
Unmasked(w) ==
    LET lo == Lower(w) - \head8
        hi == Upper(w) - \ha282 - (IF lo < 0 THEN 1 ELSE 0)
    IN  {(b + 15) % 32 : b \in IntOf(hi % 65536, lo % 65536)}

\* The checksum is CRC-32C of the bytes since the last reset, however they were
\* cut into calls, so that a stream written with PureJavaCrc32C and one written
\* with the CRC32C of the JDK are the same; each of the 2048 entries of the
\* tables is used.  The checksum that a frame carries depends on the bytes of that
\* frame only, and a reader can undo the masking.
ChecksumRight ==
    /\ getValue(crc) = CRC32C(fed)
    /\ result # NoInt => Unmasked(result) = CRC32C(fed)
=============================================================================
