---------------------------- MODULE DisplaySysEx ----------------------------
(***************************************************************************)
(* The SysEx messages that make an MT-32 or an SC-55 display something, as *)
(* mt32-pi.c builds them in a buffer: a header with an address, the data,  *)
(* a checksum over address and data, and the end.                          *)
(***************************************************************************)
EXTENDS Integers, Sequences

CONSTANT miniwi_data    \* the font: two characters in a function of 0 .. 7 to bytes

ASSUME FontAssumption == miniwi_data \in [0 .. 47 -> [0 .. 7 -> 0 .. 255]]

SysExBuf == 0 .. 73

\* memset(buf, 0, n) and memcpy(buf + at, bytes, ...)
Cleared(buf, n) == [k \in SysExBuf |-> IF k < n THEN 0 ELSE buf[k]]
Copied(buf, at, bytes) ==
    [k \in SysExBuf |-> IF k - at + 1 \in DOMAIN bytes THEN bytes[k - at + 1] ELSE buf[k]]

Mt32Prefix    == <<240, 65, 16, 22, 18, 32>>
Sc55Prefix    == <<240, 65, 16, 69, 18, 16>>
PicturePrefix == <<240, 65, 16, 69, 18, 16, 1>>

\* What a pointer into the buffer and a length stand for.
BytesAt(buf, first, len) == [k \in 1 .. len |-> buf[first + k - 1]]

RolandChecksum(bytes) ==
    LET ck_acc[k \in 0 .. Len(bytes)] ==
            IF k = 0 THEN 0 ELSE (ck_acc[k - 1] + bytes[k]) % 128
    IN  128 - ck_acc[Len(bytes)]

\* The checksum behind address and data, and the end. Mutant: the checksum leaves
\* out the last byte.
ClosedShort(buf, at) ==
    [buf EXCEPT ![at] = RolandChecksum(BytesAt(buf, 5, at - 6)), ![at + 1] = 247]
Closed(buf, at) ==
    [buf EXCEPT ![at] = RolandChecksum(BytesAt(buf, 5, at - 5)), ![at + 1] = 247]

\* str_to_sysex_disp_mt32() and str_to_sysex_disp_sc55()
Mt32Display(buf, str) ==
    Closed(Copied(Copied(Cleared(buf, 30), 0, Mt32Prefix), 8, str), 28)
Sc55Display(buf, str) ==
    Closed(Copied(Copied(Cleared(buf, 42), 0, Sc55Prefix), 8, str), 8 + Len(str))

-----------------------------------------------------------------------------
\* A picture of 16 rows of two bytes: the message has it in columns of five pixels,
\* and one in the last.
Columns(row) == <<row[1] \div 8, (row[1] % 8) * 4 + row[2] \div 64,
                  (row[2] \div 2) % 32, (row[2] % 2) * 16>>
Inverted(columns) == [c \in 1 .. 4 |-> (IF c = 4 THEN 16 ELSE 31) - columns[c]]

PictureDisplay(buf, rows, negative) ==
    LET columns == [y \in 0 .. 15 |-> IF negative THEN Inverted(Columns(rows[y]))
                                                  ELSE Columns(rows[y])]
        data    == [k \in 1 .. 64 |-> columns[(k - 1) % 16][(k - 1) \div 16 + 1]]
    IN  Closed(Copied(Copied(Cleared(buf, 74), 0, PicturePrefix), 8, data), 72)

\* The rows of a BMP are of four bytes and begin at the bottom. Mutant: at the top.
RowsTopDown(fbuf)   == [y \in 0 .. 15 |-> SubSeq(fbuf, 4 * y + 1, 4 * y + 2)]
RowsOfBitmap(fbuf) == [y \in 0 .. 15 |-> SubSeq(fbuf, 4 * (15 - y) + 1, 4 * (15 - y) + 2)]

\* Row j of character i, half a byte; what is not in the font stays blank.
InFont == 32 .. 127
Nibble(str, i, j) ==
    IF i > Len(str) \/ str[i] \notin InFont THEN 0
    ELSE LET c    == str[i] - 32
             pair == miniwi_data[c \div 2][j]
         IN  IF c % 2 = 1 THEN pair % 16 ELSE pair \div 16

\* Two lines of four characters, eight rows high.
RowsOfText(str) ==
    LET Byte(i, j) == 16 * Nibble(str, i, j) + Nibble(str, i + 1, j)
    IN  [y \in 0 .. 15 |-> LET i == 4 * (y \div 8) + 1
                           IN  <<Byte(i, y % 8), Byte(i + 2, y % 8)>>]
=============================================================================
