------------------------------- MODULE Display -------------------------------
(***************************************************************************)
(* The stages of main() that display something: a text on an MT-32, a text *)
(* and two kinds of pictures on an SC-55.  They share one static buffer.   *)
(*                                                                         *)
(* Texts are sequences of character codes, a file is a sequence of bytes.  *)
(***************************************************************************)
EXTENDS DisplaySysEx

CONSTANTS Asks,         \* what may be given: [mt32, sc55, bitmap, btxt, negative]
          NoFile,       \* a bitmap that was not given,
          Unreadable,   \* and one that cannot be opened
          ShortReads,   \* what fread() may return of 64 bytes on a faulty medium
          Leftovers     \* bytes the stack may hold

Text == Seq(1 .. 255)
ASSUME AsksAssumption ==
    Asks \subseteq [mt32 : Text, sc55 : Text, btxt : Text, negative : BOOLEAN,
                    bitmap : {NoFile, Unreadable} \cup Seq(0 .. 255)]
ASSUME LeftoversAssumption ==       \* one byte read would leave a 77 behind it
    ShortReads \subseteq 2 .. 63 /\ Leftovers \subseteq 0 .. 255

VARIABLES ask,
          faulty,       \* may the medium of the bitmap fail?
          stage,        \* where main is
          sysexbuf,
          sent          \* the messages handed to the back end

vars == <<ask, faulty, stage, sysexbuf, sent>>

Init ==
    /\ ask \in Asks /\ faulty \in BOOLEAN
    /\ stage = "mt32-txt" /\ sent = <<>>
    /\ sysexbuf = [k \in SysExBuf |-> 0]

\* strncpy(): what there is room for.
Fitting(str, room) == SubSeq(str, 1, IF Len(str) < room THEN Len(str) ELSE room)
mt32_text   == Fitting(ask.mt32, 20)
sc55_text   == Fitting(ask.sc55, 32)
sc55_pictxt == Fitting(ask.btxt, 8)

Stage(from, to) == stage = from /\ stage' = to

\* mididev_send_bytes()
Send(len) == sent' = Append(sent, BytesAt(sysexbuf', 0, len))

ShowMt32Text ==
    /\ Stage("mt32-txt", "sc55-txt") /\ mt32_text # <<>>
    /\ sysexbuf' = Mt32Display(sysexbuf, mt32_text)
    /\ Send(30)
    /\ UNCHANGED <<ask, faulty>>

ShowSc55Text ==
    /\ Stage("sc55-txt", "sc55-bmp") /\ sc55_text # <<>>
    /\ sysexbuf' = Sc55Display(sysexbuf, sc55_text)
    /\ Send(Len(sc55_text) + 10)
    /\ UNCHANGED <<ask, faulty>>

\* The checks on the file; of the offset of its pixels the lowest byte is looked at.
PixOffset(file) == file[11]
Usable(file) ==
    /\ file # Unreadable
    /\ Len(file) > 10 /\ SubSeq(file, 1, 2) = <<66, 77>>
    /\ Len(file) - PixOffset(file) >= 64

\* A short read of the pixels leaves the rest of fbuf what it was.
ReadPixels(n, rest) ==
    [k \in 1 .. 64 |-> IF k <= n THEN ask.bitmap[PixOffset(ask.bitmap) + k] ELSE rest]

ShowBitmap ==
    /\ Stage("sc55-bmp", "sc55-btxt") /\ ask.bitmap # NoFile /\ Usable(ask.bitmap)
    /\ \E n \in {64} \cup (IF faulty THEN ShortReads ELSE {}), rest \in Leftovers :
          sysexbuf' = PictureDisplay(sysexbuf, RowsOfBitmap(ReadPixels(n, rest)),
                                     ask.negative)
    /\ Send(74)
    /\ UNCHANGED <<ask, faulty>>

\* abort(), also when a read fails altogether.
Abort ==
    /\ Stage("sc55-bmp", "aborted") /\ ask.bitmap # NoFile
    /\ ~Usable(ask.bitmap) \/ faulty
    /\ sysexbuf' = Copied(Cleared(sysexbuf, 74), 0, PicturePrefix)
    /\ UNCHANGED <<ask, faulty, sent>>

ShowBitmapText ==
    /\ Stage("sc55-btxt", "done") /\ sc55_pictxt # <<>>
    /\ sysexbuf' = PictureDisplay(sysexbuf, RowsOfText(sc55_pictxt), ask.negative)
    /\ Send(74)
    /\ UNCHANGED <<ask, faulty>>

Skip ==
    /\ \/ Stage("mt32-txt", "sc55-txt") /\ mt32_text = <<>>
       \/ Stage("sc55-txt", "sc55-bmp") /\ sc55_text = <<>>
       \/ Stage("sc55-bmp", "sc55-btxt") /\ ask.bitmap = NoFile
       \/ Stage("sc55-btxt", "done") /\ sc55_pictxt = <<>>
    /\ UNCHANGED <<ask, faulty, sysexbuf, sent>>

Next == ShowMt32Text \/ ShowSc55Text \/ ShowBitmap \/ Abort \/ ShowBitmapText \/ Skip

Spec == Init /\ [][Next]_vars

-----------------------------------------------------------------------------
(* What the displays make of a message, byte by byte and pixel by pixel. *)

Total(bytes) ==
    LET total[k \in 0 .. Len(bytes)] == IF k = 0 THEN 0 ELSE total[k - 1] + bytes[k]
    IN  total[Len(bytes)]

\* They drop what is no SysEx message, or does not add up to a multiple of 128 from the
\* address to the checksum.
SevenBit(bytes) == \A k \in DOMAIN bytes : bytes[k] < 128
Taken(m) ==
    /\ m[1] = 240 /\ m[Len(m)] = 247
    /\ SevenBit(SubSeq(m, 2, Len(m) - 1))
    /\ Total(SubSeq(m, 6, Len(m) - 1)) % 128 = 0

Pixels == (0 .. 15) \X (0 .. 15)
Weight == <<1, 2, 4, 8, 16, 32, 64, 128>>
Bit(byte, k) == (byte \div Weight[k + 1]) % 2 = 1

\* The picture has a byte for five pixels of a row, column by column.
Lit(m) == {p \in Pixels : Bit(m[9 + 16 * (p[1] \div 5) + p[2]], 4 - (p[1] % 5))}
Content(m) ==
    CASE m[4] = 22              -> [on |-> "mt32", what |-> SubSeq(m, 9, 28)]
      [] m[4] = 69 /\ m[7] = 0  -> [on |-> "sc55", what |-> SubSeq(m, 9, Len(m) - 2)]
      [] m[4] = 69 /\ m[7] = 1  -> [on |-> "sc55 picture", what |-> Lit(m)]
Nothing  == [on |-> "none", what |-> <<>>]
Shown(m) == IF Taken(m) THEN Content(m) ELSE Nothing

\* What was asked for: the MT-32 has 20 characters, blank where there is no text; a BMP
\* has the offset of its pixels in four bytes.
Padded(str) == [k \in 1 .. 20 |-> IF k <= Len(str) THEN str[k] ELSE 0]

Offset(file) == file[11] + 256 * (file[12] + 256 * (file[13] + 256 * file[14]))
Good(file) ==
    /\ file # Unreadable
    /\ Len(file) >= 14 /\ SubSeq(file, 1, 2) = <<66, 77>>
    /\ Len(file) >= Offset(file) + 64
InBitmap(file, p) ==
    Bit(file[Offset(file) + 4 * (15 - p[2]) + p[1] \div 8 + 1], 7 - (p[1] % 8))
InText(str, p) ==
    LET i == 1 + p[1] \div 4 + 4 * (p[2] \div 8)
    IN  /\ i <= Len(str) /\ str[i] \in InFont
        /\ Bit(miniwi_data[(str[i] - 32) \div 2][p[2] % 8],
               (IF str[i] % 2 = 0 THEN 7 ELSE 3) - (p[1] % 4))
Asked(a, s) ==
    CASE s = "mt32-txt"  -> [on |-> "mt32", what |-> Padded(a.mt32)]
      [] s = "sc55-txt"  -> [on |-> "sc55", what |-> Fitting(a.sc55, 32)]
      [] s = "sc55-bmp"  -> [on |-> "sc55 picture",
                             what |-> {p \in Pixels : InBitmap(a.bitmap, p) # a.negative}]
      [] s = "sc55-btxt" -> [on |-> "sc55 picture",
                             what |-> {p \in Pixels : InText(a.btxt, p) # a.negative}]
If(wanted, s) == IF wanted THEN <<s>> ELSE <<>>
Wanted(a) ==
    If(a.mt32 # <<>>, "mt32-txt") \o If(a.sc55 # <<>>, "sc55-txt") \o
    If(a.bitmap # NoFile, "sc55-bmp") \o If(a.btxt # <<>>, "sc55-btxt")

\* What no message of data bytes can carry: a text with other characters, and address
\* and data that add up to a multiple of 128 themselves, whose checksum is 128.
TextOf(a, s) ==
    CASE s = "mt32-txt" -> Fitting(a.mt32, 20) [] s = "sc55-txt" -> Fitting(a.sc55, 32)
      [] OTHER -> <<>>
Sendable(a, s, m) ==
    SevenBit(TextOf(a, s)) /\ Total(SubSeq(m, 6, Len(m) - 2)) % 128 # 0

\* The displays drop a message exactly if its text or its checksum is not of seven
\* bits, whatever the file holds and however reading it fails: what is left of an
\* earlier message in the shared buffer or of the stack in fbuf never breaks one
\* (mt32-pi.c:447-483, 485-606, 608-615).
DropsOnlyUnsendable ==
    \A k \in DOMAIN sent : Taken(sent[k]) <=> Sendable(ask, Wanted(ask)[k], sent[k])

\* The displays show what was asked for and nothing else, or nothing if it is not
\* sendable, in the order of main(), the pictures pixel by pixel; excepted is a bitmap
\* whose medium fails or whose pixels begin behind the first 255 bytes, which spoils
\* nothing else. The program stops early, having sent nothing of it, only at a bitmap
\* that is not good or whose medium fails (mt32-pi.c:340-375, 447-606).
CanShow(a, s) == s = "sc55-bmp" => ~faulty /\ Offset(a.bitmap) < 256
ShowsWhatWasAsked ==
    /\ \A k \in DOMAIN sent :
          LET s == Wanted(ask)[k]
          IN  CanShow(ask, s) =>
                 Shown(sent[k]) = IF Sendable(ask, s, sent[k]) THEN Asked(ask, s) ELSE Nothing
    /\ stage = "done" => Len(sent) = Len(Wanted(ask))
    /\ stage = "aborted" =>
          /\ Wanted(ask)[Len(sent) + 1] = "sc55-bmp"
          /\ faulty \/ ~Good(ask.bitmap)
=============================================================================
