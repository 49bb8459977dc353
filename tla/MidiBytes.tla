------------------------------ MODULE MidiBytes ------------------------------
(***************************************************************************)
(* MIDI messages as the back ends tell them apart: sequences of bytes.     *)
(***************************************************************************)
EXTENDS Integers, Sequences

SysExStart == 240
SysExEnd   == 247

\* MIDI_OP_*: the high half of the first byte, and the channel, its low half.
Op(m)      == (m[1] \div 16) * 16
Channel(m) == m[1] % 16

NoteOff  == 128
NoteOn   == 144
KeyPress == 160
Control  == 176
Program  == 192
Pressure == 208
Bend     == 224

\* How many bytes a message has that starts with this one; a data byte, of which
\* drivers may make what they like, is taken for the first of three.
LengthOf(b) ==
    IF b \in 192 .. 223 \cup {241, 243} THEN 2
    ELSE IF b < 240 \/ b = 242 THEN 3 ELSE 1

\* A short message as MIDI has it: a status byte and its data bytes of seven bits.
WellFormed(m) ==
    /\ m[1] >= 128 /\ Len(m) = LengthOf(m[1])
    /\ \A k \in 2 .. Len(m) : m[k] < 128

\* What a driver sends of three bytes that it was given: as many as the first one
\* calls for, data bytes with eight bits or with seven.
ShortBytes(a, b, c, bits) == SubSeq(<<a, b % bits, c % bits>>, 1, LengthOf(a))

\* It starts and ends like a SysEx message.
LooksLikeSysEx(m) == m[1] = SysExStart /\ m[Len(m)] = SysExEnd
=============================================================================
