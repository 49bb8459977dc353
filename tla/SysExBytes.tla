----------------------------- MODULE SysExBytes -----------------------------
(***************************************************************************)
(* Files of SysEx messages, as the reader of mt32-pi.c tells bytes apart:  *)
(* the start of a message, its end, and everything else.                   *)
(***************************************************************************)
EXTENDS Integers, Sequences

F0   == "F0"        \* start of a SysEx message
F7   == "F7"        \* end of a SysEx message
Byte == {F0, F7, "data"}

\* The byte at offset k of file f, counting from 0 as the program does.
At(f, k) == f[k + 1]
Offsets(f) == 0 .. Len(f) - 1

\* Offsets s .. e of f hold one complete message.
IsMessage(f, s, e) ==
    /\ s \in Offsets(f) /\ e \in Offsets(f) /\ s < e
    /\ At(f, s) = F0 /\ At(f, e) = F7
    /\ \A k \in s + 1 .. e - 1 : At(f, k) \notin {F0, F7}

\* It is the first one at or after offset from: no message starts before it.
IsNextMessage(f, from, s, e) ==
    /\ from <= s
    /\ IsMessage(f, s, e)
    /\ \A k \in from .. s - 1 : At(f, k) # F0

\* The bounds of the message sent last, and their value before the first.
NoMessage == [first |-> -1, final |-> -1]
=============================================================================
