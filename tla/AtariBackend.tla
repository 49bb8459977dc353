---------------------------- MODULE AtariBackend ----------------------------
(***************************************************************************)
(* The Atari ST back end, atari_src/midi_dev.c: the built-in MIDI port     *)
(* needs no preparation, and the operating system, which is external,      *)
(* takes a count less one and that many bytes.                             *)
(***************************************************************************)
EXTENDS MidiBackend

VARIABLE sending        \* bytes the port sends of the call

vars == <<pc, held, callVars, sending>>

\* mididev_init() and mididev_deinit() do nothing.
Initialise == Goto("parse", "ready") /\ UNCHANGED <<held, callVars, sending>>
Deinit     == Goto("ready", "ended") /\ UNCHANGED <<held, callVars, sending>>

Call == CallSend /\ UNCHANGED sending

\* Midiws() sends one byte more than its argument says. Mutant: the argument is
\* the length.
CountLong(m) == Len(m) + 1
Count(m)     == (Len(m) - 1) + 1

Midiws ==
    /\ Goto("send", "sending")
    /\ LooksLikeSysEx(handed) \/ Len(handed) = 3
    /\ sending' = Count(handed)
    /\ UNCHANGED <<held, callVars>>

\* The bytes go out; behind the message lies whatever the memory holds.
Beyond == -1
BytesSent ==
    /\ Goto("sending", "sent")
    /\ Transmits([k \in 1 .. sending |-> IF k <= Len(handed) THEN handed[k] ELSE Beyond])
    /\ UNCHANGED <<held, handed, answer, sending>>

Return == pc = "sent" /\ Returns(0) /\ UNCHANGED <<held, sending>>

Refuse ==
    /\ pc = "send" /\ ~(LooksLikeSysEx(handed) \/ Len(handed) = 3)
    /\ Returns(-1)
    /\ UNCHANGED <<held, sending>>

Init == InitCalls /\ sending = 0

Send == Midiws \/ BytesSent \/ Return \/ Refuse

Next == Initialise \/ Call \/ Send \/ Deinit

\* Midiws() returns.
Fairness == WF_vars(Send)
=============================================================================
