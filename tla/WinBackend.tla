----------------------------- MODULE WinBackend -----------------------------
(***************************************************************************)
(* The Windows back end, win32_src/midi_dev.c, over the waveform API: a    *)
(* SysEx message is played from the program's buffer while the program     *)
(* polls until the driver is done with it.  The driver is external.        *)
(***************************************************************************)
EXTENDS MidiBackend

VARIABLES output_port,  \* "-1" or "given"
          tempbuf,      \* the copy of the message, or NoMessage
          playing       \* bytes of it the driver still has to play

vars == <<pc, held, callVars, output_port, tempbuf, playing>>

Buffer == {"tempbuf", "mheader"}

-----------------------------------------------------------------------------
(* Options, mididev_init() and mididev_deinit(). *)

\* -p; -l lists the ports and ends the program.
ParseArg ==
    /\ pc = "parse"
    /\ \/ output_port' \in {"-1", "given"} /\ UNCHANGED pc
       \/ pc' = "ended" /\ UNCHANGED output_port
    /\ UNCHANGED <<held, callVars, tempbuf, playing>>

CheckPort ==
    /\ Goto("parse", IF output_port = "given" THEN "open" ELSE "failed")
    /\ UNCHANGED <<held, callVars, output_port, tempbuf, playing>>

OpenPort ==
    /\ Obtain("open", "midi_handle", "ready", held)
    /\ UNCHANGED <<output_port, tempbuf, playing>>

Deinit ==
    /\ Goto("ready", "ended")
    /\ held' = held \ {"midi_handle"}
    /\ UNCHANGED <<callVars, output_port, tempbuf, playing>>

-----------------------------------------------------------------------------
(* mididev_send_bytes() *)

Call == CallSend /\ UNCHANGED <<output_port, tempbuf, playing>>

\* malloc() and midiOutPrepareHeader(); either may fail.
Prepare ==
    /\ Goto("send", "prepared") /\ LooksLikeSysEx(handed)
    /\ held' = held \cup Buffer /\ tempbuf' = handed
    /\ UNCHANGED <<callVars, output_port, playing>>
PrepareFails ==
    /\ pc = "send" /\ LooksLikeSysEx(handed)
    /\ Returns(-1)
    /\ UNCHANGED <<held, output_port, tempbuf, playing>>

LongMsg ==
    /\ Goto("prepared", "wait")
    /\ playing' = Len(tempbuf)
    /\ UNCHANGED <<held, callVars, output_port, tempbuf>>
LongMsgFails ==
    /\ pc = "prepared" /\ Returns(-1)
    /\ held' = held \ Buffer /\ tempbuf' = NoMessage
    /\ UNCHANGED <<output_port, playing>>

\* The driver plays from tempbuf.
Play ==
    /\ playing > 0
    /\ playing' = playing - 1
    /\ IF playing = 1 THEN Transmits(tempbuf) ELSE UNCHANGED sent
    /\ UNCHANGED <<pc, held, handed, answer, output_port, tempbuf>>

\* The wait: the header is the driver's until it is done. Mutants: the wait is
\* left out, or its test inverted.
Unprepared ==
    /\ Returns(0)
    /\ held' = held \ Buffer /\ tempbuf' = NoMessage
    /\ UNCHANGED <<output_port, playing>>
UnprepareAtOnce   == pc = "wait" /\ Unprepared
UnprepareInverted == pc = "wait" /\ playing > 0 /\ Unprepared
Unprepare         == pc = "wait" /\ playing = 0 /\ Unprepared

\* Two or three bytes in a double word, the first one lowest. Mutant: the other way
\* round.
DWordSwapped(m) == IF Len(m) = 2 THEN m[2] + m[1] * 256
                                 ELSE m[3] + m[2] * 256 + m[1] * 65536
DWord(m) == IF Len(m) = 2 THEN m[1] + m[2] * 256
                          ELSE m[1] + m[2] * 256 + m[3] * 65536

\* What the driver makes of it.
BytesOf(w, bits) == ShortBytes(w % 256, (w \div 256) % 256, (w \div 65536) % 256, bits)

\* midiOutShortMsg(), which may fail.
ShortMsg ==
    /\ Goto("send", "short")
    /\ ~LooksLikeSysEx(handed) /\ Len(handed) \in {2, 3}
    /\ \E bits \in {128, 256} : Transmits(BytesOf(DWord(handed), bits))
    /\ UNCHANGED <<held, handed, answer, output_port, tempbuf, playing>>
ReturnShort ==
    /\ pc = "short" /\ Returns(0)
    /\ UNCHANGED <<held, output_port, tempbuf, playing>>

\* It is no message, or the driver does not take it.
Refuse ==
    /\ pc = "send" /\ ~LooksLikeSysEx(handed) /\ Returns(-1)
    /\ UNCHANGED <<held, output_port, tempbuf, playing>>

\* SysEx messages, and well-formed messages of two or three bytes; shorter and longer
\* ones the driver is not given.
Carries(m) == LooksLikeSysEx(m) \/ (Len(m) \in {2, 3} => WellFormed(m))

Init == InitCalls /\ output_port = "-1" /\ tempbuf = NoMessage /\ playing = 0

Send == \/ Prepare \/ PrepareFails \/ LongMsg \/ LongMsgFails \/ Unprepare
        \/ ShortMsg \/ ReturnShort \/ Refuse

Next == ParseArg \/ CheckPort \/ OpenPort \/ Call \/ Send \/ Play \/ Deinit

\* The program polls, and the driver plays what it accepted.
Fairness == WF_vars(Send) /\ WF_vars(Play)
=============================================================================
