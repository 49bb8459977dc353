---------------------------- MODULE AmigaBackend ----------------------------
(***************************************************************************)
(* The Amiga back end, amiga_src/midi_dev.c: either camd.library, which    *)
(* takes messages, or the serial device, which takes bytes.  Both are      *)
(* external, and on this system nothing is released for a program that     *)
(* ends.                                                                   *)
(***************************************************************************)
EXTENDS MidiBackend

VARIABLES use_direct_serial,
          camd_out      \* the output location: "out.0" or "given"

optVars == <<use_direct_serial, camd_out>>
vars    == <<pc, held, callVars, optVars>>

SerialNeeds == {"msg_port", "io_serial", "device"}
CamdNeeds   == {"camd", "midi_node", "midi_link"}

-----------------------------------------------------------------------------
(* Options, and mididev_init(). *)

\* -S; -l, and -l with a name that is too long.
ParseArg ==
    /\ pc = "parse"
    /\ \/ use_direct_serial' = TRUE /\ UNCHANGED <<pc, camd_out>>
       \/ camd_out' = "given" /\ UNCHANGED <<pc, use_direct_serial>>
       \/ pc' = "failed" /\ UNCHANGED optVars
    /\ UNCHANGED <<held, callVars>>

CallInit ==
    /\ IF use_direct_serial THEN Goto("parse", "msg_port") ELSE Goto("parse", "camd")
    /\ UNCHANGED <<held, callVars, optVars>>

\* When one thing is not to be had, those before it are not given back.
Get(thing, next) == Obtain(thing, thing, next, held) /\ UNCHANGED optVars

CreatePort  == Get("msg_port", "io_serial")
CreateExtIO == Get("io_serial", "device")
OpenLibrary == Get("camd", "midi_node")
CreateMidi  == Get("midi_node", "midi_link")
AddMidiLink == Get("midi_link", "ready")

\* "return false", which is 0, and no error for main.
OpenDevice ==
    /\ Goto("device", "ready")
    /\ held' = held \cup {"device"} \/ UNCHANGED held
    /\ UNCHANGED <<callVars, optVars>>

-----------------------------------------------------------------------------
(* mididev_send_bytes() *)

Call == CallSend /\ UNCHANGED optVars

\* DoIO(CMD_WRITE), which may fail unnoticed. On a device that is not open there
\* is no telling what it does.
SendSerial ==
    /\ use_direct_serial
    /\ \/ Goto("send", "sent") /\ "device" \in held /\ Transmits(handed)
       \/ Goto("send", "sent") /\ UNCHANGED sent
       \/ Goto("send", "crashed") /\ "device" \notin held /\ UNCHANGED sent
    /\ UNCHANGED <<held, handed, answer, optVars>>

\* PutSysEx() is not told a length: it sends up to the first end.
UpToEnd(m) ==
    SubSeq(m, 1, CHOOSE k \in 1 .. Len(m) :
                    m[k] = SysExEnd /\ \A j \in 1 .. k - 1 : m[j] # SysExEnd)

\* A MidiMsg, and what PutMidi() makes of it.
MidiMsg(m) == [mm_Status |-> m[1], mm_Data1 |-> m[2], mm_Data2 |-> m[3], mm_Port |-> 0]
PutMidi(msg, bits) == ShortBytes(msg.mm_Status, msg.mm_Data1, msg.mm_Data2, bits)

\* Both calls may lose the message unnoticed.
SendCamd ==
    /\ ~use_direct_serial /\ Goto("send", "sent")
    /\ \/ LooksLikeSysEx(handed) /\ Transmits(UpToEnd(handed))
       \/ /\ ~LooksLikeSysEx(handed) /\ Len(handed) = 3
          /\ \E bits \in {128, 256} : Transmits(PutMidi(MidiMsg(handed), bits))
       \/ (LooksLikeSysEx(handed) \/ Len(handed) = 3) /\ UNCHANGED sent
    /\ UNCHANGED <<held, handed, answer, optVars>>

Refuse ==
    /\ ~use_direct_serial /\ pc = "send"
    /\ ~LooksLikeSysEx(handed) /\ Len(handed) # 3
    /\ Returns(-1)
    /\ UNCHANGED <<held, optVars>>

ReturnSend == pc = "sent" /\ Returns(0) /\ UNCHANGED <<held, optVars>>

\* mididev_deinit().
Deinit ==
    /\ Goto("ready", "ended")
    /\ held' = held \ IF use_direct_serial THEN SerialNeeds ELSE CamdNeeds
    /\ UNCHANGED <<callVars, optVars>>

\* The serial device takes any bytes, camd SysEx messages with a single end and
\* well-formed messages of three bytes; the others it is not given.
Carries(m) ==
    \/ use_direct_serial
    \/ LooksLikeSysEx(m) /\ \A k \in 1 .. Len(m) - 1 : m[k] # SysExEnd
    \/ ~LooksLikeSysEx(m) /\ (Len(m) = 3 => WellFormed(m))

Init == InitCalls /\ use_direct_serial = FALSE /\ camd_out = "out.0"

Send == SendSerial \/ SendCamd \/ Refuse \/ ReturnSend

Next == \/ ParseArg \/ CallInit \/ CreatePort \/ CreateExtIO \/ OpenDevice
        \/ OpenLibrary \/ CreateMidi \/ AddMidiLink
        \/ Call \/ Send \/ Deinit

\* The calls of the library and the device return.
Fairness == WF_vars(Send)
=============================================================================
