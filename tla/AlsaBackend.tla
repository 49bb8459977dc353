----------------------------- MODULE AlsaBackend -----------------------------
(***************************************************************************)
(* The Linux back end, linux_src/midi_dev.c: a client of the ALSA          *)
(* sequencer, which turns the bytes it is given into an event.  The        *)
(* sequencer, which turns the event back into bytes, is external; so is    *)
(* the memory, which may run out.                                          *)
(***************************************************************************)
EXTENDS MidiBackend

VARIABLES alsa_client,  \* "NULL", "empty", "unknown" or "known"
          dst,          \* was a destination found?
          event         \* what the message was made into

vars == <<pc, held, callVars, alsa_client, dst, event>>

Needs == {"seq", "src_port", "link"}

-----------------------------------------------------------------------------
(* Options, and mididev_init(). *)

\* -p, as often as it is given: the name before is freed, and memory for this one
\* is allocated.  If there is none the program ends.
ParseArg ==
    /\ pc = "parse"
    /\ \/ alsa_client' \in {"empty", "unknown", "known"} /\ UNCHANGED pc
          /\ held' = held \cup {"alsa_client"}
       \/ alsa_client' = "NULL" /\ pc' = "ended"
          /\ held' = held \ {"alsa_client"}
    /\ UNCHANGED <<callVars, dst, event>>

OpenSeq ==
    Obtain("parse", "seq", "resolve", held) /\ UNCHANGED <<alsa_client, dst, event>>

Resolve ==
    /\ dst' = (alsa_client = "known")
    /\ IF dst' THEN Goto("resolve", "create") /\ UNCHANGED held
               ELSE Goto("resolve", "failed") /\ held' = held \ {"seq"}
    /\ UNCHANGED <<callVars, alsa_client, event>>

CreatePort ==
    /\ Obtain("create", "src_port", "connect", held \ {"seq"})
    /\ UNCHANGED <<alsa_client, dst, event>>

\* mididev_deinit() closes both; deleting the port ends its connection. The name
\* stays. Mutant: the port is forgotten.
ReleasedAllButPort == held \ {"seq", "link"}
Released           == held \ {"seq", "src_port", "link"}

Connect ==
    Obtain("connect", "link", "ready", Released) /\ UNCHANGED <<alsa_client, dst, event>>

-----------------------------------------------------------------------------
(* mididev_send_bytes() *)

Call == CallSend /\ UNCHANGED <<alsa_client, dst, event>>

Takes(m) ==
    CASE Op(m) \in {NoteOff, NoteOn, KeyPress, Control, Bend} -> Len(m) = 3
      [] Op(m) \in {Program, Pressure} -> Len(m) = 2
      [] Op(m) = SysExStart -> m[Len(m)] = SysExEnd
      [] OTHER -> FALSE

\* The value of a pitch bend passes through an unsigned char.
BendValue(m) == ((m[2] % 128) + (m[3] % 128) * 128) % 256

EventOf(m) ==
    CASE Op(m) = SysExStart -> [type |-> SysExStart, data |-> m]
      [] Op(m) = Bend -> [type |-> Bend, channel |-> Channel(m), data |-> <<BendValue(m)>>]
      [] OTHER -> [type |-> Op(m), channel |-> Channel(m), data |-> SubSeq(m, 2, Len(m))]

Refuse ==
    /\ pc = "send"
    /\ ~Takes(handed) \/ Op(handed) = SysExStart    \* no memory
    /\ Returns(-1)
    /\ UNCHANGED <<held, alsa_client, dst, event>>

Encode ==
    /\ Goto("send", "output") /\ Takes(handed)
    /\ event' = EventOf(handed)
    /\ held' = held \cup IF Op(handed) = SysExStart THEN {"tempbuf"} ELSE {}
    /\ UNCHANGED <<callVars, alsa_client, dst>>

\* The sequencer makes bytes of an event: data bytes have seven bits, and the
\* value of a pitch bend counts from the centre.
BytesOf(e) ==
    CASE e.type = SysExStart -> e.data
      [] e.type = Bend -> LET v == e.data[1] + 8192
                          IN  <<Bend + e.channel, v % 128, v \div 128>>
      [] OTHER -> <<e.type + e.channel>> \o [k \in 1 .. Len(e.data) |-> e.data[k] % 128]

\* snd_seq_event_output() and snd_seq_drain_output(), which may fail unnoticed.
Output ==
    /\ Goto("output", "free")
    /\ Transmits(BytesOf(event)) \/ UNCHANGED sent
    /\ UNCHANGED <<held, handed, answer, alsa_client, dst, event>>

Free ==
    /\ pc = "free" /\ Returns(0)
    /\ held' = held \ {"tempbuf"}
    /\ UNCHANGED <<alsa_client, dst, event>>

Deinit ==
    /\ Goto("ready", "ended")
    /\ held' = Released
    /\ UNCHANGED <<callVars, alsa_client, dst, event>>

\* What comes out of the sequencer as it was given: SysEx messages, and channel
\* messages with data bytes of seven bits, but of the bends only a few near the centre.
Carries(m) ==
    \/ ~Takes(m) \/ Op(m) = SysExStart
    \/ /\ \A k \in 2 .. Len(m) : m[k] < 128
       /\ Op(m) = Bend => m[3] \in {64, 65}

Init == InitCalls /\ alsa_client = "NULL" /\ dst = FALSE /\ event = [type |-> 0]

Send == Refuse \/ Encode \/ Output \/ Free

Next == ParseArg \/ OpenSeq \/ Resolve \/ CreatePort \/ Connect \/ Call \/ Send \/ Deinit

\* The calls of the sequencer return.
Fairness == WF_vars(Send)
=============================================================================
