---------------------------- MODULE BackendsProofs ----------------------------
(***************************************************************************)
(* Proofs about Backends, for every set of messages and every number of    *)
(* sends: what is held at every place of each back end, that the driver of *)
(* Windows plays from live memory, and that each back end keeps the        *)
(* promise of midi_dev.h.                                                  *)
(***************************************************************************)
EXTENDS Backends, SequenceTheorems, TLAPS

-----------------------------------------------------------------------------
(* What is held, place by place. *)

\* Other than the name of the destination.
Others == held \ {"alsa_client"}

\* Each thing of mididev_init() is there when the next one is asked for.
AlsaHolds ==
    /\ pc \in {"parse", "resolve", "create", "connect", "ready", "send",
               "output", "free", "ended", "failed"}
    /\ "alsa_client" \in held <=> alsa_client # "NULL"
    /\ pc \in {"parse", "ended", "failed"} => Others = {}
    /\ pc \in {"resolve", "create"} => Others = {"seq"}
    /\ pc = "connect" => Others = {"seq", "src_port"}
    /\ pc \in {"ready", "send"} => Others = {"seq", "src_port", "link"}
    /\ pc \in {"output", "free"} =>
           Others \in {{"seq", "src_port", "link"}, {"seq", "src_port", "link", "tempbuf"}}

SerialHolds ==
    /\ pc \in {"parse", "msg_port", "io_serial", "device", "ready", "send", "sent",
               "crashed", "ended", "failed"}
    /\ pc \in {"parse", "msg_port", "ended"} => held = {}
    /\ pc = "io_serial" => held = {"msg_port"}
    /\ pc = "device" => held = {"msg_port", "io_serial"}
    /\ pc \in {"ready", "send", "sent"} =>
           held \in {{"msg_port", "io_serial"}, {"msg_port", "io_serial", "device"}}
    /\ pc = "failed" => held \in {{}, {"msg_port"}}

CamdHolds ==
    /\ pc \in {"parse", "camd", "midi_node", "midi_link", "ready", "send", "sent",
               "ended", "failed"}
    /\ pc \in {"parse", "camd", "ended"} => held = {}
    /\ pc = "midi_node" => held = {"camd"}
    /\ pc = "midi_link" => held = {"camd", "midi_node"}
    /\ pc \in {"ready", "send", "sent"} => held = {"camd", "midi_node", "midi_link"}
    /\ pc = "failed" => held \in {{}, {"camd"}, {"camd", "midi_node"}}

AmigaHolds ==
    /\ use_direct_serial \in BOOLEAN
    /\ use_direct_serial => SerialHolds
    /\ ~use_direct_serial => CamdHolds

WinHolds ==
    /\ pc \in {"parse", "open", "ready", "send", "prepared", "wait", "short",
               "ended", "failed"}
    /\ pc \in {"parse", "open", "ended", "failed"} => held = {}
    /\ pc \in {"ready", "send", "short"} => held = {"midi_handle"}
    /\ pc \in {"prepared", "wait"} => held = {"midi_handle", "tempbuf", "mheader"}
    /\ playing > 0 => pc = "wait"

AtariHolds ==
    /\ pc \in {"parse", "ready", "send", "sending", "sent", "ended"}
    /\ held = {}

\* On the Amiga alone the direct serial device is chosen, on Windows alone a
\* driver plays.
HoldsInv ==
    /\ platform \in {"linux", "amiga", "windows", "atari"}
    /\ platform = "linux" => AlsaHolds
    /\ platform = "amiga" => AmigaHolds
    /\ platform = "windows" => WinHolds
    /\ platform = "atari" => AtariHolds
    /\ platform # "amiga" => use_direct_serial = FALSE
    /\ platform # "windows" => playing = 0

LEMMA HoldsInit == Init => HoldsInv
<1> SUFFICES ASSUME Init PROVE HoldsInv
  OBVIOUS
<1>1. /\ platform \in {"linux", "amiga", "windows", "atari"}
      /\ pc = "parse" /\ held = {} /\ use_direct_serial = FALSE /\ playing = 0
      /\ alsa_client = "NULL"
  BY PlatformsAssumption DEF Init, Alsa!Init, Alsa!InitCalls, Amiga!Init, Win!Init
<1>2. ~(playing > 0)
  BY <1>1
<1>3. QED
  BY <1>1, <1>2 DEF HoldsInv, AlsaHolds, Others, AmigaHolds, WinHolds, AtariHolds, SerialHolds,
     CamdHolds

LEMMA AlsaKeepsHold == AlsaHolds /\ Alsa!Next => AlsaHolds'
<1> SUFFICES ASSUME AlsaHolds, Alsa!Next PROVE AlsaHolds'
  OBVIOUS
<1> USE DEF AlsaHolds, Others, Alsa!Goto, Alsa!Obtain, Alsa!Returns
<1>1. CASE Alsa!ParseArg
  BY <1>1 DEF Alsa!ParseArg
<1>2. CASE Alsa!OpenSeq
  BY <1>2 DEF Alsa!OpenSeq
<1>3. CASE Alsa!Resolve
  BY <1>3 DEF Alsa!Resolve
<1>4. CASE Alsa!CreatePort
  BY <1>4 DEF Alsa!CreatePort
<1>5. CASE Alsa!Connect
  BY <1>5 DEF Alsa!Connect, Alsa!Released
<1>6. CASE Alsa!Call
  BY <1>6 DEF Alsa!Call, Alsa!CallSend
<1>7. CASE Alsa!Send
  <2>1. CASE Alsa!Refuse
    BY <2>1 DEF Alsa!Refuse
  <2>2. CASE Alsa!Encode
    BY <2>2 DEF Alsa!Encode
  <2>3. CASE Alsa!Output
    BY <2>3 DEF Alsa!Output
  <2>4. CASE Alsa!Free
    BY <2>4 DEF Alsa!Free
  <2>5. QED
    BY <1>7, <2>1, <2>2, <2>3, <2>4 DEF Alsa!Send
<1>8. CASE Alsa!Deinit
  BY <1>8 DEF Alsa!Deinit, Alsa!Released
<1>9. QED
  BY <1>1, <1>2, <1>3, <1>4, <1>5, <1>6, <1>7, <1>8 DEF Alsa!Next

LEMMA AmigaKeepsHold == AmigaHolds /\ Amiga!Next => AmigaHolds'
<1> SUFFICES ASSUME AmigaHolds, Amiga!Next PROVE AmigaHolds'
  OBVIOUS
<1> USE DEF AmigaHolds, SerialHolds, CamdHolds, Amiga!Goto, Amiga!Obtain, Amiga!Returns,
        Amiga!optVars, Amiga!Get
<1>1. CASE Amiga!ParseArg
  BY <1>1 DEF Amiga!ParseArg
<1>2. CASE Amiga!CallInit
  BY <1>2 DEF Amiga!CallInit
<1>3. CASE Amiga!CreatePort
  BY <1>3 DEF Amiga!CreatePort
<1>4. CASE Amiga!CreateExtIO
  BY <1>4 DEF Amiga!CreateExtIO
<1>5. CASE Amiga!OpenDevice
  BY <1>5 DEF Amiga!OpenDevice
<1>6. CASE Amiga!OpenLibrary
  BY <1>6 DEF Amiga!OpenLibrary
<1>7. CASE Amiga!CreateMidi
  BY <1>7 DEF Amiga!CreateMidi
<1>8. CASE Amiga!AddMidiLink
  BY <1>8 DEF Amiga!AddMidiLink
<1>9. CASE Amiga!Call
  BY <1>9 DEF Amiga!Call, Amiga!CallSend
<1>10. CASE Amiga!Send
  BY <1>10 DEF Amiga!Send, Amiga!SendSerial, Amiga!SendCamd, Amiga!Refuse,
               Amiga!ReturnSend
<1>11. CASE Amiga!Deinit
  BY <1>11 DEF Amiga!Deinit, Amiga!SerialNeeds, Amiga!CamdNeeds
<1>12. QED
  BY <1>1, <1>2, <1>3, <1>4, <1>5, <1>6, <1>7, <1>8, <1>9, <1>10, <1>11 DEF Amiga!Next

LEMMA WinKeepsHold == WinHolds /\ Win!Next => WinHolds'
<1> SUFFICES ASSUME WinHolds, Win!Next PROVE WinHolds'
  OBVIOUS
<1> USE DEF WinHolds, Win!Goto, Win!Obtain, Win!Returns, Win!Buffer
<1>1. CASE Win!ParseArg
  BY <1>1 DEF Win!ParseArg
<1>2. CASE Win!CheckPort
  BY <1>2 DEF Win!CheckPort
<1>3. CASE Win!OpenPort
  BY <1>3 DEF Win!OpenPort
<1>4. CASE Win!Call
  BY <1>4 DEF Win!Call, Win!CallSend
<1>5. CASE Win!Send
  <2>1. CASE Win!Prepare \/ Win!PrepareFails
    BY <2>1 DEF Win!Prepare, Win!PrepareFails
  <2>2. CASE Win!LongMsg
    BY <2>2 DEF Win!LongMsg
  <2>3. CASE Win!LongMsgFails
    BY <2>3 DEF Win!LongMsgFails
  <2>4. CASE Win!Unprepare
    BY <2>4 DEF Win!Unprepare, Win!Unprepared
  <2>5. CASE Win!ShortMsg \/ Win!ReturnShort \/ Win!Refuse
    BY <2>5 DEF Win!ShortMsg, Win!ReturnShort, Win!Refuse
  <2>6. QED
    BY <1>5, <2>1, <2>2, <2>3, <2>4, <2>5 DEF Win!Send
<1>6. CASE Win!Play
  BY <1>6 DEF Win!Play
<1>7. CASE Win!Deinit
  BY <1>7 DEF Win!Deinit
<1>8. QED
  BY <1>1, <1>2, <1>3, <1>4, <1>5, <1>6, <1>7 DEF Win!Next

LEMMA AtariKeepsHold == AtariHolds /\ Atari!Next => AtariHolds'
BY DEF AtariHolds, Atari!Next, Atari!Initialise, Atari!Call, Atari!Send, Atari!Deinit,
   Atari!Goto, Atari!CallSend, Atari!Midiws, Atari!BytesSent, Atari!Return, Atari!Refuse,
   Atari!Returns

LEMMA HoldsNext == HoldsInv /\ Next => HoldsInv'
<1> SUFFICES ASSUME HoldsInv, Next PROVE HoldsInv'
  OBVIOUS
<1>1. CASE OnAlsa
  BY <1>1, AlsaKeepsHold DEF OnAlsa, HoldsInv, amigaVars, winVars
<1>2. CASE OnAmiga
  BY <1>2, AmigaKeepsHold DEF OnAmiga, HoldsInv, winVars
<1>3. CASE OnWin
  BY <1>3, WinKeepsHold DEF OnWin, HoldsInv, amigaVars
<1>4. CASE OnAtari
  BY <1>4, AtariKeepsHold DEF OnAtari, HoldsInv, amigaVars, winVars
<1>5. QED
  BY <1>1, <1>2, <1>3, <1>4 DEF Next

LEMMA HoldsStutter == HoldsInv /\ UNCHANGED vars => HoldsInv'
BY DEF HoldsInv, vars, alsaVars, amigaVars, winVars, AlsaHolds, Others, AmigaHolds, WinHolds, AtariHolds,
   SerialHolds, CamdHolds

LEMMA HoldsAlways == Spec => []HoldsInv
BY HoldsInit, HoldsNext, HoldsStutter, PTL DEF Spec

\* Whatever fails and however many messages are sent, what is allocated is what
\* is in use, on every platform, but for the name of the destination on Linux and what
\* a failing init has got by then on the Amiga.
THEOREM AlwaysHoldsWhatItUses == Spec => []HoldsWhatItUses
<1>1. HoldsInv /\ platform = "linux" => HoldsWhatItUses
  <2> SUFFICES ASSUME HoldsInv, platform = "linux" PROVE HoldsWhatItUses
    OBVIOUS
  <2>1. AlsaHolds /\ use_direct_serial = FALSE
    BY DEF HoldsInv
  <2>2. held = Others \cup Kept
    BY <2>1 DEF AlsaHolds, Others, Kept
  <2>3. QED
    BY <2>1, <2>2 DEF HoldsWhatItUses, AlsaHolds, Needs, Alsa!Needs
<1>2. HoldsInv /\ platform # "linux" => HoldsWhatItUses
  <2> SUFFICES ASSUME HoldsInv, platform # "linux" PROVE HoldsWhatItUses
    OBVIOUS
  <2>1. Kept = {}
    BY DEF Kept
  <2>2. QED
    BY <2>1 DEF HoldsInv, HoldsWhatItUses, Needs, Amiga!SerialNeeds, Amiga!CamdNeeds,
       AmigaHolds, WinHolds, AtariHolds, SerialHolds, CamdHolds
<1>3. HoldsInv => HoldsWhatItUses
  BY <1>1, <1>2
<1>4. QED
  BY <1>3, HoldsAlways, PTL

\* The driver of Windows never plays from memory that was given back, nor through
\* a closed handle.
THEOREM AlwaysPlaysFromLiveBuffer == Spec => []PlaysFromLiveBuffer
<1>1. HoldsInv => PlaysFromLiveBuffer
  BY DEF HoldsInv, WinHolds, PlaysFromLiveBuffer, Win!Buffer
<1>2. QED
  BY <1>1, HoldsAlways, PTL

-----------------------------------------------------------------------------
(* What a back end makes of the bytes is the bytes. *)

\* What a sequence over a set has in it.
LEMMA Elements ==
    ASSUME NEW S, NEW s \in Seq(S)
    PROVE  Len(s) \in Nat /\ \A k \in 1 .. Len(s) : s[k] \in S
OBVIOUS

Bytes == 0 .. 255
Data  == 0 .. 127

\* Numbers of seven bits.
LEMMA SevenBits ==
    /\ \A x \in Bytes : x < 128 => x \in Data
    /\ \A x \in Data : x \in Bytes /\ x % 128 = x /\ x % 256 = x
BY DEF Bytes, Data

LEMMA DataBits ==
    ASSUME NEW x \in Data, NEW bits \in {128, 256}
    PROVE  x % bits = x
<1>1. CASE bits = 128
  BY <1>1, SevenBits
<1>2. CASE bits = 256
  BY <1>2, SevenBits
<1>3. QED
  BY <1>1, <1>2

\* The data bytes of a well-formed message.
LEMMA DataBytes ==
    ASSUME NEW m \in Seq(0 .. 255), NEW n \in {2, 3}, Len(m) = n,
           \A k \in 2 .. Len(m) : m[k] < 128
    PROVE  m[1] \in Bytes /\ m[2] \in Data /\ (n = 3 => m[3] \in Data)
<1>0. Len(m) \in Nat /\ \A k \in 1 .. Len(m) : m[k] \in Bytes
  BY Elements, Zenon DEF Bytes
<1>1. m[1] \in Bytes /\ m[2] \in Bytes /\ (n = 3 => m[3] \in Bytes)
  <2>1. 1 \in 1 .. Len(m) /\ 2 \in 1 .. Len(m) /\ (n = 3 => 3 \in 1 .. Len(m))
    BY <1>0
  <2>2. QED
    BY <1>0, <2>1, Zenon
<1>2. m[2] < 128 /\ (n = 3 => m[3] < 128)
  OBVIOUS
<1>3. QED
  BY <1>1, <1>2, SevenBits, Zenon

\* The first byte is its two halves.
LEMMA OpFacts ==
    ASSUME NEW m \in Seq(0 .. 255), Len(m) > 0
    PROVE  /\ m[1] \in 0 .. 255 /\ Op(m) + Channel(m) = m[1]
           /\ Alsa!Op(m) = Op(m) /\ Alsa!Channel(m) = Channel(m)
<1>1. ASSUME NEW x \in 0 .. 255 PROVE (x \div 16) * 16 + (x % 16) = x
  <2>1. x \in Int /\ x \div 16 \in Int /\ x % 16 \in Int
    OBVIOUS
  <2>2. 16 * (x \div 16) + (x % 16) = x
    BY <2>1
  <2>3. QED
    BY <2>1, <2>2
<1>2. m[1] \in 0 .. 255
  <2>1. Len(m) \in Nat /\ \A k \in 1 .. Len(m) : m[k] \in 0 .. 255
    BY Elements, Zenon
  <2>2. 1 \in 1 .. Len(m)
    BY <2>1
  <2>3. QED
    BY <2>1, <2>2, Zenon
<1>3. QED
  BY <1>1, <1>2 DEF Op, Channel, Alsa!Op, Alsa!Channel

\* The value of a bend near the centre comes out as it went in.
LEMMA BendNumbers ==
    ASSUME NEW l \in 0 .. 127, NEW h \in {64, 65}
    PROVE  LET v == (((l % 128) + (h % 128) * 128) % 256) + 8192
           IN  v % 128 = l /\ v \div 128 = h
<1>1. l % 128 = l
  OBVIOUS
<1>2. CASE h = 64
  <2>1. (h % 128) * 128 = 8192
    BY <1>2
  <2>2. (l + 8192) % 256 = l
    OBVIOUS
  <2>3. (l + 8192) % 128 = l /\ (l + 8192) \div 128 = 64
    OBVIOUS
  <2>4. QED
    BY <1>1, <1>2, <2>1, <2>2, <2>3
<1>3. CASE h = 65
  <2>1. (h % 128) * 128 = 8320
    BY <1>3
  <2>2. (l + 8320) % 256 = l + 128
    OBVIOUS
  <2>3. (l + 128 + 8192) % 128 = l /\ (l + 128 + 8192) \div 128 = 65
    OBVIOUS
  <2>4. QED
    BY <1>1, <1>3, <2>1, <2>2, <2>3
<1>4. QED
  BY <1>2, <1>3

BendOf(l, h) == ((l % 128) + (h % 128) * 128) % 256

LEMMA BendFacts ==
    ASSUME NEW l \in Data, NEW h \in {64, 65}
    PROVE  (BendOf(l, h) + 8192) % 128 = l /\ (BendOf(l, h) + 8192) \div 128 = h
BY BendNumbers DEF BendOf, Data

\* The sequencer makes of an event the message it was made of.
LEMMA AlsaBytes ==
    ASSUME NEW m, m \in Seq(0 .. 255), Len(m) > 0, Alsa!Takes(m), Alsa!Carries(m)
    PROVE  Alsa!BytesOf(Alsa!EventOf(m)) = m
<1>0. m \in Seq(0 .. 255) /\ Len(m) \in Nat /\ \A k \in 1 .. Len(m) : m[k] \in 0 .. 255
  BY Elements
<1>1. m[1] \in 0 .. 255 /\ Op(m) + Channel(m) = m[1]
      /\ Alsa!Op(m) = Op(m) /\ Alsa!Channel(m) = Channel(m)
  BY <1>0, OpFacts
<1>2. CASE Op(m) = 240
  <2>1. Alsa!EventOf(m) = [type |-> 240, data |-> m]
    BY <1>1, <1>2 DEF Alsa!EventOf, Alsa!SysExStart, Alsa!Bend
  <2>2. QED
    BY <2>1 DEF Alsa!BytesOf, Alsa!SysExStart, Alsa!Bend
<1>3. CASE Op(m) = 224
  <2>1. Len(m) = 3
    BY <1>1, <1>3 DEF Alsa!Takes, Alsa!SysExStart, Alsa!Bend, Alsa!NoteOff, Alsa!NoteOn,
       Alsa!KeyPress, Alsa!Control, Alsa!Program, Alsa!Pressure
  <2>2. PICK x \in Bytes, l \in Data, h \in {64, 65} : m[1] = x /\ m[2] = l /\ m[3] = h
    <3>1. m[3] \in {64, 65} /\ \A k \in 2 .. Len(m) : m[k] < 128
      BY <1>1, <1>3, <2>1 DEF Alsa!Carries, Alsa!SysExStart, Alsa!Bend
    <3>2. m[1] \in Bytes /\ m[2] \in Data
      BY <2>1, <3>1, DataBytes
    <3>3. QED
      BY <3>1, <3>2, Zenon
  <2> DEFINE v == BendOf(l, h)
             e == [type |-> 224, channel |-> Channel(m), data |-> <<v>>]
  <2>3. Alsa!EventOf(m) = e
    BY <1>1, <1>3, <2>2 DEF Alsa!EventOf, Alsa!SysExStart, Alsa!Bend, Alsa!BendValue, BendOf
  <2>4. e.type = 224 /\ e.channel = Channel(m) /\ e.data[1] = v
    OBVIOUS
  <2>5. Alsa!BytesOf(e) = <<224 + Channel(m), (v + 8192) % 128, (v + 8192) \div 128>>
    <3> HIDE DEF v, e
    <3>1. QED
      BY <2>4 DEF Alsa!BytesOf, Alsa!SysExStart, Alsa!Bend
  <2>6. (v + 8192) % 128 = l /\ (v + 8192) \div 128 = h
    <3>1. l \in Data /\ h \in {64, 65}
      BY <2>2, Zenon
    <3>2. QED
      BY <3>1, BendFacts
  <2>7. 224 + Channel(m) = x
    BY <1>1, <1>3, <2>2
  <2>8. Alsa!BytesOf(e) = <<x, l, h>>
    <3> HIDE DEF v, e
    <3>1. QED
      BY <2>5, <2>6, <2>7
  <2>9. <<x, l, h>> = m
    BY <1>0, <2>1, <2>2
  <2>10. QED
    BY <2>3, <2>8, <2>9, Zenon
<1>4. CASE Op(m) \notin {224, 240}
  <2> DEFINE d == SubSeq(m, 2, Len(m))
             e == [type |-> Op(m), channel |-> Channel(m), data |-> d]
  <2>1. Alsa!EventOf(m) = e
    BY <1>1, <1>4 DEF Alsa!EventOf, Alsa!SysExStart, Alsa!Bend
  <2>2. e.type = Op(m) /\ e.channel = Channel(m) /\ e.data = d
    OBVIOUS
  <2>3. Alsa!BytesOf(e) = <<Op(m) + Channel(m)>> \o [k \in 1 .. Len(d) |-> d[k] % 128]
    <3> HIDE DEF d, e
    <3>1. QED
      BY <1>1, <1>4, <2>2 DEF Alsa!BytesOf, Alsa!SysExStart, Alsa!Bend
  <2>4. Len(m) \in {2, 3}
    BY <1>1, <1>4 DEF Alsa!Takes, Alsa!SysExStart
  <2>5. \A k \in 2 .. Len(m) : m[k] \in 0 .. 127
    <3>1. \A k \in 2 .. Len(m) : m[k] < 128
      BY <1>1, <1>4 DEF Alsa!Carries, Alsa!SysExStart
    <3>2. \A k \in 2 .. Len(m) : m[k] \in 0 .. 255
      BY <1>0, <2>4
    <3>3. ASSUME NEW k \in 2 .. Len(m) PROVE m[k] \in Data
      <4>1. m[k] < 128 /\ m[k] \in Bytes
        BY <3>1, <3>2 DEF Bytes
      <4>2. QED
        BY <4>1, SevenBits, Zenon
    <3>4. QED
      BY <3>3 DEF Data
  <2>6. d \in Seq(0 .. 255) /\ Len(d) = Len(m) - 1
    <3>1. \A k \in 2 .. Len(m) : m[k] \in 0 .. 255
      BY <1>0
    <3>2. d \in Seq(0 .. 255) /\ Len(d) = IF 2 <= Len(m) THEN Len(m) - 2 + 1 ELSE 0
      BY <1>0, <3>1, SubSeqProperties
    <3>3. \A n \in {2, 3} : (IF 2 <= n THEN n - 2 + 1 ELSE 0) = n - 1
      OBVIOUS
    <3>4. QED
      BY <2>4, <3>2, <3>3, Zenon
  <2>7. \A k \in 1 .. Len(d) : d[k] = m[k + 1]
    <3>1. \A k \in 1 .. Len(m) - 1 : d[k] = m[2 + k - 1]
      BY <1>0, <2>4, SubSeqProperties
    <3>2. QED
      BY <2>4, <2>6, <3>1
  <2>8. \A k \in 1 .. Len(d) : d[k] \in 0 .. 127
    <3> HIDE DEF d
    <3>1. \A k \in 1 .. Len(d) : k + 1 \in 2 .. Len(m)
      BY <2>4, <2>6
    <3>2. QED
      BY <2>5, <2>7, <3>1
  <2>9. [k \in 1 .. Len(d) |-> d[k] % 128] = d
    <3> HIDE DEF d
    <3>1. \A k \in 1 .. Len(d) : d[k] % 128 = d[k]
      BY <2>8, SevenBits DEF Data
    <3>2. QED
      BY <3>1, <2>6
  <2>10. <<m[1]>> \o d = m
    BY <1>0, <2>4
  <2>11. QED
    BY <1>1, <2>1, <2>3, <2>9, <2>10
<1>5. QED
  BY <1>2, <1>3, <1>4

\* camd sends up to the first end, which is the last byte.
LEMMA EndBytes ==
    ASSUME NEW m, m \in Seq(0 .. 255), Len(m) > 0, Amiga!LooksLikeSysEx(m),
           \A k \in 1 .. Len(m) - 1 : m[k] # 247
    PROVE  Amiga!UpToEnd(m) = m
<1>1. m \in Seq(0 .. 255) /\ m[1] = 240 /\ m[Len(m)] = 247
  BY DEF Amiga!LooksLikeSysEx, Amiga!SysExStart, Amiga!SysExEnd
<1> DEFINE First(k) == m[k] = 247 /\ \A j \in 1 .. k - 1 : m[j] # 247
<1>2. \A k \in 1 .. Len(m) : First(k) <=> k = Len(m)
  BY <1>1
<1>3. (CHOOSE k \in 1 .. Len(m) : First(k)) = Len(m)
  BY <1>1, <1>2
<1>4. Amiga!UpToEnd(m) = SubSeq(m, 1, Len(m))
  BY <1>3 DEF Amiga!UpToEnd, Amiga!SysExEnd
<1>5. QED
  BY <1>1, <1>4

\* A well-formed message of three bytes comes out of a MidiMsg.
LEMMA MidiMsgBytes ==
    ASSUME NEW m, m \in Seq(0 .. 255), Len(m) = 3, Amiga!WellFormed(m), NEW bits \in {128, 256}
    PROVE  Amiga!PutMidi(Amiga!MidiMsg(m), bits) = m
<1>1. m[1] \in Bytes /\ m[2] \in Data /\ m[3] \in Data
  BY DataBytes DEF Amiga!WellFormed
<1>2. m[2] % bits = m[2] /\ m[3] % bits = m[3]
  BY <1>1, DataBits
<1>3. Amiga!PutMidi(Amiga!MidiMsg(m), bits) = Amiga!ShortBytes(m[1], m[2], m[3], bits)
  BY DEF Amiga!PutMidi, Amiga!MidiMsg
<1>4. Amiga!ShortBytes(m[1], m[2], m[3], bits) =
         SubSeq(<<m[1], m[2], m[3]>>, 1, Amiga!LengthOf(m[1]))
  BY <1>2, Zenon DEF Amiga!ShortBytes
<1>5. Amiga!LengthOf(m[1]) = 3
  BY DEF Amiga!WellFormed
<1>6. SubSeq(<<m[1], m[2], m[3]>>, 1, 3) = m
  OBVIOUS
<1>7. QED
  BY <1>3, <1>4, <1>5, <1>6, Zenon

Word(a, b, c) == a + b * 256 + c * 65536

\* The bytes of a double word are those it was put together of.
LEMMA WordFacts ==
    ASSUME NEW a \in Bytes, NEW b \in Bytes, NEW c \in Bytes
    PROVE  /\ Word(a, b, c) % 256 = a /\ (Word(a, b, c) \div 256) % 256 = b
           /\ (Word(a, b, c) \div 65536) % 256 = c
<1> USE DEF Bytes
<1> DEFINE w == a + b * 256 + c * 65536
<1>0. Word(a, b, c) = w
  BY DEF Word
<1>1. w % 256 = a
  OBVIOUS
<1>2. w \div 256 = b + c * 256
  OBVIOUS
<1>3. (b + c * 256) % 256 = b
  OBVIOUS
<1>4. w \div 65536 = c /\ c % 256 = c
  OBVIOUS
<1>5. w % 256 = a /\ (w \div 256) % 256 = b /\ (w \div 65536) % 256 = c
  BY <1>1, <1>2, <1>3, <1>4
<1>6. QED
  <2> HIDE DEF w
  <2>1. QED
    BY <1>0, <1>5

LEMMA DWordIsWord ==
    ASSUME NEW m \in Seq(0 .. 255)
    PROVE  /\ Len(m) = 3 => Win!DWord(m) = Word(m[1], m[2], m[3])
           /\ Len(m) = 2 => Win!DWord(m) = Word(m[1], m[2], 0)
<1>0. Len(m) \in Nat /\ \A k \in 1 .. Len(m) : m[k] \in 0 .. 255
  BY Elements
<1>1. \A k \in 1 .. Len(m) : m[k] \in Int
  <2>1. \A x \in 0 .. 255 : x \in Int
    OBVIOUS
  <2>2. QED
    BY <1>0, <2>1, Zenon
<1>2. CASE Len(m) = 3
  <2>1. Win!DWord(m) = m[1] + m[2] * 256 + m[3] * 65536
    BY <1>2 DEF Win!DWord
  <2>2. QED
    BY <1>2, <2>1 DEF Word
<1>3. CASE Len(m) = 2
  <2>1. Win!DWord(m) = m[1] + m[2] * 256
    BY <1>3 DEF Win!DWord
  <2>2. m[1] \in Int /\ m[2] \in Int
    BY <1>1, <1>3
  <2>3. Word(m[1], m[2], 0) = m[1] + m[2] * 256
    BY <2>2 DEF Word
  <2>4. QED
    BY <1>3, <2>1, <2>3
<1>4. QED
  BY <1>2, <1>3

\* What the driver makes of a double word.
LEMMA WordBytes ==
    ASSUME NEW a \in Bytes, NEW b \in Data, NEW c \in Data, NEW bits \in {128, 256}
    PROVE  Win!BytesOf(Word(a, b, c), bits) = SubSeq(<<a, b, c>>, 1, Win!LengthOf(a))
<1>1. b \in Bytes /\ c \in Bytes /\ b % bits = b /\ c % bits = c
  <2>1. b \in Bytes /\ c \in Bytes
    BY SevenBits
  <2>2. b % bits = b /\ c % bits = c
    BY DataBits
  <2>3. QED
    BY <2>1, <2>2
<1>2. PICK w : w = Word(a, b, c)
  OBVIOUS
<1>3. w % 256 = a /\ (w \div 256) % 256 = b /\ (w \div 65536) % 256 = c
  BY <1>1, <1>2, WordFacts
<1>4. Win!BytesOf(w, bits) =
         Win!ShortBytes(w % 256, (w \div 256) % 256, (w \div 65536) % 256, bits)
  BY DEF Win!BytesOf
<1>5. Win!BytesOf(w, bits) = Win!ShortBytes(a, b, c, bits)
  BY <1>3, <1>4
<1>6. QED
  BY <1>1, <1>2, <1>5, Zenon DEF Win!ShortBytes

\* A well-formed message of two or three bytes comes out of a double word.
LEMMA DWordBytes ==
    ASSUME NEW m, m \in Seq(0 .. 255), Len(m) \in {2, 3}, Win!WellFormed(m),
           NEW bits \in {128, 256}
    PROVE  Win!BytesOf(Win!DWord(m), bits) = m
<1>1. m[1] \in Bytes /\ m[2] \in Data /\ (Len(m) = 3 => m[3] \in Data)
  <2>1. \A k \in 2 .. Len(m) : m[k] < 128
    BY DEF Win!WellFormed
  <2>2. CASE Len(m) = 2
    <3>1. m[1] \in Bytes /\ m[2] \in Data
      BY <2>1, <2>2, DataBytes
    <3>2. QED
      BY <2>2, <3>1
  <2>3. CASE Len(m) = 3
    BY <2>1, <2>3, DataBytes
  <2>4. QED
    BY <2>2, <2>3
<1>3. CASE Len(m) = 2
  <2>1. 0 \in Data
    BY DEF Data
  <2>2. Win!LengthOf(m[1]) = 2
    BY <1>3 DEF Win!WellFormed
  <2>3. Win!DWord(m) = Word(m[1], m[2], 0)
    BY <1>3, DWordIsWord
  <2>4. SubSeq(<<m[1], m[2], 0>>, 1, 2) = m
    BY <1>3
  <2>5. Win!BytesOf(Word(m[1], m[2], 0), bits) = SubSeq(<<m[1], m[2], 0>>, 1, Win!LengthOf(m[1]))
    BY <1>1, <2>1, WordBytes
  <2>6. QED
    BY <2>2, <2>3, <2>4, <2>5, Zenon
<1>4. CASE Len(m) = 3
  <2>1. m[3] \in Data
    BY <1>1, <1>4, Zenon
  <2>2. Win!LengthOf(m[1]) = 3
    BY <1>4 DEF Win!WellFormed
  <2>3. Win!DWord(m) = Word(m[1], m[2], m[3])
    BY <1>4, DWordIsWord
  <2>4. SubSeq(<<m[1], m[2], m[3]>>, 1, 3) = m
    BY <1>4
  <2>5. Win!BytesOf(Word(m[1], m[2], m[3]), bits) =
           SubSeq(<<m[1], m[2], m[3]>>, 1, Win!LengthOf(m[1]))
    BY <1>1, <2>1, WordBytes
  <2>6. QED
    BY <2>2, <2>3, <2>4, <2>5, Zenon
<1>5. QED
  BY <1>3, <1>4

\* The port of the Atari sends as many bytes as there are.
LEMMA AtariBytes ==
    ASSUME NEW m \in Seq(0 .. 255)
    PROVE  /\ Atari!Count(m) = Len(m)
           /\ [k \in 1 .. Len(m) |-> IF k <= Len(m) THEN m[k] ELSE Atari!Beyond] = m
BY DEF Atari!Count

-----------------------------------------------------------------------------
(* The promise of midi_dev.h. *)

\* Between the call of mididev_send_bytes() and its return.
Sending == {"send", "output", "free", "sent", "crashed", "prepared", "wait", "short",
            "sending"}

\* What is on its way is the message of the call, and it is not out before it is
\* transmitted.
CallInv ==
    /\ out \in BOOLEAN /\ \E S : wire \in Seq(S)
    /\ handed \in Messages \cup {NoMessage}
    /\ handed # NoMessage <=> pc \in Sending
    /\ pc \in {"send", "output", "prepared", "sending"} => ~out
    /\ platform = "linux" /\ pc = "output" =>
           Alsa!Takes(handed) /\ event = Alsa!EventOf(handed)
    /\ platform = "windows" /\ pc \in {"prepared", "wait"} => tempbuf = handed
    /\ platform = "windows" /\ playing > 0 => ~out
    /\ platform = "atari" /\ pc = "sending" => sending = Len(handed)

LEMMA CallInit == Init => CallInv
<1> SUFFICES ASSUME Init PROVE CallInv
  OBVIOUS
<1>1. pc = "parse" /\ handed = NoMessage /\ out = FALSE /\ playing = 0 /\ wire = <<>>
  BY DEF Init, Alsa!Init, Alsa!InitCalls, Win!Init
<1>2. ~(playing > 0)
  BY <1>1
<1>3. wire \in Seq({})
  BY <1>1
<1>4. QED
  BY <1>1, <1>2, <1>3 DEF CallInv, Sending

\* The steps of the promise, in terms of what a back end does.
IsOpen == pc = "ready" \/ handed # NoMessage

Opens     == /\ ~IsOpen /\ IsOpen' /\ UNCHANGED callVars
Prepares  == /\ (IsOpen' <=> IsOpen) /\ UNCHANGED callVars
Closes    == /\ IsOpen /\ handed = NoMessage /\ ~IsOpen' /\ UNCHANGED callVars
Calls     == /\ pc = "ready" /\ handed = NoMessage
             /\ handed' \in Messages /\ out' = FALSE /\ UNCHANGED <<answer, wire>>
Sends     == /\ handed # NoMessage /\ out = FALSE
             /\ \E b : wire' = Append(wire, b) /\ (Carries(handed) => b = handed)
             /\ out' = TRUE /\ UNCHANGED <<handed, answer>>
Comes(result) ==
             /\ handed # NoMessage /\ handed' = NoMessage /\ pc' = "ready"
             /\ answer' = result /\ (result = -1 => ~out) /\ UNCHANGED <<wire, out>>

Step == Opens \/ Prepares \/ Closes \/ Calls \/ Sends \/ Comes(0) \/ Comes(-1)

\* Which messages a build carries is settled when its options are.
Way     == UNCHANGED <<platform, use_direct_serial>>
Chooses == pc = "parse" /\ pc' \in {"parse", "failed"} /\ UNCHANGED callVars

LEMMA WayStays == HoldsInv /\ Next => Way \/ Chooses
<1> SUFFICES ASSUME HoldsInv, Next PROVE Way \/ Chooses
  OBVIOUS
<1> USE DEF Way, Chooses
<1>1. CASE OnAlsa
  BY <1>1 DEF OnAlsa, amigaVars
<1>2. CASE OnAmiga
  BY <1>2 DEF OnAmiga, Amiga!Next, Amiga!ParseArg, Amiga!CallInit, Amiga!CreatePort,
     Amiga!CreateExtIO, Amiga!OpenDevice, Amiga!OpenLibrary, Amiga!CreateMidi, Amiga!AddMidiLink,
     Amiga!Call, Amiga!Send, Amiga!SendSerial, Amiga!SendCamd, Amiga!Refuse, Amiga!ReturnSend,
     Amiga!Deinit, Amiga!Get, Amiga!optVars, Amiga!callVars, Amiga!sent, callVars, sent
<1>3. CASE OnWin
  BY <1>3 DEF OnWin, amigaVars
<1>4. CASE OnAtari
  BY <1>4 DEF OnAtari, amigaVars
<1>5. QED
  BY <1>1, <1>2, <1>3, <1>4 DEF Next

LEMMA CarriedStays == Way => {m \in Messages : Carries(m)}' = {m \in Messages : Carries(m)}
BY DEF Way, Carries, Alsa!Carries, Amiga!Carries, Win!Carries

\* One more message on the wire: its last one.
LEMMA AppendFacts ==
    ASSUME NEW S, NEW w \in Seq(S), NEW b, NEW u, u = Append(w, b)
    PROVE  /\ Len(u) = Len(w) + 1 /\ u[Len(u)] = b
           /\ \E T : u \in Seq(T)
<1>1. w \in Seq(S \cup {b}) /\ b \in S \cup {b}
  OBVIOUS
<1>2. u \in Seq(S \cup {b}) /\ Len(u) = Len(w) + 1 /\ u[Len(w) + 1] = b
  BY <1>1, AppendProperties
<1>3. QED
  BY <1>2

LEMMA StepKeepsPromise ==
    ASSUME CallInv, Step, Way \/ Chooses PROVE [Device!Next]_(Device!vars)
<1> SUFFICES Device!Next \/ UNCHANGED Device!vars
  OBVIOUS
<1> USE DEF IsOpen, callVars, sent
<1>1. CASE Chooses
  <2>1. handed = NoMessage
    BY <1>1 DEF Chooses, CallInv, Sending
  <2>2. Device!Choose
    BY <1>1, <2>1 DEF Chooses, Device!Choose
  <2>3. QED
    BY <2>2 DEF Device!Next
<1>2. CASE Way
  <2> DEFINE C == {m \in Messages : Carries(m)}
  <2>0. C' = C
    BY <1>2, CarriedStays
  <2> HIDE DEF C
  <2>1. CASE Opens
    BY <2>0, <2>1 DEF Opens, Device!Next, Device!Open, C
  <2>2. CASE Prepares
    BY <2>0, <2>2 DEF Prepares, Device!vars, C
  <2>3. CASE Closes
    BY <2>0, <2>3 DEF Closes, Device!Next, Device!Close, C
  <2>4. CASE Calls
    BY <2>0, <2>4, BoundAssumption DEF Calls, Device!Next, Device!Call, C
  <2>5. CASE Sends
    <3>1. PICK b : wire' = Append(wire, b) /\ (Carries(handed) => b = handed)
      BY <2>5 DEF Sends
    <3>2. PICK S : wire \in Seq(S)
      BY DEF CallInv
    <3>3. Len(wire') = Len(wire) + 1 /\ wire'[Len(wire')] = b
      BY <3>1, <3>2, AppendFacts, Zenon
    <3>4. wire' = Append(wire, wire'[Len(wire')])
      BY <3>1, <3>3, Zenon
    <3>5. handed \in C => wire' = Append(wire, handed)
      BY <3>1, Zenon DEF C
    <3>6. QED
      BY <2>0, <2>5, <3>3, <3>4, <3>5 DEF Sends, Device!Next, Device!Transmit, C
  <2>6. CASE Comes(0) \/ Comes(-1)
    BY <2>0, <2>6 DEF Comes, Device!Next, Device!Return, C
  <2>7. QED
    BY <2>1, <2>2, <2>3, <2>4, <2>5, <2>6 DEF Step
<1>3. QED
  BY <1>1, <1>2

LEMMA AlsaStep ==
    ASSUME AlsaHolds, CallInv, platform = "linux", OnAlsa
    PROVE  Step /\ CallInv'
<1>1. Alsa!Next /\ platform' = "linux"
  BY DEF OnAlsa
<1> USE <1>1, BoundAssumption DEF AlsaHolds, CallInv, Sending, IsOpen, Step, callVars, sent,
        Alsa!callVars, Alsa!sent, Alsa!Goto, Alsa!Obtain, Alsa!Returns
<1>2. CASE Alsa!ParseArg
  BY <1>2 DEF Alsa!ParseArg, Prepares
<1>3. CASE Alsa!OpenSeq
  BY <1>3 DEF Alsa!OpenSeq, Prepares
<1>4. CASE Alsa!Resolve
  BY <1>4 DEF Alsa!Resolve, Prepares
<1>5. CASE Alsa!CreatePort
  BY <1>5 DEF Alsa!CreatePort, Prepares
<1>6. CASE Alsa!Connect
  BY <1>6 DEF Alsa!Connect, Prepares, Opens
<1>7. CASE Alsa!Call
  BY <1>7 DEF Alsa!Call, Alsa!CallSend, Calls
<1>8. CASE Alsa!Refuse
  BY <1>8 DEF Alsa!Refuse, Comes
<1>9. CASE Alsa!Encode
  BY <1>9 DEF Alsa!Encode, Prepares
<1>10. CASE Alsa!Output
  <2>1. handed \in Messages /\ handed \in Seq(0 .. 255) /\ Len(handed) > 0
        /\ Alsa!Takes(handed) /\ event = Alsa!EventOf(handed)
    BY <1>10, MessagesAssumption DEF Alsa!Output
  <2>2. Carries(handed) => Alsa!BytesOf(event) = handed
    BY <2>1, AlsaBytes DEF Carries
  <2>3. CASE UNCHANGED <<wire, out>>
    BY <1>10, <2>3 DEF Alsa!Output, Prepares
  <2>4. CASE Alsa!Transmits(Alsa!BytesOf(event))
    <3>1. Sends
      BY <1>10, <2>2, <2>4 DEF Alsa!Output, Alsa!Transmits, Sends
    <3>2. \E S : wire' \in Seq(S)
      BY <2>4, AppendFacts DEF Alsa!Transmits
    <3>3. QED
      BY <1>10, <2>4, <3>1, <3>2 DEF Alsa!Output, Alsa!Transmits
  <2>5. QED
    BY <1>10, <2>3, <2>4 DEF Alsa!Output
<1>11. CASE Alsa!Free
  BY <1>11 DEF Alsa!Free, Comes
<1>12. CASE Alsa!Deinit
  BY <1>12 DEF Alsa!Deinit, Closes
<1>13. QED
  BY <1>2, <1>3, <1>4, <1>5, <1>6, <1>7, <1>8, <1>9, <1>10, <1>11, <1>12
     DEF Alsa!Next, Alsa!Send

LEMMA AmigaStep ==
    ASSUME AmigaHolds, CallInv, platform = "amiga", OnAmiga
    PROVE  Step /\ CallInv'
<1>1. Amiga!Next /\ platform' = "amiga"
  BY DEF OnAmiga
<1> USE <1>1, BoundAssumption DEF AmigaHolds, SerialHolds, CamdHolds, CallInv, Sending,
        IsOpen, Step, callVars, sent, Amiga!callVars, Amiga!sent, Amiga!Goto,
        Amiga!Obtain, Amiga!Returns, Amiga!Get, Amiga!optVars
<1>2. CASE Amiga!ParseArg
  BY <1>2 DEF Amiga!ParseArg, Prepares
<1>3. CASE Amiga!CallInit
  BY <1>3 DEF Amiga!CallInit, Prepares
<1>4. CASE Amiga!CreatePort \/ Amiga!CreateExtIO
  BY <1>4 DEF Amiga!CreatePort, Amiga!CreateExtIO, Prepares
<1>5. CASE Amiga!OpenDevice
  BY <1>5 DEF Amiga!OpenDevice, Opens
<1>6. CASE Amiga!OpenLibrary \/ Amiga!CreateMidi
  BY <1>6 DEF Amiga!OpenLibrary, Amiga!CreateMidi, Prepares
<1>7. CASE Amiga!AddMidiLink
  BY <1>7 DEF Amiga!AddMidiLink, Opens, Prepares
<1>8. CASE Amiga!Call
  BY <1>8 DEF Amiga!Call, Amiga!CallSend, Calls
<1>9. CASE Amiga!SendSerial
  <2>1. CASE UNCHANGED <<wire, out>>
    BY <1>9, <2>1 DEF Amiga!SendSerial, Prepares
  <2>2. CASE Amiga!Transmits(handed)
    <3>1. Sends
      BY <1>9, <2>2 DEF Amiga!SendSerial, Amiga!Transmits, Sends
    <3>2. \E S : wire' \in Seq(S)
      BY <2>2, AppendFacts DEF Amiga!Transmits
    <3>3. QED
      BY <1>9, <2>2, <3>1, <3>2 DEF Amiga!SendSerial, Amiga!Transmits
  <2>3. QED
    BY <1>9, <2>1, <2>2 DEF Amiga!SendSerial
<1>10. CASE Amiga!SendCamd
  <2>1. handed \in Messages /\ handed \in Seq(0 .. 255) /\ Len(handed) > 0
    BY <1>10, MessagesAssumption DEF Amiga!SendCamd
  <2>2. CASE UNCHANGED <<wire, out>>
    BY <1>10, <2>2 DEF Amiga!SendCamd, Prepares
  <2>3. ASSUME NEW b, Amiga!Transmits(b), Carries(handed) => b = handed
        PROVE  Step /\ CallInv'
    <3>1. Sends
      BY <1>10, <2>3 DEF Amiga!SendCamd, Amiga!Transmits, Sends
    <3>2. \E S : wire' \in Seq(S)
      BY <2>3, AppendFacts DEF Amiga!Transmits
    <3>3. QED
      BY <1>10, <2>3, <3>1, <3>2 DEF Amiga!SendCamd, Amiga!Transmits
  <2>4. CASE Amiga!LooksLikeSysEx(handed) /\ Amiga!Transmits(Amiga!UpToEnd(handed))
    <3>1. Carries(handed) => \A k \in 1 .. Len(handed) - 1 : handed[k] # 247
      BY <1>10, <2>4 DEF Carries, Amiga!Carries, Amiga!SysExEnd, Amiga!SendCamd
    <3>2. Carries(handed) => Amiga!UpToEnd(handed) = handed
      BY <2>1, <2>4, <3>1, EndBytes
    <3>3. QED
      BY <2>3, <2>4, <3>2
  <2>5. CASE /\ ~Amiga!LooksLikeSysEx(handed) /\ Len(handed) = 3
             /\ \E bits \in {128, 256} :
                   Amiga!Transmits(Amiga!PutMidi(Amiga!MidiMsg(handed), bits))
    <3>1. Carries(handed) => Amiga!WellFormed(handed)
      BY <1>10, <2>5 DEF Carries, Amiga!Carries, Amiga!SendCamd
    <3>2. PICK bits \in {128, 256} : Amiga!Transmits(Amiga!PutMidi(Amiga!MidiMsg(handed), bits))
      BY <2>5, Zenon
    <3>3. Carries(handed) => Amiga!PutMidi(Amiga!MidiMsg(handed), bits) = handed
      BY <2>1, <2>5, <3>1, MidiMsgBytes
    <3>4. QED
      BY <2>3, <3>2, <3>3
  <2>6. QED
    BY <1>10, <2>2, <2>4, <2>5 DEF Amiga!SendCamd
<1>11. CASE Amiga!Refuse
  BY <1>11 DEF Amiga!Refuse, Comes
<1>12. CASE Amiga!ReturnSend
  BY <1>12 DEF Amiga!ReturnSend, Comes
<1>13. CASE Amiga!Deinit
  BY <1>13 DEF Amiga!Deinit, Closes
<1>14. QED
  BY <1>2, <1>3, <1>4, <1>5, <1>6, <1>7, <1>8, <1>9, <1>10, <1>11, <1>12, <1>13
     DEF Amiga!Next, Amiga!Send

LEMMA WinStep ==
    ASSUME WinHolds, CallInv, platform = "windows", OnWin
    PROVE  Step /\ CallInv'
<1>1. Win!Next /\ platform' = "windows"
  BY DEF OnWin
<1> USE <1>1, BoundAssumption DEF WinHolds, CallInv, Sending, IsOpen, Step, callVars, sent,
        Win!callVars, Win!sent, Win!Goto, Win!Obtain, Win!Returns
<1>2. CASE Win!ParseArg
  BY <1>2 DEF Win!ParseArg, Prepares
<1>3. CASE Win!CheckPort
  BY <1>3 DEF Win!CheckPort, Prepares
<1>4. CASE Win!OpenPort
  BY <1>4 DEF Win!OpenPort, Prepares, Opens
<1>5. CASE Win!Call
  BY <1>5 DEF Win!Call, Win!CallSend, Calls
<1>6. CASE Win!Prepare
  BY <1>6 DEF Win!Prepare, Prepares
<1>7. CASE Win!PrepareFails \/ Win!Refuse
  BY <1>7 DEF Win!PrepareFails, Win!Refuse, Comes
<1>8. CASE Win!LongMsg
  BY <1>8 DEF Win!LongMsg, Prepares
<1>9. CASE Win!LongMsgFails
  BY <1>9 DEF Win!LongMsgFails, Comes
<1>10. CASE Win!Unprepare
  BY <1>10 DEF Win!Unprepare, Win!Unprepared, Comes
<1>11. CASE Win!ShortMsg
  <2>1. handed \in Messages /\ handed \in Seq(0 .. 255) /\ Len(handed) \in {2, 3}
    BY <1>11, MessagesAssumption DEF Win!ShortMsg
  <2>2. Carries(handed) => Win!WellFormed(handed)
    BY <1>11, <2>1 DEF Carries, Win!Carries, Win!ShortMsg
  <2>3. PICK bits \in {128, 256} : Win!Transmits(Win!BytesOf(Win!DWord(handed), bits))
    BY <1>11, Zenon DEF Win!ShortMsg
  <2>4. Carries(handed) => Win!BytesOf(Win!DWord(handed), bits) = handed
    BY <2>1, <2>2, DWordBytes
  <2>5. Sends
    BY <1>11, <2>3, <2>4 DEF Win!ShortMsg, Win!Transmits, Sends
  <2>6. \E S : wire' \in Seq(S)
    BY <2>3, AppendFacts DEF Win!Transmits
  <2>7. QED
    BY <1>11, <2>3, <2>5, <2>6 DEF Win!ShortMsg, Win!Transmits
<1>12. CASE Win!ReturnShort
  BY <1>12 DEF Win!ReturnShort, Comes
<1>13. CASE Win!Play
  <2>1. pc = "wait" /\ pc' = pc /\ handed # NoMessage /\ tempbuf = handed /\ out = FALSE
    BY <1>13 DEF Win!Play
  <2>2. CASE playing = 1
    <3>1. ~(playing' > 0)
      BY <1>13, <2>2 DEF Win!Play
    <3>2. wire' = Append(wire, handed) /\ out' = TRUE
      BY <1>13, <2>1, <2>2 DEF Win!Play, Win!Transmits
    <3>3. Sends
      BY <1>13, <2>1, <3>2 DEF Win!Play, Sends
    <3>4. \E S : wire' \in Seq(S)
      BY <3>2, AppendFacts
    <3>5. QED
      BY <1>13, <2>1, <3>1, <3>2, <3>3, <3>4 DEF Win!Play
  <2>3. CASE playing # 1
    BY <1>13, <2>1, <2>3 DEF Win!Play, Prepares
  <2>4. QED
    BY <2>2, <2>3
<1>14. CASE Win!Deinit
  BY <1>14 DEF Win!Deinit, Closes
<1>15. QED
  BY <1>2, <1>3, <1>4, <1>5, <1>6, <1>7, <1>8, <1>9, <1>10, <1>11, <1>12, <1>13, <1>14
     DEF Win!Next, Win!Send

LEMMA AtariStep ==
    ASSUME AtariHolds, CallInv, platform = "atari", OnAtari
    PROVE  Step /\ CallInv'
<1>1. Atari!Next /\ platform' = "atari"
  BY DEF OnAtari
<1> USE <1>1, BoundAssumption DEF AtariHolds, CallInv, Sending, IsOpen, Step, callVars,
        sent, Atari!callVars, Atari!sent, Atari!Goto, Atari!Returns
<1>2. CASE Atari!Initialise
  BY <1>2 DEF Atari!Initialise, Opens
<1>3. CASE Atari!Call
  BY <1>3 DEF Atari!Call, Atari!CallSend, Calls
<1>4. CASE Atari!Midiws
  <2>1. handed \in Messages /\ handed \in Seq(0 .. 255)
    BY <1>4, MessagesAssumption DEF Atari!Midiws
  <2>2. sending' = Len(handed)
    BY <1>4, <2>1, AtariBytes DEF Atari!Midiws
  <2>3. QED
    BY <1>4, <2>2 DEF Atari!Midiws, Prepares
<1>5. CASE Atari!BytesSent
  <2>1. handed \in Messages /\ handed \in Seq(0 .. 255) /\ sending = Len(handed)
    BY <1>5, MessagesAssumption DEF Atari!BytesSent
  <2>2. wire' = Append(wire, handed)
    BY <1>5, <2>1, AtariBytes DEF Atari!BytesSent, Atari!Transmits
  <2>3. Sends
    BY <1>5, <2>2 DEF Atari!BytesSent, Atari!Transmits, Sends
  <2>4. \E S : wire' \in Seq(S)
    BY <2>2, AppendFacts
  <2>5. QED
    BY <1>5, <2>2, <2>3, <2>4 DEF Atari!BytesSent, Atari!Transmits
<1>6. CASE Atari!Return \/ Atari!Refuse
  BY <1>6 DEF Atari!Return, Atari!Refuse, Comes
<1>7. CASE Atari!Deinit
  BY <1>7 DEF Atari!Deinit, Closes
<1>8. QED
  BY <1>2, <1>3, <1>4, <1>5, <1>6, <1>7 DEF Atari!Next, Atari!Send

\* Between init and deinit a message that is handed over goes out at most once, whole
\* and unchanged if the build carries it, and a call that fails has sent nothing: every
\* back end, for every set of messages, well-formed or not.
THEOREM AlwaysKeepsPromise == Spec => KeepsPromise
<1>1. Init => Device!Init
  <2>1. Init => pc = "parse" /\ handed = NoMessage /\ answer = 0 /\ wire = <<>> /\ out = FALSE
    BY DEF Init, Alsa!Init, Alsa!InitCalls
  <2>2. QED
    BY <2>1 DEF Device!Init
<1>2. HoldsInv /\ CallInv /\ Next => Step /\ CallInv'
  BY AlsaStep, AmigaStep, WinStep, AtariStep DEF Next, OnAlsa, OnAmiga, OnWin, OnAtari, HoldsInv
<1>3. HoldsInv /\ CallInv /\ [Next]_vars => CallInv' /\ [Device!Next]_(Device!vars)
  <2>1. ASSUME CallInv, UNCHANGED vars PROVE CallInv' /\ UNCHANGED Device!vars
    <3>1. CallInv'
      BY <2>1 DEF vars, callVars, sent, alsaVars, winVars, atariVars, CallInv
    <3>2. Way
      BY <2>1 DEF vars, amigaVars, Way
    <3>3. QED
      BY <2>1, <3>1, <3>2, CarriedStays DEF vars, callVars, sent, Device!vars
  <2>2. QED
    BY <1>2, <2>1, WayStays, StepKeepsPromise
<1>4. QED
  BY <1>1, <1>3, CallInit, HoldsAlways, PTL DEF Spec, KeepsPromise, Device!Spec
=============================================================================
