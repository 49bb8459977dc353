------------------------------- MODULE Backends -------------------------------
(***************************************************************************)
(* The back ends as main() knows them: a build of the program has the one  *)
(* of its platform, and each keeps the promise of midi_dev.h.              *)
(***************************************************************************)
EXTENDS MidiBackend

CONSTANT Platforms      \* "linux", "amiga", "windows", "atari", or some of them

ASSUME PlatformsAssumption == Platforms \subseteq {"linux", "amiga", "windows", "atari"}

VARIABLES platform,     \* the build
          alsa_client, dst, event,
          use_direct_serial, camd_out,
          output_port, tempbuf, playing,
          sending

alsaVars  == <<alsa_client, dst, event>>
amigaVars == <<use_direct_serial, camd_out>>
winVars   == <<output_port, tempbuf, playing>>
atariVars == <<sending>>
vars == <<platform, pc, held, callVars, alsaVars, amigaVars, winVars, atariVars>>

Alsa  == INSTANCE AlsaBackend
Amiga == INSTANCE AmigaBackend
Win   == INSTANCE WinBackend
Atari == INSTANCE AtariBackend

Init == platform \in Platforms /\ Alsa!Init /\ Amiga!Init /\ Win!Init /\ Atari!Init

OnAlsa  == platform = "linux" /\ Alsa!Next
           /\ UNCHANGED <<platform, amigaVars, winVars, atariVars>>
OnAmiga == platform = "amiga" /\ Amiga!Next
           /\ UNCHANGED <<platform, alsaVars, winVars, atariVars>>
OnWin   == platform = "windows" /\ Win!Next
           /\ UNCHANGED <<platform, alsaVars, amigaVars, atariVars>>
OnAtari == platform = "atari" /\ Atari!Next
           /\ UNCHANGED <<platform, alsaVars, amigaVars, winVars>>

Next == OnAlsa \/ OnAmiga \/ OnWin \/ OnAtari

Spec ==
    /\ Init /\ [][Next]_vars
    /\ platform = "linux" => Alsa!Fairness
    /\ platform = "amiga" => Amiga!Fairness
    /\ platform = "windows" => Win!Fairness
    /\ platform = "atari" => Atari!Fairness

-----------------------------------------------------------------------------
\* What a send needs.
Needs == CASE platform = "linux" -> Alsa!Needs
           [] platform = "amiga" -> IF use_direct_serial THEN Amiga!SerialNeeds
                                                         ELSE Amiga!CamdNeeds
           [] platform = "windows" -> {"midi_handle"}
           [] platform = "atari" -> {}

\* The name of the destination, which mididev_deinit() of Linux does not free.
Kept == IF platform = "linux" /\ alsa_client # "NULL" THEN {"alsa_client"} ELSE {}

\* What is allocated is what is in use, whichever call fails: every way through init
\* and every return of a send leaves exactly what the next call needs, and after
\* mididev_deinit(), or a failure of init, nothing is left but that name.  On the
\* Amiga a serial device that does not open is no failure, and a failing init gives
\* back nothing of what it had got by then (linux_src/midi_dev.c:35-78, 123-145,
\* 163-174, amiga_src/midi_dev.c:51-133, win32_src/midi_dev.c:24-76).
HoldsWhatItUses ==
    /\ pc = "ended" => held = Kept
    /\ pc = "failed" => \/ held = Kept
                        \/ /\ platform = "amiga"
                           /\ held \in {{"msg_port"}, {"camd"}, {"camd", "midi_node"}}
    /\ pc = "ready" => \/ held = Needs \cup Kept
                       \/ use_direct_serial /\ held = Needs \ {"device"}

\* The messages that this build carries as they are. The Atari's port takes any bytes.
Carries(m) == CASE platform = "linux" -> Alsa!Carries(m)
                [] platform = "amiga" -> Amiga!Carries(m)
                [] platform = "windows" -> Win!Carries(m)
                [] platform = "atari" -> TRUE

\* A back end keeps the promise of midi_dev.h: a message goes out at most once, before
\* the call returns, whole and unchanged if the build carries it, and a call that
\* fails has sent nothing. So no conversion to events, to a double word or a MidiMsg,
\* and back, mixes up the bytes of a message that MIDI has (linux_src/midi_dev.c:80-147,
\* amiga_src/midi_dev.c:135-168, win32_src/midi_dev.c:42-100, atari_src/midi_dev.c:23-40).
Device == INSTANCE MidiDev WITH
    state <- IF pc = "ready" \/ handed # NoMessage THEN "open" ELSE "closed",
    carried <- {m \in Messages : Carries(m)}
KeepsPromise == Device!Spec

\* The driver of Windows never plays from memory that was given back, nor through a
\* handle that was closed (win32_src/midi_dev.c:58-76).
PlaysFromLiveBuffer == playing > 0 => Win!Buffer \cup {"midi_handle"} \subseteq held

\* Every send returns, unless it went to a device that is not open.
SendReturns == handed # NoMessage ~> handed = NoMessage \/ pc = "crashed"

\* README.md:140, '-M/--midi "C0 01 C0 DE": Send a list of custom MIDI bytes':
\* what goes out is what was given.
BytesAsGiven == handed # NoMessage /\ out => wire[Len(wire)] = handed
=============================================================================
