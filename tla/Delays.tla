-------------------------------- MODULE Delays --------------------------------
(***************************************************************************)
(* delay_ms() as main() and the back ends know it: a build of the program  *)
(* has the one of its platform, and each keeps the promise of Delay.       *)
(***************************************************************************)
EXTENDS DelayCall

VARIABLES platform,     \* the build
          ticks, counter,
          doscall_counter, orig_isr, vector, divisor, irq, pic_busy, iflag, dos_clock, chained,
          handler, enabled, pending, in_service, sw_eoi,
          ts, tr, eintr, left, slept, signals,
          dos_base, phase

callVars  == <<pc, delay, waited>>
dosVars   == <<doscall_counter, orig_isr, vector, divisor, irq, pic_busy, iflag, dos_clock, chained>>
atariVars == <<handler, enabled, pending, in_service, sw_eoi>>
linuxVars == <<ts, tr, eintr, left, slept, signals>>
amigaVars == <<dos_base, phase>>
vars == <<platform, callVars, ticks, counter, dosVars, atariVars, linuxVars, amigaVars>>

Dos   == INSTANCE DosDelay
Atari == INSTANCE AtariDelay
Linux == INSTANCE LinuxDelay
Amiga == INSTANCE AmigaDelay

NoDos   == /\ doscall_counter = 0 /\ orig_isr = "dos" /\ vector = "dos"
           /\ divisor = "slow" /\ irq = FALSE /\ pic_busy = FALSE /\ iflag = TRUE
           /\ dos_clock = 0 /\ chained = 0
NoAtari == /\ handler = "other" /\ enabled = FALSE /\ pending = FALSE
           /\ in_service = FALSE /\ sw_eoi = FALSE
NoLinux == /\ ts = Linux!Split(0) /\ tr = Linux!Split(0) /\ eintr = FALSE
           /\ left = 0 /\ slept = 0 /\ signals = 0
NoAmiga == dos_base = FALSE /\ phase = 1

Init ==
    \/ platform = "dos" /\ Dos!Init /\ NoAtari /\ NoLinux /\ NoAmiga
    \/ platform = "atari" /\ Atari!Init /\ NoDos /\ NoLinux /\ NoAmiga
    \/ platform = "linux" /\ Linux!Init /\ NoDos /\ NoAtari /\ NoAmiga
                          /\ ticks = 0 /\ counter = 1
    \/ platform = "amiga" /\ Amiga!Init /\ NoDos /\ NoAtari /\ NoLinux /\ counter = 1

OnDos   == platform = "dos" /\ Dos!Next
           /\ UNCHANGED <<platform, atariVars, linuxVars, amigaVars>>
OnAtari == platform = "atari" /\ Atari!Next
           /\ UNCHANGED <<platform, dosVars, linuxVars, amigaVars>>
OnLinux == platform = "linux" /\ Linux!Next
           /\ UNCHANGED <<platform, ticks, counter, dosVars, atariVars, amigaVars>>
OnAmiga == platform = "amiga" /\ Amiga!Next
           /\ UNCHANGED <<platform, counter, dosVars, atariVars, linuxVars>>

Next == OnDos \/ OnAtari \/ OnLinux \/ OnAmiga

Spec ==
    /\ Init /\ [][Next]_vars
    /\ platform = "dos" => Dos!Fairness
    /\ platform = "atari" => Atari!Fairness
    /\ platform = "linux" => Linux!Fairness
    /\ platform = "amiga" => Amiga!Fairness

-----------------------------------------------------------------------------
\* What DOS promises: the types and ranges of its counters and of the machine,
\* and that the speed of the timer fits its handler whenever an interrupt can
\* come in (dos_src/delay.c:21-86).
DosTypeOK == platform = "dos" => Dos!TypeOK
SpeedFitsHandler == platform = "dos" => Dos!SpeedFitsHandler

\* The clock of DOS keeps its speed during a delay: its handler runs on every 55th
\* interrupt, not on the 54th or 56th (dos_src/delay.c:26-29).
DosClockRate == platform = "dos" => Dos!DosClockRate

\* delay_ms() never returns before its time, on DOS not more than one period
\* before: whatever state the timer was left in, whichever statement the
\* interrupt comes between, however many signals cut the sleep short, and
\* wherever in a tick the call falls (dos_src/delay.c:39-86,
\* atari_src/delay.c:38-62, linux_src/delay.c:16-23, amiga_src/delay.c:17-26).
Promise == INSTANCE Delay WITH
    state <- IF pc = "idle" THEN "idle" ELSE "waiting",
    want <- CASE platform = "dos" -> Dos!Want [] platform = "atari" -> Atari!Want
              [] platform = "linux" -> Linux!Want [] platform = "amiga" -> Amiga!Want
WaitsLongEnough == Promise!Spec

\* delay_ms() returns: interrupts are enabled and acknowledged in whichever mode
\* they were taken, and the sleep is not begun for ever.
Returns == Promise!Returns

\* The DOS clock, and with it clock(), keeps going however many delays follow
\* each other (dos_src/delay.c:26-29).
DosClockKeepsGoing == platform = "dos" => []<>(dos_clock = 0) /\ []<>(dos_clock = 1)

\* The handler is called during delay_ms() only, not when the program may have
\* left memory (atari_src/delay.c:60-61).
SilentOutside == [][platform = "atari" /\ pc = "idle" => ticks' = ticks]_vars

\* Signals do not make it sleep longer (linux_src/delay.c:20-22), and the position
\* in a tick makes it wait no more than a tick too long (amiga_src/delay.c:20).
SleepsNoLonger == platform = "linux" => Linux!SleepsNoLonger
NotMuchLonger  == platform = "amiga" => Amiga!NotMuchLonger
=============================================================================
