------------------------------ MODULE DosDelay ------------------------------
(***************************************************************************)
(* delay_ms() of DOS: the program takes over the timer interrupt, makes    *)
(* the timer run Ratio times as fast, counts interrupts, and hands both    *)
(* back.  In between, the DOS clock lives on every Ratio-th interrupt.     *)
(*                                                                         *)
(* The timer (8254) and the interrupt controller (8259) are external, so   *)
(* is the handler of DOS.  The handler of the program runs with interrupts *)
(* off and is one action; an interrupt may be delivered late, and none is  *)
(* delivered until the end of the last one was signalled.  The call of     *)
(* DOS that sets a vector is taken to leave the interrupts off.            *)
(***************************************************************************)
EXTENDS DelayCall

VARIABLES ticks, doscall_counter, orig_isr,
          vector,       \* the handler of the timer interrupt: "dos" or "ours"
          divisor,      \* "slow" or "fast"
          counter,      \* units until the timer's next output
          irq,          \* is an interrupt latched?
          pic_busy,     \* has the end of the last one not been signalled?
          iflag,        \* are interrupts enabled?
          dos_clock,    \* how often the handler of DOS ran, modulo 2
          chained       \* how often it ran in this delay, on the fast timer

program  == <<pc, delay, orig_isr>>
counters == <<ticks, doscall_counter>>
machine  == <<vector, divisor, counter, irq, pic_busy, iflag, dos_clock, chained>>
vars     == <<program, counters, machine, waited>>

-----------------------------------------------------------------------------
(* The timer. *)

Length(d) == IF d = "fast" THEN Period ELSE Period * Ratio

\* The loop looks at ticks, and the program goes on, many times a period.
InTime == ~(vector = "ours" /\ ticks >= delay)

TimePasses ==
    /\ InTime
    /\ IF counter = 1 THEN counter' = Length(divisor) /\ irq' = TRUE
                      ELSE counter' = counter - 1 /\ UNCHANGED irq
    /\ TimeGoesOn
    /\ UNCHANGED <<program, counters, vector, divisor, pic_busy, iflag,
                   dos_clock, chained>>

\* outp(0x20, 0x20): the end of the interrupt.
Eoi == pic_busy' = FALSE

\* The DOS handler, which ends with the same.
DosHandler == dos_clock' = 1 - dos_clock /\ Eoi

\* tim_0_isr(), on a timer interrupt that the controller has in service: every
\* Ratio-th goes on to the handler of DOS.  Mutants: a tick late, or never; the
\* others are not acknowledged.
Chain == doscall_counter' = 0 /\ chained' = chained + 1 /\ DosHandler
Count == doscall_counter' = doscall_counter + 1 /\ UNCHANGED <<dos_clock, chained>>
OurHandlerLate ==
    /\ ticks' = ticks + 1
    /\ IF doscall_counter >= Ratio THEN Chain ELSE Count /\ Eoi
OurHandlerAlone ==
    /\ ticks' = ticks + 1
    /\ doscall_counter' = (doscall_counter + 1) % Ratio
    /\ UNCHANGED <<dos_clock, chained>> /\ Eoi
OurHandlerNoEoi ==
    /\ ticks' = ticks + 1
    /\ IF doscall_counter + 1 >= Ratio THEN Chain ELSE Count /\ pic_busy' = TRUE
OurHandler ==
    /\ ticks' = ticks + 1
    /\ IF doscall_counter + 1 >= Ratio THEN Chain ELSE Count /\ Eoi

Interrupt ==
    /\ irq /\ iflag /\ ~pic_busy
    /\ irq' = FALSE
    /\ IF vector = "dos" THEN DosHandler /\ UNCHANGED <<counters, chained>> ELSE OurHandler
    /\ UNCHANGED <<program, vector, divisor, counter, iflag, waited>>

-----------------------------------------------------------------------------
(* delay_ms(), statement by statement. *)

Call ==
    /\ Goto("idle", "getvect")
    /\ Called
    /\ UNCHANGED <<orig_isr, counters, machine>>

GetVect ==
    /\ Goto("getvect", "reset")
    /\ orig_isr' = vector
    /\ UNCHANGED <<delay, counters, machine, waited>>

ResetCounters ==
    /\ Goto("reset", "disable")
    /\ ticks' = 0 /\ doscall_counter' = 0 /\ chained' = 0
    /\ UNCHANGED <<delay, orig_isr, vector, divisor, counter, irq, pic_busy, iflag,
                   dos_clock, waited>>

\* _disable() and _enable()
Interrupts(from, to, on) ==
    /\ Goto(from, to)
    /\ iflag' = on
    /\ UNCHANGED <<delay, orig_isr, counters, vector, divisor, counter, irq, pic_busy,
                   dos_clock, chained, waited>>

\* _dos_setvect()
SetVect(from, to, isr) ==
    /\ Goto(from, to)
    /\ vector' = isr
    /\ UNCHANGED <<delay, orig_isr, counters, divisor, counter, irq, pic_busy, iflag,
                   dos_clock, chained, waited>>

\* The three outp(): the timer starts on a new period.
SetTimer(from, to, d) ==
    /\ Goto(from, to)
    /\ divisor' = d /\ counter' = Length(d)
    /\ UNCHANGED <<delay, orig_isr, counters, vector, irq, pic_busy, iflag, dos_clock,
                   chained, waited>>

\* Mutant: the interrupts stay on while the timer is taken over.
DisableNot == Interrupts("disable", "install", TRUE)
Disable  == Interrupts("disable", "install", FALSE)
Install  == SetVect("install", "speed_up", "ours")
SpeedUp  == SetTimer("speed_up", "enable", "fast")
Enable   == Interrupts("enable", "spin", TRUE)
\* while(ticks < delay); _disable();
Spin     == Interrupts("spin", "restore", FALSE) /\ ticks >= delay
Restore  == SetVect("restore", "slow_down", orig_isr)
SlowDown == SetTimer("slow_down", "return", "slow")
Return   == Interrupts("return", "idle", TRUE)

Statement == \/ GetVect \/ ResetCounters \/ Disable \/ Install \/ SpeedUp \/ Enable
             \/ Spin \/ Restore \/ SlowDown \/ Return

Init ==
    /\ pc = "idle" /\ delay \in Requests
    /\ ticks = 0 /\ doscall_counter = 0 /\ orig_isr = "dos"
    /\ vector = "dos" /\ divisor = "slow" /\ counter \in 1 .. Length("slow")
    /\ irq \in BOOLEAN /\ pic_busy = FALSE /\ iflag = TRUE
    /\ dos_clock = 0 /\ chained = 0 /\ waited = 0

Next == TimePasses \/ Interrupt \/ Call \/ Statement

SafeSpec == Init /\ [][Next]_vars

\* The processor goes on, time passes, and an enabled interrupt is delivered.
Fairness == WF_vars(Statement) /\ WF_vars(TimePasses) /\ WF_vars(Interrupt)

-----------------------------------------------------------------------------
\* Types and ranges of the counters and of the machine.
TypeOK ==
    /\ pc \in {"idle", "getvect", "reset", "disable", "install", "speed_up", "enable",
               "spin", "restore", "slow_down", "return"}
    /\ delay \in Requests /\ ticks \in Nat /\ doscall_counter \in 0 .. Ratio - 1
    /\ orig_isr \in {"dos", "ours"} /\ vector \in {"dos", "ours"}
    /\ divisor \in {"slow", "fast"} /\ counter \in 1 .. Length(divisor)
    /\ irq \in BOOLEAN /\ pic_busy \in BOOLEAN /\ iflag \in BOOLEAN
    /\ dos_clock \in 0 .. 1 /\ chained \in Nat
    /\ waited \in 0 .. WaitedCap

\* Whenever an interrupt can come in, the timer is fast exactly if its handler is
\* the program's: the DOS clock never runs at the wrong speed and the program
\* never counts slow periods (delay.c:49-64, 69-85).
SpeedFitsHandler == iflag => (vector = "ours" <=> divisor = "fast")

\* The handler of DOS has run once in every Ratio interrupts of the fast timer, no
\* more and no less, so the clock of DOS keeps its speed (delay.c:26-28).
DosClockRate == Ratio * chained <= ticks /\ ticks < Ratio * chained + Ratio

\* An interrupt that is already latched when the timer is taken over counts as
\* the first: delay_ms() may return one period early (delay.c:50-67).
Want == Period * (delay - 1)
=============================================================================
