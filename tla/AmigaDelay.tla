----------------------------- MODULE AmigaDelay -----------------------------
(***************************************************************************)
(* delay_ms() of the Amiga: Delay() of the DOS library, which counts ticks *)
(* of the system (20 ms) and is external.  The first tick may come at once *)
(* after the call, so the program asks for one more.                       *)
(***************************************************************************)
EXTENDS DelayCall

VARIABLES dos_base,     \* was the DOS library opened?
          phase,        \* time until the next tick
          ticks         \* ticks still to come

vars == <<pc, delay, dos_base, phase, ticks, waited>>

\* delay/(1000/TICKS_PER_SECOND) + 1. Mutant: with two.
TicksForMore(ms) == ms \div TickLength + 2
TicksFor(ms)     == ms \div TickLength + 1

\* Without the DOS library there is a warning instead of a delay.
Call ==
    /\ Goto("idle", "waiting")
    /\ Called
    /\ ticks' = IF dos_base THEN TicksFor(delay') ELSE 0
    /\ UNCHANGED <<dos_base, phase>>

TimePasses ==
    /\ IF phase = 1 THEN phase' = TickLength /\ ticks' = IF ticks > 0 THEN ticks - 1 ELSE 0
                    ELSE phase' = phase - 1 /\ UNCHANGED ticks
    /\ TimeGoesOn
    /\ UNCHANGED <<pc, delay, dos_base>>

Return ==
    /\ pc = "waiting" /\ ticks = 0
    /\ pc' = "idle"
    /\ UNCHANGED <<delay, dos_base, phase, ticks, waited>>

Init ==
    /\ pc = "idle" /\ delay \in Requests /\ dos_base \in BOOLEAN
    /\ phase \in 1 .. TickLength /\ ticks = 0 /\ waited = 0

Next == Call \/ TimePasses \/ Return

SafeSpec == Init /\ [][Next]_vars

\* The process is scheduled and time passes.
Fairness == WF_vars(TimePasses) /\ WF_vars(Return)

-----------------------------------------------------------------------------
\* Without the DOS library it does not wait.
Want == IF dos_base THEN delay ELSE 0

\* Wherever in a tick the call falls, delay_ms() does not wait more than a tick too
\* long, if the process is woken at once (delay.c:17-26).
NotMuchLonger == pc = "waiting" /\ ticks > 0 => waited < delay + TickLength
=============================================================================
