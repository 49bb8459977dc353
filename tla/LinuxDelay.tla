----------------------------- MODULE LinuxDelay -----------------------------
(***************************************************************************)
(* delay_ms() of Linux: clock_nanosleep() for the time asked for, called   *)
(* again for what remains when a signal interrupts it.  The kernel is      *)
(* external: it ends a sleep no earlier than it was told.                  *)
(***************************************************************************)
EXTENDS DelayCall

VARIABLES ts,           \* the time to sleep: seconds, and milliseconds
          tr,           \* the time that remained
          eintr,        \* what clock_nanosleep() returned
          left,         \* time until the kernel may end the sleep
          slept,        \* time slept that was asked for
          signals       \* signals since the call

vars == <<pc, delay, ts, tr, eintr, left, slept, waited, signals>>

Total(t) == t.sec * Second + t.ms

\* The argument as a timespec.
Split(ms)      == [sec |-> ms \div Second, ms |-> ms % Second]

Call ==
    /\ pc = "idle" /\ pc' = "sleep"
    /\ Called /\ ts' = Split(delay')
    /\ slept' = 0 /\ signals' = 0
    /\ UNCHANGED <<tr, eintr, left>>

Sleep ==
    /\ pc = "sleep" /\ pc' = "asleep"
    /\ left' = Total(ts)
    /\ UNCHANGED <<delay, ts, tr, eintr, slept, waited, signals>>

TimePasses ==
    /\ pc # "idle"
    /\ IF pc = "asleep" /\ left > 0 THEN left' = left - 1 /\ slept' = slept + 1
                                    ELSE UNCHANGED <<left, slept>>
    /\ TimeGoesOn
    /\ UNCHANGED <<pc, delay, ts, tr, eintr, signals>>

WakeUp ==
    /\ pc = "asleep" /\ left = 0
    /\ pc' = "woken" /\ eintr' = FALSE
    /\ UNCHANGED <<delay, ts, tr, left, slept, waited, signals>>

Signal ==
    /\ pc = "asleep" /\ signals < SignalLimit
    /\ pc' = "woken" /\ eintr' = TRUE /\ tr' = Split(left)
    /\ signals' = signals + 1
    /\ UNCHANGED <<delay, ts, left, slept, waited>>

\* Mutant: the whole time again.
AgainWhole ==
    /\ pc = "woken" /\ eintr /\ pc' = "sleep"
    /\ UNCHANGED <<delay, ts, tr, eintr, left, slept, waited, signals>>
Again ==
    /\ pc = "woken" /\ eintr
    /\ pc' = "sleep" /\ ts' = tr
    /\ UNCHANGED <<delay, tr, eintr, left, slept, waited, signals>>

Return ==
    /\ pc = "woken" /\ ~eintr
    /\ pc' = "idle"
    /\ UNCHANGED <<delay, ts, tr, eintr, left, slept, waited, signals>>

Init ==
    /\ pc = "idle" /\ delay \in Requests /\ ts = Split(delay) /\ tr = Split(0)
    /\ eintr = FALSE /\ left = 0 /\ slept = 0 /\ waited = 0 /\ signals = 0

Progress == Sleep \/ WakeUp \/ Again \/ Return

Next == Call \/ Progress \/ TimePasses \/ Signal

SafeSpec == Init /\ [][Next]_vars

\* The process is scheduled, time passes, and signals come to an end.
Fairness == WF_vars(Progress) /\ WF_vars(TimePasses)

-----------------------------------------------------------------------------
\* The kernel ends a sleep no earlier than it was told.
Want == delay

\* Signals do not make it sleep longer: what was slept and what is left add up to
\* the time asked for (delay.c:16-23).
SleepsNoLonger == pc = "asleep" => slept + left = delay
=============================================================================
