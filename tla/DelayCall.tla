------------------------------ MODULE DelayCall ------------------------------
(***************************************************************************)
(* What the delay_ms() of all platforms have in common: the call, and the  *)
(* time since.                                                             *)
(***************************************************************************)
EXTENDS Integers

CONSTANTS Requests,     \* the delays asked for, in ms: 100 and 5000 in main()
          Period,       \* DOS, Atari: units of time in a period of the timer, 1 ms
          Ratio,        \* DOS: such periods in one of the DOS clock, 55
          Second,       \* Linux: ms in a second
          SignalLimit,  \* bound: signals during one delay
          TickLength,   \* Amiga: ms in a tick of the system, 20
          WaitedCap     \* bound: how much time is told apart

ASSUME TimesAssumption ==
    /\ Period \in Nat \ {0} /\ Ratio \in Nat \ {0}
    /\ Second \in Nat \ {0} /\ TickLength \in Nat \ {0} /\ SignalLimit \in Nat

\* They are longer than a period of the DOS clock, and multiples of 20 ms.
ASSUME RequestsAssumption ==
    Requests \subseteq {TickLength * k : k \in 0 .. 250} \ 0 .. Ratio - 1

ASSUME WaitedCapAssumption ==
    WaitedCap \in Nat /\ \A r \in Requests : Period * r + TickLength <= WaitedCap

VARIABLES pc,           \* where delay_ms is
          delay,        \* its argument
          waited        \* time since the call

Goto(from, to) == pc = from /\ pc' = to

Called == /\ delay' \in Requests /\ waited' = 0

TimeGoesOn == waited' = IF pc # "idle" /\ waited < WaitedCap THEN waited + 1 ELSE waited
=============================================================================
