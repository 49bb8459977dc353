-------------------------------- MODULE Delay --------------------------------
(***************************************************************************)
(* What delay_ms() promises, whatever it is built on: it returns, and not  *)
(* before the time it must wait has passed.                                *)
(***************************************************************************)
EXTENDS Integers

VARIABLES state,        \* "idle" or "waiting"
          want,         \* the time it must wait
          waited        \* time since the call

vars == <<state, want, waited>>

Init == state = "idle" /\ want \in Int /\ waited = 0

Call ==
    /\ state = "idle" /\ state' = "waiting"
    /\ want' \in Int /\ waited' = 0

Pass ==
    /\ state = "waiting"
    /\ waited' > waited
    /\ UNCHANGED <<state, want>>

Return ==
    /\ state = "waiting" /\ waited >= want
    /\ state' = "idle"
    /\ UNCHANGED <<want, waited>>

Next == Call \/ Pass \/ Return

Spec == Init /\ [][Next]_vars

\* Every delay comes to an end.
Returns == state = "waiting" ~> state = "idle"
=============================================================================
