------------------------------- MODULE MidiOut -------------------------------
(***************************************************************************)
(* What a MIDI interface promises its caller, without registers or clocks: *)
(* while it is open every byte handed over is put in flight, in the order  *)
(* given, and nothing in flight is dropped; a send returns when its whole  *)
(* message has been handed over and at most Left bytes are still on their  *)
(* way. Only closing it, and opening it again, may drop those.             *)
(***************************************************************************)
EXTENDS Integers

CONSTANTS Lengths,  \* the lengths a message may have
          Capacity, \* how many bytes may be in flight
          Left      \* how many may still be in flight when a send returns

VARIABLES state,    \* "closed", "open" or "busy" with a send
          len,      \* length of the message sent last
          given,    \* how many of its bytes were handed over
          flying    \* bytes handed over and not yet on the wire

vars == <<state, len, given, flying>>

Init == state = "closed" /\ len = 0 /\ given = 0 /\ flying = 0

Open ==
    /\ state = "closed" /\ state' = "open"
    /\ UNCHANGED <<len, given, flying>>

Send ==
    /\ state = "open" /\ state' = "busy"
    /\ len' \in Lengths /\ given' = 0
    /\ UNCHANGED flying

Accept ==
    /\ state = "busy" /\ given < len /\ flying < Capacity
    /\ given' = given + 1 /\ flying' = flying + 1
    /\ UNCHANGED <<state, len>>

\* At any time, also after the program has ended.
Transmit ==
    /\ flying > 0 /\ flying' = flying - 1
    /\ UNCHANGED <<state, len, given>>

Return ==
    /\ state = "busy" /\ given = len /\ flying <= Left
    /\ state' = "open"
    /\ UNCHANGED <<len, given, flying>>

Close ==
    /\ state = "open" /\ state' = "closed"
    /\ flying' \in {flying, 0}
    /\ UNCHANGED <<len, given>>

\* What opening it does first.
Drop ==
    /\ state = "closed" /\ flying' = 0
    /\ UNCHANGED <<state, len, given>>

\* The program is killed or aborts in the middle of a send.
Die ==
    /\ state = "busy" /\ state' = "closed"
    /\ UNCHANGED <<len, given, flying>>

Next == Open \/ Send \/ Accept \/ Transmit \/ Return \/ Close \/ Drop \/ Die

Spec == Init /\ [][Next]_vars
=============================================================================
